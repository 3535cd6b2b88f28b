------------------------------- MODULE AppProofs -------------------------------
(***************************************************************************)
(* The agent loop and the window on top of the store and the worker, for   *)
(* any number of runs, limits, faults, stops and restarts.                 *)
(*                                                                         *)
(* First part: the threads of a run keep to the order of the store's       *)
(* callers, so what StoreProofs says of the rows holds of the application; *)
(* and they keep the limits of the run loop (AppInv).                      *)
(* Second part: who has a run while it is going on, and so what the window *)
(* hears of its end (OutcomeInv) and where a stop arrives (StopInv).       *)
(***************************************************************************)
EXTENDS ConversationApp, StoreProofs

(***************************************************************************)
(* What the rows of a run leave of its limits                              *)
(***************************************************************************)
ModelsIn(q) == {i \in DOMAIN q : q[i].kind = "model"}
\* A step is prepared before it counts.
Waits(q) == \E i \in DOMAIN q : q[i].status = "prepared"
\* A tool's step is written when the tool has run.
ToolsEnded(q) == \A i \in DOMAIN q : q[i].kind = "tool" => q[i].status \in Ended /\ ~q[i].bound

\* The rows of a run are within t model steps, p of them without progress, and n
\* tool steps, the step that waits for its request included.
Within(r, t, p, n) ==
    /\ Cardinality(ModelsIn(steps[r])) <= t
    /\ progress[r] <= p /\ (Waits(steps[r]) => progress[r] < p)
    /\ tools[r] <= n

Covers(r, e) ==
    /\ Within(r, e.total, e.progress, e.calls)
    /\ e.total <= Limits(r).total /\ e.progress <= Limits(r).progress

\* Between the end of a step and the next the relay has the run.
Going == {"call", "repair", "tool", "follow", "start"}
OnRelay(r) == relay.pc # "idle" /\ relay.run[1] = r

RunRows(r) ==
    /\ ToolsEnded(steps[r])
    /\ Within(r, Limits(r).total, Limits(r).progress, MaxTools)
    /\ active[r].step # 0 => Covers(r, active[r])
    /\ OnRelay(r) /\ relay.pc \in Going => Covers(r, relay.entry)
    /\ OnRelay(r) /\ relay.pc \in {"tool", "follow"} => Settled(r)
    /\ status[r] = "none" => active[r].step = 0 /\ ~OnRelay(r)
RowsInv == \A r \in Runs : RunRows(r)

\* Commands about a request carry its handle, those about the model carry none.
Orders ==
    [op : {"submit", "cancel", "late cancel", "withdraw"}, handle : Handles]
        \union [op : Unloads, handle : {NoHandle}]
WorkerOK ==
    /\ WorkerTypeOK(Handles)
    /\ commands \in Seq(Orders)
    /\ request.event # "none" => request.handle \in Handles
    /\ worker \in {"ack", "acked"} => Terminal

AgentOK ==
    /\ relay.pc # "idle" => relay.run \in Handles /\ relay.entry.step # 0 /\ worker = "ack"
    /\ relay.pc \in {"end", "final", "tell"} => relay.kind # "none"
    /\ \A r \in Runs : active[r].public => active[r].step # 0

Places ==
    {"none", "begin", "ask", "asked", "accepted", "refused", "bound", "unbound",
     "unbinding", "withdrawn", "stopping", "stopped", "abandon", "done"}
RelayPlaces == {"idle", "end", "final", "call", "repair", "tool", "follow", "start", "fail", "tell"}
AgentTypes ==
    /\ active \in [Runs -> Entries]
    /\ thread \in [Runs -> [Indices -> Places]]
    /\ relay \in [pc : RelayPlaces, run : Handles \union {NoHandle}, entry : Entries,
                   kind : {"none", "done", "cancelled", "error"}]
    /\ told \in [Runs -> Seq({"done", "cancelled", "error"})]
    /\ returned \in [Runs -> {"none", "ok", "error"}] /\ faults \in 0..MaxFaults

WindowTypes ==
    /\ turn \in Runs \union {NoTurn} /\ waiting \in {"no", "pressed", "asked", "refused"}
    /\ missed \subseteq Runs /\ stops \in 0..MaxStops /\ restarts \in 0..MaxRestarts

\* An entry is in the table or on the relay, and it is put there once.
Apart(r) ==
    /\ OnRelay(r) \/ thread[r][1] = "begin" => active[r].step = 0
    /\ ~(OnRelay(r) /\ thread[r][1] = "begin")
ApartInv == \A r \in Runs : Apart(r)

Controller == StoreInv /\ WorkerOK /\ AgentTypes /\ AgentOK /\ ApartInv /\ RowsInv
AppInv == Controller /\ WindowTypes
-----------------------------------------------------------------------------
(* What a transaction does to the rows of one run *)

\* The rows of a run that goes on as it was, ends, or is deleted.
Milder(r) ==
    /\ ModelsIn(steps'[r]) \subseteq ModelsIn(steps[r])
    /\ ToolsEnded(steps[r]) => ToolsEnded(steps'[r])
    /\ tools'[r] <= tools[r]
    /\ Waits(steps'[r]) => Waits(steps[r])
    /\ \/ progress'[r] <= progress[r]
       \/ Waits(steps[r]) /\ ~Waits(steps'[r]) /\ progress'[r] <= progress[r] + 1
    /\ Settled(r) => Settled(r)'
    /\ mode'[r] = mode[r]
    /\ status'[r] = "none" <=> status[r] = "none"

\* A step of the store after which every run is as it was, or milder.
Mild == [Next]_store /\ \A x \in Runs : Milder(x)

Untold(r) ==
    /\ status'[r] = status[r] /\ steps'[r] = steps[r] /\ mode'[r] = mode[r]
    /\ progress'[r] = progress[r] /\ tools'[r] = tools[r]

LEMMA UntoldIsMild ==
    ASSUME StoreInv, NEW r \in Runs, Untold(r)
    PROVE  Milder(r)
<1>1. progress[r] \in Nat /\ tools[r] \in Nat
  BY DEF StoreInv, StoreTypeOK
<1> QED
  BY <1>1 DEF Milder, Untold, Settled

LEMMA SameStoreIsMild ==
    ASSUME StoreInv, UNCHANGED store
    PROVE  Mild
BY UntoldIsMild DEF Mild, Untold, store, counters

LEMMA ModelsFinite ==
    ASSUME NEW q \in Seq(Step)
    PROVE  IsFiniteSet(ModelsIn(q)) /\ Cardinality(ModelsIn(q)) \in Nat
<1>1. IsFiniteSet(DOMAIN q) /\ ModelsIn(q) \subseteq DOMAIN q
  BY LenProperties, FS_Interval DEF ModelsIn
<1> QED
  BY <1>1, FS_Subset, FS_CardinalityType

LEMMA RowTypes ==
    ASSUME StoreInv, NEW r \in Runs
    PROVE  /\ steps[r] \in Seq(Step) /\ progress[r] \in Nat /\ tools[r] \in Nat /\ total[r] \in Nat
           /\ status[r] \in Open \union Ended \union Gone /\ mode[r] \in Modes
           /\ DOMAIN steps[r] = 1 .. Len(steps[r]) /\ Len(steps[r]) \in Nat
           /\ IsFiniteSet(ModelsIn(steps[r])) /\ Cardinality(ModelsIn(steps[r])) \in Nat
           /\ \A i \in DOMAIN steps[r] : steps[r][i] \in Step
<1>1. /\ steps[r] \in Seq(Step) /\ progress[r] \in Nat /\ tools[r] \in Nat /\ total[r] \in Nat
      /\ status[r] \in Open \union Ended \union Gone /\ mode[r] \in Modes
  BY DEF StoreInv, StoreTypeOK
<1> QED
  BY <1>1, ModelsFinite, LenProperties, ElementOfSeq

LEMMA MilderWithin ==
    ASSUME StoreInv, StoreInv', NEW r \in Runs, Milder(r),
           NEW t \in Nat, NEW p \in Nat, NEW n \in Nat, Within(r, t, p, n)
    PROVE  Within(r, t, p, n)'
<1>1. Cardinality(ModelsIn(steps'[r])) <= Cardinality(ModelsIn(steps[r]))
      /\ Cardinality(ModelsIn(steps'[r])) \in Nat /\ Cardinality(ModelsIn(steps[r])) \in Nat
  <2>1. IsFiniteSet(ModelsIn(steps[r])) /\ Cardinality(ModelsIn(steps[r])) \in Nat
    BY RowTypes
  <2>2. ModelsIn(steps'[r]) \in SUBSET ModelsIn(steps[r])
    BY DEF Milder
  <2> QED
    BY <2>1, <2>2, FS_Subset, FS_CardinalityType
<1>2. progress[r] \in Nat /\ tools[r] \in Nat /\ progress'[r] \in Nat /\ tools'[r] \in Nat
  BY DEF StoreInv, StoreTypeOK
<1>3. Cardinality(ModelsIn(steps'[r])) <= t
  BY <1>1 DEF Within
<1>4. progress'[r] <= p /\ (Waits(steps'[r]) => progress'[r] < p) /\ tools'[r] <= n
  BY <1>2 DEF Within, Milder
<1> QED
  BY <1>3, <1>4 DEF Within

\* Steps keep their kinds; those whose status changes have ended.
LEMMA ClosingIsMild ==
    ASSUME StoreInv, NEW r \in Runs, DOMAIN steps'[r] = DOMAIN steps[r],
           \A i \in DOMAIN steps[r] :
               /\ steps'[r][i].kind = steps[r][i].kind /\ steps'[r][i].bound = steps[r][i].bound
               /\ steps'[r][i].status = steps[r][i].status \/ steps'[r][i].status \in Ended,
           progress'[r] = progress[r], tools'[r] = tools[r], mode'[r] = mode[r],
           status'[r] = "none" <=> status[r] = "none"
    PROVE  Milder(r)
<1>1. progress[r] \in Nat /\ tools[r] \in Nat
  BY RowTypes
<1>2. ModelsIn(steps'[r]) \subseteq ModelsIn(steps[r])
  BY DEF ModelsIn
<1>3. ToolsEnded(steps[r]) => ToolsEnded(steps'[r])
  BY DEF ToolsEnded
<1>4. Waits(steps'[r]) => Waits(steps[r])
  BY DEF Waits, Ended
<1>5. Settled(r) => Settled(r)'
  BY DEF Settled
<1> QED
  BY <1>1, <1>2, <1>3, <1>4, <1>5 DEF Milder

LEMMA DeletedIsMild ==
    ASSUME StoreInv, NEW r \in Runs, steps'[r] = <<>>, progress'[r] = 0, tools'[r] = 0,
           mode'[r] = mode[r], status'[r] # "none", status[r] # "none"
    PROVE  Milder(r)
<1>1. progress[r] \in Nat /\ tools[r] \in Nat
  BY RowTypes
<1>2. DOMAIN steps'[r] = {}
  OBVIOUS
<1> QED
  BY <1>1, <1>2 DEF Milder, ModelsIn, ToolsEnded, Waits, Settled

LEMMA StepEndIsMild ==
    ASSUME StoreInv, NEW r \in Runs, NEW i \in DOMAIN steps[r], NEW s \in Ended,
           steps' = [steps EXCEPT ![r] = SetStatus(@, i, s)],
           UNCHANGED <<mode, counters>>, \A x \in Runs \ {r} : status'[x] = status[x],
           status[r] # "none", status'[r] # "none"
    PROVE  \A x \in Runs : Milder(x)
<1>1. ASSUME NEW x \in Runs \ {r}
      PROVE  Milder(x)
  <2>1. Untold(x)
    BY DEF Untold, counters, StoreInv, StoreTypeOK
  <2> QED
    BY <2>1, UntoldIsMild
<1>2. Milder(r)
  <2>1. steps[r] \in Seq(Step) /\ s \in Open \union Ended
    BY RowTypes
  <2>2. steps'[r] = SetStatus(steps[r], i, s)
    BY DEF StoreInv, StoreTypeOK
  <2>3. /\ DOMAIN steps'[r] = DOMAIN steps[r]
        /\ steps'[r][i] = [kind |-> steps[r][i].kind, status |-> s, bound |-> steps[r][i].bound]
        /\ \A j \in DOMAIN steps[r] \ {i} : steps'[r][j] = steps[r][j]
    BY <2>1, <2>2, SetStatusProperties
  <2>4. \A j \in DOMAIN steps[r] :
           /\ steps'[r][j].kind = steps[r][j].kind /\ steps'[r][j].bound = steps[r][j].bound
           /\ steps'[r][j].status = steps[r][j].status \/ steps'[r][j].status \in Ended
    BY <2>3
  <2> QED
    BY <2>3, <2>4, ClosingIsMild DEF counters
<1> QED
  BY <1>1, <1>2

-----------------------------------------------------------------------------
(* The transactions the application calls *)

LEMMA StatusesKnown ==
    /\ {"complete", "cancelled", "error"} \subseteq Outcomes /\ Outcomes \subseteq Ended
    /\ "interrupted" \in Ended /\ "prepared" \notin Ended
BY AgentAssumption, StoreAssumption DEF Ended

LEMMA EndStepMild ==
    ASSUME StoreInv, NEW r \in Runs, NEW i, NEW s \in {"complete", "cancelled", "error"},
           EndStep(r, i, s)
    PROVE  Mild
<1>1. CASE UNCHANGED store
  BY <1>1, SameStoreIsMild
<1>2. CASE FinishStep(r, i, s)
  <2>1. s \in Outcomes /\ s \in Ended /\ i \in DOMAIN steps[r]
    BY <1>2, StatusesKnown DEF FinishStep, StepOpen, HasStep
  <2>2. Next
    BY <1>2, <2>1 DEF Next, RunStep
  <2>3. status[r] \notin Gone
    BY <1>2, <2>1, StepOpenFacts DEF FinishStep, Gone, Open
  <2>4. status' = [status EXCEPT ![r] = s] /\ UNCHANGED <<mode, counters>>
        /\ steps' = [steps EXCEPT ![r] = SetStatus(@, i, s)]
    BY <1>2 DEF FinishStep
  <2>5. status'[r] # "none" /\ status[r] # "none" /\ \A x \in Runs \ {r} : status'[x] = status[x]
    BY <2>1, <2>3, <2>4 DEF StoreInv, StoreTypeOK, Gone, Ended
  <2>6. \A x \in Runs : Milder(x)
    BY <2>1, <2>4, <2>5, StepEndIsMild
  <2> QED
    BY <2>2, <2>6 DEF Mild
<1> QED
  BY <1>1, <1>2 DEF EndStep

LEMMA FinalMild ==
    ASSUME StoreInv, NEW r \in Runs, NEW i, FinishFinalDecision(r, i)
    PROVE  Mild
<1>1. FinishStep(r, i, "complete")
  BY DEF FinishFinalDecision, FinishStep
<1> QED
  BY <1>1, EndStepMild DEF EndStep

LEMMA CompleteMild ==
    ASSUME StoreInv, NEW r \in Runs, NEW i, CompleteModelStep(r, i)
    PROVE  Mild /\ Settled(r)'
<1>1. /\ i \in DOMAIN steps[r] /\ steps[r][i].status \in Open /\ status[r] = "running"
      /\ steps' = [steps EXCEPT ![r] = SetStatus(@, i, "complete")]
      /\ UNCHANGED <<mode, counters, status>>
  BY DEF CompleteModelStep, StepOpen, HasStep
<1>2. Next
  BY <1>1 DEF Next, RunStep
<1>3. "complete" \in Ended
  BY DEF Ended
<1>4. \A x \in Runs : Milder(x)
  BY <1>1, <1>3, StepEndIsMild
<1>5. Settled(r)'
  <2>1. steps[r] \in Seq(Step) /\ steps'[r] = SetStatus(steps[r], i, "complete")
        /\ status[r] \in Statuses /\ RowsOK(status[r], message[r], steps[r])
    BY <1>1, Kept DEF StoreInv, StoreTypeOK
  <2>2. \A j \in DOMAIN steps[r] \ {i} : steps[r][j].status \in Ended
    BY <1>1, <2>1, OpenStepRow
  <2>3. EndedSteps(steps'[r])
    BY <1>1, <1>3, <2>1, <2>2, SetStatusEnds
  <2> QED
    BY <2>3 DEF Settled, EndedSteps
<1> QED
  BY <1>2, <1>4, <1>5 DEF Mild

LEMMA CloseFields ==
    ASSUME NEW q \in Seq(Step), NEW s \in Ended
    PROVE  /\ DOMAIN CloseSteps(q, s) = DOMAIN q
           /\ \A j \in DOMAIN q :
                /\ CloseSteps(q, s)[j].kind = q[j].kind /\ CloseSteps(q, s)[j].bound = q[j].bound
                /\ CloseSteps(q, s)[j].status = q[j].status \/ CloseSteps(q, s)[j].status \in Ended
<1>1. ASSUME NEW j \in DOMAIN q
      PROVE  CloseSteps(q, s)[j] =
                [kind |-> q[j].kind, status |-> IF q[j].status \in Open THEN s ELSE q[j].status,
                 bound |-> q[j].bound]
  BY CloseStepsProperties, ZenonT(40)
<1>2. DOMAIN CloseSteps(q, s) = DOMAIN q
  BY CloseStepsProperties, Zenon
<1> QED
  BY <1>1, <1>2

LEMMA EndRunMild ==
    ASSUME StoreInv, NEW r \in Runs, EndRun(r, "error")
    PROVE  Mild
<1>1. CASE UNCHANGED store
  BY <1>1, SameStoreIsMild
<1>2. CASE FinishRun(r, "error")
  <2>1. "error" \in Outcomes /\ "error" \in Ended
    BY StatusesKnown
  <2>2. Next
    BY <1>2, <2>1 DEF Next, RunStep
  <2>3. /\ status[r] \in Open /\ status' = [status EXCEPT ![r] = "error"]
        /\ steps' = [steps EXCEPT ![r] = CloseSteps(@, "error")] /\ UNCHANGED <<mode, counters>>
    BY <1>2 DEF FinishRun
  <2>4. ASSUME NEW x \in Runs \ {r} PROVE Milder(x)
    <3>1. Untold(x)
      BY <2>3 DEF Untold, counters, StoreInv, StoreTypeOK
    <3> QED
      BY <3>1, UntoldIsMild
  <2>5. Milder(r)
    <3>1. steps[r] \in Seq(Step) /\ steps'[r] = CloseSteps(steps[r], "error")
          /\ status'[r] = "error" /\ status[r] # "none"
      BY <2>3, RowTypes DEF StoreInv, StoreTypeOK, Open
    <3> QED
      BY <2>1, <2>3, <3>1, CloseFields, ClosingIsMild DEF counters
  <2> QED
    BY <2>2, <2>4, <2>5 DEF Mild
<1> QED
  BY <1>1, <1>2 DEF EndRun

LEMMA BindMild ==
    ASSUME StoreInv, NEW r \in Runs, NEW i, BindRequest(r, i)
    PROVE  Mild
<1>1. /\ i \in DOMAIN steps[r] /\ steps[r][i].status = "prepared"
      /\ steps' = [steps EXCEPT ![r] = Bound(@, i)]
  BY DEF BindRequest, Bindable, HasStep, Bind
<1>2. Next
  BY <1>1 DEF Next, RunStep
<1>3. ASSUME NEW x \in Runs \ {r} PROVE Milder(x)
  <2>1. Untold(x)
    BY DEF BindRequest, Bind, Untold, StoreInv, StoreTypeOK
  <2> QED
    BY <2>1, UntoldIsMild
<1>4. Milder(r)
  <2>1. /\ steps[r] \in Seq(Step) /\ RowsOK(status[r], message[r], steps[r])
        /\ status[r] \in Statuses
    BY Kept DEF StoreInv
  <2>2. status[r] \in Open /\ \A j \in DOMAIN steps[r] \ {i} : steps[r][j].status \in Ended
    BY <1>1, <2>1, OpenStepRow DEF Open
  <2>3. /\ status'[r] = "running" /\ progress'[r] = progress[r] + 1
        /\ tools'[r] = tools[r] /\ mode'[r] = mode[r] /\ progress[r] \in Nat /\ tools[r] \in Nat
        /\ steps'[r] = Bound(steps[r], i)
    BY <2>2 DEF BindRequest, Bind, StoreInv, StoreTypeOK
  <2>4. /\ DOMAIN steps'[r] = DOMAIN steps[r]
        /\ steps'[r][i] = [kind |-> steps[r][i].kind, status |-> "running", bound |-> TRUE]
        /\ \A j \in DOMAIN steps[r] \ {i} : steps'[r][j] = steps[r][j]
    BY <1>1, <2>1, <2>3, BoundProperties
  <2>5. ModelsIn(steps'[r]) \subseteq ModelsIn(steps[r])
    BY <2>4 DEF ModelsIn
  <2>6. ToolsEnded(steps[r]) => ToolsEnded(steps'[r])
    BY <1>1, <2>4, StatusesKnown DEF ToolsEnded
  <2>7. Waits(steps[r]) /\ ~Waits(steps'[r])
    BY <1>1, <2>2, <2>4, StatusesKnown DEF Waits
  <2>8. ~Settled(r)
    BY <1>1, StatusesKnown DEF Settled
  <2> QED
    BY <2>2, <2>3, <2>5, <2>6, <2>7, <2>8 DEF Milder, Open
<1> QED
  BY <1>2, <1>3, <1>4 DEF Mild

LEMMA EndTurnMild ==
    ASSUME StoreInv, NEW r \in Runs, NEW s \in {"complete", "cancelled", "error"}, EndTurn(r, s)
    PROVE  Mild
<1>1. CASE UNCHANGED store
  BY <1>1, SameStoreIsMild
<1>2. CASE FinishTurn(r, s)
  <2>1. Next
    BY <1>2, StatusesKnown DEF Next, RunStep
  <2>2. \A x \in Runs : Untold(x)
    BY <1>2 DEF FinishTurn, Untold, counters
  <2> QED
    BY <2>1, <2>2, UntoldIsMild DEF Mild
<1> QED
  BY <1>1, <1>2 DEF EndTurn

LEMMA ManagesMild ==
    ASSUME StoreInv, NEW c \in Conversations, Manages(c)
    PROVE  Mild
<1>1. ASSUME NEW m \in Modes, SetMode(c, m) PROVE Mild
  <2>1. Next
    BY <1>1 DEF Next, ConversationStep
  <2>2. \A x \in Runs : Untold(x)
    BY <1>1 DEF SetMode, Untold, counters
  <2> QED
    BY <2>1, <2>2, UntoldIsMild DEF Mild
<1>2. CASE Clear(c) \/ Delete(c)
  <2>1. Next /\ Cascade(c)
    BY <1>2 DEF Next, ConversationStep, Clear, Delete
  <2>2. ASSUME NEW x \in RunsOf(c) PROVE Milder(x)
    <3>1. /\ x \in Runs /\ steps'[x] = <<>> /\ progress'[x] = 0 /\ tools'[x] = 0 /\ mode'[x] = mode[x]
          /\ status'[x] = "gone" /\ status[x] # "none"
      BY <2>1, <2>2 DEF Cascade, RunsOf, Gone
    <3> QED
      BY <3>1, DeletedIsMild
  <2>3. ASSUME NEW x \in Runs \ RunsOf(c) PROVE Milder(x)
    <3>1. Untold(x)
      BY <2>1 DEF Cascade, Untold
    <3> QED
      BY <3>1, UntoldIsMild
  <2> QED
    BY <2>1, <2>2, <2>3 DEF Mild
<1> QED
  BY <1>1, <1>2 DEF Manages

LEMMA BootstrapMild ==
    ASSUME StoreInv, Bootstrap
    PROVE  Mild
<1>1. ASSUME NEW x \in Runs PROVE Milder(x)
  <2>1. /\ steps[x] \in Seq(Step) /\ steps'[x] = CloseSteps(steps[x], "interrupted")
        /\ status'[x] = Interrupt(status[x]) /\ mode'[x] = mode[x]
        /\ progress'[x] = progress[x] /\ tools'[x] = tools[x]
    BY RowTypes DEF Bootstrap, counters
  <2>3. status'[x] = "none" <=> status[x] = "none"
    BY <2>1 DEF Interrupt, Open
  <2>4. "interrupted" \in Ended
    BY StatusesKnown
  <2> QED
    BY <2>1, <2>3, <2>4, CloseFields, ClosingIsMild
<1> QED
  BY <1>1 DEF Mild, Next

LEMMA StepsCounted ==
    ASSUME NEW q \in Seq(Step)
    PROVE  Len(q) = Cardinality(ModelsIn(q)) + Cardinality(ToolsIn(q))
<1>0. Len(q) \in Nat /\ DOMAIN q = 1 .. Len(q)
  BY LenProperties
<1>1. Cardinality(DOMAIN q) = Len(q)
  BY <1>0, FS_Interval
<1>2. ASSUME NEW i \in DOMAIN q PROVE q[i].kind \in {"model", "tool"}
  <2>1. q[i] \in Step
    BY <1>0, ElementOfSeq
  <2> QED
    BY <2>1 DEF Step
<1>3. ModelsIn(q) \union ToolsIn(q) = DOMAIN q /\ ModelsIn(q) \intersect ToolsIn(q) = {}
  BY <1>2 DEF ModelsIn, ToolsIn
<1>4. IsFiniteSet(ModelsIn(q)) /\ IsFiniteSet(ToolsIn(q))
      /\ Cardinality(ModelsIn(q)) \in Nat /\ Cardinality(ToolsIn(q)) \in Nat
  BY ModelsFinite, StepSetsFinite
<1>5. Cardinality(ModelsIn(q) \union ToolsIn(q)) = Cardinality(ModelsIn(q)) + Cardinality(ToolsIn(q))
  <2>1. /\ Cardinality(ModelsIn(q) \union ToolsIn(q)) =
             Cardinality(ModelsIn(q)) + Cardinality(ToolsIn(q)) - Cardinality(ModelsIn(q) \intersect ToolsIn(q))
        /\ Cardinality({}) = 0
    BY <1>4, FS_Union, FS_EmptySet, Zenon
  <2>2. Cardinality(ModelsIn(q) \intersect ToolsIn(q)) = 0
    BY <1>3, <2>1, Zenon
  <2> QED
    BY <1>4, <2>1, <2>2
<1> QED
  BY <1>1, <1>3, <1>5, Zenon

LEMMA RoomLeft ==
    ASSUME StoreInv, NEW r \in Runs, NEW t \in Nat, NEW p \in Nat, NEW n \in Nat, Within(r, t, p, n),
           t + n < MaxTotal + MaxTools
    PROVE  Room(r)
<1>1. steps[r] \in Seq(Step) /\ tools[r] = Cardinality(ToolsIn(steps[r]))
      /\ Cardinality(ModelsIn(steps[r])) \in Nat /\ tools[r] \in Nat
  BY RowTypes DEF StoreInv, CountsOK
<1>2. Len(steps[r]) = Cardinality(ModelsIn(steps[r])) + tools[r]
  BY <1>1, StepsCounted
<1>3. Cardinality(ModelsIn(steps[r])) <= t /\ tools[r] <= n
  BY DEF Within
<1> QED
  BY <1>1, <1>2, <1>3, AgentAssumption, StoreAssumption DEF Room

LEMMA AppendModels ==
    ASSUME NEW q \in Seq(Step), NEW e \in Step
    PROVE  Cardinality(ModelsIn(Append(q, e))) =
             Cardinality(ModelsIn(q)) + (IF e.kind = "model" THEN 1 ELSE 0)
<1>1. /\ DOMAIN Append(q, e) = 1 .. (Len(q) + 1) /\ DOMAIN q = 1 .. Len(q) /\ Len(q) \in Nat
      /\ \A j \in 1 .. (Len(q) + 1) : Append(q, e)[j] = IF j = Len(q) + 1 THEN e ELSE q[j]
  BY AppendStepProperties
<1>2. IsFiniteSet(ModelsIn(q)) /\ Cardinality(ModelsIn(q)) \in Nat
  BY ModelsFinite
<1>5x. (Len(q) + 1) \notin ModelsIn(q)
  BY <1>1 DEF ModelsIn
<1>3. CASE e.kind = "model"
  <2>1. ModelsIn(Append(q, e)) = ModelsIn(q) \union {Len(q) + 1}
    BY <1>1, <1>3 DEF ModelsIn
  <2> QED
    BY <1>2, <1>5x, <1>3, <2>1, FS_AddElement
<1>4. CASE e.kind # "model"
  <2>1. ModelsIn(Append(q, e)) = ModelsIn(q)
    BY <1>1, <1>4 DEF ModelsIn
  <2> QED
    BY <1>2, <1>4, <2>1
<1> QED
  BY <1>3, <1>4

LEMMA StartFacts ==
    ASSUME StoreInv, NEW c \in Conversations, NEW m \in Modes, NEW r \in Runs,
           StartNewTurn(c, m, r) \/ StartTurn(c, r)
    PROVE  /\ Next /\ \A x \in Runs \ {r} : Milder(x)
           /\ status[r] = "none" /\ status'[r] = "prepared" /\ steps'[r] = <<ModelStep>>
           /\ ToolsEnded(steps'[r]) /\ Within(r, 1, 1, 0)'
<1>1. Next
  BY DEF Next, ConversationStep
<1>2. \E k \in Modes : AttachRun(c, k, r)
  BY DEF StartNewTurn, StartTurn
<1>3. ASSUME NEW x \in Runs \ {r} PROVE Milder(x)
  <2>1. Untold(x)
    BY <1>2 DEF AttachRun, Untold, counters, StoreInv, StoreTypeOK
  <2> QED
    BY <2>1, UntoldIsMild
<1>4. /\ status[r] = "none" /\ status'[r] = "prepared" /\ steps'[r] = <<ModelStep>>
      /\ progress'[r] = progress[r] /\ tools'[r] = tools[r]
  BY <1>2 DEF AttachRun, counters, StoreInv, StoreTypeOK
<1>5. progress[r] = 0 /\ tools[r] = 0
  <2>1. /\ RowsOK(status[r], message[r], steps[r]) /\ progress[r] \in Nat
        /\ CountsOK(total[r], progress[r], tools[r], steps[r])
    BY Kept DEF StoreInv
  <2>2. steps[r] = <<>>
    BY <1>4, <2>1 DEF RowsOK, Gone
  <2> QED
    BY <2>1, <2>2, NoCounts DEF CountsOK
<1>6. DOMAIN steps'[r] = {1} /\ steps'[r][1].kind = "model"
  BY <1>4 DEF ModelStep
<1>7. ToolsEnded(steps'[r])
  BY <1>6 DEF ToolsEnded
<1>8. ModelsIn(steps'[r]) = {1} /\ Cardinality({1}) = 1
  BY <1>6, FS_Singleton DEF ModelsIn
<1>9. Within(r, 1, 1, 0)'
  BY <1>4, <1>5, <1>8 DEF Within
<1> QED
  BY <1>1, <1>3, <1>4, <1>7, <1>9

LEMMA PrepareFacts ==
    ASSUME StoreInv, NEW r \in Runs, Settled(r), Room(r), PrepareModelStep(r)
    PROVE  /\ Next /\ \A x \in Runs \ {r} : Milder(x)
           /\ UNCHANGED <<status, mode>> /\ (ToolsEnded(steps[r]) => ToolsEnded(steps'[r]))
           /\ \A t, p, n \in Nat : Within(r, t, p, n) => Within(r, t + 1, p + 1, n)'
<1>1. Next
  BY DEF Next, RunStep
<1>2. ASSUME NEW x \in Runs \ {r} PROVE Milder(x)
  <2>1. Untold(x)
    BY DEF PrepareModelStep, Untold, counters, StoreInv, StoreTypeOK
  <2> QED
    BY <2>1, UntoldIsMild
<1>3. /\ steps[r] \in Seq(Step) /\ steps'[r] = Append(steps[r], ModelStep) /\ ModelStep \in Step
      /\ progress'[r] = progress[r] /\ tools'[r] = tools[r] /\ progress[r] \in Nat /\ tools[r] \in Nat
      /\ Cardinality(ModelsIn(steps[r])) \in Nat
  BY RowTypes DEF PrepareModelStep, counters, StoreInv, StoreTypeOK, ModelStep, Step, Open
<1>4. Cardinality(ModelsIn(steps'[r])) = Cardinality(ModelsIn(steps[r])) + 1
  BY <1>3, AppendModels DEF ModelStep
<1>5. \A t, p, n \in Nat : Within(r, t, p, n) => Within(r, t + 1, p + 1, n)'
  BY <1>3, <1>4 DEF Within
<1>6. ToolsEnded(steps[r]) => ToolsEnded(steps'[r])
  BY <1>3, AppendStepProperties DEF ToolsEnded, ModelStep
<1> QED
  BY <1>1, <1>2, <1>5, <1>6 DEF PrepareModelStep

LEMMA RecordFacts ==
    ASSUME StoreInv, NEW r \in Runs, Settled(r), Room(r), NEW ok \in BOOLEAN, NEW novel \in BOOLEAN,
           novel => ok, RecordToolStep(r, ok, novel)
    PROVE  /\ Next /\ \A x \in Runs \ {r} : Milder(x)
           /\ UNCHANGED <<status, mode>> /\ (ToolsEnded(steps[r]) => ToolsEnded(steps'[r]))
           /\ Settled(r)'
           /\ \A t, p, n \in Nat : Within(r, t, p, n) =>
                 Within(r, t, p, n + 1)' /\ (novel => Within(r, t, 0, n + 1)')
<1>1. Next
  BY DEF Next, RunStep
<1>2. ASSUME NEW x \in Runs \ {r} PROVE Milder(x)
  <2>1. Untold(x)
    BY DEF RecordToolStep, Untold, StoreInv, StoreTypeOK
  <2> QED
    BY <2>1, UntoldIsMild
<1>3. /\ steps[r] \in Seq(Step) /\ steps'[r] = Append(steps[r], ToolStep(ok)) /\ ToolStep(ok) \in Step
      /\ progress'[r] = (IF novel THEN 0 ELSE progress[r]) /\ tools'[r] = tools[r] + 1
      /\ progress[r] \in Nat /\ tools[r] \in Nat /\ Cardinality(ModelsIn(steps[r])) \in Nat
  BY RowTypes DEF RecordToolStep, StoreInv, StoreTypeOK, ToolStep, Step, Ended
<1>4. /\ ToolStep(ok).kind = "tool" /\ ToolStep(ok).status \in Ended /\ ~ToolStep(ok).bound
  BY DEF ToolStep, Ended
<1>5. Cardinality(ModelsIn(steps'[r])) = Cardinality(ModelsIn(steps[r]))
  BY <1>3, <1>4, AppendModels
<1>6. Settled(r)' /\ (ToolsEnded(steps[r]) => ToolsEnded(steps'[r]))
  BY <1>3, <1>4, AppendStepProperties DEF Settled, ToolsEnded
<1>7. ~Waits(steps'[r])
  BY <1>6, StatusesKnown DEF Settled, Waits
<1>8. \A t, p, n \in Nat : Within(r, t, p, n) =>
         Within(r, t, p, n + 1)' /\ (novel => Within(r, t, 0, n + 1)')
  BY <1>3, <1>5, <1>7 DEF Within
<1> QED
  BY <1>1, <1>2, <1>6, <1>8 DEF RecordToolStep

-----------------------------------------------------------------------------
(* The worker keeps its types *)

Request == [handle : Handles \union {NoHandle}, asked : BOOLEAN, cancelled : BOOLEAN,
            event : {"none", "sent", "relayed"}, outcome : {"none", "done", "cancelled", "error"}]
CommandType == [op : {"submit", "cancel", "late cancel", "withdraw"} \union Unloads,
                handle : Handles \union {NoHandle}]

LEMMA OrdersAreCommands ==
    ASSUME NEW q \in Seq(Orders)
    PROVE  q \in Seq(CommandType)
<1>1. Len(q) \in Nat /\ q = [k \in 1 .. Len(q) |-> q[k]] /\ \A k \in 1 .. Len(q) : q[k] \in Orders
  BY LenProperties, ElementOfSeq
<1>2. Orders \subseteq CommandType
  BY DEF Orders, CommandType
<1> QED
  BY <1>1, <1>2, IsASeq

LEMMA Queued ==
    ASSUME WorkerOK, NEW o \in Orders, Len(commands) < CommandCapacity, commands' = Append(commands, o)
    PROVE  commands' \in Seq(Orders) /\ Len(commands') <= CommandCapacity
<1>1. commands \in Seq(Orders) /\ Len(commands) \in Nat
  BY LenProperties DEF WorkerOK
<1>2. commands' \in Seq(Orders) /\ Len(commands') = Len(commands) + 1
  BY <1>1, AppendProperties
<1> QED
  BY <1>1, <1>2, AppAssumption

LEMMA Taken ==
    ASSUME WorkerOK, commands # <<>>
    PROVE  /\ Head(commands) \in Orders
           /\ Tail(commands) \in Seq(Orders) /\ Len(Tail(commands)) <= CommandCapacity
<1>1. commands \in Seq(Orders) /\ Len(commands) \in Nat /\ Len(commands) <= CommandCapacity
  BY LenProperties DEF WorkerOK, WorkerTypeOK
<1>2. Head(commands) \in Orders /\ Tail(commands) \in Seq(Orders) /\ Len(Tail(commands)) = Len(commands) - 1
  BY <1>1, HeadTailProperties
<1> QED
  BY <1>1, <1>2, AppAssumption

LEMMA TypeOfWorker ==
    ASSUME phase' \in {"no-model", "ready", "streaming", "error"}, request' \in Request,
           request'.event # "none" => request'.handle \in Handles,
           commands' \in Seq(Orders), Len(commands') <= CommandCapacity,
           worker' \in {"recv", "poll", "drain", "ack", "acked"},
           worker' \in {"ack", "acked"} => request'.outcome # "none",
           after' \in Unloads \union {"none"}, failures' \in Handles \union {NoHandle},
           modelCalls' \in 0 .. MaxModelCalls
    PROVE  WorkerOK'
BY OrdersAreCommands DEF WorkerOK, WorkerTypeOK, Request, CommandType, Terminal

LEMMA WorkerTypes ==
    ASSUME WorkerOK
    PROVE  /\ phase \in {"no-model", "ready", "streaming", "error"} /\ request \in Request
           /\ request.event # "none" => request.handle \in Handles
           /\ commands \in Seq(Orders) /\ Len(commands) <= CommandCapacity
           /\ worker \in {"recv", "poll", "drain", "ack", "acked"}
           /\ worker \in {"ack", "acked"} => request.outcome # "none"
           /\ after \in Unloads \union {"none"} /\ failures \in Handles \union {NoHandle}
           /\ modelCalls \in 0 .. MaxModelCalls
BY DEF WorkerOK, WorkerTypeOK, Request, Terminal

LEMMA SendOK ==
    ASSUME WorkerOK, NEW op \in {"submit", "cancel", "late cancel", "withdraw"},
           NEW h \in Handles, Send(op, h)
    PROVE  WorkerOK'
<1>1. Command(op, h) \in Orders
  BY DEF Command, Orders
<1>2. commands' \in Seq(Orders) /\ Len(commands') <= CommandCapacity
  BY <1>1, Queued DEF Send
<1> QED
  BY <1>2, WorkerTypes, TypeOfWorker DEF Send

LEMMA CallModelOK ==
    ASSUME WorkerOK, NEW op \in Unloads, CallModel(op)
    PROVE  WorkerOK'
<1>1. Command(op, NoHandle) \in Orders
  BY DEF Command, Orders
<1>2. commands' \in Seq(Orders) /\ Len(commands') <= CommandCapacity
  BY <1>1, Queued DEF CallModel
<1>3. modelCalls' \in 0 .. MaxModelCalls
  BY WorkerTypes, AppAssumption DEF CallModel
<1> QED
  BY <1>2, <1>3, WorkerTypes, TypeOfWorker DEF CallModel

LEMMA PollsTyped == ASSUME Polls PROVE worker' \in {"recv", "poll"}
BY DEF Polls

LEMMA CancelledOK ==
    ASSUME WorkerOK, NEW h
    PROVE  /\ Cancelled(h) \in Request /\ Cancelled(h).handle = request.handle
           /\ Cancelled(h).event = request.event /\ Cancelled(h).outcome = request.outcome
           /\ request.asked => Cancelled(h).asked
           /\ request.handle = h => Cancelled(h).asked
BY WorkerTypes DEF Cancelled, Request

LEMMA HandleSubmitOK ==
    ASSUME WorkerOK, NEW valid \in BOOLEAN, HandleSubmit(valid)
    PROVE  WorkerOK' /\ Head(commands).handle \in Handles
<1>1. commands # <<>> /\ Head(commands).op = "submit" /\ commands' = Tail(commands)
  BY DEF HandleSubmit, Receives
<1>2. Head(commands) \in Orders
  BY <1>1, Taken
<1>3. Head(commands).handle \in Handles
  BY <1>1, <1>2 DEF Orders, Unloads
<1>4. Accepted(Head(commands).handle) \in Request
      /\ Accepted(Head(commands).handle).handle = Head(commands).handle
  BY <1>3 DEF Accepted, NoRequest, Request
<1>5. /\ phase' \in {"no-model", "ready", "streaming", "error"} /\ request' \in Request
      /\ request'.event # "none" => request'.handle \in Handles
  BY <1>3, <1>4, WorkerTypes DEF HandleSubmit, guard
<1> QED
  BY <1>1, <1>3, <1>5, Taken, PollsTyped, WorkerTypes, TypeOfWorker DEF HandleSubmit

LEMMA HandleCancelOK ==
    ASSUME WorkerOK, NEW op \in {"cancel", "late cancel", "withdraw"}, HandleCancel(op)
    PROVE  WorkerOK' /\ Head(commands).handle \in Handles
<1>1. commands # <<>> /\ Head(commands).op = op /\ commands' = Tail(commands)
  BY DEF HandleCancel, Receives
<1>2. Head(commands).handle \in Handles
  BY <1>1, Taken DEF Orders, Unloads
<1> QED
  BY <1>1, <1>2, Taken, CancelledOK, PollsTyped, WorkerTypes, TypeOfWorker DEF HandleCancel

LEMMA NoRequestTyped == NoRequest \in Request /\ NoRequest.event = "none" /\ NoRequest.handle = NoHandle
BY DEF NoRequest, Request

LEMMA HandleModelOK ==
    ASSUME WorkerOK, NEW op \in Unloads, HandleModel(op)
    PROVE  WorkerOK'
<1>1. commands # <<>> /\ commands' = Tail(commands) /\ UNCHANGED modelCalls
  BY DEF HandleModel, Receives
<1>2. /\ phase' \in {"no-model", "ready", "streaming", "error"} /\ request' \in Request
      /\ request'.event # "none" => request'.handle \in Handles
      /\ worker' \in {"recv", "drain"}
      /\ after' \in Unloads \union {"none"} /\ failures' \in Handles \union {NoHandle}
  BY CancelledOK, WorkerTypes DEF HandleModel, Receives, PhaseAfter, Unloads
<1> QED
  BY <1>1, <1>2, Taken, WorkerTypes, TypeOfWorker

LEMMA WorkerAloneOK ==
    ASSUME WorkerOK, Poll \/ Drain \/ Finish
    PROVE  WorkerOK'
<1>1. CASE Poll
  BY <1>1, CancelledOK, WorkerTypes, TypeOfWorker DEF Poll, Terminal
<1>2. CASE Drain
  BY <1>2, WorkerTypes, TypeOfWorker DEF Drain, Terminal
<1>3. CASE Finish
  <2>1. phase' \in {"no-model", "ready", "streaming", "error"}
    BY <1>3, WorkerTypes DEF Finish, PhaseAfter, Unloads
  <2> QED
    BY <1>3, <2>1, NoRequestTyped, WorkerTypes, TypeOfWorker DEF Finish
<1> QED
  BY <1>1, <1>2, <1>3

LEMMA NativeEndsOK ==
    ASSUME WorkerOK, NEW outcome \in {"done", "cancelled", "error"}, NativeEnds(outcome)
    PROVE  WorkerOK'
<1>1. request' \in Request /\ request'.event = request.event /\ request'.handle = request.handle
  BY WorkerTypes DEF NativeEnds, Request
<1> QED
  BY <1>1, WorkerTypes, TypeOfWorker DEF NativeEnds

LEMMA RelayedOK ==
    ASSUME WorkerOK, NEW ok \in BOOLEAN, RelayRegular(ok) \/ (worker = "ack" /\ Acknowledge(ok))
    PROVE  WorkerOK'
<1>1. failures' \in Handles \union {NoHandle}
  BY WorkerTypes DEF RelayRegular, Acknowledge, Relayed, Request
<1>2. CASE RelayRegular(ok)
  <2>1. request' \in Request /\ request'.handle = request.handle /\ request.handle \in Handles
    BY <1>2, WorkerTypes DEF RelayRegular, Request
  <2> QED
    BY <1>1, <1>2, <2>1, WorkerTypes, TypeOfWorker DEF RelayRegular
<1>3. CASE worker = "ack" /\ Acknowledge(ok)
  BY <1>1, <1>3, WorkerTypes, TypeOfWorker DEF Acknowledge
<1> QED
  BY <1>2, <1>3

LEMMA SameWorkerOK ==
    ASSUME WorkerOK, UNCHANGED worker_vars
    PROVE  WorkerOK'
BY WorkerTypes, TypeOfWorker DEF worker_vars

-----------------------------------------------------------------------------
(* Entries of active move between the table and the relay *)

SameCount(e, f) == e.total = f.total /\ e.progress = f.progress /\ e.calls = f.calls
Known(r, e) ==
    \/ active[r].step # 0 /\ SameCount(e, active[r])
    \/ OnRelay(r) /\ relay.pc \in Going /\ SameCount(e, relay.entry)
\* What the step does to the entry of a run, wherever it is.
Moves(r) ==
    /\ active'[r].step = 0 \/ Known(r, active'[r])
    /\ OnRelay(r)' /\ relay'.pc \in Going => Known(r, relay'.entry)
    /\ OnRelay(r)' /\ relay'.pc \in {"tool", "follow"} => Settled(r)'
    /\ status[r] = "none" => active'[r].step = 0 /\ ~OnRelay(r)'

LEMMA LimitsTyped ==
    ASSUME NEW r \in Runs
    PROVE  /\ Limits(r).total \in 1 .. MaxTotal /\ Limits(r).progress \in 1 .. MaxProgress
           /\ MaxTotal \in Nat /\ MaxProgress \in Nat /\ MaxTools \in Nat /\ MaxRepeats \in Nat
           /\ MaxSteps \in Nat \ {0}
BY AgentAssumption, StoreAssumption DEF Limits

LEMMA IndexTyped ==
    ASSUME NEW s \in 0 .. MaxSteps, s # 0
    PROVE  s \in Indices
<1>1. MaxSteps \in Nat
  BY StoreAssumption
<1> QED
  BY <1>1 DEF Indices

LEMMA EntryTypes ==
    ASSUME NEW e \in Entries
    PROVE  /\ e.step \in 0 .. MaxSteps /\ e.total \in 0 .. MaxTotal /\ e.progress \in 0 .. MaxProgress
           /\ e.calls \in 0 .. MaxTools /\ e.total \in Nat /\ e.progress \in Nat /\ e.calls \in Nat
BY AgentAssumption DEF Entries

\* The entry of a run that goes on with another model step.
GoesOn(next, e, s, u, v) ==
    /\ e \in Entries /\ s \in 1 .. MaxSteps /\ u \in 0 .. MaxTotal /\ v \in 0 .. MaxProgress
    /\ next = [e EXCEPT !.total = u, !.progress = v, !.current = FALSE, !.step = s]

LEMMA EntryGoesOn ==
    ASSUME NEW e, NEW s, NEW u, NEW v, NEW next, GoesOn(next, e, s, u, v)
    PROVE  next \in Entries /\ next.step = s /\ next.step # 0 /\ next.total = u /\ next.progress = v /\ next.calls = e.calls
<1>1. /\ e \in Entries /\ s \in 1 .. MaxSteps /\ u \in 0 .. MaxTotal /\ v \in 0 .. MaxProgress
      /\ next = [e EXCEPT !.total = u, !.progress = v, !.current = FALSE, !.step = s]
  BY DEF GoesOn
<1>2. s \in 0 .. MaxSteps /\ s # 0
  BY <1>1, AgentAssumption
<1>3. next \in Entries
  BY <1>1, <1>2 DEF Entries
<1>4. next.step = s /\ next.total = u /\ next.progress = v /\ next.calls = e.calls
  BY <1>1 DEF Entries
<1> QED
  BY <1>2, <1>3, <1>4

LEMMA StartEntries ==
    /\ NoEntry \in Entries /\ NoEntry.step = 0 /\ ~NoEntry.public
    /\ NewEntry \in Entries /\ NewEntry.step = 1 /\ ~NewEntry.public
    /\ NewEntry.total = 1 /\ NewEntry.progress = 1 /\ NewEntry.calls = 0
<1>1. /\ 0 \in 0 .. MaxSteps /\ 1 \in 0 .. MaxSteps /\ 0 \in 0 .. MaxTotal /\ 1 \in 0 .. MaxTotal
      /\ 0 \in 0 .. MaxProgress /\ 1 \in 0 .. MaxProgress /\ 0 \in 0 .. MaxTools /\ 0 \in 0 .. MaxRepeats
  BY AgentAssumption, StoreAssumption
<1>2. [a \in Actions |-> 0] \in [Actions -> 0 .. MaxRepeats]
  BY <1>1
<1>3. NoEntry \in Entries
  BY <1>1, <1>2 DEF NoEntry, Entries
<1>4. NewEntry = [NoEntry EXCEPT !.step = 1, !.total = 1, !.progress = 1]
  BY DEF NewEntry
<1>5. NewEntry \in Entries /\ NewEntry.step = 1 /\ NewEntry.total = 1 /\ NewEntry.progress = 1
      /\ NewEntry.calls = NoEntry.calls /\ NewEntry.public = NoEntry.public
  BY <1>1, <1>3, <1>4 DEF Entries
<1> QED
  BY <1>3, <1>5 DEF NoEntry

LEMMA CoversStay ==
    ASSUME StoreInv, StoreInv', NEW r \in Runs, Milder(r), NEW e \in Entries, Covers(r, e)
    PROVE  Covers(r, e)'
<1>1. e.total \in Nat /\ e.progress \in Nat /\ e.calls \in Nat
  BY EntryTypes
<1>2. Within(r, e.total, e.progress, e.calls)'
  BY <1>1, MilderWithin DEF Covers
<1>3. Limits(r)' = Limits(r)
  BY DEF Limits, Milder
<1> QED
  BY <1>2, <1>3 DEF Covers

LEMMA RowsStay ==
    ASSUME StoreInv, StoreInv', AgentTypes, AgentTypes', NEW r \in Runs, RunRows(r), Milder(r), Moves(r)
    PROVE  RunRows(r)'
<1>1. /\ active[r] \in Entries /\ relay.entry \in Entries
      /\ active'[r] \in Entries /\ relay'.entry \in Entries
  BY DEF AgentTypes
<1>2. ASSUME NEW e \in Entries, NEW f \in Entries, Covers(r, f), SameCount(e, f)
      PROVE  Covers(r, e)'
  <2>1. Covers(r, e)
    BY <1>2 DEF Covers, SameCount
  <2> QED
    BY <2>1, CoversStay
<1>3. ASSUME NEW e \in Entries, Known(r, e)
      PROVE  Covers(r, e)'
  BY <1>1, <1>2, <1>3 DEF Known, RunRows
<1>4. active'[r].step # 0 => Covers(r, active[r])'
  <2>1. \A e \in Entries : e = active'[r] /\ e.step # 0 => Covers(r, e)'
    BY <1>3 DEF Moves
  <2> QED
    BY <1>1, <2>1 DEF Covers, Within
<1>5. OnRelay(r)' /\ relay'.pc \in Going => Covers(r, relay.entry)'
  <2>1. \A e \in Entries : e = relay'.entry /\ OnRelay(r)' /\ relay'.pc \in Going => Covers(r, e)'
    BY <1>3 DEF Moves
  <2> QED
    BY <1>1, <2>1 DEF Covers, Within
<1>6. Within(r, Limits(r).total, Limits(r).progress, MaxTools)'
  <2>1. \A t, p \in Nat : Within(r, t, p, MaxTools) => Within(r, t, p, MaxTools)'
    BY MilderWithin, AgentAssumption
  <2>2. Limits(r)' = Limits(r) /\ Limits(r).total \in Nat /\ Limits(r).progress \in Nat
    BY LimitsTyped DEF Limits, Milder
  <2>3. \A t, p \in Nat : t = Limits(r).total /\ p = Limits(r).progress => Within(r, t, p, MaxTools)'
    BY <2>1 DEF RunRows
  <2> QED
    BY <2>2, <2>3 DEF Within
<1>7. ToolsEnded(steps[r])'
  BY DEF RunRows, Milder
<1>8. OnRelay(r)' /\ relay'.pc \in {"tool", "follow"} => Settled(r)'
  BY DEF Moves
<1>9. status'[r] = "none" => active'[r].step = 0 /\ ~OnRelay(r)'
  BY DEF Moves, Milder
<1> QED
  BY <1>4, <1>5, <1>6, <1>7, <1>8, <1>9 DEF RunRows

LEMMA RowsStep ==
    ASSUME Controller, Mild, AgentTypes', \A x \in Runs : Moves(x)
    PROVE  StoreInv' /\ RowsInv'
<1>1. StoreInv'
  BY StoreStep DEF Controller, Mild
<1>2. ASSUME NEW x \in Runs PROVE RunRows(x)'
  BY <1>1, RowsStay DEF Controller, RowsInv, Mild
<1> QED
  BY <1>1, <1>2 DEF RowsInv

\* One run is given more rows, or its first entry.
LEMMA OtherRowsStep ==
    ASSUME Controller, Next \/ UNCHANGED store, AgentTypes', NEW r \in Runs, RunRows(r)',
           \A x \in Runs \ {r} : Milder(x) /\ Moves(x)
    PROVE  StoreInv' /\ RowsInv'
<1>1. StoreInv'
  BY StoreStep DEF Controller
<1>2. ASSUME NEW x \in Runs \ {r} PROVE RunRows(x)'
  BY <1>1, RowsStay DEF Controller, RowsInv
<1> QED
  BY <1>1, <1>2 DEF RowsInv

\* The table changes while the relay stays where it is.
EntryStays(x) ==
    \/ active'[x] = active[x]
    \/ active'[x].step = 0 /\ ~active'[x].public
    \/ active[x].step # 0 /\ active'[x].step # 0 /\ SameCount(active'[x], active[x])

LEMMA EntryMoves ==
    ASSUME Controller, UNCHANGED relay, NEW x \in Runs, EntryStays(x), Settled(x) => Settled(x)'
    PROVE  Moves(x) /\ (active'[x].public => active'[x].step # 0)
<1>1. RunRows(x) /\ (active[x].public => active[x].step # 0)
  BY DEF Controller, RowsInv, AgentOK
<1>2. OnRelay(x)' <=> OnRelay(x)
  BY DEF OnRelay
<1> QED
  BY <1>1, <1>2 DEF Moves, EntryStays, RunRows, Known, SameCount

\* No thread goes back to where it began.
ThreadsGoOn == \A x \in Runs : thread'[x][1] = "begin" => thread[x][1] = "begin"

\* A step of a thread of the controller, or of the window.
LEMMA ThreadMoves ==
    ASSUME Controller, UNCHANGED relay, WorkerOK', worker' = worker \/ relay.pc = "idle", AgentTypes',
           Mild, \A x \in Runs : EntryStays(x), ThreadsGoOn
    PROVE  Controller'
<1>1. ASSUME NEW x \in Runs
      PROVE  Moves(x) /\ (active'[x].public => active'[x].step # 0)
  BY EntryMoves DEF Mild, Milder
<1>2. StoreInv' /\ RowsInv'
  BY <1>1, RowsStep
<1>3. AgentOK'
  BY <1>1 DEF Controller, AgentOK
<1>4. ApartInv'
  BY DEF Controller, ApartInv, Apart, ThreadsGoOn, OnRelay, EntryStays
<1> QED
  BY <1>2, <1>3, <1>4 DEF Controller

\* The places of the threads, and what they return or tell.
LEMMA GoesTyped ==
    ASSUME AgentTypes, NEW r, NEW i, NEW pc \in Places \ {"begin"}, Goes(r, i, pc)
    PROVE  thread' \in [Runs -> [Indices -> Places]] /\ ThreadsGoOn
<1>1. thread \in [Runs -> [Indices -> Places]] /\ thread' = [thread EXCEPT ![r][i] = pc]
  BY DEF AgentTypes, Goes
<1>2. thread' \in [Runs -> [Indices -> Places]]
  BY <1>1
<1>3. ThreadsGoOn
  BY <1>1 DEF ThreadsGoOn
<1> QED
  BY <1>2, <1>3

LEMMA ReturnsTyped ==
    ASSUME AgentTypes, NEW r, NEW s \in {"none", "ok", "error"}, Returns(r, s)
    PROVE  returned' \in [Runs -> {"none", "ok", "error"}]
BY DEF AgentTypes, Returns

LEMMA TellTyped ==
    ASSUME AgentTypes, NEW r \in Runs, NEW k \in {"done", "cancelled", "error"}, Tell(r, k)
    PROVE  told' \in [Runs -> Seq({"done", "cancelled", "error"})]
<1>1. Append(told[r], k) \in Seq({"done", "cancelled", "error"})
  BY AppendProperties DEF AgentTypes
<1> QED
  BY <1>1 DEF AgentTypes, Tell

LEMMA FaultTyped ==
    ASSUME AgentTypes, NEW f, Fault(f)
    PROVE  faults' \in 0 .. MaxFaults
BY AgentAssumption DEF AgentTypes, Fault

LEMMA ReportTyped ==
    ASSUME AgentTypes, NEW r \in Runs, NEW i, Report(r, i)
    PROVE  /\ told' \in [Runs -> Seq({"done", "cancelled", "error"})]
           /\ returned' \in [Runs -> {"none", "ok", "error"}]
<1>1. \/ Returns(r, "error") /\ UNCHANGED told
      \/ (Tell(r, "error") \/ UNCHANGED told) /\ UNCHANGED returned
  BY DEF Report
<1> QED
  BY <1>1, ReturnsTyped, TellTyped DEF AgentTypes

LEMMA RemovedTyped ==
    ASSUME AgentTypes, NEW r \in Runs, NEW i, active' = Removed(r, i)
    PROVE  active' \in [Runs -> Entries] /\ \A x \in Runs : EntryStays(x)
<1>1. NoEntry \in Entries /\ NoEntry.step = 0 /\ ~NoEntry.public
  BY StartEntries
<1>2. active' = active \/ active' = [active EXCEPT ![r] = NoEntry]
  BY DEF Removed
<1>3. active \in [Runs -> Entries]
  BY DEF AgentTypes
<1>4. ASSUME NEW e \in Entries, e.step = 0, ~e.public, active' = [active EXCEPT ![r] = e]
      PROVE  active' \in [Runs -> Entries] /\ \A x \in Runs : EntryStays(x)
  BY <1>3, <1>4 DEF EntryStays
<1>5. CASE active' = active
  BY <1>3, <1>5 DEF EntryStays
<1> QED
  BY <1>1, <1>2, <1>4, <1>5

\* A handle is noted in the entry, or the window's stop.
LEMMA NotedTyped ==
    ASSUME AgentTypes, NEW r \in Runs, active[r].step # 0, NEW p \in BOOLEAN, NEW k \in BOOLEAN,
           NEW s \in BOOLEAN,
           active' = [active EXCEPT ![r] = [@ EXCEPT !.public = p, !.current = k, !.cancel = s]]
    PROVE  active' \in [Runs -> Entries] /\ \A x \in Runs : EntryStays(x)
<1> DEFINE e == [active[r] EXCEPT !.public = p, !.current = k, !.cancel = s]
<1>1. active[r] \in Entries /\ active \in [Runs -> Entries]
  BY DEF AgentTypes
<1>2. e \in Entries /\ e.step = active[r].step /\ SameCount(e, active[r])
  BY <1>1 DEF Entries, SameCount
<1>3. active' = [active EXCEPT ![r] = e]
  OBVIOUS
<1> HIDE DEF e
<1> QED
  BY <1>1, <1>2, <1>3 DEF EntryStays

-----------------------------------------------------------------------------
(* The threads of a run *)

\* A thread changes the entries, and tells or returns something.
LEMMA ThreadTyped ==
    ASSUME AgentTypes, UNCHANGED relay, active' \in [Runs -> Entries],
           NEW r, NEW i, NEW pc \in Places \ {"begin"}, Goes(r, i, pc),
           told' \in [Runs -> Seq({"done", "cancelled", "error"})],
           returned' \in [Runs -> {"none", "ok", "error"}], faults' \in 0 .. MaxFaults
    PROVE  AgentTypes' /\ ThreadsGoOn
BY GoesTyped DEF AgentTypes

LEMMA UntouchedFacts ==
    ASSUME Controller, Untouched
    PROVE  Mild /\ WorkerOK' /\ UNCHANGED worker
BY SameStoreIsMild, SameWorkerOK DEF Controller, Untouched, worker_vars

LEMMA BeginStep ==
    ASSUME Controller, NEW r \in Runs, Begin(r)
    PROVE  Controller' /\ [Next]_store
<1>0. Mild /\ WorkerOK' /\ UNCHANGED worker /\ UNCHANGED store /\ UNCHANGED <<relay, told>>
  BY UntouchedFacts DEF Begin, Untouched
<1>1. AgentTypes /\ active \in [Runs -> Entries] /\ told' \in [Runs -> Seq({"done", "cancelled", "error"})]
      /\ faults \in 0 .. MaxFaults /\ returned \in [Runs -> {"none", "ok", "error"}]
  BY <1>0 DEF Controller, AgentTypes
<1>2. /\ \E pc \in Places \ {"begin"} : Goes(r, 1, pc)
      /\ returned' \in [Runs -> {"none", "ok", "error"}] /\ faults' \in 0 .. MaxFaults
  BY <1>1, ReturnsTyped, FaultTyped DEF Begin, Places
<1>3. CASE UNCHANGED active
  <2>1. AgentTypes' /\ ThreadsGoOn
    BY <1>0, <1>1, <1>2, <1>3, ThreadTyped
  <2> QED
    BY <1>0, <1>3, <2>1, ThreadMoves DEF EntryStays, Mild
<1>4. CASE Submittable(r) /\ active' = [active EXCEPT ![r] = NewEntry]
  <2>1. active' \in [Runs -> Entries] /\ active'[r] = NewEntry /\ \A x \in Runs \ {r} : active'[x] = active[x]
    BY <1>1, <1>4, StartEntries
  <2>2. AgentTypes' /\ ThreadsGoOn
    BY <1>0, <1>1, <1>2, <2>1, ThreadTyped
  <2>3. Covers(r, NewEntry)
    <3>1. /\ RowsOK(status[r], message[r], steps[r]) /\ status[r] = "prepared"
          /\ CountsOK(total[r], progress[r], tools[r], steps[r])
          /\ progress[r] \in Nat /\ tools[r] \in Nat /\ total[r] \in Nat
      BY <1>4, Kept, RowTypes DEF Controller, StoreInv, Submittable
    <3>2. steps[r] = <<ModelStep>>
      BY <3>1 DEF RowsOK
    <3>3. progress[r] = 0 /\ tools[r] = 0
      BY <3>1, <3>2, NoCounts DEF CountsOK
    <3>4. ModelsIn(steps[r]) = {1} /\ Cardinality({1}) = 1
      <4>1. DOMAIN steps[r] = {1} /\ steps[r][1].kind = "model"
        BY <3>2 DEF ModelStep
      <4> QED
        BY <4>1, FS_Singleton DEF ModelsIn
    <3> QED
      BY <3>3, <3>4, StartEntries, LimitsTyped DEF Covers, Within
  <2>4. RunRows(r)'
    <3>1. RunRows(r) /\ status[r] = "prepared"
      BY <1>4 DEF Controller, RowsInv, Submittable
    <3>2. /\ steps' = steps /\ progress' = progress /\ tools' = tools /\ mode' = mode /\ status' = status
          /\ relay' = relay
      BY <1>0 DEF store, counters
    <3>3. Covers(r, active[r])'
      BY <2>1, <2>3, <3>2 DEF Covers, Within, Limits
    <3> QED
      BY <3>1, <3>2, <3>3 DEF RunRows, Covers, Within, Limits, OnRelay, Settled
  <2>5. ASSUME NEW x \in Runs \ {r}
        PROVE  Milder(x) /\ Moves(x) /\ (active'[x].public => active'[x].step # 0)
    BY <1>0, <2>1, EntryMoves DEF Mild, Milder, EntryStays
  <2>6. StoreInv' /\ RowsInv'
    BY <1>0, <2>2, <2>4, <2>5, OtherRowsStep
  <2>7. AgentOK'
    BY <1>0, <2>1, <2>5, StartEntries DEF Controller, AgentOK
  <2>8. ApartInv'
    <3>1. \A x \in Runs : OnRelay(x)' <=> OnRelay(x)
      BY <1>0 DEF OnRelay
    <3>2. Apart(r) /\ thread[r][1] = "begin" /\ thread'[r][1] # "begin"
      BY <1>1, <1>4, LimitsTyped DEF Begin, Goes, Controller, ApartInv, AgentTypes, Indices
    <3> QED
      BY <2>1, <2>2, <3>1, <3>2 DEF Controller, ApartInv, Apart, ThreadsGoOn
  <2> QED
    BY <1>0, <2>2, <2>6, <2>7, <2>8 DEF Controller
<1> QED
  BY <1>3, <1>4 DEF Begin

LEMMA AskStep ==
    ASSUME Controller, NEW r \in Runs, NEW i \in Indices, Ask(r, i) \/ Withdraw(r, i)
    PROVE  Controller' /\ [Next]_store
<1>1. <<r, i>> \in Handles
  BY DEF Handles
<1>2. WorkerOK' /\ UNCHANGED worker
  BY <1>1, SendOK DEF Controller, Ask, Withdraw, Send
<1>3. \E pc \in Places \ {"begin"} : Goes(r, i, pc)
  BY DEF Ask, Withdraw, Places
<1>4. UNCHANGED <<active, relay, told, returned, faults>> /\ UNCHANGED store
  BY DEF Ask, Withdraw
<1>5. AgentTypes' /\ ThreadsGoOn
  BY <1>3, <1>4, ThreadTyped DEF Controller, AgentTypes
<1>6. Mild
  BY <1>4, SameStoreIsMild DEF Controller
<1> QED
  BY <1>2, <1>4, <1>5, <1>6, ThreadMoves DEF EntryStays, Mild

LEMMA GivenUpStep ==
    ASSUME Controller, NEW r \in Runs, NEW i \in Indices, Refused(r, i) \/ Abandon(r, i)
    PROVE  Controller' /\ [Next]_store
<1>1. active' = Removed(r, i) /\ Report(r, i) /\ Goes(r, i, "done") /\ UNCHANGED <<relay, faults>>
      /\ UNCHANGED worker_vars
  BY DEF Refused, Abandon
<1>2. WorkerOK' /\ UNCHANGED worker
  BY <1>1, SameWorkerOK DEF Controller, worker_vars
<1>3. Mild
  BY EndStepMild, EndRunMild DEF Refused, Abandon, Controller
<1>4. active' \in [Runs -> Entries] /\ \A x \in Runs : EntryStays(x)
  BY <1>1, RemovedTyped DEF Controller
<1>5. AgentTypes' /\ ThreadsGoOn
  BY <1>1, <1>4, ReportTyped, ThreadTyped DEF Controller, AgentTypes, Places
<1> QED
  BY <1>1, <1>2, <1>3, <1>4, <1>5, ThreadMoves DEF Mild

LEMMA BindAnswerStep ==
    ASSUME Controller, NEW r \in Runs, NEW i \in Indices, BindAnswer(r, i)
    PROVE  Controller' /\ [Next]_store
<1>1. UNCHANGED <<active, relay, told, returned, faults>> /\ UNCHANGED worker_vars
      /\ \E pc \in Places \ {"begin"} : Goes(r, i, pc)
  BY DEF BindAnswer, Places
<1>2. WorkerOK' /\ UNCHANGED worker
  BY <1>1, SameWorkerOK DEF Controller, worker_vars
<1>3. Mild
  BY BindMild, SameStoreIsMild DEF BindAnswer, Controller
<1>4. AgentTypes' /\ ThreadsGoOn
  BY <1>1, ThreadTyped DEF Controller, AgentTypes
<1> QED
  BY <1>1, <1>2, <1>3, <1>4, ThreadMoves DEF EntryStays, Mild

LEMMA NoteStep ==
    ASSUME Controller, NEW r \in Runs, NEW i \in Indices, Note(r, i)
    PROVE  Controller' /\ [Next]_store
<1>1. Mild /\ WorkerOK' /\ UNCHANGED worker /\ UNCHANGED <<relay, told, faults>>
  BY UntouchedFacts DEF Note
<1>2. \E pc \in Places \ {"begin"} : Goes(r, i, pc)
  BY DEF Note, Places
<1>3. returned' \in [Runs -> {"none", "ok", "error"}]
  BY ReturnsTyped DEF Note, Controller, AgentTypes
<1>4. active' \in [Runs -> Entries] /\ \A x \in Runs : EntryStays(x)
  <2>1. active \in [Runs -> Entries] /\ active[r] \in Entries /\ AgentTypes
    BY DEF Controller, AgentTypes
  <2>2. CASE IsActive(r, i)
    <3>1. active[r].step # 0 /\ active[r].public \in BOOLEAN /\ active[r].cancel \in BOOLEAN
      BY <2>1, <2>2 DEF IsActive, Entries, Indices
    <3>2. active' = [active EXCEPT ![r].current = TRUE, ![r].public = @ \/ i = 1]
      BY <2>2 DEF Note
    <3>3. active' = [active EXCEPT ![r] = [@ EXCEPT !.public = active[r].public \/ i = 1, !.current = TRUE,
                                                    !.cancel = active[r].cancel]]
      BY <2>1, <3>2 DEF Entries
    <3>4. (active[r].public \/ i = 1) \in BOOLEAN
      OBVIOUS
    <3> QED
      BY <2>1, <3>1, <3>3, <3>4, NotedTyped
  <2>3. CASE ~IsActive(r, i)
    BY <2>1, <2>3 DEF Note, EntryStays
  <2> QED
    BY <2>2, <2>3
<1>5. AgentTypes' /\ ThreadsGoOn
  BY <1>1, <1>2, <1>3, <1>4, ThreadTyped DEF Controller, AgentTypes
<1> QED
  BY <1>1, <1>4, <1>5, ThreadMoves DEF Mild

-----------------------------------------------------------------------------
(* The worker and the native request *)

LEMMA CommandTaken ==
    ASSUME Controller, WorkerOK', UNCHANGED <<active, relay, told, returned,
           faults>> /\ UNCHANGED store,
           UNCHANGED thread \/ \E r, i : \E pc \in Places \ {"begin"} : Goes(r, i, pc),
           worker \in {"recv", "poll", "drain", "acked"} \/ UNCHANGED worker
    PROVE  Controller' /\ [Next]_store
<1>1. AgentTypes' /\ ThreadsGoOn
  BY GoesTyped DEF Controller, AgentTypes, ThreadsGoOn
<1>2. Mild
  BY SameStoreIsMild DEF Controller
<1>3. worker' = worker \/ relay.pc = "idle"
  BY DEF Controller, AgentOK
<1> QED
  BY <1>1, <1>2, <1>3, ThreadMoves DEF EntryStays, Mild

LEMMA WorkerStepOK ==
    ASSUME Controller, WorkerStep \/ NativeStep
    PROVE  Controller' /\ [Next]_store
<1>0. WorkerOK
  BY DEF Controller
<1>1. CASE \E valid \in BOOLEAN : AnswerSubmit(valid)
  <2>1. PICK valid \in BOOLEAN : AnswerSubmit(valid)
    BY <1>1
  <2>2. WorkerOK' /\ worker = "recv"
    BY <1>0, <2>1, HandleSubmitOK DEF AnswerSubmit, HandleSubmit, Receives
  <2> QED
    BY <2>1, <2>2, CommandTaken DEF AnswerSubmit, Places
<1>2. CASE AnswerWithdraw
  <2>1. WorkerOK' /\ worker = "recv"
    BY <1>0, <1>2, HandleCancelOK DEF AnswerWithdraw, HandleCancel, Receives
  <2> QED
    BY <1>2, <2>1, CommandTaken DEF AnswerWithdraw, Places
<1>3. CASE ((\E op \in Unloads : HandleModel(op)) \/ Poll \/ Drain \/ Finish)
           /\ UNCHANGED agent /\ UNCHANGED store
  <2>1. WorkerOK' /\ worker \in {"recv", "poll", "drain", "acked"}
    BY <1>0, <1>3, HandleModelOK, WorkerAloneOK DEF HandleModel, Receives, Poll, Drain, Finish
  <2> QED
    BY <1>3, <2>1, CommandTaken DEF agent
<1>4. CASE NativeStep
  <2>1. WorkerOK' /\ UNCHANGED worker
    BY <1>0, <1>4, NativeEndsOK DEF NativeStep, NativeEnds
  <2> QED
    BY <1>4, <2>1, CommandTaken DEF NativeStep, agent
<1> QED
  BY <1>1, <1>2, <1>3, <1>4 DEF WorkerStep

LEMMA AnswerCancelStep ==
    ASSUME Controller, NEW op \in {"cancel", "late cancel"}, AnswerCancel(op)
    PROVE  Controller' /\ [Next]_store
<1>1. WorkerOK' /\ worker = "recv"
  BY HandleCancelOK DEF Controller, AnswerCancel, HandleCancel, Receives
<1> QED
  BY <1>1, CommandTaken DEF AnswerCancel, agent

-----------------------------------------------------------------------------
(* The relay *)

LEMMA RouteQueuedStep ==
    ASSUME Controller, RouteQueued
    PROVE  Controller' /\ [Next]_store
<1> DEFINE r == Current[1]
           i == Current[2]
<1>1. WorkerOK /\ request.handle \in Handles
  BY DEF Controller, RouteQueued, WorkerOK
<1>2. r \in Runs /\ i \in Indices
  BY <1>1 DEF Current, Handles
<1>3. /\ \E ok \in BOOLEAN : RelayRegular(ok)
      /\ active' = IF IsActive(r, i) THEN [active EXCEPT ![r].public = TRUE, ![r].current = TRUE] ELSE active
      /\ faults' \in 0 .. MaxFaults /\ UNCHANGED <<thread, relay, told, returned>> /\ UNCHANGED store
  BY FaultTyped DEF RouteQueued, Controller, AgentTypes
<1>4. WorkerOK' /\ UNCHANGED worker
  BY <1>1, <1>3, RelayedOK DEF RelayRegular
<1> HIDE DEF r, i
<1>5. active' \in [Runs -> Entries] /\ \A x \in Runs : EntryStays(x)
  <2>1. active \in [Runs -> Entries] /\ active[r] \in Entries /\ AgentTypes
    BY <1>2 DEF Controller, AgentTypes
  <2>2. CASE IsActive(r, i)
    <3>1. active[r].step # 0 /\ active[r].cancel \in BOOLEAN
      BY <1>2, <2>1, <2>2 DEF IsActive, Entries, Indices
    <3>2. active' = [active EXCEPT ![r] = [@ EXCEPT !.public = TRUE, !.current = TRUE, !.cancel = active[r].cancel]]
      BY <1>3, <2>1, <2>2 DEF Entries
    <3> QED
      BY <1>2, <2>1, <3>1, <3>2, NotedTyped
  <2>3. CASE ~IsActive(r, i)
    BY <1>3, <2>1, <2>3 DEF EntryStays
  <2> QED
    BY <2>2, <2>3
<1>6. AgentTypes' /\ ThreadsGoOn
  BY <1>3, <1>5 DEF Controller, AgentTypes, ThreadsGoOn
<1>7. Mild
  BY <1>3, SameStoreIsMild DEF Controller
<1> QED
  BY <1>3, <1>4, <1>5, <1>6, <1>7, ThreadMoves DEF Mild

LEMMA RelayTyped ==
    ASSUME AgentTypes, NEW pc \in RelayPlaces, NEW h \in Handles, NEW e \in Entries,
           NEW k \in {"none", "done", "cancelled", "error"},
           relay' = [pc |-> pc, run |-> h, entry |-> e, kind |-> k],
           active' \in [Runs -> Entries], UNCHANGED <<thread, told, returned>>, faults' \in 0 .. MaxFaults
    PROVE  AgentTypes'
BY DEF AgentTypes

LEMMA RouteTerminalStep ==
    ASSUME Controller, RouteTerminal
    PROVE  Controller' /\ [Next]_store
<1> DEFINE r == Current[1]
           i == Current[2]
           run == active[r]
<1>1. WorkerOK /\ request.handle \in Handles /\ worker = "ack" /\ request.outcome # "none"
      /\ request.outcome \in {"none", "done", "cancelled", "error"}
  BY WorkerTypes DEF Controller, RouteTerminal, TerminalDue, WorkerOK, Terminal, Request
<1>2. r \in Runs /\ i \in Indices /\ Current \in Handles /\ Current[1] = r
  BY <1>1 DEF Current, Handles
<1>3. UNCHANGED <<thread, told, returned, faults>> /\ UNCHANGED store /\ relay.pc = "idle"
  BY DEF RouteTerminal
<1>4. Mild
  BY <1>3, SameStoreIsMild DEF Controller
<1>5. CASE ~IsActive(r, i)
  <2>1. Acknowledge(TRUE) /\ UNCHANGED <<active, relay>>
    BY <1>5 DEF RouteTerminal
  <2>2. WorkerOK'
    BY <1>1, <2>1, RelayedOK
  <2>3. AgentTypes' /\ ThreadsGoOn
    BY <1>3, <2>1 DEF Controller, AgentTypes, ThreadsGoOn
  <2> QED
    BY <1>3, <1>4, <2>1, <2>2, <2>3, ThreadMoves DEF EntryStays, Mild
<1>6. CASE IsActive(r, i)
  <2>1. /\ active' = [active EXCEPT ![r] = NoEntry] /\ UNCHANGED worker_vars
        /\ \E pc \in {"end", "final", "call", "repair"}, e \in {run, [run EXCEPT !.repaired = TRUE]},
              k \in {"none", "done", "error", request.outcome} :
              /\ relay' = [pc |-> pc, run |-> Current, entry |-> e, kind |-> k]
              /\ pc \in {"end", "final"} => k # "none"
    BY <1>1, <1>6 DEF RouteTerminal
  <2>2. active \in [Runs -> Entries] /\ run \in Entries /\ run.step # 0 /\ AgentTypes
    BY <1>2, <1>6 DEF Controller, AgentTypes, IsActive, Indices
  <2> HIDE DEF r, i
  <2>3. [run EXCEPT !.repaired = TRUE] \in Entries
        /\ SameCount([run EXCEPT !.repaired = TRUE], run) /\ [run EXCEPT !.repaired = TRUE].step = run.step
    BY <2>2 DEF Entries, SameCount
  <2>4. PICK pc \in {"end", "final", "call", "repair"}, e \in {run, [run EXCEPT !.repaired = TRUE]},
              k \in {"none", "done", "error", request.outcome} :
              /\ relay' = [pc |-> pc, run |-> Current, entry |-> e, kind |-> k]
              /\ pc \in {"end", "final"} => k # "none"
    BY <2>1
  <2>5. e \in Entries /\ SameCount(e, active[r]) /\ e.step # 0
    BY <2>2, <2>3 DEF SameCount
  <2>6. active' \in [Runs -> Entries] /\ active'[r] = NoEntry /\ \A x \in Runs \ {r} : active'[x] = active[x]
    BY <1>2, <2>1, <2>2, StartEntries
  <2>7. AgentTypes'
    <3>1. faults' \in 0 .. MaxFaults
      BY <1>3, <2>2 DEF AgentTypes
    <3>2. pc \in RelayPlaces /\ k \in {"none", "done", "cancelled", "error"}
      BY <1>1 DEF RelayPlaces
    <3> QED
      BY <1>2, <1>3, <2>2, <2>4, <2>5, <2>6, <3>1, <3>2, RelayTyped
  <2>8. WorkerOK' /\ worker' = "ack"
    BY <1>1, <2>1, SameWorkerOK DEF worker_vars
  <2>9. /\ relay'.pc = pc /\ relay'.entry = e /\ relay'.kind = k /\ relay'.run = Current
    BY <2>4
  <2>10. ASSUME NEW x \in Runs
         PROVE  Moves(x) /\ (active'[x].public => active'[x].step # 0)
    <3>0. RunRows(x) /\ (active[x].public => active[x].step # 0) /\ (x # r => ~OnRelay(x)')
      BY <1>2, <2>9 DEF Controller, RowsInv, AgentOK, OnRelay
    <3>1. CASE x = r
      BY <2>2, <2>5, <2>6, <2>9, <3>0, <3>1, StartEntries DEF Moves, Known, RunRows
    <3>2. CASE x # r
      BY <2>6, <3>0, <3>2 DEF Moves, Known, RunRows, SameCount
    <3> QED
      BY <3>1, <3>2
  <2>11. StoreInv' /\ RowsInv'
    BY <1>4, <2>7, <2>10, RowsStep
  <2>12. AgentOK'
    BY <1>2, <2>4, <2>5, <2>8, <2>9, <2>10 DEF AgentOK
  <2>13. ApartInv'
    <3>1. ASSUME NEW x \in Runs PROVE Apart(x)'
      <4>1. Apart(x) /\ (x # r => ~OnRelay(x)') /\ thread'[x][1] = thread[x][1]
        BY <1>2, <1>3, <2>9 DEF Controller, ApartInv, OnRelay
      <4> QED
        BY <2>2, <2>6, <4>1, StartEntries DEF Apart
    <3> QED
      BY <3>1 DEF ApartInv
  <2> QED
    BY <1>4, <2>7, <2>8, <2>11, <2>12, <2>13 DEF Controller, Mild
<1> QED
  BY <1>5, <1>6

\* The relay goes on with the run it has.
LEMMA RelayMoves ==
    ASSUME Controller, relay.pc # "idle", NEW r, r = relay.run[1], UNCHANGED <<active, thread,
           told, returned>>, UNCHANGED worker_vars,
           NEW pc \in RelayPlaces \ {"idle"}, NEW e \in Entries, NEW k \in {"none", "done", "cancelled", "error"},
           At(pc, e, k), faults' \in 0 .. MaxFaults, e.step # 0, pc \in {"end", "final", "tell"} => k # "none"
    PROVE  /\ WorkerOK' /\ AgentTypes' /\ AgentOK'
           /\ OnRelay(r) /\ r \in Runs /\ RunRows(r)
           /\ OnRelay(r)' /\ relay'.pc = pc /\ relay'.entry = e /\ ApartInv' /\ active[r].step = 0
           /\ \A x \in Runs \ {r} : Moves(x)
<1>1. relay.run \in Handles /\ r \in Runs /\ worker = "ack" /\ WorkerOK /\ AgentTypes
  BY DEF Controller, AgentOK, Handles
<1>2. /\ relay' = [pc |-> pc, run |-> relay.run, entry |-> e, kind |-> k]
      /\ relay'.pc = pc /\ relay'.entry = e /\ relay'.kind = k /\ relay'.run = relay.run
  BY DEF At
<1>3. WorkerOK' /\ worker' = "ack"
  BY <1>1, SameWorkerOK DEF worker_vars
<1>4. AgentTypes'
  <2>1. active' \in [Runs -> Entries]
    BY <1>1 DEF AgentTypes
  <2> QED
    BY <1>1, <1>2, <2>1, RelayTyped
<1>5. AgentOK'
  BY <1>1, <1>2, <1>3 DEF Controller, AgentOK
<1>6. OnRelay(r) /\ RunRows(r)
  BY <1>1 DEF OnRelay, Controller, RowsInv
<1>7. OnRelay(r)'
  BY <1>2 DEF OnRelay
<1>8. ASSUME NEW x \in Runs \ {r} PROVE Moves(x)
  <2>1. ~OnRelay(x)' /\ RunRows(x)
    BY <1>2 DEF OnRelay, Controller, RowsInv
  <2> QED
    BY <2>1 DEF Moves, Known, RunRows, SameCount
<1>9. ApartInv' /\ active[r].step = 0
  <2>1. \A x \in Runs : OnRelay(x)' => OnRelay(x)
    BY <1>2 DEF OnRelay
  <2> QED
    BY <1>1, <1>6, <2>1 DEF Controller, ApartInv, Apart
<1> QED
  BY <1>1, <1>2, <1>3, <1>4, <1>5, <1>6, <1>7, <1>8, <1>9

LEMMA RelayGoesOn ==
    ASSUME Controller, relay.pc # "idle", NEW r, r = relay.run[1], UNCHANGED <<active, thread,
           told, returned>>, UNCHANGED worker_vars,
           NEW pc \in RelayPlaces \ {"idle"}, NEW e \in Entries, NEW k \in {"none", "done", "cancelled", "error"},
           At(pc, e, k), faults' \in 0 .. MaxFaults, e.step # 0, pc \in {"end", "final", "tell"} => k # "none",
           pc \in Going => relay.pc \in Going /\ SameCount(e, relay.entry),
           pc \in {"tool", "follow"} => Settled(r)', Mild
    PROVE  Controller' /\ [Next]_store
<1>1. /\ WorkerOK' /\ AgentTypes' /\ AgentOK'
      /\ OnRelay(r) /\ r \in Runs /\ RunRows(r)
      /\ OnRelay(r)' /\ relay'.pc = pc /\ relay'.entry = e /\ ApartInv'
      /\ \A x \in Runs \ {r} : Moves(x)
  BY RelayMoves
<1>2. Moves(r)
  BY <1>1 DEF Moves, Known, RunRows, SameCount
<1>3. StoreInv' /\ RowsInv'
  BY <1>1, <1>2, RowsStep
<1> QED
  BY <1>1, <1>3 DEF Controller, Mild

LEMMA RelayEntry ==
    ASSUME Controller, relay.pc # "idle"
    PROVE  /\ relay.entry \in Entries /\ relay.entry.step # 0
           /\ relay.kind \in {"none", "done", "cancelled", "error"}
           /\ relay.pc \in {"end", "final", "tell"} => relay.kind # "none"
           /\ relay.run[1] \in Runs /\ faults \in 0 .. MaxFaults /\ StoreInv
           /\ OnRelay(relay.run[1]) /\ RunRows(relay.run[1])
BY DEF Controller, AgentTypes, AgentOK, Handles, OnRelay, RowsInv

\* RelayEnd and RelayFinal store the outcome, RelayFail gives the run up.
LEMMA RelayEndsStep ==
    ASSUME Controller, relay.pc # "idle", NEW r, r = relay.run[1], NEW i,
           RelayEnd(r, i) \/ RelayFinal(r, i) \/ RelayFail(r), UNCHANGED worker_vars
    PROVE  Controller' /\ [Next]_store
<1>0. /\ relay.entry \in Entries /\ relay.entry.step # 0
      /\ relay.kind \in {"none", "done", "cancelled", "error"}
      /\ relay.pc \in {"end", "final", "tell"} => relay.kind # "none"
      /\ r \in Runs /\ faults \in 0 .. MaxFaults /\ StoreInv
  BY RelayEntry
<1>1. Mild
  <2>1. CASE RelayEnd(r, i)
    <3>1. StatusOf(relay.kind) \in {"complete", "cancelled", "error"}
      BY <1>0, <2>1 DEF RelayEnd, StatusOf
    <3> QED
      BY <1>0, <2>1, <3>1, EndStepMild DEF RelayEnd
  <2>2. CASE RelayFinal(r, i)
    BY <1>0, <2>2, FinalMild, SameStoreIsMild DEF RelayFinal
  <2>3. CASE RelayFail(r)
    BY <1>0, <2>3, EndRunMild DEF RelayFail
  <2> QED
    BY <2>1, <2>2, <2>3
<1>2. /\ UNCHANGED <<active, thread, told, returned>> /\ UNCHANGED faults
      /\ \E k \in {"done", "cancelled", "error"} : At("tell", relay.entry, k)
  BY <1>0 DEF RelayEnd, RelayFinal, RelayFail, TellIf, Stay
<1>3. PICK k \in {"done", "cancelled", "error"} : At("tell", relay.entry, k)
  BY <1>2
<1>4. "tell" \in RelayPlaces \ {"idle"} /\ "tell" \notin Going
  BY DEF RelayPlaces, Going
<1> QED
  BY <1>0, <1>1, <1>2, <1>3, <1>4, RelayGoesOn

\* A check between two steps fails.
LEMMA FailBetweenStep ==
    ASSUME Controller, relay.pc # "idle", FailBetween, Stay, UNCHANGED store, UNCHANGED worker_vars,
           faults' \in 0 .. MaxFaults
    PROVE  Controller' /\ [Next]_store
<1>1. "fail" \in RelayPlaces \ {"idle"} /\ "fail" \notin Going
  BY DEF RelayPlaces, Going
<1>2. Mild
  BY SameStoreIsMild DEF Controller
<1> QED
  BY <1>1, <1>2, RelayEntry, RelayGoesOn DEF FailBetween, Stay

LEMMA RelayCompleteStep ==
    ASSUME Controller, relay.pc # "idle", NEW r, r = relay.run[1], NEW i, RelayComplete(r, i),
           UNCHANGED worker_vars
    PROVE  Controller' /\ [Next]_store
<1>0. /\ relay.entry \in Entries /\ relay.entry.step # 0 /\ r \in Runs /\ faults \in 0 .. MaxFaults /\ StoreInv
  BY RelayEntry
<1>1. CASE FailBetween /\ UNCHANGED store
  BY <1>0, <1>1, FailBetweenStep DEF RelayComplete
<1>2. CASE CompleteModelStep(r, i) /\ (\E pc \in {"tool", "follow"} : At(pc, relay.entry, "none"))
  <2>1. PICK pc \in {"tool", "follow"} : At(pc, relay.entry, "none")
    BY <1>2
  <2>2. Mild /\ Settled(r)'
    BY <1>0, <1>2, CompleteMild
  <2>3. /\ pc \in RelayPlaces \ {"idle"} /\ pc \in Going /\ relay.pc \in Going /\ pc \notin {"end", "final", "tell"}
        /\ SameCount(relay.entry, relay.entry) /\ UNCHANGED <<active, thread, told, returned>> /\ UNCHANGED faults
    BY DEF RelayPlaces, Going, RelayComplete, SameCount, Stay
  <2> QED
    BY <1>0, <2>1, <2>2, <2>3, RelayGoesOn
<1> QED
  BY <1>1, <1>2 DEF RelayComplete

LEMMA RelayTellStep ==
    ASSUME Controller, relay.pc # "idle", NEW r, r = relay.run[1], RelayTell(r)
    PROVE  Controller' /\ [Next]_store
<1>0. /\ relay.kind \in {"done", "cancelled", "error"} /\ r \in Runs /\ StoreInv /\ WorkerOK
      /\ AgentTypes /\ worker = "ack"
  BY RelayEntry DEF RelayTell, Controller, AgentOK
<1>1. relay' = Unoccupied /\ relay'.pc = "idle" /\ UNCHANGED <<active, thread, returned, faults>>
  BY DEF RelayTell, Idle, Unoccupied
<1>2. WorkerOK'
  BY <1>0, RelayedOK DEF RelayTell
<1>3. AgentTypes'
  <2>1. told' \in [Runs -> Seq({"done", "cancelled", "error"})]
    BY <1>0, TellTyped DEF RelayTell
  <2>2. Unoccupied \in [pc : RelayPlaces, run : Handles \union {NoHandle}, entry : Entries,
                        kind : {"none", "done", "cancelled", "error"}]
    BY StartEntries DEF Unoccupied, RelayPlaces
  <2> QED
    BY <1>0, <1>1, <2>1, <2>2 DEF AgentTypes
<1>4. Mild
  BY <1>0, SameStoreIsMild DEF RelayTell
<1>5. ASSUME NEW x \in Runs PROVE Moves(x)
  <2>1. ~OnRelay(x)' /\ RunRows(x)
    BY <1>1 DEF OnRelay, Controller, RowsInv
  <2> QED
    BY <1>1, <2>1 DEF Moves, Known, RunRows, SameCount
<1>6. StoreInv' /\ RowsInv'
  BY <1>3, <1>4, <1>5, RowsStep
<1>7. AgentOK'
  BY <1>1 DEF Controller, AgentOK
<1>8. ApartInv'
  BY <1>1 DEF Controller, ApartInv, Apart, OnRelay
<1> QED
  BY <1>2, <1>3, <1>4, <1>6, <1>7, <1>8 DEF Controller, Mild

LEMMA RelayStartStep ==
    ASSUME Controller, relay.pc # "idle", NEW r, r = relay.run[1], RelayStart(r)
    PROVE  Controller' /\ [Next]_store
<1>0. /\ relay.entry \in Entries /\ relay.entry.step # 0 /\ r \in Runs /\ StoreInv /\ WorkerOK
      /\ AgentTypes /\ worker = "ack" /\ OnRelay(r) /\ relay.pc \in Going /\ RunRows(r)
  BY RelayEntry DEF RelayStart, Controller, AgentOK, Going
<1>1. /\ relay' = Unoccupied /\ relay'.pc = "idle" /\ UNCHANGED <<told, returned>> /\ UNCHANGED store
      /\ \E ok \in BOOLEAN : Acknowledge(ok)
      /\ active' = [active EXCEPT ![r] = relay.entry] \/ UNCHANGED active
      /\ (\E i : Goes(r, i, "ask")) \/ UNCHANGED thread
      /\ faults' \in 0 .. MaxFaults
  BY <1>0, FaultTyped DEF RelayStart, Idle, Unoccupied, AgentTypes
<1>2. WorkerOK'
  BY <1>0, <1>1, RelayedOK
<1>3. AgentTypes'
  <2>1. active' \in [Runs -> Entries]
    BY <1>0, <1>1 DEF AgentTypes
  <2>2. Unoccupied \in [pc : RelayPlaces, run : Handles \union {NoHandle}, entry : Entries,
                        kind : {"none", "done", "cancelled", "error"}]
    BY StartEntries DEF Unoccupied, RelayPlaces
  <2>3. thread' \in [Runs -> [Indices -> Places]]
    <3>1. "ask" \in Places \ {"begin"}
      BY DEF Places
    <3> QED
      BY <1>0, <1>1, <3>1, GoesTyped DEF AgentTypes
  <2> QED
    BY <1>0, <1>1, <2>1, <2>2, <2>3 DEF AgentTypes
<1>4. Mild
  BY <1>0, <1>1, SameStoreIsMild
<1>5. ASSUME NEW x \in Runs
      PROVE  Moves(x) /\ (active'[x].public => active'[x].step # 0)
  <2>1. ~OnRelay(x)' /\ RunRows(x) /\ (active[x].public => active[x].step # 0) /\ active \in [Runs -> Entries]
    BY <1>0, <1>1 DEF OnRelay, Controller, RowsInv, AgentOK, AgentTypes
  <2>2. CASE active'[x] = active[x]
    BY <1>1, <2>1, <2>2 DEF Moves, Known, RunRows, SameCount
  <2>3. CASE x = r /\ active'[x] = relay.entry
    BY <1>0, <1>1, <2>1, <2>3 DEF Moves, Known, RunRows, SameCount
  <2> QED
    BY <1>1, <2>1, <2>2, <2>3
<1>6. StoreInv' /\ RowsInv'
  BY <1>3, <1>4, <1>5, RowsStep
<1>7. AgentOK'
  BY <1>1, <1>5 DEF AgentOK
<1>8. ApartInv'
  <2>1. ThreadsGoOn
    <3>1. "ask" \in Places \ {"begin"}
      BY DEF Places
    <3> QED
      BY <1>0, <1>1, <3>1, GoesTyped DEF ThreadsGoOn
  <2>2. ASSUME NEW x \in Runs PROVE Apart(x)'
    <3>1. ~OnRelay(x)' /\ Apart(x) /\ active \in [Runs -> Entries]
      BY <1>0, <1>1 DEF OnRelay, Controller, ApartInv, AgentTypes
    <3>2. CASE x = r
      BY <1>0, <2>1, <3>1, <3>2 DEF Apart, ThreadsGoOn
    <3>3. CASE x # r
      BY <1>1, <2>1, <3>1, <3>3 DEF Apart, ThreadsGoOn
    <3> QED
      BY <3>2, <3>3
  <2> QED
    BY <2>2 DEF ApartInv
<1> QED
  BY <1>2, <1>3, <1>4, <1>6, <1>7, <1>8 DEF Controller, Mild

\* What a tool's run adds to the entry.
Called(e, a) == [e EXCEPT !.calls = @ + 1, !.repeats[a] = @ + 1]
Counted(e, a, x) == [Called(e, a) EXCEPT !.progress = 0, !.seen = @ \union {<<a, x>>}]
LEMMA ToolEntries ==
    ASSUME NEW e \in Entries, NEW a \in Actions, e.calls < MaxTools,
           e.repeats[a] + 1 <= MaxRepeats, e.step # 0,
           NEW x \in Results
    PROVE  /\ Called(e, a) \in Entries /\ Called(e, a).step # 0 /\ Called(e, a).total = e.total
           /\ Called(e, a).progress = e.progress /\ Called(e, a).calls = e.calls + 1
           /\ Counted(e, a, x) \in Entries /\ Counted(e, a, x).step # 0 /\ Counted(e, a, x).total = e.total
           /\ Counted(e, a, x).progress = 0 /\ Counted(e, a, x).calls = e.calls + 1
<1> DEFINE called == Called(e, a)
<1>1. /\ e.calls \in 0 .. MaxTools /\ e.repeats \in [Actions -> 0 .. MaxRepeats]
      /\ e.seen \in SUBSET (Actions \X Results) /\ MaxTools \in Nat /\ MaxRepeats \in Nat /\ MaxProgress \in Nat
  BY AgentAssumption DEF Entries
<1>2. e.calls + 1 \in 0 .. MaxTools
  BY <1>1
<1>3. [e.repeats EXCEPT ![a] = @ + 1] \in [Actions -> 0 .. MaxRepeats]
  <2>1. e.repeats[a] + 1 \in 0 .. MaxRepeats
    BY <1>1
  <2> QED
    BY <1>1, <2>1
<1>4. called = [e EXCEPT !.calls = e.calls + 1, !.repeats = [e.repeats EXCEPT ![a] = @ + 1]]
  BY DEF Entries, Called
<1> HIDE DEF called
<1>5. /\ called \in Entries /\ called.step = e.step /\ called.total = e.total
      /\ called.progress = e.progress /\ called.calls = e.calls + 1 /\ called.seen = e.seen
  BY <1>2, <1>3, <1>4 DEF Entries
<1> DEFINE f == [called EXCEPT !.progress = 0, !.seen = @ \union {<<a, x>>}]
<1>6. 0 \in 0 .. MaxProgress /\ (called.seen \union {<<a, x>>}) \in SUBSET (Actions \X Results)
  BY <1>1, <1>5
<1>7. f \in Entries /\ f.step = called.step /\ f.total = called.total /\ f.progress = 0 /\ f.calls = called.calls
  BY <1>5, <1>6 DEF Entries
<1>8. f = Counted(e, a, x)
  BY DEF Counted, called
<1> QED
  BY <1>5, <1>7, <1>8 DEF called

LEMMA RelayToolStep ==
    ASSUME Controller, relay.pc # "idle", NEW r, r = relay.run[1], NEW a \in Actions, RelayTool(r, a),
           UNCHANGED worker_vars
    PROVE  Controller' /\ [Next]_store
<1> DEFINE e == relay.entry
<1>0. /\ e \in Entries /\ e.step # 0 /\ r \in Runs /\ faults \in 0 .. MaxFaults /\ StoreInv /\ AgentTypes
      /\ OnRelay(r) /\ RunRows(r) /\ relay.pc = "tool" /\ Settled(r) /\ Covers(r, e)
  BY RelayEntry DEF RelayTool, Controller, RunRows, Going
<1>1. CASE FailBetween /\ UNCHANGED store
  <2>1. faults' \in 0 .. MaxFaults
    BY <1>0, FaultTyped DEF RelayTool
  <2> QED
    BY <1>0, <1>1, <2>1, FailBetweenStep DEF RelayTool
<1>2. ASSUME NEW ok \in BOOLEAN, NEW x \in Results, NEW novel \in BOOLEAN, novel => ok,
             e.calls < MaxTools, Called(e, a).repeats[a] <= MaxRepeats, RecordToolStep(r, ok, novel),
             \/ At("follow", IF novel THEN Counted(e, a, x) ELSE Called(e, a), "none") /\ UNCHANGED faults
             \/ FailBetween /\ Fault("tool")
      PROVE  Controller' /\ [Next]_store
  <2>1. e.repeats[a] + 1 <= MaxRepeats
    BY <1>0, <1>2 DEF Entries, Called
  <2>2. /\ Called(e, a) \in Entries /\ Called(e, a).step # 0 /\ Called(e, a).total = e.total
        /\ Called(e, a).progress = e.progress /\ Called(e, a).calls = e.calls + 1
        /\ Counted(e, a, x) \in Entries /\ Counted(e, a, x).step # 0 /\ Counted(e, a, x).total = e.total
        /\ Counted(e, a, x).progress = 0 /\ Counted(e, a, x).calls = e.calls + 1
    BY <1>0, <1>2, <2>1, ToolEntries
  <2>3. PICK f \in Entries :
           /\ f = IF novel THEN Counted(e, a, x) ELSE Called(e, a)
           /\ f.step # 0 /\ f.total = e.total /\ f.calls = e.calls + 1
           /\ f.progress = IF novel THEN 0 ELSE e.progress
    BY <2>2
  <2>4. PICK t, p, n \in Nat : t = e.total /\ p = e.progress /\ n = e.calls
    BY <1>0, EntryTypes
  <2>5. /\ t <= MaxTotal /\ t <= Limits(r).total /\ p <= Limits(r).progress /\ n < MaxTools /\ Within(r, t, p, n)
        /\ Limits(r).total \in Nat /\ Limits(r).progress \in Nat /\ MaxTools \in Nat
    BY <1>0, <1>2, <2>4, EntryTypes, LimitsTyped DEF Covers
  <2>6. Room(r)
    BY <1>0, <2>5, RoomLeft, AgentAssumption
  <2>7. /\ Next /\ \A y \in Runs \ {r} : Milder(y)
        /\ UNCHANGED <<status, mode>> /\ ToolsEnded(steps'[r]) /\ Settled(r)'
        /\ Within(r, t, p, n + 1)' /\ (novel => Within(r, t, 0, n + 1)')
    BY <1>0, <1>2, <2>5, <2>6, RecordFacts DEF RunRows
  <2>8. Within(r, f.total, f.progress, f.calls)' /\ f.total = t /\ f.progress <= p /\ f.progress \in Nat
    BY <2>3, <2>4, <2>7
  <2>9. Within(r, Limits(r).total, Limits(r).progress, MaxTools)' /\ Covers(r, f)' /\ Limits(r)' = Limits(r)
    <3>1. Limits(r)' = Limits(r)
      BY <2>7 DEF Limits
    <3>2. progress'[r] \in Nat /\ tools'[r] \in Nat /\ Cardinality(ModelsIn(steps'[r])) \in Nat
      <4>1. StoreInv'
        BY <1>0, <2>7, StoreStep
      <4>2. steps'[r] \in Seq(Step) /\ progress'[r] \in Nat /\ tools'[r] \in Nat
        BY <1>0, <4>1 DEF StoreInv, StoreTypeOK
      <4> QED
        BY <4>2, ModelsFinite
    <3> QED
      BY <2>5, <2>7, <2>8, <3>1, <3>2 DEF Within, Covers
  <2>10. /\ UNCHANGED <<active, thread, told, returned>> /\ faults' \in 0 .. MaxFaults /\ status[r] = "running"
         /\ \E pc \in {"follow", "fail"}, k \in {"none", "error"} : At(pc, f, k) \/ (pc = "fail" /\ At(pc, e, k))
    BY <1>0, <1>2, <2>3, FaultTyped DEF RelayTool, Stay, FailBetween, RecordToolStep
  <2>11. PICK pc \in {"follow", "fail"}, k \in {"none", "error"}, g \in Entries :
            At(pc, g, k) /\ (pc = "follow" => g = f) /\ g.step # 0
    BY <1>0, <2>3, <2>10
  <2>12. /\ pc \in RelayPlaces \ {"idle"} /\ k \in {"none", "done", "cancelled", "error"}
         /\ pc \notin {"end", "final", "tell"}
    BY DEF RelayPlaces
  <2>13. /\ WorkerOK' /\ AgentTypes' /\ AgentOK'
         /\ OnRelay(r)' /\ relay'.pc = pc /\ relay'.entry = g /\ ApartInv' /\ active[r].step = 0
         /\ \A y \in Runs \ {r} : Moves(y)
    BY <1>0, <2>10, <2>11, <2>12, RelayMoves
  <2>14. RunRows(r)'
    <3>1. pc \in Going => Covers(r, relay.entry)'
      BY <2>9, <2>11, <2>13 DEF Covers, Within, Going
    <3>2. active'[r].step = 0 /\ status'[r] = "running"
      BY <2>7, <2>10, <2>13
    <3> QED
      BY <2>7, <2>9, <2>13, <3>1, <3>2 DEF RunRows
  <2>15. StoreInv' /\ RowsInv'
    BY <1>0, <2>7, <2>13, <2>14, OtherRowsStep
  <2> QED
    BY <2>7, <2>13, <2>15 DEF Controller
<1> QED
  <2>1. CASE FailBetween /\ UNCHANGED store
    BY <1>1, <2>1
  <2>2. ASSUME NEW ok \in BOOLEAN, NEW x \in Results,
               e.calls < MaxTools /\ Called(e, a).repeats[a] <= MaxRepeats,
               RecordToolStep(r, ok, ok /\ <<a, x>> \notin e.seen),
               \/ At("follow", IF ok /\ <<a, x>> \notin e.seen THEN Counted(e, a, x) ELSE Called(e, a), "none")
                  /\ UNCHANGED faults
               \/ FailBetween /\ Fault("tool")
        PROVE  Controller' /\ [Next]_store
    <3>1. PICK novel \in BOOLEAN : novel = (ok /\ <<a, x>> \notin e.seen)
      OBVIOUS
    <3>2. RecordToolStep(r, ok, novel)
      BY <2>2, <3>1
    <3> QED
      BY <1>2, <2>2, <3>1, <3>2
  <2> QED
    BY <2>1, <2>2 DEF RelayTool, Called, Counted

LEMMA RelayFollowStep ==
    ASSUME Controller, relay.pc # "idle", NEW r, r = relay.run[1], RelayFollow(r), UNCHANGED worker_vars
    PROVE  Controller' /\ [Next]_store
<1> DEFINE e == relay.entry
           next == [e EXCEPT !.total = @ + 1, !.progress = @ + 1, !.current = FALSE, !.step = Len(steps[r]) + 1]
<1>0. /\ e \in Entries /\ r \in Runs /\ faults \in 0 .. MaxFaults /\ StoreInv /\ AgentTypes
      /\ OnRelay(r) /\ RunRows(r) /\ relay.pc = "follow" /\ Settled(r) /\ Covers(r, e)
  BY RelayEntry DEF RelayFollow, Controller, RunRows, Going
<1>1. CASE FailBetween /\ UNCHANGED store
  BY <1>0, <1>1, FailBetweenStep DEF RelayFollow
<1>2. CASE /\ e.total < Limits(r).total /\ e.progress < Limits(r).progress /\ PrepareModelStep(r)
           /\ At("start", next, "none")
  <2>1. PICK t, p, n \in Nat : t = e.total /\ p = e.progress /\ n = e.calls
    BY <1>0, EntryTypes
  <2>2. /\ t < Limits(r).total /\ p < Limits(r).progress /\ n <= MaxTools /\ Within(r, t, p, n)
        /\ Limits(r).total \in Nat /\ Limits(r).progress \in Nat /\ MaxTools \in Nat
        /\ MaxTotal \in Nat /\ MaxProgress \in Nat
        /\ Limits(r).total <= MaxTotal /\ Limits(r).progress <= MaxProgress
    BY <1>0, <1>2, <2>1, EntryTypes, LimitsTyped DEF Covers
  <2>3. Room(r)
    BY <1>0, <2>2, RoomLeft
  <2>4. /\ Next /\ \A y \in Runs \ {r} : Milder(y)
        /\ UNCHANGED <<status, mode>> /\ ToolsEnded(steps'[r])
        /\ Within(r, t + 1, p + 1, n)'
    BY <1>0, <1>2, <2>2, <2>3, PrepareFacts DEF RunRows
  <2>5. Len(steps[r]) + 1 \in 1 .. MaxSteps /\ t + 1 \in 0 .. MaxTotal /\ p + 1 \in 0 .. MaxProgress
    <3>1. Len(steps[r]) \in Nat /\ Len(steps[r]) < MaxSteps /\ MaxSteps \in Nat
      BY <1>0, <2>3, RowTypes, StoreAssumption DEF Room
    <3>2. t + 1 \in 0 .. MaxTotal /\ p + 1 \in 0 .. MaxProgress
      BY <2>2
    <3> QED
      BY <3>1, <3>2
  <2>6. next \in Entries /\ next.step # 0 /\ next.total = t + 1 /\ next.progress = p + 1 /\ next.calls = n
    <3>1. PICK s \in 1 .. MaxSteps, u \in 0 .. MaxTotal, v \in 0 .. MaxProgress :
             s = Len(steps[r]) + 1 /\ u = t + 1 /\ v = p + 1
      BY <2>5
    <3>2. next = [e EXCEPT !.total = u, !.progress = v, !.current = FALSE, !.step = s]
      BY <1>0, <2>1, <3>1 DEF Entries
    <3>3. e \in Entries
      BY <1>0
    <3> HIDE DEF next
    <3>4. GoesOn(next, e, s, u, v)
      BY <3>1, <3>2, <3>3 DEF GoesOn
    <3>5. next \in Entries /\ next.step # 0 /\ next.total = u /\ next.progress = v /\ next.calls = e.calls
      BY <3>4, EntryGoesOn
    <3> QED
      BY <2>1, <3>1, <3>5
  <2> HIDE DEF next
  <2>7. PICK f \in Entries : f = next
    BY <2>6
  <2>8. Within(r, f.total, f.progress, f.calls)'
    BY <2>4, <2>6, <2>7
  <2>9. Within(r, Limits(r).total, Limits(r).progress, MaxTools)' /\ Covers(r, f)' /\ Limits(r)' = Limits(r)
    <3>1. Limits(r)' = Limits(r)
      BY <2>4 DEF Limits
    <3>2. progress'[r] \in Nat /\ tools'[r] \in Nat /\ Cardinality(ModelsIn(steps'[r])) \in Nat
      <4>1. StoreInv'
        BY <1>0, <2>4, StoreStep
      <4>2. steps'[r] \in Seq(Step) /\ progress'[r] \in Nat /\ tools'[r] \in Nat
        BY <1>0, <4>1 DEF StoreInv, StoreTypeOK
      <4> QED
        BY <4>2, ModelsFinite
    <3>3. f.total = t + 1 /\ f.progress = p + 1 /\ f.calls = n
      BY <2>6, <2>7
    <3> QED
      BY <2>2, <2>4, <2>8, <3>1, <3>2, <3>3 DEF Within, Covers
  <2>10. /\ UNCHANGED <<active, thread, told, returned>> /\ faults' \in 0 .. MaxFaults /\ status[r] = "running"
         /\ At("start", f, "none") /\ f.step # 0
    BY <1>0, <1>2, <2>6, <2>7 DEF RelayFollow, Stay, PrepareModelStep
  <2>11. "start" \in RelayPlaces \ {"idle"} /\ "start" \notin {"end", "final", "tell"}
    BY DEF RelayPlaces
  <2>12. /\ WorkerOK' /\ AgentTypes' /\ AgentOK'
         /\ OnRelay(r)' /\ relay'.pc = "start" /\ relay'.entry = f /\ ApartInv' /\ active[r].step = 0
         /\ \A y \in Runs \ {r} : Moves(y)
    BY <1>0, <2>10, <2>11, RelayMoves
  <2>13. RunRows(r)'
    <3>1. Covers(r, relay.entry)'
      BY <2>9, <2>12 DEF Covers, Within
    <3>2. active'[r].step = 0 /\ status'[r] = "running"
      BY <2>4, <2>10, <2>12
    <3> QED
      BY <2>4, <2>9, <2>12, <3>1, <3>2 DEF RunRows
  <2>14. StoreInv' /\ RowsInv'
    BY <1>0, <2>4, <2>12, <2>13, OtherRowsStep
  <2> QED
    BY <2>4, <2>12, <2>14 DEF Controller
<1> QED
  BY <1>1, <1>2 DEF RelayFollow

LEMMA RelayStepOK ==
    ASSUME Controller, RelayStep
    PROVE  Controller' /\ [Next]_store
<1>1. CASE RouteQueued \/ RouteTerminal
  BY <1>1, RouteQueuedStep, RouteTerminalStep
<1>2. CASE relay.pc # "idle"
           /\ LET r == relay.run[1]
                  i == relay.run[2]
              IN  \/ RelayStart(r) \/ RelayTell(r)
                  \/ /\ \/ RelayEnd(r, i) \/ RelayFinal(r, i) \/ RelayComplete(r, i)
                        \/ \E a \in Actions : RelayTool(r, a)
                        \/ RelayFollow(r) \/ RelayFail(r)
                     /\ UNCHANGED worker_vars
  BY <1>2, RelayStartStep, RelayTellStep, RelayEndsStep, RelayCompleteStep, RelayToolStep,
  RelayFollowStep
<1> QED
  BY <1>1, <1>2 DEF RelayStep

-----------------------------------------------------------------------------
(* The window and restarts *)

\* The window asks for the cancellation of a run it finds.
LEMMA CancelStep ==
    ASSUME Controller, NEW r \in Runs, NEW op \in {"cancel", "late cancel"}, Cancel(r, op)
    PROVE  Controller' /\ [Next]_store
<1>1. active \in [Runs -> Entries] /\ active[r] \in Entries /\ AgentTypes /\ active[r].step # 0
      /\ active[r].step \in 0 .. MaxSteps
  BY EntryTypes DEF Controller, AgentTypes, AgentOK, Cancel, Findable
<1>2. /\ UNCHANGED <<thread, relay, told, returned, faults>> /\ UNCHANGED store
      /\ active' = [active EXCEPT ![r].cancel = TRUE]
      /\ Send(op, <<r, active[r].step>>) \/ UNCHANGED worker_vars
  BY DEF Cancel
<1>3. <<r, active[r].step>> \in Handles
  <2>1. active[r].step \in Indices
    BY <1>1, IndexTyped
  <2> QED
    BY <2>1 DEF Handles
<1>4. WorkerOK' /\ UNCHANGED worker
  BY <1>2, <1>3, SendOK, SameWorkerOK DEF Controller, Send, worker_vars
<1>5. active' \in [Runs -> Entries] /\ \A x \in Runs : EntryStays(x)
  <2>1. active[r].public \in BOOLEAN /\ active[r].current \in BOOLEAN
    BY <1>1 DEF Entries
  <2>2. active' = [active EXCEPT ![r] = [@ EXCEPT !.public = active[r].public, !.current = active[r].current,
                                                  !.cancel = TRUE]]
    BY <1>1, <1>2 DEF Entries
  <2> QED
    BY <1>1, <2>1, <2>2, NotedTyped
<1>6. AgentTypes' /\ ThreadsGoOn
  BY <1>1, <1>2, <1>5 DEF AgentTypes, ThreadsGoOn
<1>7. Mild
  BY <1>2, SameStoreIsMild DEF Controller
<1> QED
  BY <1>2, <1>4, <1>5, <1>6, <1>7, ThreadMoves DEF Mild

\* The window and the store, apart from the controller.
LEMMA OutsideStep ==
    ASSUME Controller, UNCHANGED agent, Mild, WorkerOK', UNCHANGED worker
    PROVE  Controller' /\ [Next]_store
<1>1. AgentTypes' /\ ThreadsGoOn /\ UNCHANGED relay /\ \A x \in Runs : EntryStays(x)
  BY DEF Controller, AgentTypes, ThreadsGoOn, agent, EntryStays
<1> QED
  BY <1>1, ThreadMoves DEF Mild

LEMMA StartsTurnStep ==
    ASSUME Controller, NEW c \in Conversations, NEW m \in Modes, NEW r \in Runs, StartsTurn(c, m, r)
    PROVE  Controller' /\ [Next]_store
<1>0. WorkerOK /\ StoreInv /\ AgentTypes /\ RunRows(r) /\ AgentOK /\ ApartInv
  BY DEF Controller, RowsInv
<1>1. /\ Next /\ \A x \in Runs \ {r} : Milder(x)
      /\ status[r] = "none" /\ status'[r] = "prepared" /\ steps'[r] = <<ModelStep>>
      /\ ToolsEnded(steps'[r]) /\ Within(r, 1, 1, 0)'
  BY <1>0, StartFacts DEF StartsTurn
<1>2. UNCHANGED <<active, relay, told, returned, faults>> /\ UNCHANGED worker_vars /\ Goes(r, 1, "begin")
  BY DEF StartsTurn
<1>3. WorkerOK' /\ UNCHANGED worker
  BY <1>0, <1>2, SameWorkerOK DEF worker_vars
<1>4. thread' \in [Runs -> [Indices -> Places]] /\ \A x \in Runs \ {r} : thread'[x] = thread[x]
  BY <1>0, <1>2 DEF AgentTypes, Goes, Places
<1>5. AgentTypes'
  BY <1>0, <1>2, <1>4 DEF AgentTypes
<1>6. active[r].step = 0 /\ ~OnRelay(r)
  BY <1>0, <1>1 DEF RunRows
<1>7. RunRows(r)'
  <2>1. Within(r, Limits(r).total, Limits(r).progress, MaxTools)'
    <3>1. StoreInv'
      BY <1>0, <1>1, StoreStep
    <3>2. steps'[r] \in Seq(Step) /\ progress'[r] \in Nat /\ tools'[r] \in Nat
      BY <3>1 DEF StoreInv, StoreTypeOK
    <3>3. Cardinality(ModelsIn(steps'[r])) \in Nat
      BY <3>2, ModelsFinite
    <3>4. Limits(r)'.total >= 1 /\ Limits(r)'.progress >= 1 /\ MaxTools >= 0
          /\ Limits(r)'.total \in Nat /\ Limits(r)'.progress \in Nat /\ MaxTools \in Nat
      BY AgentAssumption DEF Limits
    <3> QED
      BY <1>1, <3>2, <3>3, <3>4 DEF Within
  <2>2. active'[r].step = 0 /\ ~OnRelay(r)'
    BY <1>2, <1>6 DEF OnRelay
  <2> QED
    BY <1>1, <2>1, <2>2 DEF RunRows
<1>8. ASSUME NEW x \in Runs \ {r} PROVE Milder(x) /\ Moves(x)
  BY <1>1, <1>2, EntryMoves DEF EntryStays, Milder
<1>9. StoreInv' /\ RowsInv'
  BY <1>1, <1>5, <1>7, <1>8, OtherRowsStep
<1>10. AgentOK'
  BY <1>0, <1>2, <1>3 DEF AgentOK
<1>11. ApartInv'
  <2>1. \A x \in Runs : OnRelay(x)' <=> OnRelay(x)
    BY <1>2 DEF OnRelay
  <2> QED
    BY <1>0, <1>2, <1>4, <1>6, <2>1 DEF ApartInv, Apart
<1> QED
  BY <1>1, <1>3, <1>5, <1>9, <1>10, <1>11 DEF Controller

LEMMA RestartStep ==
    ASSUME Controller, Restart
    PROVE  Controller' /\ [Next]_store
<1>0. WorkerOK /\ StoreInv /\ AgentTypes /\ faults \in 0 .. MaxFaults
  BY DEF Controller, AgentTypes
<1>1. Mild
  BY <1>0, BootstrapMild DEF Restart
<1>2. commands' \in Seq(Orders) /\ Len(commands') <= CommandCapacity
  <2>1. commands' = <<>>
    BY DEF Restart
  <2> QED
    BY <2>1, AppAssumption
<1>3. WorkerOK'
  BY <1>0, <1>2, WorkerTypes, NoRequestTyped, TypeOfWorker DEF Restart
<1>4. /\ active' = [r \in Runs |-> NoEntry] /\ thread' = [r \in Runs |-> [i \in Indices |-> "none"]]
      /\ relay' = Unoccupied /\ told' = [r \in Runs |-> <<>>] /\ returned' = [r \in Runs |-> "none"]
      /\ UNCHANGED faults
  BY DEF Restart, Idle
<1>5. AgentTypes'
  <2>1. Unoccupied \in [pc : RelayPlaces, run : Handles \union {NoHandle}, entry : Entries,
                        kind : {"none", "done", "cancelled", "error"}]
    BY StartEntries DEF Unoccupied, RelayPlaces
  <2>2. told' \in [Runs -> Seq({"done", "cancelled", "error"})]
    BY <1>4
  <2> QED
    BY <1>0, <1>4, <2>1, <2>2, StartEntries DEF AgentTypes, Places
<1>6. relay'.pc = "idle" /\ (\A x \in Runs : ~OnRelay(x)') /\ \A x \in Runs : active'[x] = NoEntry /\ thread'[x][1] # "begin"
  BY <1>4, LimitsTyped DEF Unoccupied, OnRelay, Indices
<1>7. \A x \in Runs : Moves(x)
  BY <1>6, StartEntries DEF Moves
<1>8. StoreInv' /\ RowsInv'
  BY <1>1, <1>5, <1>7, RowsStep
<1>9. AgentOK' /\ ApartInv'
  BY <1>6, StartEntries DEF AgentOK, ApartInv, Apart
<1> QED
  BY <1>1, <1>3, <1>5, <1>8, <1>9 DEF Controller, Mild

LEMMA ThreadStepOK ==
    ASSUME Controller, Threads
    PROVE  Controller' /\ [Next]_store
BY BeginStep, AskStep, GivenUpStep, BindAnswerStep, NoteStep DEF Threads, ThreadStep

LEMMA HearsStep ==
    ASSUME Controller, Hears
    PROVE  Controller' /\ [Next]_store
<1>1. PICK r \in Runs : HearsEnd(r) \/ HearsFailure(r) \/ StopAccepted(r)
  BY DEF Hears
<1>2. CASE HearsEnd(r) \/ HearsFailure(r)
  <2>1. \E s \in {"complete", "cancelled", "error"} : EndTurn(r, s)
    <3>1. CASE HearsFailure(r)
      BY <3>1 DEF HearsFailure
    <3>2. CASE HearsEnd(r)
      <4>1. told[r] \in Seq({"done", "cancelled", "error"}) /\ told[r] # <<>>
        BY <3>2 DEF HearsEnd, Controller, AgentTypes
      <4>2. Head(told[r]) \in {"done", "cancelled", "error"}
        BY <4>1, HeadTailProperties
      <4> QED
        BY <3>2, <4>2 DEF HearsEnd, StatusOf
    <3> QED
      BY <1>2, <3>1, <3>2
  <2>2. Mild
    BY <2>1, EndTurnMild DEF Controller
  <2>3. WorkerOK' /\ UNCHANGED worker
    BY <1>2, SameWorkerOK DEF HearsEnd, HearsFailure, Controller, worker_vars
  <2> QED
    BY <1>2, <2>2, <2>3, OutsideStep DEF HearsEnd, HearsFailure
<1>3. CASE StopAccepted(r)
  <2>1. CASE Cancel(r, "late cancel")
    BY <2>1, CancelStep
  <2>2. CASE NotFound(r)
    BY <2>2, UntouchedFacts, OutsideStep DEF NotFound
  <2> QED
    BY <1>3, <2>1, <2>2 DEF StopAccepted
<1> QED
  BY <1>1, <1>2, <1>3

LEMMA UserStep ==
    ASSUME Controller, User
    PROVE  Controller' /\ [Next]_store
<1>1. ASSUME NEW r \in Runs, Stop(r) PROVE Controller' /\ [Next]_store
  <2>1. CASE Cancel(r, "cancel")
    BY <2>1, CancelStep
  <2>2. CASE NotFound(r)
    BY <2>2, UntouchedFacts, OutsideStep DEF NotFound
  <2> QED
    BY <1>1, <2>1, <2>2 DEF Stop
<1>2. ASSUME NEW r \in Runs, StopPending(r) PROVE Controller' /\ [Next]_store
  BY <1>2, UntouchedFacts, OutsideStep DEF StopPending
<1>3. ASSUME NEW c \in Conversations, Manages(c) PROVE Controller' /\ [Next]_store
  <2>1. Mild
    BY <1>3, ManagesMild DEF Controller
  <2>2. WorkerOK' /\ UNCHANGED worker
    BY <1>3, SameWorkerOK DEF Manages, Controller, worker_vars
  <2> QED
    BY <1>3, <2>1, <2>2, OutsideStep DEF Manages
<1>4. ASSUME NEW op \in Unloads, Loads(op) PROVE Controller' /\ [Next]_store
  <2>1. WorkerOK' /\ UNCHANGED worker
    BY <1>4, CallModelOK DEF Loads, CallModel, Controller
  <2>2. Mild
    BY <1>4, SameStoreIsMild DEF Loads, Controller
  <2> QED
    BY <1>4, <2>1, <2>2, OutsideStep DEF Loads
<1> QED
  BY <1>1, <1>2, <1>3, <1>4, StartsTurnStep DEF User

LEMMA WindowTyped ==
    ASSUME WindowTypes, AppNext
    PROVE  WindowTypes'
<1>0. MaxStops \in Nat /\ MaxRestarts \in Nat
  BY AppAssumption
<1>1. CASE UNCHANGED window
  BY <1>1 DEF WindowTypes, window
<1>2. CASE Answers
  BY <1>2 DEF Answers, AnswerCancel, WindowTypes
<1>3. CASE Hears
  <2>1. PICK r \in Runs : HearsEnd(r) \/ HearsFailure(r) \/ StopAccepted(r)
    BY <1>3 DEF Hears
  <2> QED
    BY <2>1 DEF HearsEnd, HearsFailure, StopAccepted, EndTurn, NotFound, WindowTypes
<1>4. CASE User
  <2>1. ASSUME NEW r \in Runs, Stop(r) \/ StopPending(r) PROVE WindowTypes'
    BY <1>0, <2>1 DEF Stop, StopPending, Presses, NotFound, WindowTypes
  <2>2. ASSUME NEW r \in Runs, NEW c \in Conversations, NEW m \in Modes, StartsTurn(c, m, r) PROVE WindowTypes'
    BY <2>2 DEF StartsTurn, WindowTypes
  <2>3. ASSUME NEW c \in Conversations, Manages(c) PROVE WindowTypes'
    BY <2>3 DEF Manages, window, WindowTypes
  <2>4. ASSUME NEW op \in Unloads, Loads(op) PROVE WindowTypes'
    BY <2>4 DEF Loads, window, WindowTypes
  <2> QED
    BY <1>4, <2>1, <2>2, <2>3, <2>4 DEF User
<1>5. CASE Restart
  BY <1>0, <1>5 DEF Restart, WindowTypes
<1> QED
  BY <1>1, <1>2, <1>3, <1>4, <1>5 DEF AppNext

LEMMA AppStep ==
    ASSUME AppInv, [AppNext]_vars
    PROVE  AppInv' /\ [Next]_store
<1>1. CASE UNCHANGED vars
  <2>1. UNCHANGED agent /\ UNCHANGED store /\ UNCHANGED worker_vars /\ UNCHANGED window
    BY <1>1 DEF vars
  <2>2. Controller' /\ [Next]_store
    BY <2>1, UntouchedFacts, OutsideStep DEF AppInv, Untouched
  <2> QED
    BY <2>1, <2>2 DEF AppInv, WindowTypes, window
<1>2. CASE AppNext
  <2>1. Controller' /\ [Next]_store
    BY <1>2, ThreadStepOK, WorkerStepOK, RelayStepOK, AnswerCancelStep, HearsStep, UserStep, RestartStep
       DEF AppInv, AppNext, Answers
  <2> QED
    BY <1>2, <2>1, WindowTyped DEF AppInv
<1> QED
  BY <1>1, <1>2

LEMMA AppStart ==
    ASSUME AppInit
    PROVE  AppInv
<1>0. AgentInit /\ WorkerInit /\ Init
  BY DEF AppInit
<1>1. StoreInv
  BY <1>0, StoreStart
<1>2. WorkerOK
  <2>1. commands = <<>> /\ <<>> \in Seq(Orders) /\ Len(<<>>) <= CommandCapacity /\ 0 \in 0 .. MaxModelCalls
    BY <1>0, AppAssumption DEF WorkerInit
  <2>2. commands \in Seq(CommandType) /\ request \in Request /\ request.event = "none"
    BY <1>0, <2>1, OrdersAreCommands, NoRequestTyped DEF WorkerInit
  <2> QED
    BY <1>0, <2>1, <2>2 DEF WorkerInit, WorkerOK, WorkerTypeOK, Request, CommandType
<1>3. AgentTypes
  <2>1. Unoccupied \in [pc : RelayPlaces, run : Handles \union {NoHandle}, entry : Entries,
                        kind : {"none", "done", "cancelled", "error"}]
    BY StartEntries DEF Unoccupied, RelayPlaces
  <2> QED
    BY <1>0, <2>1, StartEntries, AgentAssumption DEF AgentInit, AgentTypes, Places
<1>4. relay.pc = "idle" /\ (\A x \in Runs : ~OnRelay(x)) /\ \A x \in Runs : active[x] = NoEntry /\ thread[x][1] # "begin"
  BY <1>0, LimitsTyped DEF AgentInit, Unoccupied, OnRelay, Indices
<1>5. AgentOK /\ ApartInv
  BY <1>4, StartEntries DEF AgentOK, ApartInv, Apart
<1>6. ASSUME NEW r \in Runs PROVE RunRows(r)
  <2>1. steps[r] = <<>> /\ DOMAIN steps[r] = {} /\ progress[r] = 0 /\ tools[r] = 0
    BY <1>0 DEF Init
  <2>2. ModelsIn(steps[r]) = {} /\ ~Waits(steps[r]) /\ ToolsEnded(steps[r])
    BY <2>1 DEF ModelsIn, Waits, ToolsEnded
  <2>3. Cardinality(ModelsIn(steps[r])) = 0
    BY <2>2, FS_EmptySet
  <2> QED
    BY <1>4, <2>1, <2>2, <2>3, LimitsTyped, StartEntries DEF RunRows, Within
<1>7. WindowTypes
  BY AppAssumption DEF AppInit, WindowTypes
<1> QED
  BY <1>1, <1>2, <1>3, <1>5, <1>6, <1>7 DEF AppInv, Controller, RowsInv

-----------------------------------------------------------------------------
(* Theorems *)

\* What every step of the threads, the relay, the worker, the window and a
\* restart keeps: an entry of the controller covers the rows of its run wherever
\* it is, in the table or on the relay (agent_loop.rs, llm_worker.rs).
THEOREM AppInvariant == AppSpec => []AppInv
<1>1. AppInit => AppInv
  BY AppStart
<1>2. AppInv /\ [AppNext]_vars => AppInv'
  BY AppStep
<1> QED
  BY <1>1, <1>2, PTL DEF AppSpec

\* The variables of the application keep their types.
THEOREM AppTypes == AppSpec => []AppTypeOK
<1>1. AppInv => AppTypeOK
  BY DEF AppInv, Controller, WorkerOK, AgentTypes, WindowTypes, Places, RelayPlaces, AppTypeOK
<1> QED
  BY <1>1, AppInvariant, PTL

\* The limits of the run loop hold for the rows that are written, whatever fails,
\* is cancelled or comes late between the entry and the rows (AgentRunLoop).
THEOREM LimitsAlwaysKept == AppSpec => []LimitsKept
<1>1. ASSUME AppInv, NEW r \in Runs
      PROVE  /\ total[r] <= Limits(r).total /\ tools[r] <= MaxTools
             /\ progress[r] <= Limits(r).progress
             /\ Cardinality({i \in DOMAIN steps[r] : steps[r][i].kind = "model"}) <= Limits(r).total
  <2>1. StoreInv /\ RunRows(r)
    BY <1>1 DEF AppInv, Controller, RowsInv
  <2>2. /\ Cardinality(ModelsIn(steps[r])) <= Limits(r).total /\ progress[r] <= Limits(r).progress
        /\ tools[r] <= MaxTools
    BY <2>1 DEF RunRows, Within
  <2>3. total[r] = Cardinality(BoundIn(steps[r]))
    BY <2>1 DEF StoreInv, CountsOK
  <2>4. BoundIn(steps[r]) \in SUBSET ModelsIn(steps[r])
    <3>1. ASSUME NEW i \in BoundIn(steps[r]) PROVE i \in ModelsIn(steps[r])
      <4>1. i \in DOMAIN steps[r] /\ steps[r][i].bound /\ steps[r][i] \in Step
        BY <2>1, <3>1, RowTypes DEF BoundIn
      <4>2. steps[r][i].kind \in {"model", "tool"} /\ steps[r][i].kind # "tool"
        BY <2>1, <4>1 DEF Step, RunRows, ToolsEnded
      <4> QED
        BY <4>1, <4>2 DEF ModelsIn
    <3> QED
      BY <3>1
  <2>5. IsFiniteSet(ModelsIn(steps[r])) /\ Cardinality(ModelsIn(steps[r])) \in Nat
    BY <2>1, RowTypes
  <2>6. Cardinality(BoundIn(steps[r])) <= Cardinality(ModelsIn(steps[r])) /\ Cardinality(BoundIn(steps[r])) \in Nat
    BY <2>4, <2>5, FS_Subset, FS_CardinalityType
  <2>7. Limits(r).total \in Nat
    BY LimitsTyped
  <2>8. total[r] <= Limits(r).total
    BY <2>2, <2>3, <2>5, <2>6, <2>7
  <2> QED
    BY <2>2, <2>8 DEF ModelsIn
<1>2. AppInv => LimitsKept
  BY <1>1 DEF LimitsKept
<1> QED
  BY <1>2, AppInvariant, PTL

\* Every step of the application leaves the store alone or is a step of it, so
\* the agent loop keeps to the order the store's callers owe (conversation_store.rs).
THEOREM StoreAlwaysKept == AppSpec => StoreKept
<1>1. AppInit => Init
  BY DEF AppInit
<1>2. AppInv /\ [AppNext]_vars => [Next]_store
  BY AppStep
<1> QED
  BY <1>1, <1>2, AppInvariant, PTL DEF AppSpec, StoreKept

\* The rows of runs, steps, messages and conversations agree in the running
\* application, whichever threads write them (agent_loop.rs, conversation_store.rs).
THEOREM AppRowsAgree == AppSpec => []RowsAgree
<1>1. StoreKept => Spec
  BY DEF StoreKept, Spec
<1> QED
  BY <1>1, StoreAlwaysKept, RowsAlwaysAgree, PTL

\* No late answer, terminal event, stop or restart changes the outcome of a run, a
\* step or a message that has ended.
THEOREM AppEndedStays == AppSpec => EndedIsFinal
<1>1. StoreKept => Spec
  BY DEF StoreKept, Spec
<1> QED
  BY <1>1, StoreAlwaysKept, EndedStays, PTL

-----------------------------------------------------------------------------
(***************************************************************************)
(* Who has a run: its threads, the worker's request, the relay             *)
(***************************************************************************)
Place(h) == thread[h[1]][h[2]]
Unsubmitted == {"none", "begin", "ask", "asked", "refused"}
Early == {"begin", "ask", "asked", "refused"}
\* The thread of a request whose rows were deleted meanwhile.
Unbound == {"unbound", "unbinding", "withdrawn", "abandon"}
Row(r) == status[r] \notin Gone

WorkerFacts ==
    /\ phase = "streaming" <=> request.handle # NoHandle
    /\ request.handle = NoHandle => request = NoRequest
    /\ relay.pc # "idle" => relay.run = request.handle

\* A thread waits for each of the two commands that are answered to it.
Tracked == {"submit", "withdraw"}
Ordered(c) ==
    /\ c.op = "submit" => Place(c.handle) = "asked"
    /\ c.op = "withdraw" => Place(c.handle) \in {"stopped", "withdrawn"}
CommandsOK ==
    /\ \A k \in DOMAIN commands : Ordered(commands[k])
    /\ \A k, l \in DOMAIN commands :
        /\ commands[k].op \in Tracked /\ commands[l].op \in Tracked
        /\ commands[k].handle = commands[l].handle
        => k = l

\* What a thread's place says of the entry, the request and the rows of its step.
StepOK(r, i) ==
    /\ thread[r][i] \in {"ask", "asked", "refused"} => active[r].step = i
    /\ thread[r][i] = "begin" => i = 1
    /\ request.handle = <<r, i>> =>
        /\ thread[r][i] \notin Unsubmitted
        /\ active[r].step \notin {0, i} => worker = "acked"
    /\ Row(r) =>
        /\ thread[r][i] # "none" => i \in DOMAIN steps[r]
        /\ thread[r][i] \in Early => steps[r][i].status = "prepared"
        /\ thread[r][i] = "accepted" => steps[r][i].status \notin {"running", "interrupted"}
        /\ thread[r][i] \notin Unbound
        /\ active[r].step = i => StepOpen(r, i)
    /\ status[r] = "none" => thread[r][i] = "none"

\* Until the worker has accepted a run's first request nothing else has the run.
StartOK(r) ==
    thread[r][1] \in Early =>
        /\ active[r].step \in {0, 1} /\ ~OnRelay(r)
        /\ told[r] = <<>> /\ returned[r] = "none"
        /\ \A i \in Indices : (i # 1 => thread[r][i] = "none") /\ request.handle # <<r, i>>

\* What the relay's place says of the rows of its run.
RelayOK(r) ==
    OnRelay(r) =>
        /\ relay.pc = "start" =>
            relay.entry.step \in Indices \ {1} /\ thread[r][relay.entry.step] = "none"
        /\ relay.pc = "final" => relay.kind = "done"
        /\ Row(r) =>
            /\ relay.pc = "start" => /\ relay.entry.step \in DOMAIN steps[r]
                                     /\ steps[r][relay.entry.step].status = "prepared"
            /\ relay.pc \in {"end", "final", "call", "repair"} => StepOpen(r, relay.run[2])
            /\ relay.pc \in {"tool", "follow", "start", "fail"} => status[r] \in Open
            /\ relay.pc = "tell" => status[r] = StatusOf(relay.kind)

\* A run whose submission was given up before the worker was asked keeps its entry.
Stranded(r) ==
    /\ active[r].step = 1 /\ thread[r][1] = "done"
    /\ \A i \in Indices : request.handle # <<r, i>>
Over(r) == ~OnRelay(r) /\ (active[r].step = 0 \/ Stranded(r)) /\ thread[r][1] \notin Early

\* A run whose outcome was told is in nobody's hands.
OutcomeOK(r) ==
    /\ Row(r) =>
        /\ 1 \in DOMAIN steps[r]
        /\ Len(told[r]) <= 1 /\ (returned[r] = "error" => told[r] = <<>>)
        /\ told[r] # <<>> \/ returned[r] = "error" => Over(r)
        /\ told[r] # <<>> =>
            /\ status[r] = StatusOf(Head(told[r]))
            /\ \A i \in Indices : request.handle = <<r, i>> => worker = "acked"
    /\ status[r] = "none" => told[r] = <<>> /\ returned[r] = "none"

RunOK(r) == (\A i \in Indices : StepOK(r, i)) /\ StartOK(r) /\ RelayOK(r) /\ OutcomeOK(r)
RunsOK == \A r \in Runs : RunOK(r)

OutcomeInv == WorkerFacts /\ CommandsOK /\ RunsOK

(***************************************************************************)
(* Who knows a run, and who has heard of its stop                          *)
(***************************************************************************)
Held(q, h, ops) == \E k \in DOMAIN q : q[k].handle = h /\ q[k].op \in ops
Asks == {"cancel", "late cancel", "withdraw"}
Reached(h) == request.asked \/ Held(commands, h, Asks)

\* The window's handle is known before an event may carry it, the current one
\* before a stop may need it.
KnownOK(r) ==
    /\ active[r].step = 0 => ~active[r].cancel
    /\ active[r].step > 1 => active[r].public
    /\ active[r].step = 1 =>
        /\ active[r].public => active[r].current
        /\ request.handle = <<r, 1>> /\ request.event = "relayed" => active[r].public
    /\ thread[r][1] \in Early => ~active[r].public /\ ~active[r].cancel
    /\ OnRelay(r) => relay.entry.public

StopOK(r, i) ==
    /\ active[r].step = i /\ i > 1 /\ thread[r][i] \in {"stopping", "stopped", "done"} => active[r].current
    /\ active[r].step = i /\ active[r].cancel /\ request.handle = <<r, i>>
         /\ (i = 1 \/ thread[r][i] \in {"stopped", "done"}) => Reached(<<r, i>>)
    /\ thread[r][i] = "stopped" => Held(commands, <<r, i>>, {"withdraw"})

StopInv == \A r \in Runs : KnownOK(r) /\ \A i \in Indices : StopOK(r, i)

TurnInv == AppInv /\ OutcomeInv /\ StopInv

-----------------------------------------------------------------------------
(* The channel of commands *)

LEMMA OrderTypes ==
    ASSUME NEW o \in Orders
    PROVE  o.op \in Tracked \union Asks => o.handle \in Handles
BY DEF Orders, Tracked, Asks, Unloads

LEMMA HandleTypes ==
    /\ NoHandle \notin Handles
    /\ \A h \in Handles : h[1] \in Runs /\ h[2] \in Indices /\ h = <<h[1], h[2]>>
    /\ \A r \in Runs, i \in Indices : <<r, i>> \in Handles
    /\ 1 \in Indices
<1>1. 1 \in Indices
  BY LimitsTyped, AgentAssumption, StoreAssumption DEF Indices
<1>2. NoHandle \notin Handles
  BY DEF Handles, NoHandle
<1> QED
  BY <1>1, <1>2 DEF Handles

LEMMA Appended ==
    ASSUME NEW q \in Seq(Orders), NEW o \in Orders
    PROVE  /\ DOMAIN Append(q, o) = 1 .. Len(q) + 1 /\ Append(q, o)[Len(q) + 1] = o
           /\ DOMAIN q = 1 .. Len(q) /\ Len(q) \in Nat
           /\ \A k \in DOMAIN q : k \in DOMAIN Append(q, o) /\ Append(q, o)[k] = q[k]
<1>1. Len(q) \in Nat /\ DOMAIN q = 1 .. Len(q)
  BY LenProperties
<1>2. /\ Len(Append(q, o)) = Len(q) + 1 /\ Append(q, o)[Len(q) + 1] = o
      /\ \A k \in 1 .. Len(q) : Append(q, o)[k] = q[k]
      /\ DOMAIN Append(q, o) = 1 .. Len(q) + 1
  BY <1>1, AppendProperties, LenProperties
<1> QED
  BY <1>1, <1>2

LEMMA Removing ==
    ASSUME NEW q \in Seq(Orders), q # <<>>
    PROVE  /\ 1 \in DOMAIN q /\ q[1] = Head(q) /\ Head(q) \in Orders
           /\ \A k \in DOMAIN Tail(q) :
                /\ k \in Nat \ {0} /\ k + 1 \in DOMAIN q /\ Tail(q)[k] = q[k + 1]
           /\ \A k \in DOMAIN q : k \in Nat /\ (k # 1 => k - 1 \in DOMAIN Tail(q) /\ Tail(q)[k - 1] = q[k])
<1>1. Len(q) \in Nat /\ DOMAIN q = 1 .. Len(q) /\ Len(q) # 0
  BY LenProperties, EmptySeq
<1>2. /\ Head(q) \in Orders /\ Tail(q) \in Seq(Orders) /\ Len(Tail(q)) = Len(q) - 1
      /\ \A k \in 1 .. Len(Tail(q)) : Tail(q)[k] = q[k + 1]
  BY HeadTailProperties
<1>3. DOMAIN Tail(q) = 1 .. Len(q) - 1
  BY <1>2, LenProperties
<1>4. Head(q) = q[1]
  BY <1>1
<1>5. ASSUME NEW k \in DOMAIN q, k # 1
      PROVE  k - 1 \in DOMAIN Tail(q) /\ Tail(q)[k - 1] = q[k]
  <2>1. k - 1 \in 1 .. Len(Tail(q)) /\ k - 1 + 1 = k
    BY <1>1, <1>2, <1>5
  <2> QED
    BY <1>2, <1>3, <2>1
<1> QED
  BY <1>1, <1>2, <1>3, <1>4, <1>5

LEMMA HeldAppended ==
    ASSUME NEW q \in Seq(Orders), NEW o \in Orders, NEW h, NEW ops,
           Held(q, h, ops) \/ (o.handle = h /\ o.op \in ops)
    PROVE  Held(Append(q, o), h, ops)
<1>1. CASE Held(q, h, ops)
  <2>1. PICK k \in DOMAIN q : q[k].handle = h /\ q[k].op \in ops
    BY <1>1 DEF Held
  <2> QED
    BY <2>1, Appended DEF Held
<1>2. CASE o.handle = h /\ o.op \in ops
  <2>1. Len(q) + 1 \in DOMAIN Append(q, o) /\ Append(q, o)[Len(q) + 1] = o
    BY Appended
  <2> QED
    BY <1>2, <2>1 DEF Held
<1> QED
  BY <1>1, <1>2

LEMMA HeldBehind ==
    ASSUME NEW q \in Seq(Orders), q # <<>>, NEW h, NEW ops, Held(q, h, ops),
           ~(Head(q).handle = h /\ Head(q).op \in ops)
    PROVE  Held(Tail(q), h, ops)
<1>1. PICK k \in DOMAIN q : q[k].handle = h /\ q[k].op \in ops
  BY DEF Held
<1>2. k # 1
  BY <1>1, Removing
<1>3. k - 1 \in DOMAIN Tail(q) /\ Tail(q)[k - 1] = q[k]
  BY <1>1, <1>2, Removing
<1> QED
  BY <1>1, <1>3 DEF Held

-----------------------------------------------------------------------------
(* Commands and the places of the threads that wait for them *)

Waiting == {"asked", "stopped", "withdrawn"}
LeftAlone(h) == Place(h) \in Waiting => Place(h)' = Place(h)

LEMMA OrderedStays ==
    ASSUME NEW c \in Orders, Ordered(c), c.op \in Tracked => LeftAlone(c.handle)
    PROVE  Ordered(c)'
BY DEF Ordered, LeftAlone, Waiting, Tracked

LEMMA CommandsStay ==
    ASSUME WorkerOK, CommandsOK, \A h \in Handles : LeftAlone(h), UNCHANGED commands
    PROVE  CommandsOK'
<1>1. \A k \in DOMAIN commands : commands[k] \in Orders
  BY WorkerTypes, ElementOfSeq, LenProperties
<1>2. ASSUME NEW k \in DOMAIN commands PROVE Ordered(commands[k])'
  BY <1>1, OrderedStays, OrderTypes DEF CommandsOK
<1> QED
  BY <1>2 DEF CommandsOK

LEMMA CommandSent ==
    ASSUME WorkerOK, CommandsOK, \A h \in Handles : LeftAlone(h), NEW o \in Orders,
           commands' = Append(commands, o),
           o.op \in Tracked => Place(o.handle) \notin Waiting, Ordered(o)'
    PROVE  CommandsOK'
<1>1. commands \in Seq(Orders) /\ \A k \in DOMAIN commands : commands[k] \in Orders
  BY WorkerTypes, ElementOfSeq, LenProperties
<1> DEFINE n == Len(commands) + 1
<1>2. /\ n \in Nat /\ DOMAIN commands' = 1 .. n /\ commands'[n] = o /\ DOMAIN commands = 1 .. n - 1
      /\ \A k \in DOMAIN commands : commands'[k] = commands[k]
  BY <1>1, Appended
<1> HIDE DEF n
<1>3. \A k \in DOMAIN commands' : k = n \/ k \in DOMAIN commands
  BY <1>2
<1>4. ASSUME NEW c \in Orders, NEW k \in DOMAIN commands, commands[k] = c PROVE Ordered(c)'
  BY <1>4, OrderedStays, OrderTypes DEF CommandsOK
<1>5. ASSUME NEW k \in DOMAIN commands' PROVE Ordered(commands[k])'
  <2>1. PICK c \in Orders : c = commands'[k]
    BY <1>1, <1>2, <1>3
  <2>2. Ordered(c)'
    BY <1>1, <1>2, <1>3, <1>4, <2>1
  <2> QED
    BY <2>1, <2>2
<1>6. ASSUME NEW k \in DOMAIN commands, commands[k].op \in Tracked, o.op \in Tracked
      PROVE  commands[k].handle # o.handle
  BY <1>6 DEF CommandsOK, Ordered, Tracked, Waiting
<1>7. ASSUME NEW k \in DOMAIN commands', NEW l \in DOMAIN commands',
             commands'[k].op \in Tracked, commands'[l].op \in Tracked,
             commands'[k].handle = commands'[l].handle
      PROVE  k = l
  BY <1>2, <1>3, <1>6, <1>7 DEF CommandsOK
<1> QED
  BY <1>5, <1>7 DEF CommandsOK

\* Of two commands a thread waits for, only the one at the head is answered.
LEMMA CommandAnswered ==
    ASSUME WorkerOK, CommandsOK, commands # <<>>, commands' = Tail(commands),
           \A h \in Handles :
              LeftAlone(h) \/ (Head(commands).op \in Tracked /\ h = Head(commands).handle)
    PROVE  CommandsOK'
<1>1. commands \in Seq(Orders) /\ \A k \in DOMAIN commands : commands[k] \in Orders
  BY WorkerTypes, ElementOfSeq, LenProperties
<1>2. /\ 1 \in DOMAIN commands /\ commands[1] = Head(commands)
      /\ \A k \in DOMAIN commands' : k \in Nat \ {0} /\ k + 1 \in DOMAIN commands /\ commands'[k] = commands[k + 1]
  BY <1>1, Removing
<1>3. ASSUME NEW k \in DOMAIN commands' PROVE Ordered(commands[k])'
  <2>1. PICK c \in Orders : c = commands'[k]
    BY <1>1, <1>2
  <2>2. k + 1 # 1 /\ Ordered(c) /\ c = commands[k + 1]
    BY <1>2, <2>1 DEF CommandsOK
  <2>3. c.op \in Tracked => LeftAlone(c.handle)
    BY <1>2, <2>1, <2>2, OrderTypes DEF CommandsOK
  <2>4. Ordered(c)'
    BY <2>2, <2>3, OrderedStays
  <2> QED
    BY <2>1, <2>4
<1>4. ASSUME NEW k \in DOMAIN commands', NEW l \in DOMAIN commands',
             commands'[k].op \in Tracked, commands'[l].op \in Tracked,
             commands'[k].handle = commands'[l].handle
      PROVE  k = l
  <2>1. k + 1 = l + 1
    BY <1>2, <1>4 DEF CommandsOK
  <2> QED
    BY <1>2, <2>1
<1> QED
  BY <1>3, <1>4 DEF CommandsOK

-----------------------------------------------------------------------------
(* What the worker does to its request *)

\* The worker takes no new request, and forgets no request to cancel.
Quiet ==
    /\ phase' = "streaming" <=> request'.handle # NoHandle
    /\ request'.handle = NoHandle => request' = NoRequest
    /\ request'.handle # NoHandle =>
        /\ request'.handle = request.handle
        /\ worker = "acked" => worker' = "acked"
        /\ Reached(request.handle) => Reached(request.handle)'

\* Nor does it hear of the request's event.
SameEvent == request'.handle # NoHandle => request'.event = request.event

KeepsWithdraw(h) == Held(commands, h, {"withdraw"}) => Held(commands', h, {"withdraw"})

LEMMA SameWorkerQuiet ==
    ASSUME WorkerFacts, UNCHANGED worker_vars
    PROVE  Quiet /\ SameEvent /\ \A h : KeepsWithdraw(h)
BY DEF WorkerFacts, worker_vars, Quiet, SameEvent, KeepsWithdraw, Reached

LEMMA SendQuiet ==
    ASSUME WorkerOK, WorkerFacts, NEW op \in {"submit", "cancel", "late cancel", "withdraw"},
           NEW h \in Handles, Send(op, h)
    PROVE  /\ Quiet /\ SameEvent /\ \A g : KeepsWithdraw(g)
           /\ \A ops : op \in ops => Held(commands', h, ops)
<1>1. /\ commands \in Seq(Orders) /\ Command(op, h) \in Orders /\ commands' = Append(commands, Command(op, h))
      /\ UNCHANGED <<phase, request, worker>>
  BY WorkerTypes DEF Command, Orders, Send
<1>2. \A g, ops : Held(commands, g, ops) => Held(commands', g, ops)
  BY <1>1, HeldAppended
<1>3. \A ops : op \in ops => Held(commands', h, ops)
  BY <1>1, HeldAppended DEF Command
<1> QED
  BY <1>1, <1>2, <1>3 DEF WorkerFacts, Quiet, SameEvent, KeepsWithdraw, Reached

LEMMA CallModelQuiet ==
    ASSUME WorkerOK, WorkerFacts, NEW op \in Unloads, CallModel(op)
    PROVE  Quiet /\ SameEvent /\ \A h : KeepsWithdraw(h)
<1>1. /\ commands \in Seq(Orders) /\ Command(op, NoHandle) \in Orders
      /\ commands' = Append(commands, Command(op, NoHandle)) /\ UNCHANGED <<phase, request, worker>>
  BY WorkerTypes DEF Command, Orders, CallModel
<1>2. \A g, ops : Held(commands, g, ops) => Held(commands', g, ops)
  BY <1>1, HeldAppended
<1> QED
  BY <1>1, <1>2 DEF WorkerFacts, Quiet, SameEvent, KeepsWithdraw, Reached

\* A command is taken from the channel, and the request is asked or left.
LEMMA TakenQuiet ==
    ASSUME WorkerOK, WorkerFacts, commands # <<>>, commands' = Tail(commands), worker = "recv",
           phase' = phase, NEW h \in Handles, request' \in {request, Cancelled(h)},
           Head(commands).op \in Asks /\ request.handle = Head(commands).handle => h = request.handle /\ request' = Cancelled(h)
    PROVE  /\ Quiet /\ SameEvent
           /\ \A g : KeepsWithdraw(g) \/ (Head(commands).op = "withdraw" /\ g = Head(commands).handle)
<1>1. commands \in Seq(Orders)
  BY WorkerTypes
<1>2. ASSUME NEW g, NEW ops, Held(commands, g, ops), ~(Head(commands).handle = g /\ Head(commands).op \in ops)
      PROVE  Held(commands', g, ops)
  BY <1>1, <1>2, HeldBehind
<1>3. /\ Cancelled(h).handle = request.handle /\ Cancelled(h).event = request.event
      /\ request.asked => Cancelled(h).asked
      /\ request.handle = h => Cancelled(h).asked
  BY CancelledOK
<1>4. request'.handle = request.handle /\ request'.event = request.event /\ (request.asked => request'.asked)
  BY <1>3
<1>5. request'.handle = NoHandle => request' = NoRequest
  <2>1. request.handle = NoHandle => request = NoRequest /\ Cancelled(h) = request
    BY HandleTypes DEF WorkerFacts, Cancelled
  <2> QED
    BY <1>4, <2>1
<1>6. Reached(request.handle) => Reached(request.handle)'
  <2>1. CASE Head(commands).op \in Asks /\ request.handle = Head(commands).handle
    BY <1>3, <2>1 DEF Reached
  <2>2. CASE ~(Head(commands).op \in Asks /\ request.handle = Head(commands).handle)
    BY <1>2, <1>4, <2>2 DEF Reached
  <2> QED
    BY <2>1, <2>2
<1>7. \A g : KeepsWithdraw(g) \/ (Head(commands).op = "withdraw" /\ g = Head(commands).handle)
  BY <1>2 DEF KeepsWithdraw
<1> QED
  BY <1>4, <1>5, <1>6, <1>7 DEF WorkerFacts, Quiet, SameEvent

LEMMA CancelQuiet ==
    ASSUME WorkerOK, WorkerFacts, NEW op \in Asks, HandleCancel(op)
    PROVE  /\ Quiet /\ SameEvent /\ worker = "recv"
           /\ \A g : KeepsWithdraw(g) \/ (op = "withdraw" /\ g = Head(commands).handle)
           /\ request.handle = Head(commands).handle => request'.asked
<1>1. /\ commands # <<>> /\ commands' = Tail(commands) /\ worker = "recv" /\ Head(commands).op = op
      /\ phase' = phase /\ request' = Cancelled(Head(commands).handle)
  BY DEF HandleCancel, Receives
<1>2. request.handle = Head(commands).handle => request'.asked
  BY <1>1, CancelledOK
<1>3. Head(commands).handle \in Handles
  BY <1>1, Taken, OrderTypes DEF Asks
<1> QED
  BY <1>1, <1>2, <1>3, TakenQuiet

LEMMA HandleModelQuiet ==
    ASSUME WorkerOK, WorkerFacts, NEW op \in Unloads, HandleModel(op)
    PROVE  Quiet /\ SameEvent /\ \A h : KeepsWithdraw(h)
<1>1. /\ commands # <<>> /\ commands' = Tail(commands) /\ worker = "recv" /\ Head(commands).op = op
      /\ op \notin Asks
  BY DEF HandleModel, Receives, Unloads, Asks
<1>2. CASE request = NoRequest
  <2>1. request' = NoRequest /\ phase' # "streaming" /\ NoRequest.handle = NoHandle
    BY <1>2 DEF HandleModel, PhaseAfter, Unloads, NoRequest
  <2>2. commands \in Seq(Orders)
    BY WorkerTypes
  <2>3. \A g : Held(commands, g, {"withdraw"}) => Held(commands', g, {"withdraw"})
    BY <1>1, <2>2, HeldBehind DEF Asks
  <2> QED
    BY <2>1, <2>3 DEF Quiet, SameEvent, KeepsWithdraw
<1>3. CASE request # NoRequest
  <2>1. phase' = phase /\ request' = Cancelled(request.handle)
    BY <1>3 DEF HandleModel
  <2>2. request.handle \in Handles
    BY <1>3, WorkerTypes DEF WorkerFacts, Request
  <2> QED
    BY <1>1, <2>1, <2>2, TakenQuiet DEF Asks
<1> QED
  BY <1>2, <1>3

LEMMA WorkerAloneQuiet ==
    ASSUME WorkerOK, WorkerFacts, Poll \/ Drain \/ Finish
    PROVE  Quiet /\ SameEvent /\ \A h : KeepsWithdraw(h)
<1>1. \A h : KeepsWithdraw(h)
  BY DEF Poll, Drain, Finish, KeepsWithdraw
<1>2. CASE Poll
  <2>1. /\ Cancelled(failures).handle = request.handle /\ Cancelled(failures).event = request.event
        /\ request.asked => Cancelled(failures).asked
    BY CancelledOK
  <2>2. /\ request'.handle = request.handle /\ request'.event = request.event
        /\ (request.asked => request'.asked) /\ worker # "acked" /\ UNCHANGED <<phase, commands>>
    BY <1>2, <2>1 DEF Poll
  <2>3. request'.handle = NoHandle => request' = NoRequest
    BY <1>2, <2>2, WorkerTypes DEF Poll, WorkerFacts, Cancelled, Request, NoRequest
  <2> QED
    BY <1>1, <2>2, <2>3 DEF WorkerFacts, Quiet, SameEvent, Reached
<1>3. CASE Drain
  BY <1>1, <1>3 DEF Drain, WorkerFacts, Quiet, SameEvent, Reached
<1>4. CASE Finish
  <2>1. request' = NoRequest /\ NoRequest.handle = NoHandle
    BY <1>4 DEF Finish, NoRequest
  <2>2. phase' # "streaming"
    BY <1>4, WorkerTypes DEF Finish, PhaseAfter, Unloads
  <2> QED
    BY <1>1, <2>1, <2>2 DEF Quiet, SameEvent
<1> QED
  BY <1>2, <1>3, <1>4

LEMMA NativeQuiet ==
    ASSUME WorkerOK, WorkerFacts, NEW outcome \in {"done", "cancelled", "error"}, NativeEnds(outcome)
    PROVE  Quiet /\ SameEvent /\ \A h : KeepsWithdraw(h)
<1>1. /\ request'.handle = request.handle /\ request'.event = request.event /\ request'.asked = request.asked
      /\ UNCHANGED <<phase, commands, worker>> /\ request # NoRequest
  BY WorkerTypes DEF NativeEnds, Request
<1> QED
  BY <1>1 DEF WorkerFacts, Quiet, SameEvent, KeepsWithdraw, Reached

LEMMA RegularQuiet ==
    ASSUME WorkerOK, WorkerFacts, NEW ok \in BOOLEAN, RelayRegular(ok)
    PROVE  /\ Quiet /\ (\A h : KeepsWithdraw(h)) /\ UNCHANGED <<commands, worker>>
           /\ request'.handle = request.handle /\ request.handle # NoHandle
<1>1. /\ request'.handle = request.handle /\ request'.asked = request.asked
      /\ UNCHANGED <<phase, commands, worker>> /\ request.handle # NoHandle
  BY WorkerTypes, HandleTypes DEF RelayRegular, Request
<1> QED
  BY <1>1 DEF WorkerFacts, Quiet, Reached, KeepsWithdraw

LEMMA AcknowledgeQuiet ==
    ASSUME WorkerOK, WorkerFacts, NEW ok \in BOOLEAN, Acknowledge(ok)
    PROVE  /\ Quiet /\ SameEvent /\ (\A h : KeepsWithdraw(h)) /\ UNCHANGED <<commands, request>>
           /\ worker' = "acked"
BY DEF Acknowledge, WorkerFacts, Quiet, SameEvent, KeepsWithdraw, Reached

\* A submission that is accepted finds no request.
LEMMA SubmitQuiet ==
    ASSUME WorkerOK, WorkerFacts, NEW valid \in BOOLEAN, HandleSubmit(valid)
    PROVE  /\ ~Accepts(valid) => Quiet /\ SameEvent
           /\ Accepts(valid) => /\ request.handle = NoHandle /\ phase' = "streaming"
                                /\ request'.handle = Head(commands).handle
                                /\ request'.event = "sent" /\ ~request'.asked
           /\ (\A h : KeepsWithdraw(h)) /\ worker = "recv"
<1>1. /\ commands # <<>> /\ commands' = Tail(commands) /\ worker = "recv" /\ Head(commands).op = "submit"
      /\ "submit" \notin Asks
  BY DEF HandleSubmit, Receives, Asks
<1>2. CASE Accepts(valid)
  <2>1. request.handle = NoHandle
    BY <1>2 DEF Accepts, WorkerFacts
  <2>2. request' = Accepted(Head(commands).handle) /\ phase' = "streaming"
    BY <1>2 DEF HandleSubmit
  <2>3. request'.handle = Head(commands).handle /\ request'.event = "sent" /\ ~request'.asked
    BY <2>2 DEF Accepted, NoRequest
  <2>4. commands \in Seq(Orders)
    BY WorkerTypes
  <2>5. \A g : Held(commands, g, {"withdraw"}) => Held(commands', g, {"withdraw"})
    BY <1>1, <2>4, HeldBehind DEF Asks
  <2> QED
    BY <1>1, <1>2, <2>1, <2>2, <2>3, <2>5 DEF KeepsWithdraw
<1>3. CASE ~Accepts(valid)
  <2>1. phase' = phase /\ request' = request
    BY <1>3 DEF HandleSubmit, guard
  <2>2. Head(commands).handle \in Handles
    BY <1>1, Taken, OrderTypes DEF Tracked
  <2> QED
    BY <1>1, <1>3, <2>1, <2>2, TakenQuiet DEF Asks
<1> QED
  BY <1>2, <1>3

\* The relay stays with the request, or is idle.
LEMMA FactsStay ==
    ASSUME WorkerFacts, Quiet, AgentOK, relay'.pc # "idle" => relay'.run = request'.handle
    PROVE  WorkerFacts'
BY DEF WorkerFacts, Quiet

-----------------------------------------------------------------------------
(* Runs a step leaves alone, and runs whose thread goes on *)

LEMMA PlaceMoves ==
    ASSUME AgentTypes, NEW r \in Runs, NEW i \in Indices, NEW pc, Goes(r, i, pc)
    PROVE  /\ thread'[r][i] = pc /\ \A j \in Indices \ {i} : thread'[r][j] = thread[r][j]
           /\ \A x \in Runs \ {r} : thread'[x] = thread[x]
           /\ \A h \in Handles \ {<<r, i>>} : Place(h)' = Place(h)
<1>1. thread \in [Runs -> [Indices -> Places]] /\ thread' = [thread EXCEPT ![r][i] = pc]
  BY DEF AgentTypes, Goes
<1>2. \A x \in Runs, j \in Indices : <<x, j>> # <<r, i>> => thread'[x][j] = thread[x][j]
  BY <1>1
<1>3. ASSUME NEW h \in Handles \ {<<r, i>>} PROVE Place(h)' = Place(h)
  BY <1>2, HandleTypes DEF Place
<1> QED
  BY <1>1, <1>2, <1>3

\* The request of a run is not taken from the worker, nor given to it.
RequestStays(x) ==
    \A i \in Indices : request'.handle = <<x, i>> =>
        request.handle = <<x, i>> /\ (worker = "acked" => worker' = "acked")

Framed(x) ==
    /\ thread'[x] = thread[x] /\ active'[x].step = active[x].step
    /\ told'[x] = told[x] /\ returned'[x] = returned[x]
    /\ OnRelay(x)' => OnRelay(x) /\ UNCHANGED relay
    /\ RequestStays(x)
    /\ status'[x] = "gone" \/ (status'[x] = status[x] /\ steps'[x] = steps[x])

LEMMA QuietRequest ==
    ASSUME Quiet, NEW x
    PROVE  RequestStays(x)
<1>1. ASSUME NEW i \in Indices, request'.handle = <<x, i>> PROVE request'.handle # NoHandle
  BY <1>1 DEF NoHandle
<1> QED
  BY <1>1 DEF Quiet, RequestStays

LEMMA RunFrame ==
    ASSUME NEW x \in Runs, RunOK(x), Framed(x)
    PROVE  RunOK(x)'
<1>1. ASSUME NEW i \in Indices PROVE StepOK(x, i)'
  <2>1. StepOK(x, i)
    BY DEF RunOK
  <2>2. CASE status'[x] = "gone"
    BY <2>1, <2>2 DEF Framed, RequestStays, StepOK, Row, Gone
  <2>3. CASE status'[x] = status[x] /\ steps'[x] = steps[x]
    BY <2>1, <2>3 DEF Framed, RequestStays, StepOK, Row, StepOpen, HasStep
  <2> QED
    BY <2>2, <2>3 DEF Framed
<1>2. StartOK(x)'
  BY DEF RunOK, StartOK, Framed, RequestStays
<1>3. RelayOK(x)'
  <2>1. CASE ~OnRelay(x)'
    BY <2>1 DEF RelayOK
  <2>2. CASE OnRelay(x)'
    <3>1. OnRelay(x) /\ UNCHANGED relay /\ RelayOK(x)
      BY <2>2 DEF Framed, RunOK
    <3> QED
      BY <3>1 DEF RelayOK, Framed, Row, Gone, StepOpen, HasStep
  <2> QED
    BY <2>1, <2>2
<1>4. OutcomeOK(x)'
  <2>1. OutcomeOK(x) /\ (Over(x) => Over(x)')
    BY DEF RunOK, Framed, RequestStays, Over, Stranded
  <2> QED
    BY <2>1 DEF OutcomeOK, Framed, RequestStays, Row, Gone
<1> QED
  BY <1>1, <1>2, <1>3, <1>4 DEF RunOK

LEMMA AllFramed ==
    ASSUME RunsOK, \A x \in Runs : Framed(x)
    PROVE  RunsOK'
BY RunFrame DEF RunsOK

LEMMA OthersFramed ==
    ASSUME RunsOK, NEW r \in Runs, RunOK(r)', \A x \in Runs \ {r} : Framed(x)
    PROVE  RunsOK'
<1>1. \A x \in Runs \ {r} : RunOK(x)'
  BY RunFrame DEF RunsOK
<1> QED
  BY <1>1 DEF RunsOK

\* A thread goes on with nothing but an answer to its caller.
LEMMA ThreadGoesOn ==
    ASSUME Controller, NEW r \in Runs, NEW i \in Indices, NEW pc, RunOK(r), Goes(r, i, pc),
           active'[r].step = active[r].step, told'[r] = told[r], UNCHANGED relay,
           status'[r] = status[r], steps'[r] = steps[r], returned'[r] \in {returned[r], "ok"},
           RequestStays(r),
           thread[r][i] \notin {"none", "begin", "done"}, pc \notin {"none", "begin", "accepted"},
           pc \in {"ask", "asked", "refused"} => thread[r][i] \in {"ask", "asked", "refused"},
           pc \in Unbound => ~Row(r), returned'[r] # returned[r] => pc \notin Early
    PROVE  RunOK(r)'
<1>1. /\ thread'[r][i] = pc
      /\ \A j \in Indices : j # i => thread'[r][j] = thread[r][j]
  BY PlaceMoves DEF Controller
<1>2. status[r] # "none" /\ 1 \in Indices
  BY HandleTypes DEF RunOK, StepOK
<1>3. ASSUME NEW j \in Indices PROVE StepOK(r, j)'
  <2>1. StepOK(r, j)
    BY DEF RunOK
  <2>2. StepOpen(r, j)' <=> StepOpen(r, j)
    BY DEF StepOpen, HasStep
  <2>3. CASE j # i
    BY <1>1, <2>1, <2>2, <2>3 DEF StepOK, RequestStays, Row
  <2>4. CASE j = i
    BY <1>1, <1>2, <2>1, <2>2, <2>4 DEF StepOK, RequestStays, Row, Early, Unsubmitted
  <2> QED
    BY <2>3, <2>4
<1>4. thread'[r][1] \in Early => thread[r][1] \in Early
  BY <1>1, <1>2 DEF Early
<1>5. thread[r][1] \in Early => i = 1
  BY DEF RunOK, StartOK
<1>6. StartOK(r)'
  <2>1. thread'[r][1] \in Early => returned'[r] = returned[r]
    BY <1>1, <1>4, <1>5
  <2> QED
    BY <1>1, <1>4, <1>5, <2>1 DEF RunOK, StartOK, OnRelay, RequestStays
<1>7. RelayOK(r)'
  <2>1. OnRelay(r)' <=> OnRelay(r)
    BY DEF OnRelay
  <2>2. StepOpen(r, relay.run[2])' <=> StepOpen(r, relay.run[2])
    BY DEF StepOpen, HasStep
  <2>3. RelayOK(r)
    BY DEF RunOK
  <2> QED
    BY <1>1, <2>1, <2>2, <2>3 DEF RelayOK, Row
<1>8. OutcomeOK(r)'
  <2>1. Over(r) => Over(r)'
    BY <1>1, <1>2, <1>4 DEF Over, Stranded, OnRelay, RequestStays
  <2>2. OutcomeOK(r) /\ (returned'[r] = "error" => returned[r] = "error")
    BY DEF RunOK
  <2> QED
    BY <1>2, <2>1, <2>2 DEF OutcomeOK, RequestStays, Row
<1> QED
  BY <1>3, <1>6, <1>7, <1>8 DEF RunOK

-----------------------------------------------------------------------------
(* What the store does to the rows of a run that ends *)

Finished == {"complete", "cancelled", "error"}
RowsApart(r) == \A x \in Runs \ {r} : status'[x] = status[x] /\ steps'[x] = steps[x]
EndsRow(r, s) ==
    /\ status'[r] = IF Row(r) THEN s ELSE status[r]
    /\ DOMAIN steps'[r] = DOMAIN steps[r]
    /\ \A j \in DOMAIN steps[r] : steps'[r][j].status \in {steps[r][j].status, s}

LEMMA RowFacts ==
    ASSUME StoreInv, NEW r \in Runs
    PROVE  /\ ~Row(r) => steps[r] = <<>> /\ DOMAIN steps[r] = {}
           /\ \A j \in DOMAIN steps[r] : steps[r][j].status \in Open \union Ended
           /\ \A j : StepOpen(r, j) \/ Bindable(r, j) => status[r] \in Open
           /\ status[r] \in Open => Row(r)
<1>1. /\ RowsOK(status[r], message[r], steps[r]) /\ steps[r] \in Seq(Step)
      /\ status[r] \in Open \union Ended \union Gone
      /\ \A j \in DOMAIN steps[r] : steps[r][j] \in Step
  BY RowTypes DEF StoreInv, StoreTypeOK
<1>2. ~Row(r) => steps[r] = <<>> /\ DOMAIN steps[r] = {}
  BY <1>1 DEF RowsOK, Row
<1>3. \A j \in DOMAIN steps[r] : steps[r][j].status \in Open \union Ended
  BY <1>1 DEF Step
<1>4. status[r] \in Open => Row(r)
  BY DEF Open, Gone, Row
<1>5. Open \intersect Ended = {} /\ "prepared" \in Open
  BY DEF Open, Ended
<1>6. ASSUME NEW j, StepOpen(r, j) \/ Bindable(r, j) PROVE status[r] \in Open
  <2>1. j \in DOMAIN steps[r] /\ steps[r][j].status \in Open
    BY <1>5, <1>6 DEF StepOpen, Bindable, HasStep
  <2>2. Row(r) /\ status[r] \notin Ended
    BY <1>1, <1>2, <1>5, <2>1 DEF RowsOK, EndedSteps
  <2> QED
    BY <1>1, <2>2 DEF Row
<1> QED
  BY <1>2, <1>3, <1>4, <1>6

LEMMA StepEndsRow ==
    ASSUME StoreInv, NEW r \in Runs, NEW i, NEW s \in Finished, EndStep(r, i, s), Row(r) => StepOpen(r, i)
    PROVE  EndsRow(r, s) /\ RowsApart(r)
<1>1. CASE FinishStep(r, i, s)
  <2>1. StepOpen(r, i) /\ i \in DOMAIN steps[r] /\ status[r] \in Open /\ Row(r)
    BY <1>1, RowFacts DEF FinishStep, StepOpen, HasStep
  <2>2. /\ status' = [status EXCEPT ![r] = s] /\ steps' = [steps EXCEPT ![r] = SetStatus(@, i, s)]
        /\ status \in [Runs -> Open \union Ended \union Gone] /\ steps \in [Runs -> Seq(Step)]
    BY <1>1 DEF FinishStep, StoreInv, StoreTypeOK
  <2>3. steps'[r] = SetStatus(steps[r], i, s) /\ steps[r] \in Seq(Step) /\ status'[r] = s /\ RowsApart(r)
    BY <2>2 DEF RowsApart
  <2>4. s \in Open \union Ended
    BY DEF Finished, Ended
  <2>5. /\ DOMAIN steps'[r] = DOMAIN steps[r]
        /\ steps'[r][i] = [kind |-> steps[r][i].kind, status |-> s, bound |-> steps[r][i].bound]
        /\ \A j \in DOMAIN steps[r] \ {i} : steps'[r][j] = steps[r][j]
    BY <2>1, <2>3, <2>4, SetStatusProperties
  <2> QED
    BY <2>1, <2>3, <2>5 DEF EndsRow
<1>2. CASE ~StepOpen(r, i) /\ UNCHANGED store
  BY <1>2 DEF store, EndsRow, RowsApart
<1> QED
  BY <1>1, <1>2 DEF EndStep

LEMMA RunEndsRow ==
    ASSUME StoreInv, NEW r \in Runs, EndRun(r, "error"), Row(r) => status[r] \in Open
    PROVE  EndsRow(r, "error") /\ RowsApart(r)
<1>1. CASE FinishRun(r, "error")
  <2>1. status[r] \in Open /\ Row(r) /\ "error" \in Ended
    BY <1>1, RowFacts DEF FinishRun, Ended
  <2>2. /\ status' = [status EXCEPT ![r] = "error"] /\ steps' = [steps EXCEPT ![r] = CloseSteps(@, "error")]
        /\ status \in [Runs -> Open \union Ended \union Gone] /\ steps \in [Runs -> Seq(Step)]
    BY <1>1 DEF FinishRun, StoreInv, StoreTypeOK
  <2>3. /\ steps'[r] = CloseSteps(steps[r], "error") /\ steps[r] \in Seq(Step) /\ status'[r] = "error"
        /\ RowsApart(r)
    BY <2>2 DEF RowsApart
  <2>4. /\ DOMAIN steps'[r] = DOMAIN steps[r]
        /\ \A j \in DOMAIN steps[r] :
             steps'[r][j] = [steps[r][j] EXCEPT !.status = IF @ \in Open THEN "error" ELSE @]
    BY <2>3 DEF CloseSteps
  <2>5. \A j \in DOMAIN steps[r] : steps[r][j] \in Step
    BY RowTypes
  <2>6. \A j \in DOMAIN steps[r] : steps'[r][j].status \in {steps[r][j].status, "error"}
    BY <2>4, <2>5 DEF Step
  <2> QED
    BY <2>1, <2>3, <2>4, <2>6 DEF EndsRow
<1>2. CASE status[r] \notin Open /\ UNCHANGED store
  BY <1>2 DEF store, EndsRow, RowsApart
<1> QED
  BY <1>1, <1>2 DEF EndRun

LEMMA EndedRow ==
    ASSUME NEW r \in Runs, NEW s \in Finished, EndsRow(r, s)
    PROVE  /\ (Row(r)' <=> Row(r)) /\ (Row(r) => status'[r] = s)
           /\ status'[r] = "none" <=> status[r] = "none"
           /\ \A j \in DOMAIN steps[r] :
                steps[r][j].status \notin {"running", "interrupted"} => steps'[r][j].status \notin {"running", "interrupted"}
BY DEF EndsRow, Finished, Row, Gone

-----------------------------------------------------------------------------
(* Steps of a thread that change the table or the rows *)

\* A run one of whose threads is about to ask is on no other's hands.
LEMMA EarlyAlone ==
    ASSUME Controller, NEW r \in Runs, RunOK(r), NEW j \in Indices, thread[r][j] \in Early
    PROVE  /\ ~OnRelay(r) /\ active[r].step \in {0, j}
           /\ active[r].step = 0 => thread[r][j] = "begin" /\ j = 1
<1>1. Apart(r) /\ StepOK(r, j)
  BY DEF Controller, ApartInv, RunOK
<1>2. 0 \notin Indices
  BY DEF Indices
<1> QED
  BY <1>1, <1>2 DEF Apart, StepOK, Early

\* An outcome is owed as long as somebody has the run.
LEMMA Owed ==
    ASSUME NEW r \in Runs, RunOK(r), Row(r), ~Over(r)
    PROVE  told[r] = <<>> /\ returned[r] # "error"
BY DEF RunOK, OutcomeOK

LEMMA ReportOnce ==
    ASSUME Controller, NEW r \in Runs, NEW i \in Indices, Report(r, i), IsActive(r, i),
           told[r] = <<>>, returned[r] # "error"
    PROVE  /\ i = 1 => told'[r] = <<>> /\ returned'[r] = "error"
           /\ i # 1 => told'[r] = <<"error">> /\ returned'[r] = returned[r]
BY DEF Controller, AgentTypes, Report, Returns, Tell

LEMMA ReportApart ==
    ASSUME Controller, NEW r \in Runs, NEW i, Report(r, i)
    PROVE  \A x \in Runs \ {r} : told'[x] = told[x] /\ returned'[x] = returned[x]
BY DEF Controller, AgentTypes, Report, Returns, Tell

LEMMA RefusedRun ==
    ASSUME Controller, NEW r \in Runs, NEW i \in Indices, RunOK(r), Refused(r, i)
    PROVE  RunOK(r)' /\ RowsApart(r)
<1>1. /\ thread[r][i] = "refused" /\ Report(r, i) /\ Goes(r, i, "done") /\ UNCHANGED <<relay, faults>>
      /\ UNCHANGED worker_vars /\ active' = Removed(r, i) /\ EndStep(r, i, "error")
  BY DEF Refused
<1>2. /\ ~OnRelay(r) /\ active[r].step = i /\ status[r] # "none" /\ StepOK(r, i) /\ 1 \in Indices /\ i # 0
  BY <1>1, EarlyAlone, HandleTypes DEF RunOK, StepOK, Early, Indices
<1>3. Row(r) => StepOpen(r, i) /\ i \in DOMAIN steps[r]
  BY <1>1, <1>2 DEF StepOK, StepOpen, HasStep, Early, Open
<1>4. EndsRow(r, "error") /\ RowsApart(r) /\ "error" \in Finished
  BY <1>1, <1>3, StepEndsRow DEF Controller, Finished
<1>5. /\ (Row(r)' <=> Row(r)) /\ status'[r] # "none" /\ (Row(r) => status'[r] = "error")
      /\ DOMAIN steps'[r] = DOMAIN steps[r]
      /\ \A j \in DOMAIN steps[r] :
           steps[r][j].status \notin {"running", "interrupted"} => steps'[r][j].status \notin {"running", "interrupted"}
  BY <1>2, <1>4, EndedRow DEF EndsRow
<1>6. ~Over(r)
  BY <1>1, <1>2 DEF Over, Stranded
<1>7. active'[r].step = 0
  BY <1>1, <1>2, StartEntries DEF Removed, IsActive, Controller, AgentTypes
<1>8. thread'[r][i] = "done" /\ (\A j \in Indices \ {i} : thread'[r][j] = thread[r][j])
  BY <1>1, PlaceMoves DEF Controller
<1>9. \A j \in Indices \ {i} : thread[r][j] \notin Early
  BY <1>2, EarlyAlone
<1>10. \A j \in Indices : thread'[r][j] \notin Early
  BY <1>8, <1>9 DEF Early
<1>11. ASSUME NEW j \in Indices PROVE StepOK(r, j)'
  <2>1. StepOK(r, j)
    BY DEF RunOK
  <2>2. j # 0
    BY DEF Indices
  <2> QED
    BY <1>1, <1>2, <1>5, <1>7, <1>8, <1>10, <2>1, <2>2 DEF StepOK, Early, Unsubmitted, Unbound, worker_vars
<1>12. StartOK(r)'
  BY <1>2, <1>10 DEF StartOK
<1>13. RelayOK(r)' /\ ~OnRelay(r)'
  BY <1>1, <1>2 DEF RelayOK, OnRelay
<1>14. OutcomeOK(r)'
  <2>1. Over(r)'
    BY <1>2, <1>7, <1>10, <1>13 DEF Over
  <2>2. CASE ~Row(r)
    BY <1>5, <2>2 DEF OutcomeOK
  <2>3. CASE Row(r)
    <3>1. told[r] = <<>> /\ returned[r] # "error" /\ IsActive(r, i)
      BY <1>2, <1>6, <2>3, Owed DEF IsActive
    <3>2. /\ i = 1 => told'[r] = <<>> /\ returned'[r] = "error"
          /\ i # 1 => told'[r] = <<"error">> /\ returned'[r] # "error"
      BY <1>1, <3>1, ReportOnce
    <3>3. 1 \in DOMAIN steps'[r]
      BY <1>5, <2>3 DEF RunOK, OutcomeOK
    <3>4. ASSUME NEW j \in Indices, request'.handle = <<r, j>> PROVE worker' = "acked"
      <4>1. StepOK(r, j) /\ request.handle = <<r, j>> /\ worker' = worker
        BY <1>1, <3>4 DEF RunOK, worker_vars
      <4>2. j # i /\ active[r].step \notin {0, j}
        BY <1>1, <1>2, <4>1 DEF StepOK, Unsubmitted
      <4> QED
        BY <4>1, <4>2 DEF StepOK
    <3>5. /\ Len(told'[r]) <= 1 /\ (returned'[r] = "error" => told'[r] = <<>>)
          /\ told'[r] # <<>> => status'[r] = StatusOf(Head(told'[r]))
      <4>1. CASE i = 1
        BY <3>2, <4>1
      <4>2. CASE i # 1
        <5>1. \A q : q = <<"error">> => Len(q) = 1 /\ Head(q) = "error" /\ q # <<>>
          OBVIOUS
        <5>2. Len(told'[r]) = 1 /\ Head(told'[r]) = "error" /\ returned'[r] # "error"
          BY <3>2, <4>2, <5>1
        <5> QED
          BY <1>5, <2>3, <5>2 DEF StatusOf
      <4> QED
        BY <4>1, <4>2
    <3> QED
      BY <1>5, <2>1, <3>3, <3>4, <3>5 DEF OutcomeOK
  <2> QED
    BY <2>2, <2>3
<1> QED
  BY <1>4, <1>11, <1>12, <1>13, <1>14 DEF RunOK

LEMMA AbandonRun ==
    ASSUME Controller, NEW r \in Runs, NEW i \in Indices, RunOK(r), Abandon(r, i)
    PROVE  RunOK(r)' /\ RowsApart(r)
<1>1. /\ thread[r][i] = "abandon" /\ Goes(r, i, "done") /\ UNCHANGED <<relay, faults>>
      /\ UNCHANGED worker_vars /\ active' = Removed(r, i)
  BY DEF Abandon
<1>2. ~Row(r) /\ status[r] # "none" /\ 1 \in Indices /\ "error" \in Finished
  BY <1>1, HandleTypes DEF RunOK, StepOK, Unbound, Finished
<1>3. EndsRow(r, "error") /\ RowsApart(r)
  BY <1>2, StepEndsRow, RunEndsRow DEF Abandon, Controller
<1>4. ~Row(r)' /\ status'[r] # "none"
  BY <1>2, <1>3 DEF EndsRow, Row
<1>5. thread'[r][i] = "done" /\ (\A j \in Indices \ {i} : thread'[r][j] = thread[r][j])
  BY <1>1, PlaceMoves DEF Controller
<1>6. active'[r].step = IF active[r].step = i THEN 0 ELSE active[r].step
  BY <1>1, StartEntries DEF Removed, IsActive, Controller, AgentTypes
<1>7. ASSUME NEW j \in Indices PROVE StepOK(r, j)'
  <2>1. StepOK(r, j)
    BY DEF RunOK
  <2> QED
    BY <1>1, <1>4, <1>5, <1>6, <2>1 DEF StepOK, Unsubmitted, worker_vars
<1>8. StartOK(r)'
  BY <1>1, <1>2, <1>5 DEF RunOK, StartOK, Early
<1>9. RelayOK(r)'
  BY <1>1, <1>4, <1>5 DEF RunOK, RelayOK, OnRelay
<1>10. OutcomeOK(r)'
  BY <1>4 DEF OutcomeOK
<1> QED
  BY <1>3, <1>7, <1>8, <1>9, <1>10 DEF RunOK

LEMMA BindRun ==
    ASSUME Controller, NEW r \in Runs, NEW i \in Indices, RunOK(r), thread[r][i] = "accepted",
           BindRequest(r, i), Goes(r, i, "bound"), UNCHANGED <<active, relay, told, returned, faults>>,
           UNCHANGED worker_vars
    PROVE  RunOK(r)' /\ RowsApart(r)
<1>1. i \in DOMAIN steps[r] /\ steps[r][i].status = "prepared" /\ status[r] \in Open /\ Row(r)
      /\ steps[r] \in Seq(Step)
  BY RowFacts, RowTypes DEF BindRequest, Bindable, HasStep, Controller
<1>2. /\ status' = [status EXCEPT ![r] = IF @ \in Open THEN "running" ELSE @]
      /\ steps' = [steps EXCEPT ![r] = Bound(@, i)]
      /\ status \in [Runs -> Open \union Ended \union Gone] /\ steps \in [Runs -> Seq(Step)]
  BY DEF BindRequest, Bind, Controller, StoreInv, StoreTypeOK
<1>3. status'[r] = "running" /\ steps'[r] = Bound(steps[r], i) /\ RowsApart(r)
  BY <1>1, <1>2 DEF RowsApart
<1>4. /\ DOMAIN steps'[r] = DOMAIN steps[r] /\ steps'[r][i].status = "running"
      /\ \A j \in DOMAIN steps[r] \ {i} : steps'[r][j] = steps[r][j]
  <2>1. /\ DOMAIN steps'[r] = DOMAIN steps[r]
        /\ steps'[r][i] = [kind |-> steps[r][i].kind, status |-> "running", bound |-> TRUE]
        /\ \A j \in DOMAIN steps[r] \ {i} : steps'[r][j] = steps[r][j]
    BY <1>1, <1>3, BoundProperties
  <2> QED
    BY <2>1
<1>5. Row(r)' /\ status'[r] \in Open /\ status[r] \notin Finished /\ "running" \in Open
  BY <1>1, <1>3 DEF Row, Gone, Open, Finished
<1>6. thread'[r][i] = "bound" /\ (\A j \in Indices \ {i} : thread'[r][j] = thread[r][j])
  BY PlaceMoves DEF Controller
<1>7. \A j : StepOpen(r, j) => StepOpen(r, j)'
  BY <1>4, <1>5 DEF StepOpen, HasStep
<1>8. ASSUME NEW j \in Indices PROVE StepOK(r, j)'
  <2>1. StepOK(r, j)
    BY DEF RunOK
  <2>2. CASE j = i
    BY <1>1, <1>3, <1>4, <1>5, <1>6, <1>7, <2>1, <2>2 DEF StepOK, Unsubmitted, Unbound, Early, worker_vars
  <2>3. CASE j # i
    <3>1. j \in DOMAIN steps[r] => steps'[r][j] = steps[r][j]
      BY <1>4, <2>3
    <3>2. /\ thread'[r][j] = thread[r][j] /\ active' = active /\ request' = request /\ worker' = worker
          /\ DOMAIN steps'[r] = DOMAIN steps[r] /\ (StepOpen(r, j) => StepOpen(r, j)')
          /\ status'[r] # "none"
      BY <1>3, <1>4, <1>6, <1>7, <2>3 DEF worker_vars
    <3>3. Row(r)
      BY <1>1
    <3>4. thread'[r][j] \in Early \/ thread'[r][j] = "accepted" => thread'[r][j] # "none"
      BY DEF Early
    <3> QED
      BY <2>1, <3>1, <3>2, <3>3, <3>4 DEF StepOK
  <2> QED
    BY <2>2, <2>3
<1>9. thread[r][1] \notin Early /\ thread'[r][1] \notin Early
  <2>1. thread[r][1] \notin Early
    BY DEF RunOK, StartOK, Early
  <2> QED
    BY <1>6, <2>1, HandleTypes DEF Early
<1>10. StartOK(r)'
  BY <1>9 DEF StartOK
<1>11. RelayOK(r)'
  <2>1. OnRelay(r)' <=> OnRelay(r)
    BY DEF OnRelay
  <2>2. OnRelay(r) => relay.pc # "tell"
    <3>1. OnRelay(r) /\ relay.pc = "tell" => StatusOf(relay.kind) \in Finished
      BY DEF OnRelay, Controller, AgentOK, AgentTypes, StatusOf, Finished
    <3> QED
      BY <1>1, <1>5, <3>1 DEF RunOK, RelayOK
  <2>3. OnRelay(r) /\ relay.pc = "start" => relay.entry.step # i
    BY DEF RunOK, RelayOK
  <2>4. RelayOK(r)
    BY DEF RunOK
  <2> QED
    BY <1>1, <1>4, <1>5, <1>6, <1>7, <2>1, <2>2, <2>3, <2>4 DEF RelayOK
<1>12. OutcomeOK(r)'
  <2>1. told[r] = <<>>
    <3>1. told[r] # <<>> => StatusOf(Head(told[r])) \in Finished
      <4>1. told[r] \in Seq({"done", "cancelled", "error"})
        BY DEF Controller, AgentTypes
      <4>2. told[r] # <<>> => Head(told[r]) \in {"done", "cancelled", "error"}
        BY <4>1, HeadTailProperties
      <4> QED
        BY <4>2 DEF StatusOf, Finished
    <3> QED
      BY <1>1, <1>5, <3>1 DEF RunOK, OutcomeOK
  <2>2. Over(r) => Over(r)'
    BY <1>6, <1>9, HandleTypes DEF Over, Stranded, OnRelay, worker_vars
  <2> QED
    BY <1>1, <1>3, <1>4, <2>1, <2>2 DEF RunOK, OutcomeOK
<1> QED
  BY <1>3, <1>8, <1>10, <1>11, <1>12 DEF RunOK

LEMMA BeganRun ==
    ASSUME Controller, NEW r \in Runs, RunOK(r), thread[r][1] = "begin",
           UNCHANGED <<relay, told>>, UNCHANGED store, UNCHANGED worker_vars,
           NEW pc, Goes(r, 1, pc), NEW s, active'[r].step = s, s \in {0, 1}, s = 1 => Submittable(r),
           \/ pc = "ask" /\ s = 1 /\ returned'[r] = "none"
           \/ pc = "done" /\ returned'[r] = "error"
    PROVE  RunOK(r)'
<1>1. 1 \in Indices
  BY HandleTypes
<1>2. /\ ~OnRelay(r) /\ active[r].step = 0 /\ told[r] = <<>> /\ returned[r] = "none" /\ status[r] # "none"
      /\ \A i \in Indices : (i # 1 => thread[r][i] = "none") /\ request.handle # <<r, i>>
  <2>1. ~OnRelay(r) /\ StepOK(r, 1) /\ StartOK(r) /\ Apart(r)
    BY <1>1, EarlyAlone DEF Early, RunOK, Controller, ApartInv
  <2> QED
    BY <1>1, <2>1 DEF StepOK, StartOK, Early, Apart
<1>3. ~OnRelay(r)' /\ status' = status /\ steps' = steps /\ request' = request /\ told' = told
  BY <1>2 DEF OnRelay, store, worker_vars
<1>4. thread'[r][1] = pc /\ (\A j \in Indices \ {1} : thread'[r][j] = thread[r][j])
  BY <1>1, PlaceMoves DEF Controller
<1>5. \A j \in Indices : j # 1 => thread'[r][j] = "none"
  BY <1>2, <1>4
<1>6. Submittable(r) => StepOpen(r, 1) /\ steps[r][1].status = "prepared"
  BY DEF Submittable, StepOpen, Open
<1>7. Row(r)' <=> Row(r)
  BY <1>3 DEF Row
<1>8. ASSUME NEW j \in Indices PROVE StepOK(r, j)'
  <2>1. StepOK(r, 1) /\ j # 0
    BY <1>1 DEF RunOK, Indices
  <2>2. StepOpen(r, j)' <=> StepOpen(r, j)
    BY <1>3 DEF StepOpen, HasStep
  <2>3. CASE j # 1
    BY <1>2, <1>3, <1>5, <2>1, <2>3 DEF StepOK, Early, Unbound
  <2>4. CASE j = 1
    BY <1>1, <1>2, <1>3, <1>4, <1>6, <1>7, <2>1, <2>2, <2>4 DEF StepOK, Early, Unbound
  <2> QED
    BY <2>3, <2>4
<1>9. StartOK(r)'
  <2>1. pc # "ask" => pc \notin Early
    BY DEF Early
  <2> QED
    BY <1>2, <1>3, <1>4, <1>5, <2>1 DEF StartOK
<1>10. RelayOK(r)'
  BY <1>3 DEF RelayOK
<1>11. OutcomeOK(r)'
  <2>1. pc = "done" => Over(r)'
    BY <1>2, <1>3, <1>4 DEF Over, Stranded, Early
  <2>2. returned'[r] = "error" => pc = "done"
    OBVIOUS
  <2> QED
    BY <1>2, <1>3, <1>7, <2>1, <2>2 DEF RunOK, OutcomeOK
<1> QED
  BY <1>8, <1>9, <1>10, <1>11 DEF RunOK

LEMMA BeginRun ==
    ASSUME Controller, NEW r \in Runs, RunOK(r), Begin(r)
    PROVE  RunOK(r)'
<1>1. thread[r][1] = "begin" /\ UNCHANGED <<relay, told>> /\ UNCHANGED store /\ UNCHANGED worker_vars
  BY DEF Begin, Untouched
<1>2. active \in [Runs -> Entries] /\ returned \in [Runs -> {"none", "ok", "error"}]
  BY DEF Controller, AgentTypes
<1>3. returned[r] = "none" /\ active[r].step = 0
  BY <1>1 DEF RunOK, StartOK, Early, Controller, ApartInv, Apart
<1>4. CASE Submittable(r) /\ ~IsActive(r, 1)
  <2>1. active'[r].step = 1
    BY <1>2, <1>4, StartEntries DEF Begin
  <2>2. CASE Goes(r, 1, "ask") /\ UNCHANGED returned
    BY <1>1, <1>3, <1>4, <2>1, <2>2, BeganRun
  <2>3. CASE Goes(r, 1, "done") /\ Returns(r, "error")
    <3>1. returned'[r] = "error"
      BY <1>2, <2>3 DEF Returns
    <3> QED
      BY <1>1, <1>4, <2>1, <2>3, <3>1, BeganRun
  <2> QED
    BY <1>4, <2>2, <2>3 DEF Begin
<1>5. CASE ~(Submittable(r) /\ ~IsActive(r, 1))
  <2>1. Goes(r, 1, "done") /\ returned'[r] = "error" /\ active'[r].step = 0
    BY <1>2, <1>3, <1>5 DEF Begin, Returns
  <2> QED
    BY <1>1, <2>1, BeganRun
<1> QED
  BY <1>4, <1>5

LEMMA PlacesLeft ==
    ASSUME AgentTypes, NEW r \in Runs, NEW i \in Indices, NEW pc, Goes(r, i, pc), thread[r][i] \notin Waiting
    PROVE  \A h \in Handles : LeftAlone(h)
<1>1. Place(<<r, i>>) \notin Waiting
  BY DEF Place
<1> QED
  BY <1>1, PlaceMoves DEF LeftAlone

\* What a thread does is done to its own run.
LEMMA ThreadActs ==
    ASSUME Controller, OutcomeInv, NEW r \in Runs, NEW i \in Indices, NEW pc, Goes(r, i, pc),
           UNCHANGED relay, UNCHANGED request, Quiet, RunOK(r)', RowsApart(r), CommandsOK',
           \A x \in Runs \ {r} : /\ active'[x].step = active[x].step /\ told'[x] = told[x]
                                 /\ returned'[x] = returned[x]
    PROVE  OutcomeInv'
<1>1. WorkerFacts'
  BY FactsStay DEF OutcomeInv, WorkerFacts, Controller
<1>2. ASSUME NEW x \in Runs \ {r} PROVE Framed(x)
  <2>1. thread'[x] = thread[x] /\ RequestStays(x)
    BY PlaceMoves, QuietRequest DEF Controller
  <2> QED
    BY <2>1 DEF Framed, OnRelay, RowsApart
<1> QED
  BY <1>1, <1>2, OthersFramed DEF OutcomeInv

LEMMA EntriesApart ==
    ASSUME Controller, NEW r \in Runs, NEW i,
           active' = Removed(r, i)
    PROVE  \A x \in Runs \ {r} : active'[x] = active[x]
BY DEF Controller, AgentTypes, Removed

LEMMA BeginKeeps ==
    ASSUME Controller, OutcomeInv, NEW r \in Runs, Begin(r)
    PROVE  OutcomeInv'
<1>1. RunOK(r)' /\ RowsApart(r) /\ UNCHANGED request /\ UNCHANGED relay /\ Quiet /\ UNCHANGED commands
  BY BeginRun, SameWorkerQuiet DEF Begin, Untouched, store, worker_vars, RowsApart, OutcomeInv, RunsOK
<1>2. PICK pc : Goes(r, 1, pc)
  BY DEF Begin
<1>3. 1 \in Indices /\ thread[r][1] \notin Waiting
  BY HandleTypes DEF Begin, Waiting
<1>4. CommandsOK'
  BY <1>1, <1>2, <1>3, PlacesLeft, CommandsStay DEF Controller, OutcomeInv
<1>5. \A x \in Runs \ {r} : active'[x] = active[x] /\ told'[x] = told[x] /\ returned'[x] = returned[x]
  BY DEF Begin, Returns, Controller, AgentTypes
<1> QED
  BY <1>1, <1>2, <1>3, <1>4, <1>5, ThreadActs

LEMMA AskKeeps ==
    ASSUME Controller, OutcomeInv, NEW r \in Runs, NEW i \in Indices, Ask(r, i) \/ Withdraw(r, i)
    PROVE  OutcomeInv'
<1>1. /\ UNCHANGED <<active, relay, told, returned, faults>> /\ UNCHANGED store
      /\ <<r, i>> \in Handles /\ RunOK(r) /\ WorkerOK /\ AgentTypes /\ CommandsOK /\ StepOK(r, i)
  BY HandleTypes DEF Ask, Withdraw, OutcomeInv, RunsOK, RunOK, Controller
<1>2. /\ status'[r] = status[r] /\ steps'[r] = steps[r] /\ RowsApart(r) /\ UNCHANGED relay
      /\ active'[r].step = active[r].step /\ told'[r] = told[r] /\ returned'[r] = returned[r]
  BY <1>1 DEF store, RowsApart
<1>3. ASSUME NEW op \in {"submit", "withdraw"}, NEW pc \in {"asked", "stopped", "withdrawn"},
             Send(op, <<r, i>>), Goes(r, i, pc), thread[r][i] \in {"ask", "stopping", "unbinding"},
             op = "submit" => pc = "asked", op = "withdraw" => pc \in {"stopped", "withdrawn"},
             pc = "asked" => thread[r][i] = "ask", pc \in Unbound => ~Row(r)
      PROVE  OutcomeInv'
  <2>1. Quiet /\ UNCHANGED request
    BY <1>1, <1>3, SendQuiet DEF Send, OutcomeInv
  <2>2. RunOK(r)'
    BY <1>1, <1>2, <1>3, <2>1, QuietRequest, ThreadGoesOn DEF Unbound
  <2>3. CommandsOK'
    <3>1. PICK o \in Orders : o = Command(op, <<r, i>>)
      BY <1>1 DEF Command, Orders
    <3>2. o.op = op /\ o.handle = <<r, i>>
      BY <3>1 DEF Command
    <3>3. Place(<<r, i>>) = thread[r][i] /\ Place(<<r, i>>)' = pc
      BY <1>1, <1>3, PlaceMoves DEF Place
    <3>4. Ordered(o)'
      BY <1>3, <3>2, <3>3 DEF Ordered
    <3>5. thread[r][i] \notin Waiting
      BY <1>3 DEF Waiting
    <3>6. \A h \in Handles : LeftAlone(h)
      BY <1>1, <1>3, <3>5, PlacesLeft
    <3>7. commands' = Append(commands, o)
      BY <1>3, <3>1 DEF Send
    <3> QED
      BY <1>1, <3>2, <3>3, <3>4, <3>5, <3>6, <3>7, CommandSent
  <2> QED
    BY <1>1, <1>2, <1>3, <2>1, <2>2, <2>3, ThreadActs
<1>4. CASE Ask(r, i)
  BY <1>3, <1>4 DEF Ask, Unbound
<1>5. CASE Withdraw(r, i)
  <2>1. thread[r][i] = "unbinding" => ~Row(r)
    BY <1>1 DEF StepOK, Unbound
  <2>2. PICK pc \in {"stopped", "withdrawn"} : /\ Goes(r, i, pc) /\ (pc = "withdrawn" => thread[r][i] = "unbinding")
    BY <1>5 DEF Withdraw
  <2>3. Send("withdraw", <<r, i>>) /\ thread[r][i] \in {"stopping", "unbinding"}
    BY <1>5 DEF Withdraw
  <2> QED
    BY <1>3, <2>1, <2>2, <2>3 DEF Unbound
<1> QED
  BY <1>4, <1>5

LEMMA GivenUpKeeps ==
    ASSUME Controller, OutcomeInv, NEW r \in Runs, NEW i \in Indices, Refused(r, i) \/ Abandon(r, i)
    PROVE  OutcomeInv'
<1>1. /\ active' = Removed(r, i) /\ Report(r, i) /\ Goes(r, i, "done") /\ UNCHANGED relay
      /\ UNCHANGED worker_vars /\ thread[r][i] \in {"refused", "abandon"}
  BY DEF Refused, Abandon
<1>2. RunOK(r)' /\ RowsApart(r)
  BY RefusedRun, AbandonRun DEF OutcomeInv, RunsOK
<1>3. Quiet /\ UNCHANGED request /\ UNCHANGED commands
  BY <1>1, SameWorkerQuiet DEF OutcomeInv, worker_vars
<1>4. CommandsOK'
  <2>1. thread[r][i] \notin Waiting
    BY <1>1 DEF Waiting
  <2> QED
    BY <1>1, <1>3, <2>1, PlacesLeft, CommandsStay DEF Controller, OutcomeInv
<1>5. \A x \in Runs \ {r} : active'[x] = active[x] /\ told'[x] = told[x] /\ returned'[x] = returned[x]
  BY <1>1, ReportApart, EntriesApart
<1> QED
  BY <1>1, <1>2, <1>3, <1>4, <1>5, ThreadActs

LEMMA BindAnswerKeeps ==
    ASSUME Controller, OutcomeInv, NEW r \in Runs, NEW i \in Indices, BindAnswer(r, i)
    PROVE  OutcomeInv'
<1>1. /\ UNCHANGED <<active, relay, told, returned, faults>> /\ UNCHANGED worker_vars
      /\ thread[r][i] = "accepted" /\ RunOK(r) /\ StepOK(r, i) /\ AgentTypes
  BY DEF BindAnswer, OutcomeInv, RunsOK, RunOK, Controller
<1>2. Quiet /\ UNCHANGED request /\ UNCHANGED commands /\ UNCHANGED relay
  BY <1>1, SameWorkerQuiet DEF OutcomeInv, worker_vars
<1>3. ASSUME NEW pc, Goes(r, i, pc), RunOK(r)', RowsApart(r)
      PROVE  OutcomeInv'
  <2>1. CommandsOK'
    <3>1. thread[r][i] \notin Waiting
      BY <1>1 DEF Waiting
    <3> QED
      BY <1>1, <1>2, <1>3, <3>1, PlacesLeft, CommandsStay DEF Controller, OutcomeInv
  <2> QED
    BY <1>1, <1>2, <1>3, <2>1, ThreadActs
<1>4. CASE BindRequest(r, i) /\ Goes(r, i, "bound")
  BY <1>1, <1>3, <1>4, BindRun
<1>5. ASSUME NEW pc \in {"bound", "unbinding", "unbound"}, Goes(r, i, pc), UNCHANGED store, pc \in Unbound => ~Row(r)
      PROVE  OutcomeInv'
  <2>1. RowsApart(r) /\ status'[r] = status[r] /\ steps'[r] = steps[r]
    BY <1>5 DEF store, RowsApart
  <2>2. RunOK(r)'
    BY <1>1, <1>2, <1>5, <2>1, QuietRequest, ThreadGoesOn
  <2> QED
    BY <1>3, <1>5, <2>1, <2>2
<1>6. CASE BindIgnored(r, i) /\ UNCHANGED store /\ Goes(r, i, "bound")
  BY <1>5, <1>6 DEF Unbound
<1>7. CASE ~Bindable(r, i) /\ ~BindIgnored(r, i) /\ UNCHANGED store /\ \E pc \in {"unbinding", "unbound"} : Goes(r, i, pc)
  <2>1. ~Row(r)
    <3>1. ASSUME Row(r) PROVE Bindable(r, i) \/ BindIgnored(r, i)
      <4>1. i \in DOMAIN steps[r] /\ steps[r][i].status \notin {"running", "interrupted"}
        BY <1>1, <3>1 DEF StepOK
      <4>2. steps[r][i].status \in Open \union Ended
        BY <4>1, RowFacts DEF Controller
      <4> QED
        BY <4>1, <4>2 DEF Bindable, BindIgnored, HasStep, Open, Ended
    <3> QED
      BY <1>7, <3>1
  <2> QED
    BY <1>5, <1>7, <2>1
<1> QED
  BY <1>4, <1>6, <1>7 DEF BindAnswer

LEMMA NoteKeeps ==
    ASSUME Controller, OutcomeInv, NEW r \in Runs, NEW i \in Indices, Note(r, i)
    PROVE  OutcomeInv'
<1>1. /\ UNCHANGED <<relay, told, faults>> /\ UNCHANGED store /\ UNCHANGED worker_vars
      /\ thread[r][i] \in {"bound", "unbound"} /\ RunOK(r) /\ StepOK(r, i) /\ AgentTypes
  BY DEF Note, Untouched, OutcomeInv, RunsOK, RunOK, Controller
<1>2. Quiet /\ UNCHANGED request /\ UNCHANGED commands /\ UNCHANGED relay
  BY <1>1, SameWorkerQuiet DEF OutcomeInv, worker_vars
<1>3. PICK pc \in {"unbinding", "stopping", "done"} :
         Goes(r, i, pc) /\ (pc = "unbinding" => thread[r][i] = "unbound")
  BY DEF Note
<1>4. \A x \in Runs : active'[x].step = active[x].step
  BY <1>1 DEF Note, AgentTypes, Entries
<1>5. returned'[r] \in {returned[r], "ok"} /\ \A x \in Runs \ {r} : returned'[x] = returned[x]
  BY <1>1 DEF Note, Returns, AgentTypes
<1>6. RowsApart(r) /\ status'[r] = status[r] /\ steps'[r] = steps[r]
  BY <1>1 DEF store, RowsApart
<1>7. pc \in Unbound => ~Row(r)
  BY <1>1, <1>3 DEF StepOK, Unbound
<1>8. pc \notin Early /\ thread[r][i] \notin Waiting
  BY <1>1 DEF Early, Waiting
<1>9. RunOK(r)'
  BY <1>1, <1>2, <1>3, <1>4, <1>5, <1>6, <1>7, <1>8, QuietRequest, ThreadGoesOn
<1>10. CommandsOK'
  BY <1>1, <1>2, <1>3, <1>8, PlacesLeft, CommandsStay DEF Controller, OutcomeInv
<1> QED
  BY <1>1, <1>2, <1>3, <1>4, <1>5, <1>6, <1>9, <1>10, ThreadActs

LEMMA ThreadsKeep ==
    ASSUME Controller, OutcomeInv, Threads
    PROVE  OutcomeInv'
BY BeginKeeps, AskKeeps, GivenUpKeeps, BindAnswerKeeps, NoteKeeps DEF Threads, ThreadStep

-----------------------------------------------------------------------------
(* The worker, and the window *)

\* Threads and rows stay, but for rows that are deleted.
LEMMA NothingMoves ==
    ASSUME Controller, OutcomeInv, Quiet, CommandsOK', UNCHANGED <<thread, relay, told, returned>>,
           relay.pc # "idle" => request'.handle = request.handle,
           \A x \in Runs : /\ active'[x].step = active[x].step
                           /\ status'[x] = "gone" \/ (status'[x] = status[x] /\ steps'[x] = steps[x])
    PROVE  OutcomeInv'
<1>1. WorkerFacts'
  BY FactsStay DEF OutcomeInv, WorkerFacts, Controller
<1>2. ASSUME NEW x \in Runs PROVE Framed(x)
  BY QuietRequest DEF Framed, OnRelay
<1> QED
  BY <1>1, <1>2, AllFramed DEF OutcomeInv

LEMMA NobodyLeaves ==
    ASSUME UNCHANGED thread
    PROVE  \A h \in Handles : LeftAlone(h)
BY DEF LeftAlone, Place

\* Commands nobody waits for are sent, or any is dropped.
LEMMA CommandsPass ==
    ASSUME Controller, CommandsOK, UNCHANGED thread,
           \/ UNCHANGED commands
           \/ commands # <<>> /\ commands' = Tail(commands)
           \/ \E o \in Orders : o.op \notin Tracked /\ commands' = Append(commands, o)
    PROVE  CommandsOK'
<1>1. CASE UNCHANGED commands
  BY <1>1, NobodyLeaves, CommandsStay DEF Controller
<1>2. CASE commands # <<>> /\ commands' = Tail(commands)
  BY <1>2, NobodyLeaves, CommandAnswered DEF Controller
<1>3. ASSUME NEW o \in Orders, o.op \notin Tracked, commands' = Append(commands, o)
      PROVE  CommandsOK'
  <2>1. Ordered(o)'
    BY <1>3 DEF Ordered, Tracked
  <2> QED
    BY <1>3, <2>1, NobodyLeaves, CommandSent DEF Controller
<1> QED
  BY <1>1, <1>2, <1>3

LEMMA SameRows ==
    ASSUME UNCHANGED store
    PROVE  \A x \in Runs : status'[x] = status[x] /\ steps'[x] = steps[x]
BY DEF store

LEMMA WorkerAloneKeeps ==
    ASSUME Controller, OutcomeInv, UNCHANGED agent, UNCHANGED store,
           (\E op \in Unloads : HandleModel(op)) \/ Poll \/ Drain \/ Finish
    PROVE  OutcomeInv'
<1>1. Quiet
  BY HandleModelQuiet, WorkerAloneQuiet DEF Controller, OutcomeInv
<1>2. relay.pc = "idle"
  BY DEF HandleModel, Receives, Poll, Drain, Finish, Controller, AgentOK
<1>3. UNCHANGED <<thread, relay, told, returned, active>>
  BY DEF agent
<1>4. \/ UNCHANGED commands
      \/ commands # <<>> /\ commands' = Tail(commands)
  BY DEF HandleModel, Receives, Poll, Drain, Finish
<1>5. CommandsOK'
  BY <1>3, <1>4, CommandsPass DEF OutcomeInv
<1> QED
  BY <1>1, <1>2, <1>3, <1>5, SameRows, NothingMoves

LEMMA NativeKeeps ==
    ASSUME Controller, OutcomeInv, NativeStep
    PROVE  OutcomeInv'
<1>1. PICK outcome \in {"done", "cancelled", "error"} : NativeEnds(outcome)
  BY DEF NativeStep
<1>2. Quiet
  BY <1>1, NativeQuiet DEF Controller, OutcomeInv
<1>3. request'.handle = request.handle /\ UNCHANGED commands
  BY <1>1, WorkerTypes DEF NativeEnds, Request, Controller
<1>4. UNCHANGED <<thread, relay, told, returned, active>> /\ UNCHANGED store
  BY DEF NativeStep, agent
<1>5. CommandsOK'
  BY <1>3, <1>4, CommandsPass DEF OutcomeInv
<1> QED
  BY <1>2, <1>3, <1>4, <1>5, SameRows, NothingMoves

LEMMA AnswerCancelKeeps ==
    ASSUME Controller, OutcomeInv, NEW op \in {"cancel", "late cancel"}, AnswerCancel(op)
    PROVE  OutcomeInv'
<1>1. Quiet /\ worker = "recv" /\ commands # <<>> /\ commands' = Tail(commands) /\ op \in Asks
  BY CancelQuiet DEF AnswerCancel, HandleCancel, Receives, Controller, OutcomeInv, Asks
<1>2. UNCHANGED <<thread, relay, told, returned, active>> /\ UNCHANGED store
  BY DEF AnswerCancel, agent
<1>3. relay.pc = "idle"
  BY <1>1 DEF Controller, AgentOK
<1>4. CommandsOK'
  BY <1>1, <1>2, CommandsPass DEF OutcomeInv
<1> QED
  BY <1>1, <1>2, <1>3, <1>4, SameRows, NothingMoves

\* The thread that waited for the answer goes on.
LEMMA AnsweredKeeps ==
    ASSUME Controller, OutcomeInv, commands # <<>>, commands' = Tail(commands), Head(commands).op \in Tracked,
           NEW r \in Runs, NEW i \in Indices, Head(commands).handle = <<r, i>>, NEW pc, Goes(r, i, pc),
           UNCHANGED <<active, relay, told, returned, faults>>, UNCHANGED store, worker = "recv",
           WorkerFacts', RunOK(r)', \A x \in Runs \ {r} : RequestStays(x)
    PROVE  OutcomeInv'
<1>1. \A h \in Handles \ {<<r, i>>} : LeftAlone(h)
  BY PlaceMoves DEF LeftAlone, Controller
<1>2. CommandsOK'
  BY <1>1, CommandAnswered DEF Controller, OutcomeInv
<1>3. ASSUME NEW x \in Runs \ {r} PROVE Framed(x)
  <2>1. thread'[x] = thread[x]
    BY PlaceMoves DEF Controller
  <2> QED
    BY <2>1, SameRows DEF Framed, OnRelay
<1> QED
  BY <1>2, <1>3, OthersFramed DEF OutcomeInv

\* The command at the head has a thread that waits for its answer.
LEMMA HeadWaits ==
    ASSUME WorkerOK, CommandsOK, commands # <<>>, Head(commands).op \in Tracked
    PROVE  \E r \in Runs, i \in Indices :
              /\ Head(commands).handle = <<r, i>>
              /\ Head(commands).op = "submit" => thread[r][i] = "asked"
              /\ Head(commands).op = "withdraw" => thread[r][i] \in {"stopped", "withdrawn"}
<1>1. 1 \in DOMAIN commands /\ commands[1] = Head(commands) /\ Head(commands) \in Orders
  BY WorkerTypes, Removing
<1>2. PICK c \in Orders : c = Head(commands)
  BY <1>1
<1>3. Ordered(c) /\ c.handle \in Handles
  BY <1>1, <1>2, OrderTypes DEF CommandsOK
<1>4. PICK r \in Runs, i \in Indices : c.handle = <<r, i>>
  BY <1>3, HandleTypes
<1> QED
  BY <1>2, <1>3, <1>4 DEF Ordered, Place

LEMMA AnswerWithdrawKeeps ==
    ASSUME Controller, OutcomeInv, AnswerWithdraw
    PROVE  OutcomeInv'
<1>1. /\ Quiet /\ worker = "recv" /\ commands # <<>> /\ commands' = Tail(commands) /\ Head(commands).op = "withdraw"
      /\ Head(commands).op \in Tracked /\ UNCHANGED <<active, relay, told, returned, faults>>
      /\ UNCHANGED store
  BY CancelQuiet DEF AnswerWithdraw, HandleCancel, Receives, Controller, OutcomeInv, Asks, Tracked
<1>2. PICK r \in Runs, i \in Indices :
         Head(commands).handle = <<r, i>> /\ thread[r][i] \in {"stopped", "withdrawn"}
  BY <1>1, HeadWaits DEF Controller, OutcomeInv
<1>3. PICK pc \in {"done", "abandon"} : Goes(r, i, pc) /\ (pc = "abandon" => thread[r][i] = "withdrawn")
  BY <1>2 DEF AnswerWithdraw
<1>4. RunOK(r) /\ (pc \in Unbound => ~Row(r))
  BY <1>2, <1>3 DEF OutcomeInv, RunsOK, RunOK, StepOK, Unbound
<1>5. relay.pc = "idle" /\ WorkerFacts'
  BY <1>1, FactsStay DEF Controller, AgentOK, OutcomeInv
<1>6. /\ status'[r] = status[r] /\ steps'[r] = steps[r] /\ active'[r].step = active[r].step
      /\ told'[r] = told[r] /\ returned'[r] = returned[r] /\ UNCHANGED relay
  BY <1>1, SameRows
<1>7. RunOK(r)'
  BY <1>1, <1>2, <1>3, <1>4, <1>6, QuietRequest, ThreadGoesOn
<1> QED
  BY <1>1, <1>2, <1>3, <1>5, <1>7, QuietRequest, AnsweredKeeps

\* The worker has accepted the request of a step: the thread was alone with the run.
LEMMA AcceptedRun ==
    ASSUME Controller, NEW r \in Runs, NEW i \in Indices, RunOK(r), thread[r][i] = "asked",
           Goes(r, i, "accepted"), UNCHANGED <<active, relay, told, returned, faults>>, UNCHANGED store,
           request'.handle = <<r, i>>, relay.pc = "idle"
    PROVE  RunOK(r)'
<1>1. /\ ~OnRelay(r) /\ active[r].step = i /\ status[r] # "none" /\ StepOK(r, i)
      /\ 1 \in Indices /\ i # 0 /\ thread[r][i] \in Early
  BY EarlyAlone, HandleTypes DEF RunOK, StepOK, Early, Indices
<1>2. thread'[r][i] = "accepted" /\ (\A j \in Indices \ {i} : thread'[r][j] = thread[r][j])
  BY PlaceMoves DEF Controller
<1>3. ~OnRelay(r)' /\ status' = status /\ steps' = steps
  BY <1>1 DEF OnRelay, store
<1>4. \A j \in Indices \ {i} : thread[r][j] \notin Early
  BY <1>1, EarlyAlone
<1>5. ASSUME NEW j \in Indices PROVE StepOK(r, j)'
  <2>1. StepOK(r, j) /\ (StepOpen(r, j)' <=> StepOpen(r, j)) /\ (Row(r)' <=> Row(r))
    BY <1>3 DEF RunOK, StepOpen, HasStep, Row
  <2>2. CASE j = i
    BY <1>1, <1>2, <1>3, <2>1, <2>2 DEF StepOK, Unsubmitted, Early, Unbound
  <2>3. CASE j # i
    <3>1. request'.handle # <<r, j>> /\ thread'[r][j] = thread[r][j]
      BY <1>2, <2>3
    <3> QED
      BY <1>3, <2>1, <3>1 DEF StepOK
  <2> QED
    BY <2>2, <2>3
<1>6. thread'[r][1] \notin Early
  BY <1>1, <1>2, <1>4 DEF Early
<1>7. StartOK(r)' /\ RelayOK(r)'
  BY <1>3, <1>6 DEF StartOK, RelayOK
<1>8. OutcomeOK(r)'
  <2>1. ~Over(r)
    BY <1>1 DEF Over, Stranded
  <2>2. Row(r) => told[r] = <<>> /\ returned[r] # "error" /\ 1 \in DOMAIN steps[r]
    BY <2>1, Owed DEF RunOK, OutcomeOK
  <2> QED
    BY <1>1, <1>3, <2>2 DEF OutcomeOK, Row
<1> QED
  BY <1>5, <1>7, <1>8 DEF RunOK

LEMMA AnswerSubmitKeeps ==
    ASSUME Controller, OutcomeInv, NEW valid \in BOOLEAN, AnswerSubmit(valid)
    PROVE  OutcomeInv'
<1>1. /\ worker = "recv" /\ commands # <<>> /\ commands' = Tail(commands) /\ Head(commands).op = "submit"
      /\ Head(commands).op \in Tracked /\ UNCHANGED <<active, relay, told, returned, faults>>
      /\ UNCHANGED store /\ HandleSubmit(valid) /\ WorkerOK /\ WorkerFacts
  BY DEF AnswerSubmit, HandleSubmit, Receives, Controller, OutcomeInv, Tracked
<1>2. PICK r \in Runs, i \in Indices : Head(commands).handle = <<r, i>> /\ thread[r][i] = "asked"
  BY <1>1, HeadWaits DEF OutcomeInv
<1>3. RunOK(r) /\ relay.pc = "idle"
  BY <1>1 DEF OutcomeInv, RunsOK, Controller, AgentOK
<1>4. /\ status'[r] = status[r] /\ steps'[r] = steps[r] /\ active'[r].step = active[r].step
      /\ told'[r] = told[r] /\ returned'[r] = returned[r] /\ UNCHANGED relay
  BY <1>1, SameRows
<1>5. CASE Accepts(valid)
  <2>1. request.handle = NoHandle /\ phase' = "streaming" /\ request'.handle = <<r, i>>
    BY <1>1, <1>2, <1>5, SubmitQuiet
  <2>2. Goes(r, i, "accepted")
    BY <1>2, <1>5 DEF AnswerSubmit
  <2>3. RunOK(r)'
    BY <1>1, <1>2, <1>3, <2>1, <2>2, AcceptedRun
  <2>4. WorkerFacts'
    BY <1>3, <1>4, <2>1, HandleTypes DEF WorkerFacts
  <2>5. \A x \in Runs \ {r} : RequestStays(x)
    BY <2>1 DEF RequestStays
  <2> QED
    BY <1>1, <1>2, <2>2, <2>3, <2>4, <2>5, AnsweredKeeps
<1>6. CASE ~Accepts(valid)
  <2>1. Quiet
    BY <1>1, <1>6, SubmitQuiet
  <2>2. Goes(r, i, "refused")
    BY <1>2, <1>6 DEF AnswerSubmit
  <2>3. RunOK(r)'
    BY <1>2, <1>3, <1>4, <2>1, <2>2, QuietRequest, ThreadGoesOn DEF Unbound
  <2>4. WorkerFacts'
    BY <1>1, <1>3, <1>4, <2>1, FactsStay DEF Controller
  <2> QED
    BY <1>1, <1>2, <2>1, <2>2, <2>3, <2>4, QuietRequest, AnsweredKeeps
<1> QED
  BY <1>5, <1>6

LEMMA WorkerKeeps ==
    ASSUME Controller, OutcomeInv, WorkerStep \/ NativeStep \/ Answers
    PROVE  OutcomeInv'
BY AnswerSubmitKeeps, AnswerWithdrawKeeps, WorkerAloneKeeps, NativeKeeps, AnswerCancelKeeps DEF WorkerStep, Answers

-----------------------------------------------------------------------------
(* The relay *)

\* What the relay does to the rows of its run between two of its places.
Onward(r) ==
    /\ RowsApart(r)
    /\ (Row(r)' <=> Row(r)) /\ ((status'[r] = "none") <=> (status[r] = "none"))
    /\ DOMAIN steps[r] \subseteq DOMAIN steps'[r]
    /\ \A j \in DOMAIN steps[r] : steps'[r][j].status \in Finished \union {steps[r][j].status}

LEMMA OnwardRun ==
    ASSUME Controller, NEW r \in Runs, RunOK(r), OnRelay(r), Onward(r),
           UNCHANGED <<active, thread, told, returned>>, UNCHANGED worker_vars, RelayOK(r)', OnRelay(r)'
    PROVE  RunOK(r)'
<1>1. active[r].step = 0 /\ 0 \notin Indices /\ 1 \in Indices
  BY HandleTypes DEF Controller, ApartInv, Apart, Indices
<1>2. \A j \in Indices : thread[r][j] \notin Early
  BY EarlyAlone
<1>3. \A j \in DOMAIN steps[r] :
         steps[r][j].status \notin {"running", "interrupted"} => steps'[r][j].status \notin {"running", "interrupted"}
  BY DEF Onward, Finished
<1>4. UNCHANGED request /\ UNCHANGED worker
  BY DEF worker_vars
<1>5. ASSUME NEW j \in Indices PROVE StepOK(r, j)'
  BY <1>1, <1>2, <1>3, <1>4 DEF RunOK, StepOK, Early, Onward
<1>6. StartOK(r)'
  BY <1>1, <1>2 DEF StartOK
<1>7. OutcomeOK(r)'
  <2>1. Row(r) => told[r] = <<>> /\ returned[r] # "error" /\ 1 \in DOMAIN steps[r]
    BY Owed DEF Over, RunOK, OutcomeOK
  <2> QED
    BY <2>1 DEF RunOK, OutcomeOK, Onward
<1> QED
  BY <1>5, <1>6, <1>7 DEF RunOK

\* The relay goes from one place to another.
LEMMA OnwardKeeps ==
    ASSUME Controller, OutcomeInv, relay.pc # "idle", NEW r, r = relay.run[1], Onward(r), Stay,
           UNCHANGED worker_vars, NEW pc, NEW e, NEW k, At(pc, e, k),
           pc = "start" => e.step \in Indices \ {1} /\ thread[r][e.step] = "none",
           pc \notin {"idle", "end", "final", "call", "repair"},
           Row(r) =>
             /\ pc = "start" => e.step \in DOMAIN steps'[r] /\ steps'[r][e.step].status = "prepared"
             /\ pc \in {"tool", "follow", "start", "fail"} => status'[r] \in Open
             /\ pc = "tell" => status'[r] = StatusOf(k)
    PROVE  OutcomeInv'
<1>1. r \in Runs /\ OnRelay(r) /\ RunOK(r)
  BY RelayEntry DEF OutcomeInv, RunsOK
<1>2. relay'.pc = pc /\ relay'.run = relay.run /\ relay'.entry = e /\ relay'.kind = k
  BY DEF At
<1>3. OnRelay(r)' /\ UNCHANGED <<active, thread, told, returned>>
  BY <1>2 DEF OnRelay, Stay
<1>4. RelayOK(r)'
  BY <1>2, <1>3 DEF RelayOK, Onward
<1>5. RunOK(r)'
  BY <1>1, <1>3, <1>4, OnwardRun
<1>6. Quiet
  BY SameWorkerQuiet DEF OutcomeInv
<1>7. WorkerFacts'
  BY <1>2 DEF OutcomeInv, WorkerFacts, worker_vars
<1>8. CommandsOK'
  BY <1>3, CommandsPass DEF OutcomeInv, worker_vars
<1>9. ASSUME NEW x \in Runs \ {r} PROVE Framed(x)
  <2>1. ~OnRelay(x)'
    BY <1>2 DEF OnRelay
  <2> QED
    BY <1>3, <1>6, <2>1, QuietRequest DEF Framed, Onward, RowsApart
<1> QED
  BY <1>1, <1>5, <1>7, <1>8, <1>9, OthersFramed DEF OutcomeInv

LEMMA SameRowsOnward ==
    ASSUME NEW r \in Runs, UNCHANGED store
    PROVE  Onward(r) /\ status' = status /\ steps' = steps
BY DEF store, Onward, RowsApart, Row

LEMMA EndedOnward ==
    ASSUME NEW r \in Runs, NEW s \in Finished, EndsRow(r, s), RowsApart(r)
    PROVE  Onward(r) /\ (Row(r) => status'[r] = s)
<1>1. (Row(r)' <=> Row(r)) /\ (Row(r) => status'[r] = s) /\ (status'[r] = "none" <=> status[r] = "none")
  BY EndedRow
<1> QED
  BY <1>1 DEF EndsRow, Onward

LEMMA RelayEndKeeps ==
    ASSUME Controller, OutcomeInv, relay.pc # "idle", NEW r, r = relay.run[1], NEW i, i = relay.run[2],
           RelayEnd(r, i) \/ RelayFinal(r, i), UNCHANGED worker_vars
    PROVE  OutcomeInv'
<1>1. /\ r \in Runs /\ StoreInv /\ OnRelay(r) /\ RelayOK(r) /\ relay.pc \in {"end", "final"}
      /\ relay.kind \in {"done", "cancelled", "error"}
  BY RelayEntry DEF OutcomeInv, RunsOK, RunOK, RelayEnd, RelayFinal
<1>2. (Row(r) => StepOpen(r, i)) /\ (relay.pc = "final" => relay.kind = "done") /\ (StepOpen(r, i) => Row(r) /\ status[r] \in Open)
  BY <1>1, RowFacts DEF RelayOK
<1>3. PICK s \in Finished : s = StatusOf(relay.kind)
  BY <1>1 DEF StatusOf, Finished
<1>4. EndStep(r, i, s)
  <2>1. CASE RelayEnd(r, i)
    BY <1>3, <2>1 DEF RelayEnd
  <2>2. CASE RelayFinal(r, i)
    <3>1. s = "complete"
      BY <1>2, <1>3, <2>2 DEF RelayFinal, StatusOf
    <3> QED
      BY <1>2, <2>2, <3>1 DEF RelayFinal, EndStep, FinishStep, FinishFinalDecision
  <2> QED
    BY <2>1, <2>2
<1>5. Onward(r) /\ (Row(r) => status'[r] = s)
  BY <1>1, <1>2, <1>4, StepEndsRow, EndedOnward
<1>6. Stay /\ TellIf(HasStep(r, i))
  BY DEF RelayEnd, RelayFinal
<1>7. PICK k : At("tell", relay.entry, k) /\ (HasStep(r, i) => k = relay.kind)
  BY <1>6 DEF TellIf
<1>8. Row(r) => status'[r] = StatusOf(k)
  BY <1>2, <1>3, <1>5, <1>7 DEF StepOpen
<1> QED
  BY <1>5, <1>6, <1>7, <1>8, OnwardKeeps

LEMMA RelayFailKeeps ==
    ASSUME Controller, OutcomeInv, relay.pc # "idle", NEW r, r = relay.run[1], RelayFail(r), UNCHANGED worker_vars
    PROVE  OutcomeInv'
<1>1. r \in Runs /\ StoreInv /\ OnRelay(r) /\ RelayOK(r) /\ relay.pc = "fail" /\ "error" \in Finished
  BY RelayEntry DEF OutcomeInv, RunsOK, RunOK, RelayFail, Finished
<1>2. Row(r) => status[r] \in Open
  BY <1>1 DEF RelayOK
<1>3. Onward(r) /\ (Row(r) => status'[r] = "error")
  BY <1>1, <1>2, RunEndsRow, EndedOnward DEF RelayFail
<1>4. At("tell", relay.entry, "error") /\ Stay /\ StatusOf("error") = "error"
  BY DEF RelayFail, StatusOf
<1> QED
  BY <1>3, <1>4, OnwardKeeps

\* A check between two steps fails while the run is open.
LEMMA FailBetweenKeeps ==
    ASSUME Controller, OutcomeInv, relay.pc # "idle", NEW r, r = relay.run[1], FailBetween, Stay,
           UNCHANGED worker_vars, Onward(r), Row(r) => status'[r] \in Open
    PROVE  OutcomeInv'
<1>1. At("fail", relay.entry, "error")
  BY DEF FailBetween
<1> QED
  BY <1>1, OnwardKeeps

LEMMA RelayCompleteKeeps ==
    ASSUME Controller, OutcomeInv, relay.pc # "idle", NEW r, r = relay.run[1], NEW i, i = relay.run[2],
           RelayComplete(r, i), UNCHANGED worker_vars
    PROVE  OutcomeInv'
<1>1. /\ r \in Runs /\ StoreInv /\ OnRelay(r) /\ RelayOK(r) /\ relay.pc \in {"call", "repair"} /\ Stay
  BY RelayEntry DEF OutcomeInv, RunsOK, RunOK, RelayComplete
<1>2. Row(r) => status[r] \in Open
  BY <1>1, RowFacts DEF RelayOK
<1>3. CASE FailBetween /\ UNCHANGED store
  BY <1>1, <1>2, <1>3, SameRowsOnward, FailBetweenKeeps
<1>4. CASE CompleteModelStep(r, i) /\ \E pc \in {"tool", "follow"} : At(pc, relay.entry, "none")
  <2>1. PICK pc \in {"tool", "follow"} : At(pc, relay.entry, "none")
    BY <1>4
  <2>2. /\ i \in DOMAIN steps[r] /\ steps[r] \in Seq(Step) /\ status' = status
        /\ steps'[r] = SetStatus(steps[r], i, "complete") /\ \A x \in Runs \ {r} : steps'[x] = steps[x]
    BY <1>1, <1>4 DEF CompleteModelStep, StepOpen, HasStep, StoreInv, StoreTypeOK
  <2>3. /\ DOMAIN steps'[r] = DOMAIN steps[r] /\ steps'[r][i].status = "complete"
        /\ \A j \in DOMAIN steps[r] \ {i} : steps'[r][j] = steps[r][j]
    <3>1. "complete" \in Open \union Ended
      BY DEF Ended
    <3>2. /\ DOMAIN steps'[r] = DOMAIN steps[r]
          /\ steps'[r][i] = [kind |-> steps[r][i].kind, status |-> "complete", bound |-> steps[r][i].bound]
          /\ \A j \in DOMAIN steps[r] \ {i} : steps'[r][j] = steps[r][j]
      BY <2>2, <3>1, SetStatusProperties
    <3>3. steps'[r][i].status = "complete"
      BY <3>2
    <3> QED
      BY <3>2, <3>3
  <2>4. Onward(r)
    BY <2>2, <2>3 DEF Onward, RowsApart, Row, Finished
  <2> QED
    BY <1>1, <1>2, <2>1, <2>2, <2>4, OnwardKeeps
<1> QED
  BY <1>3, <1>4 DEF RelayComplete

\* A step is appended to the run on the relay.
LEMMA AppendOnward ==
    ASSUME StoreInv, NEW r \in Runs, NEW e \in Step, steps' = [steps EXCEPT ![r] = Append(@, e)], UNCHANGED status
    PROVE  /\ Onward(r) /\ Len(steps[r]) + 1 \in DOMAIN steps'[r] /\ steps'[r][Len(steps[r]) + 1] = e
           /\ DOMAIN steps[r] = 1 .. Len(steps[r]) /\ Len(steps[r]) \in Nat
<1>1. steps[r] \in Seq(Step) /\ steps'[r] = Append(steps[r], e) /\ RowsApart(r)
  BY DEF StoreInv, StoreTypeOK, RowsApart
<1>2. /\ DOMAIN steps'[r] = 1 .. (Len(steps[r]) + 1) /\ DOMAIN steps[r] = 1 .. Len(steps[r])
      /\ Len(steps[r]) \in Nat
      /\ \A j \in 1 .. (Len(steps[r]) + 1) : steps'[r][j] = IF j = Len(steps[r]) + 1 THEN e ELSE steps[r][j]
  BY <1>1, AppendStepProperties
<1> QED
  BY <1>1, <1>2 DEF Onward, Row

LEMMA RelayToolKeeps ==
    ASSUME Controller, OutcomeInv, relay.pc # "idle", NEW r, r = relay.run[1], NEW a, RelayTool(r, a),
           UNCHANGED worker_vars
    PROVE  OutcomeInv'
<1>1. /\ r \in Runs /\ StoreInv /\ OnRelay(r) /\ RelayOK(r) /\ relay.pc = "tool" /\ Stay
  BY RelayEntry DEF OutcomeInv, RunsOK, RunOK, RelayTool
<1>2. Row(r) => status[r] \in Open
  BY <1>1 DEF RelayOK
<1>3. CASE FailBetween /\ UNCHANGED store
  BY <1>1, <1>2, <1>3, SameRowsOnward, FailBetweenKeeps
<1>4. ASSUME NEW ok \in BOOLEAN, NEW novel, RecordToolStep(r, ok, novel), NEW e,
             At("follow", e, "none") \/ FailBetween
      PROVE  OutcomeInv'
  <2>1. ToolStep(ok) \in Step /\ steps' = [steps EXCEPT ![r] = Append(@, ToolStep(ok))] /\ UNCHANGED status
    BY <1>4 DEF RecordToolStep, ToolStep, Step, Ended
  <2>2. Onward(r)
    BY <1>1, <2>1, AppendOnward
  <2>3. CASE At("follow", e, "none")
    BY <1>1, <1>2, <2>1, <2>2, <2>3, OnwardKeeps
  <2>4. CASE FailBetween
    BY <1>1, <1>2, <2>1, <2>2, <2>4, FailBetweenKeeps
  <2> QED
    BY <1>4, <2>3, <2>4
<1> QED
  BY <1>3, <1>4 DEF RelayTool

LEMMA RelayFollowKeeps ==
    ASSUME Controller, OutcomeInv, relay.pc # "idle", NEW r, r = relay.run[1], RelayFollow(r),
           UNCHANGED worker_vars, Controller'
    PROVE  OutcomeInv'
<1>1. /\ r \in Runs /\ StoreInv /\ OnRelay(r) /\ RelayOK(r) /\ relay.pc = "follow" /\ Stay /\ RunOK(r)
      /\ relay.entry \in Entries
  BY RelayEntry DEF OutcomeInv, RunsOK, RunOK, RelayFollow
<1>2. Row(r) => status[r] \in Open
  BY <1>1 DEF RelayOK
<1>3. CASE FailBetween /\ UNCHANGED store
  BY <1>1, <1>2, <1>3, SameRowsOnward, FailBetweenKeeps
<1>4. ASSUME PrepareModelStep(r), NEW e, e.step = Len(steps[r]) + 1, At("start", e, "none")
      PROVE  OutcomeInv'
  <2>1. ModelStep \in Step /\ steps' = [steps EXCEPT ![r] = Append(@, ModelStep)] /\ UNCHANGED status
        /\ status[r] = "running" /\ ModelStep.status = "prepared"
    BY <1>4 DEF PrepareModelStep, ModelStep, Step, Open
  <2>2. /\ Onward(r) /\ e.step \in DOMAIN steps'[r] /\ steps'[r][e.step] = ModelStep
        /\ DOMAIN steps[r] = 1 .. Len(steps[r]) /\ Len(steps[r]) \in Nat
    <3>1. PICK m \in Step : m = ModelStep /\ steps' = [steps EXCEPT ![r] = Append(@, m)] /\ UNCHANGED status
      BY <2>1
    <3>2. StoreInv /\ r \in Runs
      BY <1>1
    <3>3. /\ Onward(r) /\ Len(steps[r]) + 1 \in DOMAIN steps'[r] /\ steps'[r][Len(steps[r]) + 1] = m
          /\ DOMAIN steps[r] = 1 .. Len(steps[r]) /\ Len(steps[r]) \in Nat
      BY <3>1, <3>2, AppendOnward
    <3>4. e.step = Len(steps[r]) + 1
      BY <1>4
    <3> QED
      BY <3>1, <3>3, <3>4
  <2>3. Row(r) /\ 1 \in DOMAIN steps[r]
    BY <1>1, <2>1 DEF Row, Gone, RunOK, OutcomeOK
  <2>4. e.step \notin DOMAIN steps[r] /\ e.step # 1
    BY <1>4, <2>2, <2>3
  <2>5. e.step \in Indices
    <3>1. relay'.pc = "start" /\ relay'.entry = e
      BY <1>4 DEF At
    <3>2. relay'.entry \in Entries /\ relay'.entry.step # 0
      BY <3>1 DEF Controller, AgentTypes, AgentOK
    <3> QED
      BY <3>1, <3>2, EntryTypes, IndexTyped
  <2>6. thread[r][e.step] = "none"
    BY <1>1, <2>3, <2>4, <2>5 DEF RunOK, StepOK
  <2>7. status'[r] \in Open
    BY <2>1 DEF Open
  <2> QED
    BY <1>1, <1>4, <2>1, <2>2, <2>4, <2>5, <2>6, <2>7, OnwardKeeps
<1>5. CASE /\ PrepareModelStep(r)
           /\ At("start", [relay.entry EXCEPT !.total = @ + 1, !.progress = @ + 1, !.current = FALSE,
                                       !.step = Len(steps[r]) + 1], "none")
  <2>1. PICK n : n = Len(steps[r]) + 1
    OBVIOUS
  <2>2. PICK e : e = [relay.entry EXCEPT !.total = @ + 1, !.progress = @ + 1, !.current = FALSE, !.step = n]
    OBVIOUS
  <2>3. e.step = n
    BY <1>1, <2>2 DEF Entries
  <2>4. At("start", e, "none")
    BY <1>5, <2>1, <2>2
  <2> QED
    BY <1>4, <1>5, <2>1, <2>3, <2>4
<1> QED
  BY <1>3, <1>5 DEF RelayFollow

LEMMA RelayTellKeeps ==
    ASSUME Controller, OutcomeInv, relay.pc # "idle", NEW r, r = relay.run[1], RelayTell(r)
    PROVE  OutcomeInv'
<1>1. /\ r \in Runs /\ OnRelay(r) /\ RunOK(r) /\ relay.kind \in {"done", "cancelled", "error"} /\ WorkerOK
      /\ told[r] \in Seq({"done", "cancelled", "error"}) /\ status[r] # "none" /\ active[r].step = 0
  BY RelayEntry DEF OutcomeInv, RunsOK, RelayTell, Controller, AgentTypes, ApartInv, Apart, RunRows
<1>2. /\ relay.pc = "tell" /\ relay'.pc = "idle" /\ UNCHANGED <<active, thread, returned, faults>> /\ UNCHANGED store
      /\ Acknowledge(TRUE) /\ told' = [told EXCEPT ![r] = Append(@, relay.kind)]
  BY DEF RelayTell, Idle, Unoccupied, Tell
<1>3. Quiet /\ UNCHANGED <<commands, request>> /\ worker' = "acked"
  BY <1>1, <1>2, AcknowledgeQuiet DEF OutcomeInv
<1>4. told'[r] = Append(told[r], relay.kind) /\ \A x \in Runs \ {r} : told'[x] = told[x]
  BY <1>1, <1>2 DEF Controller, AgentTypes
<1>5. WorkerFacts'
  BY <1>2, <1>3, FactsStay DEF OutcomeInv, Controller
<1>6. CommandsOK'
  BY <1>2, <1>3, CommandsPass DEF OutcomeInv
<1>7. \A j \in Indices : thread[r][j] \notin Early
  BY <1>1, EarlyAlone
<1>8. \A x \in Runs : ~OnRelay(x)'
  BY <1>2 DEF OnRelay
<1>9. status' = status /\ steps' = steps
  BY <1>2 DEF store
<1>10. RunOK(r)'
  <2>1. ASSUME NEW j \in Indices PROVE StepOK(r, j)'
    <3>1. StepOK(r, j) /\ j # 0
      BY <1>1 DEF RunOK, Indices
    <3> QED
      BY <1>1, <1>2, <1>3, <1>7, <1>9, <3>1 DEF StepOK, Early, Row
  <2>2. StartOK(r)' /\ RelayOK(r)'
    BY <1>2, <1>7, <1>8, HandleTypes DEF StartOK, RelayOK
  <2>3. Over(r)'
    BY <1>1, <1>2, <1>7, <1>8, HandleTypes DEF Over
  <2>4. ASSUME Row(r) PROVE told'[r] # <<>> /\ Len(told'[r]) <= 1 /\ Head(told'[r]) = relay.kind /\ returned'[r] # "error"
    <3>1. told[r] = <<>> /\ returned[r] # "error"
      BY <1>1, <2>4, Owed DEF Over
    <3>2. told'[r] = <<relay.kind>>
      BY <1>4, <3>1
    <3> QED
      BY <1>2, <3>1, <3>2
  <2>5. Row(r) => 1 \in DOMAIN steps[r] /\ status[r] = StatusOf(relay.kind)
    BY <1>1, <1>2 DEF RunOK, OutcomeOK, RelayOK
  <2>6. OutcomeOK(r)'
    BY <1>1, <1>3, <1>9, <2>3, <2>4, <2>5 DEF OutcomeOK, Row
  <2> QED
    BY <2>1, <2>2, <2>6 DEF RunOK
<1>11. ASSUME NEW x \in Runs \ {r} PROVE Framed(x)
  BY <1>2, <1>3, <1>4, <1>8, <1>9, QuietRequest DEF Framed
<1> QED
  BY <1>1, <1>5, <1>6, <1>10, <1>11, OthersFramed DEF OutcomeInv

LEMMA RelayStartKeeps ==
    ASSUME Controller, OutcomeInv, relay.pc # "idle", NEW r, r = relay.run[1], RelayStart(r)
    PROVE  OutcomeInv'
<1>1. /\ r \in Runs /\ OnRelay(r) /\ RunOK(r) /\ WorkerOK /\ AgentTypes
      /\ status[r] # "none" /\ active[r].step = 0
  BY RelayEntry DEF OutcomeInv, RunsOK, Controller, ApartInv, Apart, RunRows
<1>2. /\ relay.pc = "start" /\ relay'.pc = "idle" /\ UNCHANGED <<told, returned>> /\ UNCHANGED store
  BY DEF RelayStart, Idle, Unoccupied
<1>3. Quiet /\ UNCHANGED <<commands, request>> /\ worker' = "acked"
  BY <1>1, <1>2, AcknowledgeQuiet DEF OutcomeInv, RelayStart
<1>4. WorkerFacts'
  BY <1>2, <1>3, FactsStay DEF OutcomeInv, Controller
<1>5. \A x \in Runs : ~OnRelay(x)'
  BY <1>2 DEF OnRelay
<1>6. status' = status /\ steps' = steps
  BY <1>2 DEF store
<1>7. CASE UNCHANGED <<active, thread>>
  <2>1. CommandsOK'
    BY <1>3, <1>7, CommandsPass DEF OutcomeInv
  <2>2. ASSUME NEW x \in Runs PROVE Framed(x)
    BY <1>2, <1>3, <1>5, <1>6, <1>7, QuietRequest DEF Framed
  <2> QED
    BY <1>4, <2>1, <2>2, AllFramed DEF OutcomeInv
<1>8. ASSUME NEW i, i = relay.entry.step, active' = [active EXCEPT ![r] = relay.entry], Goes(r, i, "ask")
      PROVE  OutcomeInv'
  <2>1. /\ i \in Indices \ {1} /\ thread[r][i] = "none"
        /\ Row(r) => i \in DOMAIN steps[r] /\ steps[r][i].status = "prepared"
    BY <1>1, <1>2, <1>8 DEF RunOK, RelayOK
  <2>2. active'[r].step = i /\ \A x \in Runs \ {r} : active'[x] = active[x]
    BY <1>1, <1>8 DEF AgentTypes
  <2>3. /\ thread'[r][i] = "ask" /\ (\A j \in Indices \ {i} : thread'[r][j] = thread[r][j])
        /\ (\A x \in Runs \ {r} : thread'[x] = thread[x])
    BY <1>1, <1>8, <2>1, PlaceMoves
  <2>4. CommandsOK'
    <3>1. thread[r][i] \notin Waiting
      BY <2>1 DEF Waiting
    <3> QED
      BY <1>1, <1>3, <1>8, <2>1, <3>1, PlacesLeft, CommandsStay DEF OutcomeInv
  <2>5. \A j \in Indices : thread[r][j] \notin Early
    BY <1>1, EarlyAlone
  <2>6. ASSUME NEW j \in Indices PROVE StepOK(r, j)'
    <3>1. StepOK(r, j)
      BY <1>1 DEF RunOK
    <3>2. CASE j = i
      <4>1. Row(r) => StepOpen(r, i)'
        BY <1>6, <2>1 DEF StepOpen, HasStep, Open
      <4> QED
        BY <1>1, <1>3, <1>6, <2>1, <2>2, <2>3, <3>1, <3>2, <4>1 DEF StepOK, Unsubmitted, Unbound, Row
    <3>3. CASE j # i
      BY <1>3, <1>6, <2>2, <2>3, <2>5, <3>1, <3>3 DEF StepOK, Early, Row
    <3> QED
      BY <3>2, <3>3
  <2>7. StartOK(r)' /\ RelayOK(r)'
    <3>1. thread'[r][1] = thread[r][1] /\ thread[r][1] \notin Early
      BY <2>1, <2>3, <2>5, HandleTypes
    <3> QED
      BY <1>1, <1>5, <3>1 DEF StartOK, RelayOK
  <2>8. OutcomeOK(r)'
    <3>1. Row(r) => told[r] = <<>> /\ returned[r] # "error" /\ 1 \in DOMAIN steps[r]
      BY <1>1, Owed DEF Over, RunOK, OutcomeOK
    <3> QED
      BY <1>1, <1>2, <1>6, <3>1 DEF OutcomeOK, Row
  <2>9. ASSUME NEW x \in Runs \ {r} PROVE Framed(x)
    BY <1>2, <1>3, <1>5, <1>6, <2>2, <2>3, QuietRequest DEF Framed
  <2>10. RunOK(r)'
    BY <2>6, <2>7, <2>8 DEF RunOK
  <2> QED
    BY <1>1, <1>4, <2>4, <2>9, <2>10, OthersFramed DEF OutcomeInv
<1> QED
  BY <1>7, <1>8 DEF RelayStart

LEMMA RouteQueuedKeeps ==
    ASSUME Controller, OutcomeInv, RouteQueued
    PROVE  OutcomeInv'
<1>1. (\E ok \in BOOLEAN : RelayRegular(ok)) /\ UNCHANGED <<thread, relay, told, returned>> /\ UNCHANGED store
      /\ relay.pc = "idle"
  BY DEF RouteQueued
<1>2. Quiet /\ UNCHANGED commands
  BY <1>1, RegularQuiet DEF Controller, OutcomeInv
<1>3. CommandsOK'
  BY <1>1, <1>2, CommandsPass DEF OutcomeInv
<1>4. \A x \in Runs : active'[x].step = active[x].step
  BY DEF RouteQueued, Controller, AgentTypes, Entries
<1> QED
  BY <1>1, <1>2, <1>3, <1>4, SameRows, NothingMoves

LEMMA RouteTerminalKeeps ==
    ASSUME Controller, OutcomeInv, RouteTerminal
    PROVE  OutcomeInv'
<1>1. /\ UNCHANGED <<thread, told, returned, faults>> /\ UNCHANGED store /\ relay.pc = "idle"
      /\ TerminalDue /\ WorkerOK /\ AgentTypes
  BY DEF RouteTerminal, Controller
<1>2. PICK r \in Runs, i \in Indices : request.handle = <<r, i>>
  BY <1>1, HandleTypes DEF TerminalDue, WorkerOK
<1>3. RunOK(r) /\ StepOK(r, i) /\ i # 0 /\ status[r] # "none"
  BY <1>2 DEF OutcomeInv, RunsOK, RunOK, StepOK, Unsubmitted, Indices
<1>4. CASE ~IsActive(r, i)
  <2>0. Current[1] = r /\ Current[2] = i
    BY <1>2 DEF Current
  <2>1. Acknowledge(TRUE) /\ UNCHANGED <<active, relay>>
    BY <1>4, <2>0 DEF RouteTerminal
  <2>2. Quiet /\ UNCHANGED commands
    BY <1>1, <2>1, AcknowledgeQuiet DEF OutcomeInv
  <2>3. CommandsOK'
    BY <1>1, <2>2, CommandsPass DEF OutcomeInv
  <2> QED
    BY <1>1, <2>1, <2>2, <2>3, SameRows, NothingMoves
<1>5. CASE IsActive(r, i)
  <2>0. Current[1] = r /\ Current[2] = i
    BY <1>2 DEF Current
  <2>1. /\ active' = [active EXCEPT ![r] = NoEntry] /\ UNCHANGED worker_vars
        /\ \E pc \in {"end", "final", "call", "repair"} : \E e, k :
              /\ relay' = [pc |-> pc, run |-> Current, entry |-> e, kind |-> k]
              /\ pc = "final" => k = "done"
    BY <1>5, <2>0 DEF RouteTerminal
  <2>21. PICK pc \in {"end", "final", "call", "repair"} : \E e, k :
              /\ relay' = [pc |-> pc, run |-> Current, entry |-> e, kind |-> k]
              /\ pc = "final" => k = "done"
    BY <2>1
  <2>2. PICK e, k :
              /\ relay' = [pc |-> pc, run |-> Current, entry |-> e, kind |-> k]
              /\ pc = "final" => k = "done"
    BY <2>21
  <2>3. relay'.pc = pc /\ relay'.run = <<r, i>> /\ relay'.kind = k /\ relay'.run[1] = r /\ relay'.run[2] = i
    BY <1>2, <2>2 DEF Current
  <2>4. Quiet /\ UNCHANGED <<commands, request, worker>>
    BY <2>1, SameWorkerQuiet DEF OutcomeInv, worker_vars
  <2>5. WorkerFacts'
    BY <1>2, <2>1, <2>3 DEF OutcomeInv, WorkerFacts, worker_vars
  <2>6. CommandsOK'
    BY <1>1, <2>4, CommandsPass DEF OutcomeInv
  <2>7. active'[r].step = 0 /\ \A x \in Runs \ {r} : active'[x] = active[x]
    BY <1>1, <2>1, StartEntries DEF AgentTypes
  <2>8. status' = status /\ steps' = steps /\ active[r].step = i
    BY <1>1, <1>5 DEF store, IsActive
  <2>9. thread[r][1] \notin Early
    BY <1>2, <1>3 DEF RunOK, StartOK
  <2>10. ASSUME NEW j \in Indices PROVE StepOK(r, j)'
    <3>1. StepOK(r, j) /\ j # 0
      BY <1>3 DEF RunOK, Indices
    <3>2. thread[r][j] \notin {"ask", "asked", "refused"}
      BY <1>2, <1>3, <2>8, <3>1 DEF StepOK, Unsubmitted
    <3> QED
      BY <1>1, <2>4, <2>7, <2>8, <3>1, <3>2 DEF StepOK, Row
  <2>11. StartOK(r)'
    BY <1>1, <2>9 DEF StartOK
  <2>12. RelayOK(r)'
    <3>1. Row(r) => StepOpen(r, i)
      BY <1>3, <2>8 DEF StepOK
    <3>2. StepOpen(r, i)' <=> StepOpen(r, i)
      BY <2>8 DEF StepOpen, HasStep
    <3> QED
      BY <2>2, <2>3, <2>8, <3>1, <3>2 DEF RelayOK, Row
  <2>13. OutcomeOK(r)'
    <3>1. ~Over(r)
      BY <1>2, <1>3, <2>8 DEF Over, Stranded
    <3>2. Row(r) => told[r] = <<>> /\ returned[r] # "error" /\ 1 \in DOMAIN steps[r]
      BY <1>3, <3>1, Owed DEF RunOK, OutcomeOK
    <3> QED
      BY <1>1, <1>3, <2>8, <3>2 DEF OutcomeOK, Row
  <2>14. RunOK(r)'
    BY <2>10, <2>11, <2>12, <2>13 DEF RunOK
  <2>15. ASSUME NEW x \in Runs \ {r} PROVE Framed(x)
    <3>1. ~OnRelay(x)'
      BY <2>3 DEF OnRelay
    <3> QED
      BY <1>1, <2>4, <2>7, <2>8, <3>1, QuietRequest DEF Framed
  <2> QED
    BY <2>5, <2>6, <2>14, <2>15, OthersFramed DEF OutcomeInv
<1> QED
  BY <1>4, <1>5

LEMMA RelayKeeps ==
    ASSUME Controller, Controller', OutcomeInv, RelayStep
    PROVE  OutcomeInv'
<1>1. CASE RouteQueued \/ RouteTerminal
  BY <1>1, RouteQueuedKeeps, RouteTerminalKeeps
<1>2. CASE relay.pc # "idle"
           /\ LET r == relay.run[1]
                  i == relay.run[2]
              IN  \/ RelayStart(r) \/ RelayTell(r)
                  \/ /\ \/ RelayEnd(r, i) \/ RelayFinal(r, i) \/ RelayComplete(r, i)
                        \/ \E a \in Actions : RelayTool(r, a)
                        \/ RelayFollow(r) \/ RelayFail(r)
                     /\ UNCHANGED worker_vars
  BY <1>2, RelayStartKeeps, RelayTellKeeps, RelayEndKeeps, RelayCompleteKeeps, RelayToolKeeps,
  RelayFollowKeeps, RelayFailKeeps
<1> QED
  BY <1>1, <1>2 DEF RelayStep

-----------------------------------------------------------------------------
(* The window and restarts *)

\* The window writes to the tables, or to nothing but its own state.
LEMMA StillKeeps ==
    ASSUME Controller, OutcomeInv, UNCHANGED agent, UNCHANGED worker_vars,
           \A x \in Runs : status'[x] = "gone" \/ (status'[x] = status[x] /\ steps'[x] = steps[x])
    PROVE  OutcomeInv'
<1>1. Quiet /\ UNCHANGED <<commands, request>>
  BY SameWorkerQuiet DEF OutcomeInv, worker_vars
<1>2. UNCHANGED <<active, thread, relay, told, returned>>
  BY DEF agent
<1>3. CommandsOK'
  BY <1>1, <1>2, CommandsPass DEF OutcomeInv
<1> QED
  BY <1>1, <1>2, <1>3, NothingMoves

LEMMA CancelKeeps ==
    ASSUME Controller, OutcomeInv, NEW r \in Runs, NEW op \in {"cancel", "late cancel"}, Cancel(r, op)
    PROVE  OutcomeInv'
<1>1. /\ active \in [Runs -> Entries] /\ active[r] \in Entries /\ WorkerOK /\ WorkerFacts /\ CommandsOK
      /\ active[r].step # 0 /\ UNCHANGED <<thread, relay, told, returned, faults>> /\ UNCHANGED store
  BY DEF Cancel, Findable, Controller, AgentTypes, AgentOK, OutcomeInv
<1>2. PICK h \in Handles : h = <<r, active[r].step>>
  BY <1>1, EntryTypes, IndexTyped, HandleTypes
<1>3. Send(op, h) \/ UNCHANGED worker_vars
  BY <1>2 DEF Cancel
<1>4. \A x \in Runs : active'[x].step = active[x].step
  BY <1>1 DEF Cancel, Entries
<1>5. Quiet /\ request' = request
  BY <1>1, <1>3, SendQuiet, SameWorkerQuiet DEF Send, worker_vars
<1>6. CommandsOK'
  <2>1. CASE Send(op, h)
    <3>1. PICK o \in Orders : o = Command(op, h)
      BY DEF Command, Orders
    <3>2. o.op \notin Tracked /\ commands' = Append(commands, o)
      BY <2>1, <3>1 DEF Send, Command, Tracked
    <3> QED
      BY <1>1, <3>2, CommandsPass
  <2>2. CASE UNCHANGED worker_vars
    BY <1>1, <2>2, CommandsPass DEF worker_vars
  <2> QED
    BY <1>3, <2>1, <2>2
<1> QED
  BY <1>1, <1>4, <1>5, <1>6, SameRows, NothingMoves

LEMMA LoadsKeeps ==
    ASSUME Controller, OutcomeInv, NEW op \in Unloads, Loads(op)
    PROVE  OutcomeInv'
<1>1. /\ CallModel(op) /\ UNCHANGED <<active, thread, relay, told, returned>> /\ UNCHANGED store
      /\ WorkerOK /\ WorkerFacts /\ CommandsOK
  BY DEF Loads, agent, Controller, OutcomeInv
<1>2. Quiet /\ request' = request
  BY <1>1, CallModelQuiet DEF CallModel
<1>3. CommandsOK'
  <2>1. PICK o \in Orders : o = Command(op, NoHandle)
    BY DEF Command, Orders
  <2>2. o.op \notin Tracked /\ commands' = Append(commands, o)
    BY <1>1, <2>1 DEF CallModel, Command, Tracked, Unloads
  <2> QED
    BY <1>1, <2>2, CommandsPass
<1> QED
  BY <1>1, <1>2, <1>3, SameRows, NothingMoves

LEMMA ManagesKeeps ==
    ASSUME Controller, OutcomeInv, NEW c \in Conversations, Manages(c)
    PROVE  OutcomeInv'
<1>1. UNCHANGED agent /\ UNCHANGED worker_vars
  BY DEF Manages
<1>2. \A x \in Runs : status'[x] = "gone" \/ (status'[x] = status[x] /\ steps'[x] = steps[x])
  BY DEF Manages, SetMode, Clear, Delete, Cascade
<1> QED
  BY <1>1, <1>2, StillKeeps

LEMMA HearsKeeps ==
    ASSUME Controller, OutcomeInv, Hears
    PROVE  OutcomeInv'
<1>1. PICK r \in Runs : HearsEnd(r) \/ HearsFailure(r) \/ StopAccepted(r)
  BY DEF Hears
<1>2. ASSUME NEW s, EndTurn(r, s) PROVE \A x \in Runs : status'[x] = status[x] /\ steps'[x] = steps[x]
  BY <1>2 DEF EndTurn, FinishTurn, store
<1>3. CASE HearsEnd(r) \/ HearsFailure(r)
  <2>1. UNCHANGED agent /\ UNCHANGED worker_vars /\ \E s : EndTurn(r, s)
    BY <1>3 DEF HearsEnd, HearsFailure
  <2> QED
    BY <1>2, <2>1, StillKeeps
<1>4. CASE StopAccepted(r)
  BY <1>4, CancelKeeps, StillKeeps, SameRows DEF StopAccepted, NotFound, Untouched
<1> QED
  BY <1>1, <1>3, <1>4

LEMMA StartsTurnKeeps ==
    ASSUME Controller, OutcomeInv, NEW c \in Conversations, NEW m \in Modes, NEW r \in Runs, StartsTurn(c, m, r)
    PROVE  OutcomeInv'
<1>1. /\ UNCHANGED <<active, relay, told, returned, faults>> /\ UNCHANGED worker_vars /\ Goes(r, 1, "begin")
      /\ StoreInv /\ AgentTypes /\ RunOK(r) /\ RunRows(r) /\ CommandsOK /\ 1 \in Indices /\ 0 \notin Indices
  BY HandleTypes DEF StartsTurn, Controller, OutcomeInv, RunsOK, RowsInv, Indices
<1>2. status[r] = "none" /\ status'[r] = "prepared" /\ steps'[r] = <<ModelStep>>
  BY <1>1, StartFacts DEF StartsTurn
<1>3. RowsApart(r)
  <2>1. \E k \in Modes : AttachRun(c, k, r)
    BY DEF StartsTurn, StartNewTurn, StartTurn
  <2> QED
    BY <1>1, <2>1 DEF AttachRun, RowsApart, StoreInv, StoreTypeOK
<1>4. active[r].step = 0 /\ ~OnRelay(r) /\ told[r] = <<>> /\ returned[r] = "none"
      /\ \A j \in Indices : thread[r][j] = "none" /\ request.handle # <<r, j>>
  BY <1>1, <1>2 DEF RunRows, RunOK, StepOK, OutcomeOK, Unsubmitted
<1>5. /\ thread'[r][1] = "begin" /\ (\A j \in Indices \ {1} : thread'[r][j] = thread[r][j])
      /\ (\A x \in Runs \ {r} : thread'[x] = thread[x])
  BY <1>1, PlaceMoves
<1>6. Quiet /\ UNCHANGED <<commands, request, worker>>
  BY <1>1, SameWorkerQuiet DEF OutcomeInv, worker_vars
<1>7. ~OnRelay(r)' /\ WorkerFacts' /\ active'[r].step = 0
  BY <1>1, <1>4 DEF OnRelay, OutcomeInv, WorkerFacts, worker_vars
<1>8. CommandsOK'
  <2>1. thread[r][1] \notin Waiting
    BY <1>1, <1>4 DEF Waiting
  <2> QED
    BY <1>1, <1>6, <2>1, PlacesLeft, CommandsStay DEF Controller
<1>9. 1 \in DOMAIN steps'[r] /\ steps'[r][1].status = "prepared"
  BY <1>2 DEF ModelStep
<1>10. ASSUME NEW j \in Indices PROVE StepOK(r, j)'
  <2>1. CASE j = 1
    BY <1>1, <1>2, <1>4, <1>5, <1>6, <1>7, <1>9, <2>1 DEF StepOK, Unbound
  <2>2. CASE j # 1
    BY <1>1, <1>2, <1>4, <1>5, <1>6, <1>7, <2>2 DEF StepOK, Early, Unbound
  <2> QED
    BY <2>1, <2>2
<1>11. StartOK(r)' /\ RelayOK(r)'
  BY <1>1, <1>4, <1>5, <1>6, <1>7 DEF StartOK, RelayOK
<1>12. OutcomeOK(r)'
  BY <1>1, <1>2, <1>4, <1>9 DEF OutcomeOK
<1>13. RunOK(r)'
  BY <1>10, <1>11, <1>12 DEF RunOK
<1>14. ASSUME NEW x \in Runs \ {r} PROVE Framed(x)
  BY <1>1, <1>3, <1>5, <1>6, QuietRequest DEF Framed, OnRelay, RowsApart
<1> QED
  BY <1>7, <1>8, <1>13, <1>14, OthersFramed DEF OutcomeInv

\* Nobody has any run.
Fresh(r) ==
    /\ Row(r) => 1 \in DOMAIN steps[r]
    /\ active[r] = NoEntry /\ (\A i \in Indices : thread[r][i] = "none") /\ relay = Unoccupied
    /\ told[r] = <<>> /\ returned[r] = "none" /\ request = NoRequest

LEMMA Afresh == \A r \in Runs : Fresh(r) => RunOK(r)
<1> SUFFICES ASSUME NEW r \in Runs, Fresh(r) PROVE RunOK(r)
  OBVIOUS
<1>1. request.handle = NoHandle /\ \A i \in Indices : request.handle # <<r, i>>
  BY DEF Fresh, NoRequest, NoHandle
<1>2. ~OnRelay(r) /\ active[r].step = 0 /\ 0 \notin Indices /\ 1 \in Indices
  BY StartEntries, HandleTypes DEF Fresh, Unoccupied, OnRelay, Indices
<1>3. ASSUME NEW i \in Indices PROVE StepOK(r, i)
  BY <1>1, <1>2 DEF Fresh, StepOK, Early, Unbound
<1>4. StartOK(r) /\ RelayOK(r)
  BY <1>2 DEF Fresh, StartOK, RelayOK, Early
<1>5. OutcomeOK(r)
  BY DEF Fresh, OutcomeOK
<1> QED
  BY <1>3, <1>4, <1>5 DEF RunOK

LEMMA RestartKeeps ==
    ASSUME Controller, OutcomeInv, Restart
    PROVE  OutcomeInv'
<1>1. /\ phase' = "no-model" /\ request' = NoRequest /\ commands' = <<>> /\ relay' = Unoccupied
      /\ active' = [r \in Runs |-> NoEntry] /\ thread' = [r \in Runs |-> [i \in Indices |-> "none"]]
      /\ told' = [r \in Runs |-> <<>>] /\ returned' = [r \in Runs |-> "none"]
  BY DEF Restart, Idle
<1>2. WorkerFacts'
  BY <1>1 DEF WorkerFacts, NoRequest, Unoccupied
<1>3. CommandsOK'
  <2>1. DOMAIN commands' = {}
    BY <1>1
  <2> QED
    BY <2>1 DEF CommandsOK
<1>4. (\A r \in Runs : Fresh(r) => RunOK(r))'
  BY Afresh, PTL
<1>5. ASSUME NEW r \in Runs PROVE Fresh(r)'
  <2>1. status'[r] = Interrupt(status[r]) /\ DOMAIN steps'[r] = DOMAIN steps[r]
    BY DEF Restart, Bootstrap, CloseSteps
  <2>2. Row(r)' => Row(r)
    BY <2>1 DEF Interrupt, Row, Gone, Open
  <2>3. Row(r) => 1 \in DOMAIN steps[r]
    BY DEF OutcomeInv, RunsOK, RunOK, OutcomeOK
  <2> QED
    BY <1>1, <2>1, <2>2, <2>3 DEF Fresh
<1> QED
  BY <1>2, <1>3, <1>4, <1>5 DEF OutcomeInv, RunsOK

LEMMA OutcomeStart ==
    ASSUME AppInit
    PROVE  OutcomeInv
<1>1. /\ phase = "no-model" /\ request = NoRequest /\ commands = <<>> /\ relay = Unoccupied
      /\ active = [r \in Runs |-> NoEntry] /\ thread = [r \in Runs |-> [i \in Indices |-> "none"]]
      /\ told = [r \in Runs |-> <<>>] /\ returned = [r \in Runs |-> "none"]
      /\ status = [r \in Runs |-> "none"]
  BY DEF AppInit, Init, WorkerInit, AgentInit
<1>2. WorkerFacts
  BY <1>1 DEF WorkerFacts, NoRequest, Unoccupied
<1>3. CommandsOK
  <2>1. DOMAIN commands = {}
    BY <1>1
  <2> QED
    BY <2>1 DEF CommandsOK
<1>4. \A r \in Runs : RunOK(r)
  BY <1>1, Afresh DEF Fresh, Row, Gone
<1> QED
  BY <1>2, <1>3, <1>4 DEF OutcomeInv, RunsOK

LEMMA OutcomeStep ==
    ASSUME Controller, Controller', OutcomeInv, [AppNext]_vars
    PROVE  OutcomeInv'
<1>1. CASE Threads \/ WorkerStep \/ NativeStep \/ Answers
  BY <1>1, ThreadsKeep, WorkerKeeps
<1>2. CASE RelayStep
  BY <1>2, RelayKeeps
<1>3. CASE Hears \/ Restart
  BY <1>3, HearsKeeps, RestartKeeps
<1>4. CASE User
  <2>1. ASSUME NEW r \in Runs, Stop(r) \/ StopPending(r) PROVE OutcomeInv'
    BY <2>1, CancelKeeps, StillKeeps, SameRows DEF Stop, StopPending, NotFound, Untouched
  <2> QED
    BY <1>4, <2>1, StartsTurnKeeps, ManagesKeeps, LoadsKeeps DEF User
<1>5. CASE UNCHANGED vars
  BY <1>5, StillKeeps, SameRows DEF vars
<1> QED
  BY <1>1, <1>2, <1>3, <1>4, <1>5 DEF AppNext

-----------------------------------------------------------------------------
(* Stops *)

RunStops(r) == KnownOK(r) /\ \A i \in Indices : StopOK(r, i)

\* The worker still has the request of a run, and has heard of it what it had.
RequestKept(x) ==
    \A i \in Indices : request'.handle = <<x, i>> =>
        /\ request.handle = <<x, i>> /\ (request'.event = "relayed" => request.event = "relayed")
        /\ Reached(<<x, i>>) => Reached(<<x, i>>)'
StopFramed(x) ==
    /\ active'[x] = active[x] /\ thread'[x] = thread[x]
    /\ OnRelay(x)' => OnRelay(x) /\ relay'.entry.public = relay.entry.public
    /\ RequestKept(x) /\ \A i \in Indices : KeepsWithdraw(<<x, i>>) \/ thread[x][i] # "stopped"

LEMMA QuietKept ==
    ASSUME Quiet, SameEvent, NEW x
    PROVE  RequestKept(x)
<1>1. ASSUME NEW i \in Indices, request'.handle = <<x, i>>
      PROVE  /\ request.handle = <<x, i>> /\ (request'.event = "relayed" => request.event = "relayed")
             /\ Reached(<<x, i>>) => Reached(<<x, i>>)'
  <2>1. request'.handle # NoHandle /\ request.handle = <<x, i>>
    BY <1>1 DEF NoHandle, Quiet
  <2>2. Reached(<<x, i>>) => Reached(<<x, i>>)'
    BY <1>1, <2>1 DEF Quiet, Reached
  <2> QED
    BY <2>1, <2>2 DEF SameEvent
<1> QED
  BY <1>1 DEF RequestKept

LEMMA StopFrame ==
    ASSUME NEW x \in Runs, RunStops(x), StopFramed(x)
    PROVE  RunStops(x)'
<1>1. KnownOK(x)'
  BY HandleTypes DEF RunStops, StopFramed, KnownOK, RequestKept
<1>2. ASSUME NEW i \in Indices PROVE StopOK(x, i)'
  <2>1. StopOK(x, i)
    BY DEF RunStops
  <2>2. request'.handle = <<x, i>> => request.handle = <<x, i>> /\ (Reached(<<x, i>>) => Reached(<<x, i>>)')
    BY DEF StopFramed, RequestKept
  <2>3. thread[x][i] = "stopped" => Held(commands, <<x, i>>, {"withdraw"})'
    BY <2>1 DEF StopOK, StopFramed, KeepsWithdraw
  <2> QED
    BY <2>1, <2>2, <2>3 DEF StopOK, StopFramed
<1> QED
  BY <1>1, <1>2 DEF RunStops

LEMMA StopsStay ==
    ASSUME StopInv, \A x \in Runs : StopFramed(x)
    PROVE  StopInv'
BY StopFrame DEF StopInv, RunStops

LEMMA OthersStopFramed ==
    ASSUME StopInv, NEW r \in Runs, RunStops(r)', \A x \in Runs \ {r} : StopFramed(x)
    PROVE  StopInv'
<1>1. \A x \in Runs \ {r} : RunStops(x)'
  BY StopFrame DEF StopInv, RunStops
<1> QED
  BY <1>1 DEF StopInv, RunStops

\* The entry of a run stays, one of its threads goes on.
LEMMA StopGoesOn ==
    ASSUME AgentTypes, NEW r \in Runs, RunStops(r), NEW i \in Indices, NEW pc, Goes(r, i, pc),
           active'[r] = active[r], UNCHANGED relay, RequestKept(r),
           \A j \in Indices : KeepsWithdraw(<<r, j>>) \/ j = i,
           pc \in Early => thread[r][i] \in Early,
           pc = "stopped" => Held(commands, <<r, i>>, {"withdraw"})',
           active[r].step = i /\ i > 1 /\ pc \in {"stopping", "stopped", "done"} => active[r].current,
           active[r].step = i /\ active[r].cancel /\ request'.handle = <<r, i>> /\ i > 1
             /\ pc \in {"stopped", "done"} => Reached(<<r, i>>)'
    PROVE  RunStops(r)'
<1>1. thread'[r][i] = pc /\ (\A j \in Indices \ {i} : thread'[r][j] = thread[r][j])
  BY PlaceMoves
<1>2. KnownOK(r) /\ 1 \in Indices /\ (OnRelay(r)' <=> OnRelay(r))
  BY HandleTypes DEF RunStops, OnRelay
<1>3. thread'[r][1] \in Early => thread[r][1] \in Early
  BY <1>1, <1>2
<1>4. KnownOK(r)'
  BY <1>2, <1>3 DEF KnownOK, RequestKept
<1>5. ASSUME NEW j \in Indices PROVE StopOK(r, j)'
  <2>1. StopOK(r, j) /\ j \in Nat /\ j # 0
    BY DEF RunStops, Indices
  <2>2. request'.handle = <<r, j>> => request.handle = <<r, j>> /\ (Reached(<<r, j>>) => Reached(<<r, j>>)')
    BY DEF RequestKept
  <2>3. CASE j = i
    <3>1. i > 1 \/ i = 1
      BY <2>1, <2>3
    <3> QED
      BY <1>1, <2>1, <2>2, <2>3, <3>1 DEF StopOK
  <2>4. CASE j # i
    <3>1. thread'[r][j] = thread[r][j] /\ KeepsWithdraw(<<r, j>>)
      BY <1>1, <2>4
    <3> QED
      BY <2>1, <2>2, <3>1 DEF StopOK, KeepsWithdraw
  <2> QED
    BY <2>3, <2>4
<1> QED
  BY <1>4, <1>5 DEF RunStops

\* No entry of the run is left in the table.
LEMMA StopsWithout ==
    ASSUME NEW r \in Runs, active'[r].step = 0, ~active'[r].cancel, ~active'[r].public,
           OnRelay(r)' => relay'.entry.public,
           \A i \in Indices : thread'[r][i] = "stopped" => Held(commands, <<r, i>>, {"withdraw"})'
    PROVE  RunStops(r)'
<1>1. 0 \notin Indices
  BY DEF Indices
<1> QED
  BY <1>1 DEF RunStops, KnownOK, StopOK

-----------------------------------------------------------------------------
(* Stops, and what the threads do *)

LEMMA ThreadFrames ==
    ASSUME Controller, OutcomeInv, NEW r \in Runs, NEW i \in Indices, NEW pc, Goes(r, i, pc),
           UNCHANGED relay, Quiet, SameEvent, \A h : KeepsWithdraw(h),
           \A x \in Runs \ {r} : active'[x] = active[x]
    PROVE  \A x \in Runs \ {r} : StopFramed(x)
<1>1. ASSUME NEW x \in Runs \ {r} PROVE StopFramed(x)
  <2>1. thread'[x] = thread[x] /\ RequestKept(x)
    BY PlaceMoves, QuietKept DEF Controller
  <2> QED
    BY <2>1 DEF StopFramed, OnRelay
<1> QED
  BY <1>1

LEMMA BeginStops ==
    ASSUME Controller, OutcomeInv, StopInv, NEW r \in Runs, Begin(r)
    PROVE  StopInv'
<1>1. /\ UNCHANGED relay /\ UNCHANGED worker_vars /\ thread[r][1] = "begin" /\ 1 \in Indices
      /\ active \in [Runs -> Entries] /\ AgentTypes /\ RunOK(r) /\ RunStops(r)
  BY HandleTypes DEF Begin, Untouched, Controller, AgentTypes, OutcomeInv, RunsOK, StopInv, RunStops
<1>2. Quiet /\ SameEvent /\ \A h : KeepsWithdraw(h)
  BY <1>1, SameWorkerQuiet DEF OutcomeInv
<1>3. PICK pc \in {"ask", "done"} : Goes(r, 1, pc)
  BY DEF Begin
<1>4. /\ ~OnRelay(r) /\ active[r].step = 0 /\ request.handle # <<r, 1>> /\ \A j \in Indices : j # 1 => thread[r][j] = "none"
  <2>1. StartOK(r) /\ Apart(r)
    BY <1>1 DEF RunOK, Controller, ApartInv
  <2> QED
    BY <1>1, <2>1 DEF StartOK, Early, Apart
<1>5. \A x \in Runs \ {r} : active'[x] = active[x]
  BY <1>1 DEF Begin
<1>6. thread'[r][1] = pc /\ (\A j \in Indices \ {1} : thread'[r][j] = thread[r][j]) /\ ~OnRelay(r)'
  BY <1>1, <1>3, <1>4, PlaceMoves DEF OnRelay
<1>7. \A j \in Indices : thread'[r][j] # "stopped"
  BY <1>3, <1>4, <1>6
<1>8. RunStops(r)'
  <2>1. CASE active'[r] = NewEntry
    <3>1. NewEntry.step = 1 /\ ~NewEntry.public /\ ~NewEntry.cancel
      BY DEF NewEntry, NoEntry
    <3>2. request' = request
      BY <1>1 DEF worker_vars
    <3>3. KnownOK(r)'
      BY <1>4, <1>6, <2>1, <3>1, <3>2 DEF KnownOK
    <3>4. ASSUME NEW j \in Indices PROVE StopOK(r, j)'
      BY <1>7, <2>1, <3>1 DEF StopOK
    <3> QED
      BY <3>3, <3>4 DEF RunStops
  <2>2. CASE active'[r] = active[r]
    <3>1. ~active[r].public /\ ~active[r].cancel
      BY <1>1, <1>4 DEF Controller, AgentOK, RunStops, KnownOK
    <3> QED
      BY <1>4, <1>6, <1>7, <2>2, <3>1, StopsWithout
  <2> QED
    BY <1>1, <2>1, <2>2 DEF Begin
<1>9. \A x \in Runs \ {r} : StopFramed(x)
  BY <1>1, <1>2, <1>3, <1>5, ThreadFrames
<1> QED
  BY <1>8, <1>9, OthersStopFramed

LEMMA AskStops ==
    ASSUME Controller, OutcomeInv, StopInv, NEW r \in Runs, NEW i \in Indices, Ask(r, i) \/ Withdraw(r, i)
    PROVE  StopInv'
<1>1. /\ UNCHANGED <<active, relay>> /\ <<r, i>> \in Handles /\ WorkerOK /\ WorkerFacts /\ AgentTypes
      /\ RunStops(r) /\ StopOK(r, i)
  BY HandleTypes DEF Ask, Withdraw, OutcomeInv, Controller, StopInv, RunStops
<1>2. ASSUME NEW op \in {"submit", "withdraw"}, NEW pc \in {"asked", "stopped", "withdrawn"},
             Send(op, <<r, i>>), Goes(r, i, pc), pc = "stopped" => op = "withdraw" /\ thread[r][i] = "stopping",
             pc = "asked" => thread[r][i] = "ask"
      PROVE  StopInv'
  <2>1. Quiet /\ SameEvent /\ (\A h : KeepsWithdraw(h)) /\ \A ops : op \in ops => Held(commands', <<r, i>>, ops)
    BY <1>1, <1>2, SendQuiet
  <2>2. RequestKept(r)
    BY <2>1, QuietKept
  <2>3. op = "withdraw" => Held(commands, <<r, i>>, {"withdraw"})' /\ Held(commands, <<r, i>>, Asks)'
    BY <2>1 DEF Asks
  <2>4. pc = "stopped" => Reached(<<r, i>>)'
    BY <1>2, <2>3 DEF Reached
  <2>5. active[r].step = i /\ i > 1 /\ pc \in {"stopping", "stopped", "done"} => active[r].current
    BY <1>1, <1>2 DEF StopOK
  <2>6. RunStops(r)'
    BY <1>1, <1>2, <2>1, <2>2, <2>3, <2>4, <2>5, StopGoesOn DEF Early
  <2> QED
    BY <1>1, <1>2, <2>1, <2>6, ThreadFrames, OthersStopFramed
<1>3. CASE Ask(r, i)
  BY <1>2, <1>3 DEF Ask
<1>4. CASE Withdraw(r, i)
  BY <1>2, <1>4 DEF Withdraw
<1> QED
  BY <1>3, <1>4

LEMMA GivenUpStops ==
    ASSUME Controller, OutcomeInv, StopInv, NEW r \in Runs, NEW i \in Indices, Refused(r, i) \/ Abandon(r, i)
    PROVE  StopInv'
<1>1. /\ active' = Removed(r, i) /\ Goes(r, i, "done") /\ UNCHANGED relay /\ UNCHANGED worker_vars
      /\ AgentTypes /\ RunStops(r) /\ KnownOK(r)
  BY DEF Refused, Abandon, Controller, StopInv, RunStops
<1>2. Quiet /\ SameEvent /\ \A h : KeepsWithdraw(h)
  BY <1>1, SameWorkerQuiet DEF OutcomeInv
<1>3. RequestKept(r)
  BY <1>2, QuietKept
<1>4. RunStops(r)'
  <2>1. CASE IsActive(r, i)
    <3>1. active'[r] = NoEntry /\ NoEntry.step = 0 /\ ~NoEntry.public /\ ~NoEntry.cancel
      BY <1>1, <2>1 DEF AgentTypes, Removed, NoEntry
    <3>2. thread'[r][i] = "done" /\ (\A j \in Indices \ {i} : thread'[r][j] = thread[r][j])
      BY <1>1, PlaceMoves
    <3>3. ASSUME NEW j \in Indices, thread'[r][j] = "stopped" PROVE Held(commands, <<r, j>>, {"withdraw"})'
      <4>1. StopOK(r, j) /\ thread[r][j] = "stopped"
        BY <1>1, <3>2, <3>3 DEF RunStops
      <4> QED
        BY <1>2, <4>1 DEF StopOK, KeepsWithdraw
    <3>4. OnRelay(r)' => relay'.entry.public
      BY <1>1 DEF OnRelay, KnownOK
    <3> QED
      BY <3>1, <3>3, <3>4, StopsWithout
  <2>2. CASE ~IsActive(r, i)
    BY <1>1, <1>2, <1>3, <2>2, StopGoesOn DEF Removed, IsActive, Early
  <2> QED
    BY <2>1, <2>2
<1>5. \A x \in Runs \ {r} : StopFramed(x)
  BY <1>1, <1>2, EntriesApart, ThreadFrames
<1> QED
  BY <1>4, <1>5, OthersStopFramed

LEMMA BindAnswerStops ==
    ASSUME Controller, OutcomeInv, StopInv, NEW r \in Runs, NEW i \in Indices, BindAnswer(r, i)
    PROVE  StopInv'
<1>1. /\ UNCHANGED <<active, relay>> /\ UNCHANGED worker_vars /\ AgentTypes /\ RunStops(r)
  BY DEF BindAnswer, Controller, StopInv, RunStops
<1>2. Quiet /\ SameEvent /\ \A h : KeepsWithdraw(h)
  BY <1>1, SameWorkerQuiet DEF OutcomeInv
<1>3. RequestKept(r)
  BY <1>2, QuietKept
<1>4. PICK pc \in {"bound", "unbinding", "unbound"} : Goes(r, i, pc)
  BY DEF BindAnswer
<1>5. RunStops(r)'
  BY <1>1, <1>2, <1>3, <1>4, StopGoesOn DEF Early
<1> QED
  BY <1>1, <1>2, <1>4, <1>5, ThreadFrames, OthersStopFramed

\* A follow-up that finds its run stopped goes on to withdraw.
LEMMA NoteStops ==
    ASSUME Controller, OutcomeInv, StopInv, NEW r \in Runs, NEW i \in Indices, Note(r, i)
    PROVE  StopInv'
<1>1. /\ UNCHANGED relay /\ UNCHANGED worker_vars /\ AgentTypes /\ active \in [Runs -> Entries]
      /\ active[r] \in Entries /\ RunStops(r) /\ KnownOK(r) /\ StopOK(r, i)
      /\ thread[r][i] \in {"bound", "unbound"} /\ RunOK(r)
  BY DEF Note, Untouched, Controller, AgentTypes, StopInv, RunStops, OutcomeInv, RunsOK
<1>2. Quiet /\ SameEvent /\ \A h : KeepsWithdraw(h)
  BY <1>1, SameWorkerQuiet DEF OutcomeInv
<1>3. RequestKept(r)
  BY <1>2, QuietKept
<1>4. PICK pc \in {"unbinding", "stopping", "done"} :
         Goes(r, i, pc) /\ (pc = "done" => i = 1 \/ ~IsActive(r, i) \/ ~active[r].cancel)
         /\ (pc = "stopping" => IsActive(r, i))
  BY DEF Note
<1>5. \A x \in Runs \ {r} : active'[x] = active[x]
  BY <1>1 DEF Note
<1>6. RunStops(r)'
  <2>1. CASE ~IsActive(r, i)
    <3>1. active' = active
      BY <2>1 DEF Note
    <3> QED
      BY <1>1, <1>2, <1>3, <1>4, <2>1, <3>1, StopGoesOn DEF IsActive, Early
  <2>2. CASE IsActive(r, i)
    <3>1. /\ active'[r].step = i /\ active[r].step = i /\ active'[r].cancel = active[r].cancel
          /\ active'[r].current /\ (active[r].public => active'[r].public)
          /\ i = 1 => active'[r].public
      BY <1>1, <2>2 DEF Note, IsActive, Entries
    <3>2. thread'[r][i] = pc /\ (\A j \in Indices \ {i} : thread'[r][j] = thread[r][j])
      BY <1>1, <1>4, PlaceMoves
    <3>3. thread[r][1] \notin Early /\ thread'[r][1] \notin Early
      <4>1. thread[r][1] \notin Early
        BY <1>1 DEF RunOK, StartOK, Early
      <4> QED
        BY <3>2, <4>1, HandleTypes DEF Early
    <3>4. KnownOK(r)'
      BY <1>1, <3>1, <3>3 DEF KnownOK, OnRelay, Indices
    <3>5. ASSUME NEW j \in Indices PROVE StopOK(r, j)'
      <4>1. StopOK(r, j) /\ KeepsWithdraw(<<r, j>>)
        BY <1>1, <1>2 DEF RunStops
      <4>2. CASE j = i
        <5>1. request'.handle = <<r, i>> => request.handle = <<r, i>> /\ (Reached(<<r, i>>) => Reached(<<r, i>>)')
          BY <1>3 DEF RequestKept
        <5>2. active[r].cancel /\ pc = "done" => i = 1
          BY <1>4, <2>2
        <5> QED
          BY <3>1, <3>2, <4>1, <4>2, <5>1, <5>2 DEF StopOK
      <4>3. CASE j # i
        BY <3>1, <3>2, <4>1, <4>3 DEF StopOK, KeepsWithdraw
      <4> QED
        BY <4>2, <4>3
    <3> QED
      BY <3>4, <3>5 DEF RunStops
  <2> QED
    BY <2>1, <2>2
<1> QED
  BY <1>1, <1>2, <1>4, <1>5, <1>6, ThreadFrames, OthersStopFramed

LEMMA ThreadsStop ==
    ASSUME Controller, OutcomeInv, StopInv, Threads
    PROVE  StopInv'
BY BeginStops, AskStops, GivenUpStops, BindAnswerStops, NoteStops DEF Threads, ThreadStep

-----------------------------------------------------------------------------
(* Stops, and what the worker and the relay do *)

LEMMA StopsStill ==
    ASSUME Controller, OutcomeInv, StopInv, UNCHANGED <<active, thread, relay>>, Quiet, SameEvent,
           \A h : KeepsWithdraw(h)
    PROVE  StopInv'
<1>1. ASSUME NEW x \in Runs PROVE StopFramed(x)
  BY QuietKept DEF StopFramed, OnRelay
<1> QED
  BY <1>1, StopsStay

LEMMA WorkerStops ==
    ASSUME Controller, OutcomeInv, StopInv,
           \/ NativeStep
           \/ \E op \in {"cancel", "late cancel"} : AnswerCancel(op)
           \/ ((\E op \in Unloads : HandleModel(op)) \/ Poll \/ Drain \/ Finish) /\ UNCHANGED agent
    PROVE  StopInv'
<1>1. UNCHANGED <<active, thread, relay>> /\ WorkerOK /\ WorkerFacts
  BY DEF NativeStep, AnswerCancel, agent, Controller, OutcomeInv
<1>2. Quiet /\ SameEvent /\ \A h : KeepsWithdraw(h)
  <2>1. CASE NativeStep
    BY <1>1, <2>1, NativeQuiet DEF NativeStep
  <2>2. ASSUME NEW op \in {"cancel", "late cancel"}, AnswerCancel(op) PROVE Quiet /\ SameEvent /\ \A h : KeepsWithdraw(h)
    BY <1>1, <2>2, CancelQuiet DEF AnswerCancel, Asks
  <2>3. CASE (\E op \in Unloads : HandleModel(op)) \/ Poll \/ Drain \/ Finish
    BY <1>1, <2>3, HandleModelQuiet, WorkerAloneQuiet
  <2> QED
    BY <2>1, <2>2, <2>3
<1> QED
  BY <1>1, <1>2, StopsStill

\* The worker has heard of the stop before the thread goes on.
LEMMA AnswerWithdrawStops ==
    ASSUME Controller, OutcomeInv, StopInv, AnswerWithdraw
    PROVE  StopInv'
<1>1. /\ commands # <<>> /\ Head(commands).op = "withdraw" /\ Head(commands).op \in Tracked
      /\ UNCHANGED <<active, relay>> /\ Quiet /\ SameEvent
      /\ (\A g : KeepsWithdraw(g) \/ g = Head(commands).handle)
      /\ request.handle = Head(commands).handle => request'.asked
  BY CancelQuiet DEF AnswerWithdraw, HandleCancel, Receives, Controller, OutcomeInv, Asks, Tracked
<1>2. PICK r \in Runs, i \in Indices :
         Head(commands).handle = <<r, i>> /\ thread[r][i] \in {"stopped", "withdrawn"}
  BY <1>1, HeadWaits DEF Controller, OutcomeInv
<1>3. PICK pc \in {"done", "abandon"} : Goes(r, i, pc) /\ (pc = "done" => thread[r][i] = "stopped")
  BY <1>2 DEF AnswerWithdraw
<1>4. AgentTypes /\ RunStops(r) /\ StopOK(r, i) /\ RequestKept(r)
  BY <1>1, QuietKept DEF Controller, StopInv, RunStops
<1>5. \A j \in Indices : KeepsWithdraw(<<r, j>>) \/ j = i
  BY <1>1, <1>2
<1>6. request'.handle = <<r, i>> => Reached(<<r, i>>)'
  BY <1>1, <1>2, <1>4 DEF RequestKept, Reached
<1>7. active[r].step = i /\ i > 1 /\ pc \in {"stopping", "stopped", "done"} => active[r].current
  BY <1>3, <1>4 DEF StopOK
<1>8. RunStops(r)'
  BY <1>1, <1>2, <1>3, <1>4, <1>5, <1>6, <1>7, StopGoesOn DEF Early
<1>9. ASSUME NEW x \in Runs \ {r} PROVE StopFramed(x)
  <2>1. thread'[x] = thread[x] /\ RequestKept(x)
    BY <1>1, <1>2, <1>3, <1>4, PlaceMoves, QuietKept
  <2> QED
    BY <1>1, <1>2, <2>1 DEF StopFramed, OnRelay
<1> QED
  BY <1>8, <1>9, OthersStopFramed

LEMMA AnswerSubmitStops ==
    ASSUME Controller, OutcomeInv, StopInv, NEW valid \in BOOLEAN, AnswerSubmit(valid)
    PROVE  StopInv'
<1>1. /\ commands # <<>> /\ Head(commands).op = "submit" /\ Head(commands).op \in Tracked
      /\ UNCHANGED <<active, relay>> /\ HandleSubmit(valid) /\ WorkerOK /\ WorkerFacts /\ AgentTypes
      /\ \A h : KeepsWithdraw(h)
  BY SubmitQuiet DEF AnswerSubmit, HandleSubmit, Receives, Controller, OutcomeInv, Tracked
<1>2. PICK r \in Runs, i \in Indices : Head(commands).handle = <<r, i>> /\ thread[r][i] = "asked"
  BY <1>1, HeadWaits DEF OutcomeInv
<1>3. RunStops(r) /\ KnownOK(r)
  BY DEF StopInv, RunStops
<1>4. CASE ~Accepts(valid)
  <2>1. Quiet /\ SameEvent
    BY <1>1, <1>4, SubmitQuiet
  <2>2. RequestKept(r)
    BY <2>1, QuietKept
  <2>3. Goes(r, i, "refused")
    BY <1>2, <1>4 DEF AnswerSubmit
  <2>4. RunStops(r)'
    BY <1>1, <1>2, <1>3, <2>2, <2>3, StopGoesOn DEF Early
  <2> QED
    BY <1>1, <2>1, <2>3, <2>4, ThreadFrames, OthersStopFramed
<1>5. CASE Accepts(valid)
  <2>1. request'.handle = <<r, i>> /\ request'.event = "sent"
    BY <1>1, <1>2, <1>5, SubmitQuiet
  <2>2. Goes(r, i, "accepted")
    BY <1>2, <1>5 DEF AnswerSubmit
  <2>3. /\ thread'[r][i] = "accepted" /\ (\A j \in Indices \ {i} : thread'[r][j] = thread[r][j])
        /\ (\A x \in Runs \ {r} : thread'[x] = thread[x])
    BY <1>1, <2>2, PlaceMoves
  <2>4. KnownOK(r)'
    <3>1. thread'[r][1] \in Early => thread[r][1] \in Early
      BY <2>3, HandleTypes DEF Early
    <3> QED
      BY <1>1, <1>3, <2>1, <3>1 DEF KnownOK, OnRelay
  <2>5. ASSUME NEW j \in Indices PROVE StopOK(r, j)'
    <3>1. StopOK(r, j) /\ KeepsWithdraw(<<r, j>>) /\ (thread[r][1] = "asked" => ~active[r].cancel)
      BY <1>1, <1>3 DEF RunStops, KnownOK, Early
    <3>2. CASE j = i
      BY <1>1, <1>2, <2>3, <3>1, <3>2 DEF StopOK
    <3>3. CASE j # i
      BY <1>1, <2>1, <2>3, <3>1, <3>3 DEF StopOK, KeepsWithdraw
    <3> QED
      BY <3>2, <3>3
  <2>6. RunStops(r)'
    BY <2>4, <2>5 DEF RunStops
  <2>7. ASSUME NEW x \in Runs \ {r} PROVE StopFramed(x)
    <3>1. RequestKept(x)
      BY <2>1 DEF RequestKept
    <3> QED
      BY <1>1, <2>3, <3>1 DEF StopFramed, OnRelay
  <2> QED
    BY <2>6, <2>7, OthersStopFramed
<1> QED
  BY <1>4, <1>5

LEMMA RouteQueuedStops ==
    ASSUME Controller, OutcomeInv, StopInv, RouteQueued
    PROVE  StopInv'
<1>1. /\ (\E ok \in BOOLEAN : RelayRegular(ok)) /\ UNCHANGED <<thread, relay>> /\ relay.pc = "idle"
      /\ WorkerOK /\ WorkerFacts /\ active \in [Runs -> Entries]
  BY DEF RouteQueued, Controller, AgentTypes, OutcomeInv
<1>2. Quiet /\ (\A h : KeepsWithdraw(h)) /\ request'.handle = request.handle
  BY <1>1, RegularQuiet
<1>3. PICK r \in Runs, i \in Indices : request.handle = <<r, i>>
  BY <1>1, HandleTypes DEF RouteQueued, WorkerOK
<1>4. KnownOK(r) /\ active[r] \in Entries /\ thread[r][1] \notin Early
  BY <1>1, <1>3 DEF StopInv, OutcomeInv, RunsOK, RunOK, StartOK
<1>5. active' = IF IsActive(r, i) THEN [active EXCEPT ![r].public = TRUE, ![r].current = TRUE] ELSE active
  <2>1. Current[1] = r /\ Current[2] = i
    BY <1>3 DEF Current
  <2> QED
    BY <2>1 DEF RouteQueued
<1>6. \A x \in Runs \ {r} : active'[x] = active[x]
  BY <1>1, <1>5
<1>7. Reached(<<r, i>>) => Reached(<<r, i>>)'
  BY <1>2, <1>3, HandleTypes DEF Quiet
<1>8. CASE IsActive(r, i)
  <2>1. /\ active'[r].step = i /\ active[r].step = i /\ active'[r].cancel = active[r].cancel
        /\ active'[r].current /\ active'[r].public
    BY <1>1, <1>4, <1>5, <1>8 DEF IsActive, Entries
  <2>2. KnownOK(r)'
    BY <1>1, <1>4, <2>1, HandleTypes DEF KnownOK, OnRelay, Indices
  <2>3. ASSUME NEW j \in Indices PROVE StopOK(r, j)'
    <3>1. StopOK(r, j) /\ KeepsWithdraw(<<r, j>>)
      BY <1>2 DEF StopInv
    <3> QED
      BY <1>1, <1>2, <1>7, <2>1, <3>1 DEF StopOK, KeepsWithdraw
  <2> QED
    BY <1>8, <2>2, <2>3, OthersStopFramed, <1>1, <1>2, <1>3, <1>6 DEF RunStops, StopFramed, RequestKept, OnRelay
<1>9. CASE ~IsActive(r, i)
  <2>1. active' = active /\ active[r].step # i
    BY <1>5, <1>9 DEF IsActive
  <2>2. KnownOK(r)'
    BY <1>1, <1>2, <1>3, <1>4, <2>1 DEF KnownOK, OnRelay
  <2>3. ASSUME NEW j \in Indices PROVE StopOK(r, j)'
    <3>1. StopOK(r, j) /\ KeepsWithdraw(<<r, j>>)
      BY <1>2 DEF StopInv
    <3> QED
      BY <1>1, <1>2, <1>3, <2>1, <3>1 DEF StopOK, KeepsWithdraw
  <2> QED
    BY <2>2, <2>3, OthersStopFramed, <1>1, <1>2, <1>3, <1>6 DEF RunStops, StopFramed, RequestKept, OnRelay
<1> QED
  BY <1>8, <1>9

\* The window knows a run by the time its terminal event takes it.
LEMMA RouteTerminalStops ==
    ASSUME Controller, OutcomeInv, StopInv, RouteTerminal
    PROVE  StopInv'
<1>1. /\ UNCHANGED thread /\ relay.pc = "idle" /\ TerminalDue /\ WorkerOK /\ WorkerFacts
      /\ active \in [Runs -> Entries] /\ NoEntry.step = 0 /\ ~NoEntry.public /\ ~NoEntry.cancel
  BY DEF RouteTerminal, Controller, AgentTypes, OutcomeInv, NoEntry
<1>2. PICK r \in Runs, i \in Indices : request.handle = <<r, i>>
  BY <1>1, HandleTypes DEF TerminalDue, WorkerOK
<1>3. KnownOK(r) /\ active[r] \in Entries /\ Current[1] = r /\ Current[2] = i
  BY <1>1, <1>2 DEF StopInv, Current
<1>4. CASE ~IsActive(r, i)
  <2>1. Acknowledge(TRUE) /\ UNCHANGED <<active, relay>>
    BY <1>3, <1>4 DEF RouteTerminal
  <2> QED
    BY <1>1, <2>1, AcknowledgeQuiet, StopsStill
<1>5. CASE IsActive(r, i)
  <2>1. active[r].public
    <3>1. active[r].step = i /\ (i = 1 \/ i > 1)
      BY <1>5 DEF IsActive, Indices
    <3> QED
      BY <1>1, <1>2, <1>3, <3>1 DEF KnownOK, TerminalDue
  <2>2. /\ active' = [active EXCEPT ![r] = NoEntry] /\ UNCHANGED worker_vars
        /\ \/ \E pc, k : relay' = [pc |-> pc, run |-> Current, entry |-> active[r], kind |-> k]
           \/ \E pc, k : relay' = [pc |-> pc, run |-> Current, entry |-> [active[r] EXCEPT !.repaired = TRUE], kind |-> k]
    BY <1>3, <1>5 DEF RouteTerminal
  <2>3. PICK f : f = [active[r] EXCEPT !.repaired = TRUE]
    OBVIOUS
  <2>4. relay'.entry.public /\ relay'.run[1] = r
    <3>1. f.public
      BY <1>3, <2>1, <2>3 DEF Entries
    <3>2. relay'.run = Current /\ relay'.entry \in {active[r], f}
      BY <2>2, <2>3
    <3> QED
      BY <1>3, <2>1, <3>1, <3>2
  <2>5. Quiet /\ SameEvent /\ (\A h : KeepsWithdraw(h)) /\ UNCHANGED commands
    BY <1>1, <2>2, SameWorkerQuiet DEF worker_vars
  <2>6. active'[r] = NoEntry /\ \A x \in Runs \ {r} : active'[x] = active[x]
    BY <1>1, <2>2
  <2>7. RunStops(r)'
    <3>1. ASSUME NEW j \in Indices, thread'[r][j] = "stopped" PROVE Held(commands, <<r, j>>, {"withdraw"})'
      BY <1>1, <2>5, <3>1 DEF StopInv, StopOK, KeepsWithdraw
    <3> QED
      BY <1>1, <2>4, <2>6, <3>1, StopsWithout
  <2>8. ASSUME NEW x \in Runs \ {r} PROVE StopFramed(x)
    <3>1. ~OnRelay(x)' /\ RequestKept(x)
      BY <2>4, <2>5, QuietKept DEF OnRelay
    <3> QED
      BY <1>1, <2>5, <2>6, <3>1 DEF StopFramed
  <2> QED
    BY <2>7, <2>8, OthersStopFramed
<1> QED
  BY <1>4, <1>5

\* Between two events the relay keeps the entry of its run.
LEMMA RelayKept ==
    ASSUME Controller, relay.pc # "idle", NEW r, r = relay.run[1], NEW i,
           \/ RelayEnd(r, i) \/ RelayFinal(r, i) \/ RelayComplete(r, i)
           \/ \E a \in Actions : RelayTool(r, a)
           \/ RelayFollow(r) \/ RelayFail(r)
    PROVE  UNCHANGED <<active, thread>> /\ relay'.run = relay.run /\ relay'.entry.public = relay.entry.public
<1>1. relay.entry \in Entries
  BY RelayEntry
<1>2. ASSUME NEW pc, NEW e, NEW k, At(pc, e, k), e.public = relay.entry.public
      PROVE  relay'.run = relay.run /\ relay'.entry.public = relay.entry.public
  BY <1>2 DEF At
<1>3. UNCHANGED <<active, thread>>
  BY DEF RelayEnd, RelayFinal, RelayComplete, RelayTool, RelayFollow, RelayFail, Stay
<1>4. CASE RelayEnd(r, i) \/ RelayFinal(r, i) \/ RelayComplete(r, i) \/ RelayFail(r)
  BY <1>2, <1>3, <1>4 DEF RelayEnd, RelayFinal, RelayComplete, RelayFail, TellIf, FailBetween
<1>5. ASSUME NEW a \in Actions, RelayTool(r, a)
      PROVE  relay'.run = relay.run /\ relay'.entry.public = relay.entry.public
  <2>1. CASE FailBetween
    BY <2>1 DEF FailBetween, At
  <2>2. ASSUME NEW x \in Results, NEW novel \in BOOLEAN,
               At("follow", IF novel THEN Counted(relay.entry, a, x) ELSE Called(relay.entry, a), "none")
        PROVE  relay'.run = relay.run /\ relay'.entry.public = relay.entry.public
    <3>1. Called(relay.entry, a).public = relay.entry.public /\ Counted(relay.entry, a, x).public = relay.entry.public
      BY <1>1 DEF Entries, Called, Counted
    <3> HIDE DEF Called, Counted
    <3>2. PICK e : e = IF novel THEN Counted(relay.entry, a, x) ELSE Called(relay.entry, a)
      OBVIOUS
    <3> QED
      BY <1>2, <2>2, <3>1, <3>2
  <2>3. CASE \E ok \in BOOLEAN, x \in Results :
                At("follow", IF ok /\ <<a, x>> \notin relay.entry.seen THEN Counted(relay.entry, a, x)
                             ELSE Called(relay.entry, a), "none")
    <3>1. PICK ok \in BOOLEAN, x \in Results :
                At("follow", IF ok /\ <<a, x>> \notin relay.entry.seen THEN Counted(relay.entry, a, x)
                             ELSE Called(relay.entry, a), "none")
      BY <2>3
    <3>2. PICK novel \in BOOLEAN : novel = (ok /\ <<a, x>> \notin relay.entry.seen)
      OBVIOUS
    <3> QED
      BY <2>2, <3>1, <3>2
  <2> QED
    BY <1>5, <2>1, <2>3 DEF RelayTool, Called, Counted
<1>6. CASE RelayFollow(r)
  <2>1. CASE FailBetween
    BY <1>3, <2>1 DEF FailBetween, At
  <2>2. CASE At("start", [relay.entry EXCEPT !.total = @ + 1, !.progress = @ + 1, !.current = FALSE,
                                             !.step = Len(steps[r]) + 1], "none")
    <3>1. PICK n : n = Len(steps[r]) + 1
      OBVIOUS
    <3>2. PICK e : e = [relay.entry EXCEPT !.total = @ + 1, !.progress = @ + 1, !.current = FALSE, !.step = n]
      OBVIOUS
    <3>3. e.public = relay.entry.public
      BY <1>1, <3>2 DEF Entries
    <3>4. At("start", e, "none")
      BY <2>2, <3>1, <3>2
    <3> QED
      BY <1>3, <3>3, <3>4 DEF At
  <2> QED
    BY <1>6, <2>1, <2>2 DEF RelayFollow
<1> QED
  BY <1>3, <1>4, <1>5, <1>6

LEMMA RelayStartStops ==
    ASSUME Controller, OutcomeInv, StopInv, relay.pc # "idle", NEW r, r = relay.run[1], RelayStart(r)
    PROVE  StopInv'
<1>1. /\ r \in Runs /\ OnRelay(r) /\ RunOK(r) /\ RunStops(r) /\ KnownOK(r) /\ WorkerOK /\ AgentTypes /\ WorkerFacts
      /\ active \in [Runs -> Entries] /\ relay.pc = "start"
  BY RelayEntry DEF OutcomeInv, RunsOK, Controller, AgentTypes, StopInv, RunStops, RelayStart
<1>2. Quiet /\ SameEvent /\ (\A h : KeepsWithdraw(h)) /\ UNCHANGED <<commands, request>>
  BY <1>1, AcknowledgeQuiet DEF RelayStart
<1>3. \A x \in Runs : ~OnRelay(x)'
  BY DEF RelayStart, Idle, Unoccupied, OnRelay
<1>4. CASE UNCHANGED <<active, thread>>
  BY <1>2, <1>3, <1>4, QuietKept, StopsStay DEF StopFramed
<1>5. ASSUME NEW i, i = relay.entry.step, active' = [active EXCEPT ![r] = relay.entry], Goes(r, i, "ask")
      PROVE  StopInv'
  <2>1. i \in Indices \ {1} /\ 1 \in Indices
    BY <1>1, <1>5, HandleTypes DEF RunOK, RelayOK
  <2>2. active'[r] = relay.entry /\ active'[r].step = i /\ \A x \in Runs \ {r} : active'[x] = active[x]
    BY <1>1, <1>5
  <2>3. /\ thread'[r][i] = "ask" /\ (\A j \in Indices \ {i} : thread'[r][j] = thread[r][j])
        /\ (\A x \in Runs \ {r} : thread'[x] = thread[x])
    BY <1>1, <1>5, <2>1, PlaceMoves
  <2>4. thread'[r][1] \notin Early
    BY <1>1, <2>1, <2>3, EarlyAlone
  <2>5. KnownOK(r)'
    <3>1. i # 0 /\ i # 1
      BY <2>1 DEF Indices
    <3> QED
      BY <1>1, <1>3, <2>2, <2>4, <3>1 DEF KnownOK
  <2>6. ASSUME NEW j \in Indices PROVE StopOK(r, j)'
    <3>1. StopOK(r, j) /\ KeepsWithdraw(<<r, j>>)
      BY <1>1, <1>2 DEF RunStops
    <3>2. CASE j = i
      BY <2>1, <2>3, <3>2 DEF StopOK
    <3>3. CASE j # i
      BY <2>2, <2>3, <3>1, <3>3 DEF StopOK, KeepsWithdraw
    <3> QED
      BY <3>2, <3>3
  <2>7. ASSUME NEW x \in Runs \ {r} PROVE StopFramed(x)
    BY <1>2, <1>3, <2>2, <2>3, QuietKept DEF StopFramed
  <2> QED
    BY <1>1, <2>5, <2>6, <2>7, OthersStopFramed DEF RunStops
<1> QED
  BY <1>4, <1>5 DEF RelayStart

LEMMA RelayStops ==
    ASSUME Controller, OutcomeInv, StopInv, RelayStep
    PROVE  StopInv'
<1>1. ASSUME NEW r, NEW i, r = relay.run[1], relay.pc # "idle", UNCHANGED worker_vars,
             \/ RelayEnd(r, i) \/ RelayFinal(r, i) \/ RelayComplete(r, i)
             \/ \E a \in Actions : RelayTool(r, a)
             \/ RelayFollow(r) \/ RelayFail(r)
      PROVE  StopInv'
  <2>1. UNCHANGED <<active, thread>> /\ relay'.run = relay.run /\ relay'.entry.public = relay.entry.public
    BY <1>1, RelayKept
  <2>2. Quiet /\ SameEvent /\ \A h : KeepsWithdraw(h)
    BY <1>1, SameWorkerQuiet DEF OutcomeInv
  <2>3. ASSUME NEW x \in Runs PROVE StopFramed(x)
    BY <1>1, <2>1, <2>2, QuietKept DEF StopFramed, OnRelay
  <2> QED
    BY <2>3, StopsStay
<1>2. ASSUME NEW r, r = relay.run[1], relay.pc # "idle", RelayTell(r)
      PROVE  StopInv'
  <2>1. Quiet /\ SameEvent /\ (\A h : KeepsWithdraw(h)) /\ UNCHANGED <<active, thread>>
    BY <1>2, AcknowledgeQuiet DEF RelayTell, Controller, OutcomeInv
  <2>2. \A x \in Runs : ~OnRelay(x)'
    BY <1>2 DEF RelayTell, Idle, Unoccupied, OnRelay
  <2>3. ASSUME NEW x \in Runs PROVE StopFramed(x)
    BY <2>1, <2>2, QuietKept DEF StopFramed
  <2> QED
    BY <2>3, StopsStay
<1>3. CASE RouteQueued \/ RouteTerminal
  BY <1>3, RouteQueuedStops, RouteTerminalStops
<1>4. CASE relay.pc # "idle"
           /\ LET r == relay.run[1]
                  i == relay.run[2]
              IN  \/ RelayStart(r) \/ RelayTell(r)
                  \/ /\ \/ RelayEnd(r, i) \/ RelayFinal(r, i) \/ RelayComplete(r, i)
                        \/ \E a \in Actions : RelayTool(r, a)
                        \/ RelayFollow(r) \/ RelayFail(r)
                     /\ UNCHANGED worker_vars
  BY <1>1, <1>2, <1>4, RelayStartStops
<1> QED
  BY <1>3, <1>4 DEF RelayStep

-----------------------------------------------------------------------------
(* Stops, and what the window does *)

LEMMA IndexPositive ==
    ASSUME NEW j \in Indices
    PROVE  j = 1 \/ (j # 1 /\ j > 1)
BY DEF Indices

\* The stop goes to the request of the entry, if its thread is through.
LEMMA CancelStops ==
    ASSUME Controller, OutcomeInv, StopInv, NEW r \in Runs, NEW op \in {"cancel", "late cancel"}, Cancel(r, op)
    PROVE  StopInv'
<1>1. /\ active \in [Runs -> Entries] /\ active[r] \in Entries /\ WorkerOK /\ WorkerFacts /\ RunOK(r) /\ KnownOK(r)
      /\ active[r].step # 0 /\ active[r].public /\ UNCHANGED <<thread, relay>>
  BY DEF Cancel, Findable, Controller, AgentTypes, AgentOK, OutcomeInv, RunsOK, StopInv
<1>2. PICK h \in Handles : h = <<r, active[r].step>>
  BY <1>1, EntryTypes, IndexTyped, HandleTypes
<1>3. Send(op, h) \/ UNCHANGED worker_vars
  BY <1>2 DEF Cancel
<1>4. Quiet /\ SameEvent /\ (\A g : KeepsWithdraw(g)) /\ request' = request
  BY <1>1, <1>3, SendQuiet, SameWorkerQuiet DEF Send, worker_vars
<1>5. /\ active'[r].step = active[r].step /\ active'[r].public /\ active'[r].current = active[r].current
      /\ \A x \in Runs \ {r} : active'[x] = active[x]
  BY <1>1 DEF Cancel, Entries
<1>6. active[r].current => Reached(h)'
  <2>1. active[r].current => Send(op, h) /\ op \in Asks
    BY <1>2 DEF Cancel, Asks
  <2>2. active[r].current => Held(commands', h, Asks)
    BY <1>1, <2>1, SendQuiet
  <2> QED
    BY <2>2 DEF Reached
<1>7. thread[r][1] \notin Early
  BY <1>1 DEF KnownOK
<1>8. KnownOK(r)'
  BY <1>1, <1>4, <1>5, <1>7 DEF KnownOK, OnRelay
<1>9. ASSUME NEW j \in Indices PROVE StopOK(r, j)'
  <2>1. StopOK(r, j)
    BY DEF StopInv
  <2>2. KeepsWithdraw(<<r, j>>)
    BY <1>4
  <2>3. j = 1 \/ (j # 1 /\ j > 1)
    BY IndexPositive
  <2>4. CASE active[r].step = j
    <3>1. j = 1 \/ thread[r][j] \in {"stopped", "done"} => active[r].current
      <4>1. CASE j = 1
        BY <1>1, <2>4, <4>1 DEF KnownOK
      <4>2. CASE j # 1 /\ j > 1
        <5>1. active[r].step = j /\ j > 1 /\ thread[r][j] \in {"stopping", "stopped", "done"} => active[r].current
          BY <2>1 DEF StopOK
        <5>2. thread[r][j] \in {"stopped", "done"} => thread[r][j] \in {"stopping", "stopped", "done"}
          OBVIOUS
        <5> QED
          BY <2>4, <4>2, <5>1, <5>2, Zenon
      <4> QED
        BY <2>3, <4>1, <4>2
    <3>2. active[r].current => Reached(<<r, j>>)'
      BY <1>2, <1>6, <2>4
    <3> QED
      BY <1>1, <1>5, <2>1, <2>2, <2>4, <3>1, <3>2 DEF StopOK, KeepsWithdraw
  <2>5. CASE active[r].step # j
    BY <1>1, <1>5, <2>1, <2>2, <2>5 DEF StopOK, KeepsWithdraw
  <2> QED
    BY <2>4, <2>5
<1>10. ASSUME NEW x \in Runs \ {r} PROVE StopFramed(x)
  BY <1>1, <1>4, <1>5, QuietKept DEF StopFramed, OnRelay
<1> QED
  BY <1>8, <1>9, <1>10, OthersStopFramed DEF RunStops

LEMMA OutsideStops ==
    ASSUME Controller, OutcomeInv, StopInv, UNCHANGED agent,
           UNCHANGED worker_vars \/ \E op \in Unloads : CallModel(op)
    PROVE  StopInv'
<1>1. Quiet /\ SameEvent /\ \A h : KeepsWithdraw(h)
  BY SameWorkerQuiet, CallModelQuiet DEF Controller, OutcomeInv
<1> QED
  BY <1>1, StopsStill DEF agent

LEMMA StartsTurnStops ==
    ASSUME Controller, OutcomeInv, StopInv, NEW c \in Conversations, NEW m \in Modes, NEW r \in Runs, StartsTurn(c, m, r)
    PROVE  StopInv'
<1>1. /\ UNCHANGED <<active, relay>> /\ UNCHANGED worker_vars /\ Goes(r, 1, "begin") /\ status[r] = "none"
      /\ AgentTypes /\ RunOK(r) /\ RunRows(r) /\ 1 \in Indices /\ KnownOK(r)
  BY HandleTypes DEF StartsTurn, Controller, OutcomeInv, RunsOK, RowsInv, StopInv
<1>2. active[r].step = 0 /\ ~OnRelay(r) /\ \A j \in Indices : thread[r][j] = "none"
  BY <1>1 DEF RunRows, RunOK, StepOK
<1>3. /\ thread'[r][1] = "begin" /\ (\A j \in Indices \ {1} : thread'[r][j] = thread[r][j])
  BY <1>1, PlaceMoves
<1>4. Quiet /\ SameEvent /\ \A h : KeepsWithdraw(h)
  BY <1>1, SameWorkerQuiet DEF OutcomeInv
<1>5. \A j \in Indices : thread'[r][j] # "stopped"
  BY <1>2, <1>3
<1>6. ~active[r].public /\ ~active[r].cancel /\ ~OnRelay(r)'
  BY <1>1, <1>2 DEF Controller, AgentOK, KnownOK, OnRelay
<1>7. RunStops(r)'
  BY <1>1, <1>2, <1>5, <1>6, StopsWithout
<1>8. \A x \in Runs \ {r} : StopFramed(x)
  BY <1>1, <1>4, ThreadFrames
<1> QED
  BY <1>7, <1>8, OthersStopFramed

LEMMA RestartStops ==
    ASSUME Restart
    PROVE  StopInv'
<1>1. NoEntry.step = 0 /\ ~NoEntry.public /\ ~NoEntry.cancel
  BY DEF NoEntry
<1>2. ASSUME NEW r \in Runs PROVE RunStops(r)'
  <2>1. active'[r] = NoEntry /\ ~OnRelay(r)' /\ \A i \in Indices : thread'[r][i] = "none"
    BY DEF Restart, Idle, Unoccupied, OnRelay
  <2> QED
    BY <1>1, <2>1, StopsWithout
<1> QED
  BY <1>2 DEF StopInv, RunStops

LEMMA StopStart ==
    ASSUME AppInit
    PROVE  StopInv
<1>1. NoEntry.step = 0 /\ ~NoEntry.public /\ ~NoEntry.cancel /\ 0 \notin Indices
  BY DEF NoEntry, Indices
<1>2. ASSUME NEW r \in Runs PROVE RunStops(r)
  <2>1. active[r] = NoEntry /\ ~OnRelay(r) /\ \A i \in Indices : thread[r][i] = "none"
    BY DEF AppInit, AgentInit, Unoccupied, OnRelay
  <2> QED
    BY <1>1, <2>1 DEF RunStops, KnownOK, StopOK
<1> QED
  BY <1>2 DEF StopInv, RunStops

LEMMA StopStep ==
    ASSUME Controller, OutcomeInv, StopInv, [AppNext]_vars
    PROVE  StopInv'
<1>1. CASE Threads \/ NativeStep \/ Answers \/ WorkerStep
  BY <1>1, ThreadsStop, WorkerStops, AnswerSubmitStops, AnswerWithdrawStops DEF Answers, WorkerStep
<1>2. CASE RelayStep
  BY <1>2, RelayStops
<1>3. CASE Restart
  BY <1>3, RestartStops
<1>4. CASE Hears
  <2>1. PICK r \in Runs : HearsEnd(r) \/ HearsFailure(r) \/ StopAccepted(r)
    BY <1>4 DEF Hears
  <2>2. CASE HearsEnd(r) \/ HearsFailure(r)
    BY <2>2, OutsideStops DEF HearsEnd, HearsFailure
  <2>3. CASE StopAccepted(r)
    BY <2>3, CancelStops, OutsideStops DEF StopAccepted, NotFound, Untouched
  <2> QED
    BY <2>1, <2>2, <2>3
<1>5. CASE User
  <2>1. ASSUME NEW r \in Runs, Stop(r) \/ StopPending(r) PROVE StopInv'
    BY <2>1, CancelStops, OutsideStops DEF Stop, StopPending, NotFound, Untouched
  <2>2. ASSUME NEW c \in Conversations, Manages(c) PROVE StopInv'
    BY <2>2, OutsideStops DEF Manages
  <2>3. ASSUME NEW op \in Unloads, Loads(op) PROVE StopInv'
    BY <2>3, OutsideStops DEF Loads
  <2> QED
    BY <1>5, <2>1, <2>2, <2>3, StartsTurnStops DEF User
<1>6. CASE UNCHANGED vars
  BY <1>6, OutsideStops DEF vars
<1> QED
  BY <1>1, <1>2, <1>3, <1>4, <1>5, <1>6 DEF AppNext

-----------------------------------------------------------------------------
(* One outcome, and every stop is heard of *)

\* What the threads, the relay, the worker and the window know of a run between
\* them: who has it, and who has heard that it is to be stopped.
THEOREM TurnInvariant == AppSpec => []TurnInv
<1>1. AppInit => TurnInv
  BY AppStart, OutcomeStart, StopStart DEF TurnInv, AppInv
<1>2. ASSUME TurnInv, [AppNext]_vars PROVE TurnInv'
  <2>1. AppInv' /\ Controller /\ Controller'
    BY <1>2, AppStep DEF TurnInv, AppInv
  <2>2. OutcomeInv' /\ StopInv'
    BY <1>2, <2>1, OutcomeStep, StopStep DEF TurnInv
  <2> QED
    BY <2>1, <2>2 DEF TurnInv
<1> QED
  BY <1>1, <1>2, PTL DEF AppSpec

\* The event that ends a turn carries the handle the window knows it by, however
\* late the answer of the submission is.
THEOREM EndAlwaysRecognised == AppSpec => []EndIsRecognised
<1>1. ASSUME TurnInv PROVE EndIsRecognised
  <2>1. relay.pc # "idle" => relay.entry.public
    BY <1>1, RelayEntry DEF TurnInv, AppInv, StopInv, KnownOK
  <2> QED
    BY <2>1 DEF EndIsRecognised
<1> QED
  BY <1>1, TurnInvariant, PTL

\* A run has one outcome, and it is the one the tables hold: of the thread that
\* submits, the follow-up and the relay only one can give the run up.
THEOREM OutcomeIsOnce == AppSpec => []OneOutcome
<1>1. ASSUME TurnInv PROVE OneOutcome
  <2>1. ASSUME NEW r \in Runs, status[r] # "gone"
        PROVE  /\ Len(told[r]) + (IF returned[r] = "error" THEN 1 ELSE 0) <= 1
               /\ told[r] # <<>> => status[r] = StatusOf(Head(told[r]))
    <3>1. OutcomeOK(r) /\ told[r] \in Seq({"done", "cancelled", "error"})
      BY <1>1 DEF TurnInv, AppInv, Controller, AgentTypes, OutcomeInv, RunsOK, RunOK
    <3>2. Len(told[r]) \in Nat /\ (told[r] = <<>> => Len(told[r]) = 0)
      BY <3>1, LenProperties
    <3>3. Len(told[r]) <= 1 /\ (returned[r] = "error" => told[r] = <<>>)
      BY <2>1, <3>1, <3>2 DEF OutcomeOK, Row, Gone
    <3>4. Len(told[r]) + (IF returned[r] = "error" THEN 1 ELSE 0) <= 1
      <4>1. CASE returned[r] = "error"
        BY <3>2, <3>3, <4>1
      <4>2. CASE returned[r] # "error"
        BY <3>2, <3>3, <4>2
      <4> QED
        BY <4>1, <4>2
    <3> QED
      BY <2>1, <3>1, <3>4 DEF OutcomeOK, Row, Gone
  <2> QED
    BY <2>1 DEF OneOutcome
<1> QED
  BY <1>1, TurnInvariant, PTL

\* A submission of the turn the window is in is refused for being busy only when
\* a run the window has given up, or a deleted one, still has the worker.
THEOREM NeverBusyInTurn == AppSpec => []BusyOnlyWhenGivenUp
<1>1. ASSUME TurnInv PROVE BusyOnlyWhenGivenUp
  <2>1. WorkerOK /\ OutcomeInv
    BY <1>1 DEF TurnInv, AppInv, Controller
  <2>2. ASSUME Receives("submit"), Head(commands).handle[1] = turn, phase = "streaming"
        PROVE  /\ request # NoRequest /\ request.handle[1] # turn
               /\ status[request.handle[1]] # "gone" => told[request.handle[1]] = <<>>
    <3>1. PICK r \in Runs, i \in Indices : Head(commands).handle = <<r, i>> /\ thread[r][i] = "asked"
      <4>1. commands # <<>> /\ Head(commands).op = "submit" /\ Head(commands).op \in Tracked
        BY <2>2 DEF Receives, Tracked
      <4> QED
        BY <2>1, <4>1, HeadWaits DEF OutcomeInv
    <3>2. request.handle # NoHandle /\ request # NoRequest
      BY <2>1, <2>2 DEF OutcomeInv, WorkerFacts, NoRequest
    <3>3. PICK q \in Runs, j \in Indices : request.handle = <<q, j>>
      <4>1. request.handle \in Handles
        BY <2>1, <3>2, WorkerTypes DEF Request
      <4> QED
        BY <4>1, HandleTypes
    <3>4. worker # "acked"
      BY <2>2 DEF Receives
    <3>5. q # r
      <4>1. StepOK(r, i) /\ StepOK(r, j) /\ i # 0
        BY <2>1 DEF OutcomeInv, RunsOK, RunOK, Indices
      <4> QED
        BY <3>1, <3>3, <3>4, <4>1 DEF StepOK, Unsubmitted
    <3>6. status[q] # "gone" => told[q] = <<>>
      <4>1. OutcomeOK(q)
        BY <2>1 DEF OutcomeInv, RunsOK, RunOK
      <4> QED
        BY <3>3, <3>4, <4>1 DEF OutcomeOK, Row, Gone
    <3> QED
      BY <2>2, <3>1, <3>2, <3>3, <3>5, <3>6
  <2> QED
    BY <2>2 DEF BusyOnlyWhenGivenUp
<1> QED
  BY <1>1, TurnInvariant, PTL

\* A stop that llm_cancel has taken reaches every later request of the run: no
\* thread leaves a request behind that the worker will not be asked to cancel.
THEOREM StopAlwaysReaches == AppSpec => []StopReachesRequest
<1>1. ASSUME TurnInv PROVE StopReachesRequest
  <2>1. ASSUME NEW r \in Runs, NEW i \in Indices, active[r].cancel, IsActive(r, i), thread[r][i] = "done",
               request.handle = <<r, i>>
        PROVE  Reached(<<r, i>>)
    BY <1>1, <2>1 DEF TurnInv, StopInv, StopOK, IsActive
  <2> QED
    BY <2>1 DEF StopReachesRequest, Reached, Held, Asks
<1> QED
  BY <1>1, TurnInvariant, PTL

=============================================================================
