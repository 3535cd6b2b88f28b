----------------------------- MODULE StoreProofs -----------------------------
(***************************************************************************)
(* The rows of a run, its message and its steps agree in every reachable   *)
(* state, for any sets of conversations and runs.                          *)
(*                                                                         *)
(* RowsOK speaks about one run.  Each transaction changes the rows of one  *)
(* run, or closes or removes whole runs, so a lemma about the rows before  *)
(* and after is proved per kind of change and used for every run.          *)
(***************************************************************************)
EXTENDS ConversationStore, TLAPS, FiniteSetTheorems, SequenceTheorems

EndedSteps(q) == \A i \in DOMAIN q : q[i].status \in Ended

\* s is the status of a run, m that of its message, q are its steps.
RowsOK(s, m, q) ==
    /\ s \in Gone => m \in Gone /\ q = <<>>
    /\ s \notin Gone => m \in {"streaming"} \union Ended
    /\ s \in Ended => m \in Ended /\ EndedSteps(q)
    /\ s = "prepared" => q = <<ModelStep>>
    /\ \A i \in DOMAIN q : i < Len(q) => q[i].status \in Ended
    /\ \A i \in DOMAIN q : q[i].status = "prepared" => ~q[i].bound

BoundIn(q) == {i \in DOMAIN q : q[i].bound}
ToolsIn(q) == {i \in DOMAIN q : q[i].kind = "tool"}
CountsOK(t, p, n, q) == t = Cardinality(BoundIn(q)) /\ n = Cardinality(ToolsIn(q)) /\ p <= t

StoreInv ==
    /\ StoreTypeOK
    /\ \A r \in Runs : RowsOK(status[r], message[r], steps[r])
    /\ \A r \in Runs : CountsOK(total[r], progress[r], tools[r], steps[r])
    /\ ActiveModeKept

-----------------------------------------------------------------------------
(* What the operations do to a sequence of steps *)

LEMMA StepUpdates ==
    ASSUME NEW e \in Step, NEW s \in Open \union Ended
    PROVE  /\ [e EXCEPT !.status = s] = [kind |-> e.kind, status |-> s, bound |-> e.bound]
           /\ e.kind \in {"model", "tool"} /\ e.status \in Open \union Ended /\ e.bound \in BOOLEAN
<1>1. PICK k \in {"model", "tool"}, t \in Open \union Ended, u \in BOOLEAN :
        e = [kind |-> k, status |-> t, bound |-> u]
  BY DEF Step
<1>2. [e EXCEPT !.status = s] = [kind |-> k, status |-> s, bound |-> u]
  BY <1>1
<1> QED
  BY <1>1, <1>2

LEMMA SetStatusProperties ==
    ASSUME NEW q \in Seq(Step), NEW i \in DOMAIN q, NEW s \in Open \union Ended
    PROVE  /\ SetStatus(q, i, s) \in Seq(Step)
           /\ Len(SetStatus(q, i, s)) = Len(q) /\ DOMAIN SetStatus(q, i, s) = DOMAIN q
           /\ SetStatus(q, i, s)[i] = [kind |-> q[i].kind, status |-> s, bound |-> q[i].bound]
           /\ \A j \in DOMAIN q \ {i} : SetStatus(q, i, s)[j] = q[j]
<1> DEFINE e == [kind |-> q[i].kind, status |-> s, bound |-> q[i].bound]
<1>1. q[i] \in Step
  BY ElementOfSeq, LenProperties
<1>2. [q[i] EXCEPT !.status = s] = e /\ e \in Step
  BY <1>1, StepUpdates DEF Step
<1>3. SetStatus(q, i, s) = [q EXCEPT ![i] = e]
  BY <1>2 DEF SetStatus
<1> HIDE DEF e
<1>4. [q EXCEPT ![i] = e] \in Seq(Step) /\ Len([q EXCEPT ![i] = e]) = Len(q)
  BY <1>2, ExceptSeq, LenProperties
<1>5. DOMAIN [q EXCEPT ![i] = e] = DOMAIN q
      /\ [q EXCEPT ![i] = e][i] = e
      /\ \A j \in DOMAIN q \ {i} : [q EXCEPT ![i] = e][j] = q[j]
  OBVIOUS
<1> QED
  BY <1>3, <1>4, <1>5 DEF e

LEMMA BoundProperties ==
    ASSUME NEW q \in Seq(Step), NEW i \in DOMAIN q
    PROVE  /\ Bound(q, i) \in Seq(Step)
           /\ Len(Bound(q, i)) = Len(q) /\ DOMAIN Bound(q, i) = DOMAIN q
           /\ Bound(q, i)[i] = [kind |-> q[i].kind, status |-> "running", bound |-> TRUE]
           /\ \A j \in DOMAIN q \ {i} : Bound(q, i)[j] = q[j]
<1> DEFINE e == [kind |-> q[i].kind, status |-> "running", bound |-> TRUE]
<1>1. q[i] \in Step
  BY ElementOfSeq, LenProperties
<1>2. e \in Step
  BY <1>1, StepUpdates DEF Step, Open
<1>3. Bound(q, i) = [q EXCEPT ![i] = e]
  BY <1>2 DEF Bound
<1> HIDE DEF e
<1>4. [q EXCEPT ![i] = e] \in Seq(Step) /\ Len([q EXCEPT ![i] = e]) = Len(q)
  BY <1>2, ExceptSeq, LenProperties
<1>5. DOMAIN [q EXCEPT ![i] = e] = DOMAIN q
      /\ [q EXCEPT ![i] = e][i] = e
      /\ \A j \in DOMAIN q \ {i} : [q EXCEPT ![i] = e][j] = q[j]
  OBVIOUS
<1> QED
  BY <1>3, <1>4, <1>5 DEF e

LEMMA CloseStepsProperties ==
    ASSUME NEW q \in Seq(Step), NEW s \in Ended
    PROVE  /\ CloseSteps(q, s) \in Seq(Step)
           /\ Len(CloseSteps(q, s)) = Len(q) /\ DOMAIN CloseSteps(q, s) = DOMAIN q
           /\ \A j \in DOMAIN q :
                CloseSteps(q, s)[j] =
                  [kind |-> q[j].kind, status |-> IF q[j].status \in Open THEN s ELSE q[j].status,
                   bound |-> q[j].bound]
           /\ EndedSteps(CloseSteps(q, s))
<1> DEFINE e(j) == [kind |-> q[j].kind, status |-> IF q[j].status \in Open THEN s ELSE q[j].status,
                    bound |-> q[j].bound]
<1>1. Len(q) \in Nat /\ DOMAIN q = 1 .. Len(q)
  BY LenProperties
<1>2. ASSUME NEW j \in DOMAIN q
      PROVE  /\ [q[j] EXCEPT !.status = IF @ \in Open THEN s ELSE @] = e(j)
             /\ e(j) \in Step /\ e(j).status \in Ended
  <2>1. q[j] \in Step
    BY <1>1, ElementOfSeq
  <2> QED
    BY <2>1, StepUpdates DEF Step, Ended
<1>3. CloseSteps(q, s) = [j \in 1 .. Len(q) |-> e(j)]
  BY <1>1, <1>2 DEF CloseSteps
<1> HIDE DEF e
<1>4. [j \in 1 .. Len(q) |-> e(j)] \in Seq(Step)
  BY <1>1, <1>2, IsASeq
<1>5. /\ DOMAIN CloseSteps(q, s) = 1 .. Len(q)
      /\ \A j \in 1 .. Len(q) : CloseSteps(q, s)[j] = e(j)
  BY <1>3
<1>6. Len(CloseSteps(q, s)) = Len(q)
  BY <1>1, <1>3, <1>4, <1>5, LenProperties
<1>7. EndedSteps(CloseSteps(q, s))
  BY <1>1, <1>2, <1>5 DEF EndedSteps
<1> QED
  BY <1>1, <1>3, <1>4, <1>5, <1>6, <1>7 DEF e

LEMMA AppendStepProperties ==
    ASSUME NEW q \in Seq(Step), NEW e \in Step
    PROVE  /\ Append(q, e) \in Seq(Step)
           /\ Len(Append(q, e)) = Len(q) + 1 /\ DOMAIN Append(q, e) = 1 .. (Len(q) + 1)
           /\ DOMAIN q = 1 .. Len(q) /\ Len(q) \in Nat
           /\ \A j \in 1 .. (Len(q) + 1) :
                Append(q, e)[j] = IF j = Len(q) + 1 THEN e ELSE q[j]
BY AppendProperties, LenProperties

-----------------------------------------------------------------------------
(* The rows of one run before and after an operation *)

Statuses == Open \union Ended \union Gone
EndOf(m, s) == IF m = "streaming" THEN s ELSE m

LEMMA OpenStepRow ==
    ASSUME NEW s \in Statuses, NEW m, NEW q \in Seq(Step), RowsOK(s, m, q),
           NEW i \in DOMAIN q, q[i].status \in Open
    PROVE  /\ s \in Open /\ m \in {"streaming"} \union Ended
           /\ i = Len(q)
           /\ \A j \in DOMAIN q \ {i} : q[j].status \in Ended
<1>1. Len(q) \in Nat /\ DOMAIN q = 1 .. Len(q)
  BY LenProperties
<1>2. q # <<>>
  BY <1>1, EmptySeq
<1>3. s \in Open
  BY <1>2 DEF RowsOK, EndedSteps, Statuses, Open, Ended
<1>4. i = Len(q)
  BY <1>1 DEF RowsOK, Open, Ended
<1> QED
  BY <1>1, <1>3, <1>4 DEF RowsOK, Open, Gone

LEMMA BindRow ==
    ASSUME NEW s \in Statuses, NEW m, NEW q \in Seq(Step), RowsOK(s, m, q),
           NEW i \in DOMAIN q, q[i].status = "prepared"
    PROVE  s \in Open /\ ~q[i].bound /\ RowsOK("running", m, Bound(q, i))
<1>1. /\ s \in Open /\ m \in {"streaming"} \union Ended
      /\ i = Len(q) /\ \A j \in DOMAIN q \ {i} : q[j].status \in Ended
  BY OpenStepRow DEF Open
<1>2. ~q[i].bound
  BY DEF RowsOK
<1>3. \A j \in DOMAIN q : j # i => q[j].status # "prepared"
  BY <1>1 DEF Ended
<1>4. /\ Len(Bound(q, i)) = Len(q) /\ DOMAIN Bound(q, i) = DOMAIN q
      /\ Bound(q, i)[i] = [kind |-> q[i].kind, status |-> "running", bound |-> TRUE]
      /\ \A j \in DOMAIN q \ {i} : Bound(q, i)[j] = q[j]
  BY BoundProperties, Zenon
<1>4a. Bound(q, i)[i].status = "running"
  BY <1>4
<1>5. \A j \in DOMAIN q : j < Len(q) => Bound(q, i)[j].status \in Ended
  BY <1>1, <1>4, LenProperties
<1>6. \A j \in DOMAIN q : Bound(q, i)[j].status # "prepared"
  BY <1>3, <1>4, <1>4a
<1> QED
  BY <1>1, <1>2, <1>4, <1>5, <1>6 DEF RowsOK, Gone, Ended

LEMMA SetStatusEnds ==
    ASSUME NEW q \in Seq(Step), NEW i \in DOMAIN q, NEW v \in Ended,
           \A j \in DOMAIN q \ {i} : q[j].status \in Ended
    PROVE  EndedSteps(SetStatus(q, i, v))
<1>1. v \in Open \union Ended
  OBVIOUS
<1>2. /\ DOMAIN SetStatus(q, i, v) = DOMAIN q
      /\ SetStatus(q, i, v)[i] = [kind |-> q[i].kind, status |-> v, bound |-> q[i].bound]
      /\ \A j \in DOMAIN q \ {i} : SetStatus(q, i, v)[j] = q[j]
  BY <1>1, SetStatusProperties, Zenon
<1>3. SetStatus(q, i, v)[i].status = v
  BY <1>2
<1> QED
  BY <1>2, <1>3 DEF EndedSteps

LEMMA FinishRow ==
    ASSUME NEW s \in Statuses, NEW m, NEW q \in Seq(Step), RowsOK(s, m, q),
           NEW i \in DOMAIN q, q[i].status \in Open, NEW v \in Ended
    PROVE  RowsOK(v, EndOf(m, v), SetStatus(q, i, v))
<1>1. /\ s \in Open /\ m \in {"streaming"} \union Ended
      /\ i = Len(q) /\ \A j \in DOMAIN q \ {i} : q[j].status \in Ended
  BY OpenStepRow
<1>2. EndOf(m, v) \in Ended
  BY <1>1 DEF EndOf
<1>3. EndedSteps(SetStatus(q, i, v))
  BY <1>1, SetStatusEnds
<1> QED
  BY <1>2, <1>3 DEF RowsOK, Gone, Ended, EndedSteps

LEMMA CompleteRow ==
    ASSUME NEW m, NEW q \in Seq(Step), RowsOK("running", m, q),
           NEW i \in DOMAIN q, q[i].status \in Open
    PROVE  RowsOK("running", m, SetStatus(q, i, "complete"))
<1>1. \A j \in DOMAIN q \ {i} : q[j].status \in Ended
  BY OpenStepRow DEF Statuses, Open
<1>2. "complete" \in Ended
  BY DEF Ended
<1>3. EndedSteps(SetStatus(q, i, "complete"))
  BY <1>1, <1>2, SetStatusEnds
<1> QED
  BY <1>3 DEF RowsOK, EndedSteps, Ended, Gone

LEMMA AppendRow ==
    ASSUME NEW m, NEW q \in Seq(Step), RowsOK("running", m, q), EndedSteps(q),
           NEW e \in Step, ~e.bound
    PROVE  RowsOK("running", m, Append(q, e))
<1>1. Len(q) \in Nat
  BY AppendStepProperties
<1>2. \A j \in 1 .. (Len(q) + 1) : j < Len(q) + 1 => Append(q, e)[j].status \in Ended
  BY <1>1, AppendStepProperties DEF EndedSteps
<1>3. \A j \in 1 .. (Len(q) + 1) : Append(q, e)[j].status = "prepared" => ~Append(q, e)[j].bound
  BY <1>1, AppendStepProperties DEF EndedSteps, Ended
<1> QED
  BY <1>1, <1>2, <1>3, AppendStepProperties DEF RowsOK, Ended, Gone

LEMMA CloseRow ==
    ASSUME NEW s \in Open, NEW m, NEW q \in Seq(Step), RowsOK(s, m, q), NEW v \in Ended
    PROVE  RowsOK(v, EndOf(m, v), CloseSteps(q, v))
<1>1. EndOf(m, v) \in Ended
  BY DEF RowsOK, EndOf, Open, Gone
<1>2. EndedSteps(CloseSteps(q, v))
  BY CloseStepsProperties
<1> QED
  BY <1>1, <1>2 DEF RowsOK, Gone, Ended, EndedSteps

LEMMA MessageRow ==
    ASSUME NEW s \in Statuses, NEW q, RowsOK(s, "streaming", q), NEW v \in Ended
    PROVE  RowsOK(s, v, q)
BY DEF RowsOK, Gone, Ended

LEMMA NewRow == RowsOK("prepared", "streaming", <<ModelStep>>) /\ <<ModelStep>> \in Seq(Step)
<1>1. ModelStep \in Step
  BY DEF ModelStep, Step, Open
<1>2. <<ModelStep>> \in Seq(Step) /\ Len(<<ModelStep>>) = 1 /\ DOMAIN <<ModelStep>> = {1}
      /\ <<ModelStep>>[1] = ModelStep
  BY <1>1
<1> QED
  BY <1>2 DEF RowsOK, Gone, Ended, ModelStep

LEMMA GoneRow == RowsOK("gone", "gone", <<>>) /\ RowsOK("none", "none", <<>>) /\ <<>> \in Seq(Step)
<1>1. DOMAIN <<>> = {} /\ <<>> \in Seq(Step)
  OBVIOUS
<1> QED
  BY <1>1 DEF RowsOK, Gone, Ended

LEMMA InterruptRow ==
    ASSUME NEW s \in Statuses, NEW m, NEW q \in Seq(Step), RowsOK(s, m, q)
    PROVE  RowsOK(Interrupt(s), EndOf(m, "interrupted"), CloseSteps(q, "interrupted"))
<1>1. CASE s \in Open
  BY <1>1, CloseRow DEF Interrupt, Ended
<1>2. CASE s \in Ended
  <2>1. Interrupt(s) = s /\ EndOf(m, "interrupted") = m
    BY <1>2 DEF Interrupt, EndOf, RowsOK, Ended, Open
  <2>2. EndedSteps(CloseSteps(q, "interrupted"))
    BY CloseStepsProperties DEF Ended
  <2> QED
    BY <1>2, <2>1, <2>2 DEF RowsOK, Gone, Ended, EndedSteps
<1>3. CASE s \in Gone
  <2>1. Interrupt(s) = s /\ EndOf(m, "interrupted") = m /\ q = <<>> /\ m \in Gone
    BY <1>3 DEF Interrupt, EndOf, RowsOK, Gone, Open
  <2>2. CloseSteps(<<>>, "interrupted") = <<>>
    BY DEF CloseSteps
  <2> QED
    BY <2>1, <2>2
<1> QED
  BY <1>1, <1>2, <1>3 DEF Statuses

-----------------------------------------------------------------------------
(* The counters of one run before and after an operation *)

LEMMA StepSetsFinite ==
    ASSUME NEW q \in Seq(Step)
    PROVE  /\ IsFiniteSet(BoundIn(q)) /\ Cardinality(BoundIn(q)) \in Nat
           /\ IsFiniteSet(ToolsIn(q)) /\ Cardinality(ToolsIn(q)) \in Nat
<1>1. IsFiniteSet(DOMAIN q)
  BY FS_Interval, LenProperties
<1>2. BoundIn(q) \subseteq DOMAIN q /\ ToolsIn(q) \subseteq DOMAIN q
  BY DEF BoundIn, ToolsIn
<1>3. IsFiniteSet(BoundIn(q)) /\ IsFiniteSet(ToolsIn(q))
  BY <1>1, <1>2, FS_Subset
<1> QED
  BY <1>3, FS_CardinalityType

LEMMA SetStatusCounts ==
    ASSUME NEW q \in Seq(Step), NEW i \in DOMAIN q, NEW v \in Open \union Ended
    PROVE  BoundIn(SetStatus(q, i, v)) = BoundIn(q) /\ ToolsIn(SetStatus(q, i, v)) = ToolsIn(q)
<1>1. /\ DOMAIN SetStatus(q, i, v) = DOMAIN q
      /\ SetStatus(q, i, v)[i] = [kind |-> q[i].kind, status |-> v, bound |-> q[i].bound]
      /\ \A j \in DOMAIN q \ {i} : SetStatus(q, i, v)[j] = q[j]
  BY SetStatusProperties, Zenon
<1>2. SetStatus(q, i, v)[i].kind = q[i].kind /\ SetStatus(q, i, v)[i].bound = q[i].bound
  BY <1>1
<1> QED
  BY <1>1, <1>2, Zenon DEF BoundIn, ToolsIn

LEMMA CloseStepsCounts ==
    ASSUME NEW q \in Seq(Step), NEW v \in Ended
    PROVE  BoundIn(CloseSteps(q, v)) = BoundIn(q) /\ ToolsIn(CloseSteps(q, v)) = ToolsIn(q)
<1>1. /\ DOMAIN CloseSteps(q, v) = DOMAIN q
      /\ \A j \in DOMAIN q : CloseSteps(q, v)[j] =
           [kind |-> q[j].kind, status |-> IF q[j].status \in Open THEN v ELSE q[j].status,
            bound |-> q[j].bound]
  BY CloseStepsProperties, Zenon
<1>2. \A j \in DOMAIN q : CloseSteps(q, v)[j].kind = q[j].kind /\ CloseSteps(q, v)[j].bound = q[j].bound
  BY <1>1
<1> QED
  BY <1>1, <1>2, Zenon DEF BoundIn, ToolsIn

LEMMA BoundCounts ==
    ASSUME NEW q \in Seq(Step), NEW i \in DOMAIN q, ~q[i].bound
    PROVE  /\ Cardinality(BoundIn(Bound(q, i))) = Cardinality(BoundIn(q)) + 1
           /\ ToolsIn(Bound(q, i)) = ToolsIn(q)
<1>1. /\ DOMAIN Bound(q, i) = DOMAIN q
      /\ Bound(q, i)[i] = [kind |-> q[i].kind, status |-> "running", bound |-> TRUE]
      /\ \A j \in DOMAIN q \ {i} : Bound(q, i)[j] = q[j]
  BY BoundProperties, Zenon
<1>2. Bound(q, i)[i].kind = q[i].kind /\ Bound(q, i)[i].bound
  BY <1>1
<1>3. BoundIn(Bound(q, i)) = BoundIn(q) \union {i} /\ i \notin BoundIn(q)
  BY <1>1, <1>2, Zenon DEF BoundIn
<1>4. ToolsIn(Bound(q, i)) = ToolsIn(q)
  BY <1>1, <1>2, Zenon DEF ToolsIn
<1> QED
  BY <1>3, <1>4, StepSetsFinite, FS_AddElement

LEMMA AppendCounts ==
    ASSUME NEW q \in Seq(Step), NEW e \in Step, ~e.bound
    PROVE  /\ BoundIn(Append(q, e)) = BoundIn(q)
           /\ Cardinality(ToolsIn(Append(q, e))) =
                IF e.kind = "tool" THEN Cardinality(ToolsIn(q)) + 1 ELSE Cardinality(ToolsIn(q))
<1> DEFINE n == Len(q) + 1
<1>1. /\ DOMAIN Append(q, e) = 1 .. n /\ DOMAIN q = 1 .. Len(q) /\ Len(q) \in Nat
      /\ Append(q, e)[n] = e /\ \A j \in 1 .. Len(q) : Append(q, e)[j] = q[j]
  BY AppendStepProperties
<1>2. 1 .. n = (1 .. Len(q)) \union {n} /\ n \notin 1 .. Len(q)
  BY <1>1
<1> HIDE DEF n
<1>3. BoundIn(Append(q, e)) = BoundIn(q)
  BY <1>1, <1>2, Zenon DEF BoundIn
<1>4. ToolsIn(Append(q, e)) = IF e.kind = "tool" THEN ToolsIn(q) \union {n} ELSE ToolsIn(q)
  BY <1>1, <1>2, Zenon DEF ToolsIn
<1>5. n \notin ToolsIn(q)
  BY <1>1, <1>2 DEF ToolsIn
<1> QED
  BY <1>3, <1>4, <1>5, StepSetsFinite, FS_AddElement

LEMMA NoCounts ==
    /\ CountsOK(0, 0, 0, <<>>)
    /\ CountsOK(0, 0, 0, <<ModelStep>>)
<1>1. DOMAIN <<>> = {} /\ DOMAIN <<ModelStep>> = {1} /\ <<ModelStep>>[1] = ModelStep
  OBVIOUS
<1>2. ~ModelStep.bound /\ ModelStep.kind # "tool"
  BY DEF ModelStep
<1>3. BoundIn(<<>>) = {} /\ ToolsIn(<<>>) = {}
  BY <1>1 DEF BoundIn, ToolsIn
<1>4. BoundIn(<<ModelStep>>) = {} /\ ToolsIn(<<ModelStep>>) = {}
  BY <1>1, <1>2, Zenon DEF BoundIn, ToolsIn
<1>5. Cardinality({}) = 0
  BY FS_EmptySet
<1>6. 0 <= 0
  OBVIOUS
<1> QED
  BY <1>3, <1>4, <1>5, <1>6, Zenon DEF CountsOK

-----------------------------------------------------------------------------
(* One run changes, or every run is closed or removed *)

LEMMA OneRun ==
    ASSUME StoreInv, NEW r \in Runs,
           NEW s \in Statuses, NEW m \in {"streaming"} \union Ended \union Gone, NEW q \in Seq(Step),
           NEW t \in Nat, NEW p \in Nat, NEW n \in Nat,
           RowsOK(s, m, q), CountsOK(t, p, n, q), s \in Open => status[r] \in Open,
           status' = [status EXCEPT ![r] = s], message' = [message EXCEPT ![r] = m],
           steps' = [steps EXCEPT ![r] = q], total' = [total EXCEPT ![r] = t],
           progress' = [progress EXCEPT ![r] = p], tools' = [tools EXCEPT ![r] = n],
           UNCHANGED <<conversation, home, mode>>
    PROVE  StoreInv'
<1>1. StoreTypeOK'
  BY DEF StoreInv, StoreTypeOK, Statuses
<1>2. status'[r] = s /\ message'[r] = m /\ steps'[r] = q
      /\ total'[r] = t /\ progress'[r] = p /\ tools'[r] = n
  BY DEF StoreInv, StoreTypeOK
<1>3. \A x \in Runs \ {r} :
        /\ status'[x] = status[x] /\ message'[x] = message[x] /\ steps'[x] = steps[x]
        /\ total'[x] = total[x] /\ progress'[x] = progress[x] /\ tools'[x] = tools[x]
  BY DEF StoreInv, StoreTypeOK
<1>4. ASSUME NEW x \in Runs
      PROVE  /\ RowsOK(status'[x], message'[x], steps'[x])
             /\ CountsOK(total'[x], progress'[x], tools'[x], steps'[x])
             /\ status'[x] \in Open => status[x] \in Open
  <2>1. CASE x = r
    BY <1>2, <2>1
  <2>2. CASE x # r
    BY <1>3, <2>2 DEF StoreInv
  <2> QED
    BY <2>1, <2>2
<1>5. ActiveModeKept'
  BY <1>4 DEF StoreInv, ActiveModeKept
<1> QED
  BY <1>1, <1>4, <1>5 DEF StoreInv

LEMMA Kept ==
    ASSUME StoreTypeOK, NEW r \in Runs
    PROVE  /\ status = [status EXCEPT ![r] = status[r]] /\ message = [message EXCEPT ![r] = message[r]]
           /\ steps = [steps EXCEPT ![r] = steps[r]] /\ total = [total EXCEPT ![r] = total[r]]
           /\ progress = [progress EXCEPT ![r] = progress[r]] /\ tools = [tools EXCEPT ![r] = tools[r]]
           /\ status[r] \in Statuses /\ message[r] \in {"streaming"} \union Ended \union Gone
           /\ steps[r] \in Seq(Step)
           /\ total[r] \in Nat /\ progress[r] \in Nat /\ tools[r] \in Nat
BY DEF StoreTypeOK, Statuses

-----------------------------------------------------------------------------
(* The operations on one run *)

LEMMA BindKeepsInv ==
    ASSUME StoreInv, NEW r \in Runs, NEW i \in DOMAIN steps[r], BindRequest(r, i)
    PROVE  StoreInv'
<1> DEFINE q == steps[r]
<1>1. /\ status[r] \in Statuses /\ q \in Seq(Step) /\ RowsOK(status[r], message[r], q)
      /\ CountsOK(total[r], progress[r], tools[r], q) /\ q[i].status = "prepared"
      /\ total[r] \in Nat /\ progress[r] \in Nat
  BY Kept DEF StoreInv, BindRequest, Bindable, HasStep
<1>2. status[r] \in Open /\ ~q[i].bound /\ RowsOK("running", message[r], Bound(q, i))
  BY <1>1, BindRow
<1>3. Bound(q, i) \in Seq(Step)
  BY <1>1, BoundProperties
<1>4. CountsOK(total[r] + 1, progress[r] + 1, tools[r], Bound(q, i))
  BY <1>1, <1>2, BoundCounts DEF CountsOK
<1>5. /\ status' = [status EXCEPT ![r] = "running"] /\ message' = [message EXCEPT ![r] = message[r]]
      /\ steps' = [steps EXCEPT ![r] = Bound(q, i)] /\ total' = [total EXCEPT ![r] = total[r] + 1]
      /\ progress' = [progress EXCEPT ![r] = progress[r] + 1] /\ tools' = [tools EXCEPT ![r] = tools[r]]
      /\ UNCHANGED <<conversation, home, mode>>
  BY <1>2, Kept DEF BindRequest, Bind, StoreInv
<1> HIDE DEF q
<1>6. total[r] + 1 \in Nat /\ progress[r] + 1 \in Nat /\ "running" \in Statuses
  BY <1>1 DEF Statuses, Open
<1> QED
  BY <1>2, <1>3, <1>4, <1>5, <1>6, Kept, OneRun DEF StoreInv

\* A step ends, with its run (s a final status) or without it (s is "running").
LEMMA StepEndKeepsInv ==
    ASSUME StoreInv, NEW r \in Runs, NEW i \in DOMAIN steps[r], NEW s \in Statuses, NEW v \in Ended,
           NEW m \in {"streaming"} \union Ended \union Gone,
           RowsOK(s, m, SetStatus(steps[r], i, v)), s \in Open => status[r] \in Open,
           status' = [status EXCEPT ![r] = s], message' = [message EXCEPT ![r] = m],
           steps' = [steps EXCEPT ![r] = SetStatus(steps[r], i, v)],
           UNCHANGED <<conversation, home, mode, counters>>
    PROVE  StoreInv'
<1>1. steps[r] \in Seq(Step) /\ v \in Open \union Ended
      /\ CountsOK(total[r], progress[r], tools[r], steps[r])
  BY Kept DEF StoreInv
<1>2. SetStatus(steps[r], i, v) \in Seq(Step)
  BY <1>1, SetStatusProperties
<1>3. CountsOK(total[r], progress[r], tools[r], SetStatus(steps[r], i, v))
  BY <1>1, SetStatusCounts DEF CountsOK
<1>4. /\ total' = [total EXCEPT ![r] = total[r]] /\ progress' = [progress EXCEPT ![r] = progress[r]]
      /\ tools' = [tools EXCEPT ![r] = tools[r]] /\ UNCHANGED <<conversation, home, mode>>
  BY Kept DEF counters, StoreInv
<1> QED
  BY <1>2, <1>3, <1>4, Kept, OneRun DEF StoreInv

LEMMA StepOpenFacts ==
    ASSUME StoreInv, NEW r \in Runs, NEW i \in DOMAIN steps[r], StepOpen(r, i)
    PROVE  /\ status[r] \in Open /\ steps[r][i].status \in Open
           /\ RowsOK(status[r], message[r], steps[r])
           /\ \A v \in Ended : /\ RowsOK(v, EndOf(message[r], v), SetStatus(steps[r], i, v))
                              /\ EndOf(message[r], v) \in Ended
<1>1. /\ status[r] \in Statuses /\ steps[r] \in Seq(Step) /\ RowsOK(status[r], message[r], steps[r])
      /\ steps[r][i].status \in Open
  BY Kept DEF StoreInv, StepOpen
<1>2. status[r] \in Open /\ message[r] \in {"streaming"} \union Ended
  BY <1>1, OpenStepRow
<1> QED
  BY <1>1, <1>2, FinishRow DEF EndOf

LEMMA FinishStepKeepsInv ==
    ASSUME StoreInv, NEW r \in Runs, NEW i \in DOMAIN steps[r], NEW v \in Ended, FinishStep(r, i, v)
    PROVE  StoreInv'
<1>1. StepOpen(r, i) /\ message' = [message EXCEPT ![r] = EndOf(message[r], v)]
      /\ steps' = [steps EXCEPT ![r] = SetStatus(steps[r], i, v)]
      /\ status' = [status EXCEPT ![r] = v] /\ UNCHANGED <<conversation, home, mode, counters>>
  BY DEF FinishStep, EndMessage, EndOf
<1>2. RowsOK(v, EndOf(message[r], v), SetStatus(steps[r], i, v)) /\ EndOf(message[r], v) \in Ended
  BY <1>1, StepOpenFacts
<1>3. v \in Statuses /\ v \notin Open
  BY DEF Statuses, Ended, Open
<1> QED
  BY <1>1, <1>2, <1>3, StepEndKeepsInv

LEMMA FinishFinalKeepsInv ==
    ASSUME StoreInv, NEW r \in Runs, NEW i \in DOMAIN steps[r], FinishFinalDecision(r, i)
    PROVE  StoreInv'
<1>1. "complete" \in Ended
  BY DEF Ended
<1>2. FinishStep(r, i, "complete")
  BY DEF FinishFinalDecision, FinishStep
<1> QED
  BY <1>1, <1>2, FinishStepKeepsInv

LEMMA CompleteKeepsInv ==
    ASSUME StoreInv, NEW r \in Runs, NEW i \in DOMAIN steps[r], CompleteModelStep(r, i)
    PROVE  StoreInv'
<1>1. /\ status[r] = "running" /\ StepOpen(r, i)
      /\ steps' = [steps EXCEPT ![r] = SetStatus(steps[r], i, "complete")]
      /\ UNCHANGED <<conversation, home, mode, counters>>
      /\ status' = [status EXCEPT ![r] = status[r]] /\ message' = [message EXCEPT ![r] = message[r]]
  BY Kept DEF CompleteModelStep, StoreInv
<1>2. RowsOK(status[r], message[r], SetStatus(steps[r], i, "complete"))
  BY <1>1, StepOpenFacts, Kept, CompleteRow DEF StoreInv
<1>3. "complete" \in Ended
  BY DEF Ended
<1> QED
  BY <1>1, <1>2, <1>3, Kept, StepEndKeepsInv DEF StoreInv

\* A step is appended, counted as a tool's or not at all.
LEMMA AppendKeepsInv ==
    ASSUME StoreInv, NEW r \in Runs, Settled(r), status[r] = "running", NEW e \in Step, ~e.bound,
           NEW p \in Nat, p <= progress[r], NEW n \in Nat,
           n = (IF e.kind = "tool" THEN tools[r] + 1 ELSE tools[r]),
           steps' = [steps EXCEPT ![r] = Append(steps[r], e)],
           progress' = [progress EXCEPT ![r] = p], tools' = [tools EXCEPT ![r] = n],
           UNCHANGED <<conversation, home, mode, status, message, total>>
    PROVE  StoreInv'
<1> DEFINE q == steps[r]
<1>1. /\ q \in Seq(Step) /\ RowsOK("running", message[r], q) /\ EndedSteps(q)
      /\ CountsOK(total[r], progress[r], tools[r], q) /\ total[r] \in Nat /\ progress[r] \in Nat
  BY Kept DEF StoreInv, Settled, EndedSteps
<1>2. RowsOK(status[r], message[r], Append(q, e))
  BY <1>1, AppendRow
<1>3. CountsOK(total[r], p, n, Append(q, e))
  BY <1>1, AppendCounts DEF CountsOK
<1>4. Append(q, e) \in Seq(Step)
  BY <1>1, AppendStepProperties
<1>5. /\ status' = [status EXCEPT ![r] = status[r]] /\ message' = [message EXCEPT ![r] = message[r]]
      /\ total' = [total EXCEPT ![r] = total[r]]
      /\ status[r] \in Statuses /\ message[r] \in {"streaming"} \union Ended \union Gone
      /\ total[r] \in Nat
  BY Kept DEF StoreInv
<1> HIDE DEF q
<1> QED
  BY <1>2, <1>3, <1>4, <1>5, OneRun DEF q

LEMMA PrepareKeepsInv ==
    ASSUME StoreInv, NEW r \in Runs, Settled(r), PrepareModelStep(r)
    PROVE  StoreInv'
<1>1. ModelStep \in Step /\ ~ModelStep.bound /\ ModelStep.kind # "tool"
  BY DEF ModelStep, Step, Open
<1>2. /\ status[r] = "running" /\ steps' = [steps EXCEPT ![r] = Append(steps[r], ModelStep)]
      /\ progress' = [progress EXCEPT ![r] = progress[r]] /\ tools' = [tools EXCEPT ![r] = tools[r]]
      /\ UNCHANGED <<conversation, home, mode, status, message, total>>
  BY Kept DEF PrepareModelStep, StoreInv, counters
<1>3. progress[r] \in Nat /\ progress[r] <= progress[r] /\ tools[r] \in Nat
  BY Kept DEF StoreInv
<1> QED
  BY <1>1, <1>2, <1>3, AppendKeepsInv

LEMMA RecordToolKeepsInv ==
    ASSUME StoreInv, NEW r \in Runs, Settled(r), NEW ok \in BOOLEAN, NEW novel \in BOOLEAN,
           RecordToolStep(r, ok, novel)
    PROVE  StoreInv'
<1> DEFINE p == IF novel THEN 0 ELSE progress[r]
<1>1. ToolStep(ok) \in Step /\ ~ToolStep(ok).bound /\ ToolStep(ok).kind = "tool"
  BY DEF ToolStep, Step, Ended
<1>2. /\ status[r] = "running" /\ steps' = [steps EXCEPT ![r] = Append(steps[r], ToolStep(ok))]
      /\ progress' = [progress EXCEPT ![r] = p] /\ tools' = [tools EXCEPT ![r] = tools[r] + 1]
      /\ UNCHANGED <<conversation, home, mode, status, message, total>>
  BY DEF RecordToolStep
<1>3. p \in Nat /\ p <= progress[r] /\ tools[r] + 1 \in Nat
  BY Kept DEF StoreInv
<1> QED
  BY <1>1, <1>2, <1>3, AppendKeepsInv

LEMMA FinishRunKeepsInv ==
    ASSUME StoreInv, NEW r \in Runs, NEW v \in Ended, FinishRun(r, v)
    PROVE  StoreInv'
<1> DEFINE q == steps[r]
<1>1. /\ status[r] \in Open /\ q \in Seq(Step) /\ RowsOK(status[r], message[r], q)
      /\ CountsOK(total[r], progress[r], tools[r], q)
  BY Kept DEF StoreInv, FinishRun
<1>2. RowsOK(v, EndOf(message[r], v), CloseSteps(q, v)) /\ CloseSteps(q, v) \in Seq(Step)
  BY <1>1, CloseRow, CloseStepsProperties
<1>3. CountsOK(total[r], progress[r], tools[r], CloseSteps(q, v))
  BY <1>1, CloseStepsCounts DEF CountsOK
<1>4. /\ status' = [status EXCEPT ![r] = v] /\ message' = [message EXCEPT ![r] = EndOf(message[r], v)]
      /\ steps' = [steps EXCEPT ![r] = CloseSteps(q, v)]
      /\ total' = [total EXCEPT ![r] = total[r]] /\ progress' = [progress EXCEPT ![r] = progress[r]]
      /\ tools' = [tools EXCEPT ![r] = tools[r]] /\ UNCHANGED <<conversation, home, mode>>
  BY Kept DEF StoreInv, FinishRun, EndMessage, EndOf, counters
<1>5. v \in Statuses /\ v \notin Open /\ EndOf(message[r], v) \in {"streaming"} \union Ended \union Gone
  BY Kept DEF Statuses, Ended, Open, EndOf, StoreInv
<1>6. total[r] \in Nat /\ progress[r] \in Nat /\ tools[r] \in Nat
  BY Kept DEF StoreInv
<1> HIDE DEF q
<1> QED
  BY <1>2, <1>3, <1>4, <1>5, <1>6, OneRun

LEMMA FinishTurnKeepsInv ==
    ASSUME StoreInv, NEW r \in Runs, NEW v \in Ended, FinishTurn(r, v)
    PROVE  StoreInv'
<1>1. RowsOK(status[r], v, steps[r]) /\ CountsOK(total[r], progress[r], tools[r], steps[r])
  BY Kept, MessageRow DEF StoreInv, FinishTurn
<1>2. /\ status' = [status EXCEPT ![r] = status[r]] /\ message' = [message EXCEPT ![r] = v]
      /\ steps' = [steps EXCEPT ![r] = steps[r]]
      /\ total' = [total EXCEPT ![r] = total[r]] /\ progress' = [progress EXCEPT ![r] = progress[r]]
      /\ tools' = [tools EXCEPT ![r] = tools[r]] /\ UNCHANGED <<conversation, home, mode>>
  BY Kept DEF StoreInv, FinishTurn, counters
<1> QED
  BY <1>1, <1>2, Kept, OneRun DEF StoreInv

-----------------------------------------------------------------------------
(* Conversations and restarts *)

LEMMA AttachKeepsInv ==
    ASSUME StoreInv, NEW r \in Runs, NEW c \in Conversations, NEW m \in Modes, AttachRun(c, m, r),
           conversation' \in [Conversations -> Modes \union Gone], conversation'[c] = m,
           \A x \in Runs : status[x] \in Open => conversation'[home[x]] = conversation[home[x]]
    PROVE  StoreInv'
<1>1. StoreTypeOK'
  BY NewRow DEF StoreInv, StoreTypeOK, AttachRun, Open, counters
<1>2. /\ status'[r] = "prepared" /\ message'[r] = "streaming" /\ steps'[r] = <<ModelStep>>
      /\ home'[r] = c /\ mode'[r] = m
  BY DEF StoreInv, StoreTypeOK, AttachRun
<1>3. \A x \in Runs \ {r} :
        /\ status'[x] = status[x] /\ message'[x] = message[x] /\ steps'[x] = steps[x]
        /\ home'[x] = home[x] /\ mode'[x] = mode[x]
  BY DEF StoreInv, StoreTypeOK, AttachRun
<1>4. UNCHANGED <<total, progress, tools>>
  BY DEF AttachRun, counters
<1>5. CountsOK(total[r], progress[r], tools[r], <<ModelStep>>)
  <2>1. steps[r] = <<>> /\ CountsOK(total[r], progress[r], tools[r], steps[r])
    BY DEF StoreInv, AttachRun, RowsOK, Gone
  <2> QED
    BY <2>1, NoCounts DEF CountsOK
<1>6. \A x \in Runs : /\ RowsOK(status'[x], message'[x], steps'[x])
                     /\ CountsOK(total'[x], progress'[x], tools'[x], steps'[x])
  BY <1>2, <1>3, <1>4, <1>5, NewRow DEF StoreInv
<1>7. ActiveModeKept'
  BY <1>2, <1>3 DEF StoreInv, ActiveModeKept
<1> QED
  BY <1>1, <1>6, <1>7 DEF StoreInv

LEMMA StartKeepsInv ==
    ASSUME StoreInv, NEW c \in Conversations, NEW r \in Runs,
           StartTurn(c, r) \/ (\E m \in Modes : StartNewTurn(c, m, r))
    PROVE  StoreInv'
<1>1. CASE StartTurn(c, r)
  BY <1>1, AttachKeepsInv DEF StartTurn, StoreInv, StoreTypeOK
<1>2. ASSUME NEW m \in Modes, StartNewTurn(c, m, r)
      PROVE  StoreInv'
  <2>1. /\ conversation[c] = "none" /\ conversation' = [conversation EXCEPT ![c] = m]
        /\ AttachRun(c, m, r)
    BY <1>2 DEF StartNewTurn
  <2>2. conversation' \in [Conversations -> Modes \union Gone] /\ conversation'[c] = m
    BY <2>1 DEF StoreInv, StoreTypeOK
  <2>3. ASSUME NEW x \in Runs, status[x] \in Open
        PROVE  conversation'[home[x]] = conversation[home[x]]
    <3>1. conversation[home[x]] \in Modes
      BY <2>3 DEF StoreInv, StoreTypeOK, ActiveModeKept
    <3>2. home[x] # c
      BY <2>1, <3>1 DEF Modes
    <3> QED
      BY <2>1, <3>2 DEF StoreInv, StoreTypeOK
  <2> QED
    BY <2>1, <2>2, <2>3, AttachKeepsInv
<1> QED
  BY <1>1, <1>2

LEMMA SetModeKeepsInv ==
    ASSUME StoreInv, NEW c \in Conversations, NEW m \in Modes, SetMode(c, m)
    PROVE  StoreInv'
<1>1. StoreTypeOK'
  BY DEF StoreInv, StoreTypeOK, SetMode, counters
<1>2. UNCHANGED <<status, message, steps, total, progress, tools, home, mode>>
  BY DEF SetMode, counters
<1>3. ASSUME NEW x \in Runs, status[x] \in Open
      PROVE  conversation'[home[x]] = mode[x]
  <2>1. home[x] # c
    BY <1>3 DEF SetMode, ActiveRuns, RunsOf, Open, Gone
  <2>2. conversation'[home[x]] = conversation[home[x]]
    BY <2>1 DEF SetMode, StoreInv, StoreTypeOK
  <2> QED
    BY <1>3, <2>2 DEF StoreInv, ActiveModeKept
<1>4. ActiveModeKept'
  BY <1>2, <1>3 DEF ActiveModeKept
<1> QED
  BY <1>1, <1>2, <1>4 DEF StoreInv

LEMMA CascadeKeepsInv ==
    ASSUME StoreInv, NEW c \in Conversations, Cascade(c),
           conversation' \in [Conversations -> Modes \union Gone],
           \A x \in Runs : home[x] # c => conversation'[home[x]] = conversation[home[x]]
    PROVE  StoreInv'
<1>1. StoreTypeOK'
  BY GoneRow DEF StoreInv, StoreTypeOK, Cascade, Gone
<1>2. ASSUME NEW x \in Runs
      PROVE  /\ RowsOK(status'[x], message'[x], steps'[x])
             /\ CountsOK(total'[x], progress'[x], tools'[x], steps'[x])
             /\ status'[x] \in Open => status[x] \in Open /\ home[x] # c
  <2>1. CASE x \in RunsOf(c)
    <3>1. /\ status'[x] = "gone" /\ message'[x] = "gone" /\ steps'[x] = <<>>
          /\ total'[x] = 0 /\ progress'[x] = 0 /\ tools'[x] = 0
      BY <2>1 DEF Cascade
    <3> QED
      BY <3>1, GoneRow, NoCounts DEF Open
  <2>2. CASE x \notin RunsOf(c)
    <3>1. /\ status'[x] = status[x] /\ message'[x] = message[x] /\ steps'[x] = steps[x]
          /\ total'[x] = total[x] /\ progress'[x] = progress[x] /\ tools'[x] = tools[x]
      BY <2>2 DEF Cascade
    <3> QED
      BY <2>2, <3>1 DEF StoreInv, RunsOf, Open, Gone
  <2> QED
    BY <2>1, <2>2
<1>3. ActiveModeKept'
  BY <1>2 DEF StoreInv, ActiveModeKept, Cascade
<1> QED
  BY <1>1, <1>2, <1>3 DEF StoreInv

LEMMA ClearKeepsInv ==
    ASSUME StoreInv, NEW c \in Conversations, Clear(c) \/ Delete(c)
    PROVE  StoreInv'
<1>1. CASE Clear(c)
  BY <1>1, CascadeKeepsInv DEF Clear, StoreInv, StoreTypeOK
<1>2. CASE Delete(c)
  <2>1. conversation' = [conversation EXCEPT ![c] = "gone"] /\ Cascade(c)
    BY <1>2 DEF Delete
  <2>2. conversation' \in [Conversations -> Modes \union Gone]
    BY <2>1 DEF StoreInv, StoreTypeOK, Gone
  <2>3. \A x \in Runs : home[x] # c => conversation'[home[x]] = conversation[home[x]]
    BY <2>1 DEF StoreInv, StoreTypeOK
  <2> QED
    BY <2>1, <2>2, <2>3, CascadeKeepsInv
<1> QED
  BY <1>1, <1>2

LEMMA BootstrapKeepsInv ==
    ASSUME StoreInv, Bootstrap
    PROVE  StoreInv'
<1>1. "interrupted" \in Ended
  BY DEF Ended
<1>2. ASSUME NEW x \in Runs
      PROVE  /\ RowsOK(status'[x], message'[x], steps'[x])
             /\ CountsOK(total'[x], progress'[x], tools'[x], steps'[x])
             /\ status'[x] \in Statuses \ Open
             /\ message'[x] \in {"streaming"} \union Ended \union Gone
             /\ steps'[x] \in Seq(Step)
  <2>1. /\ status'[x] = Interrupt(status[x]) /\ message'[x] = EndOf(message[x], "interrupted")
        /\ steps'[x] = CloseSteps(steps[x], "interrupted")
        /\ total'[x] = total[x] /\ progress'[x] = progress[x] /\ tools'[x] = tools[x]
    BY DEF Bootstrap, EndOf, counters
  <2>2. /\ status[x] \in Statuses /\ message[x] \in {"streaming"} \union Ended \union Gone
        /\ steps[x] \in Seq(Step) /\ RowsOK(status[x], message[x], steps[x])
        /\ CountsOK(total[x], progress[x], tools[x], steps[x])
    BY Kept DEF StoreInv
  <2>3. RowsOK(status'[x], message'[x], steps'[x])
    BY <2>1, <2>2, InterruptRow
  <2>4. CountsOK(total'[x], progress'[x], tools'[x], steps'[x]) /\ steps'[x] \in Seq(Step)
    BY <1>1, <2>1, <2>2, CloseStepsCounts, CloseStepsProperties DEF CountsOK
  <2>5. status'[x] \in Statuses \ Open /\ message'[x] \in {"streaming"} \union Ended \union Gone
    BY <1>1, <2>1, <2>2 DEF Interrupt, Statuses, EndOf, Open
  <2> QED
    BY <2>3, <2>4, <2>5
<1>3. StoreTypeOK'
  BY <1>2 DEF Bootstrap, StoreInv, StoreTypeOK, counters, Statuses
<1>4. ActiveModeKept'
  BY <1>2 DEF ActiveModeKept
<1> QED
  BY <1>2, <1>3, <1>4 DEF StoreInv

-----------------------------------------------------------------------------
(* The theorems                                                            *)

LEMMA StoreStep ==
    ASSUME StoreInv, [Next]_store
    PROVE  StoreInv'
<1>1. ASSUME NEW r \in Runs, RunStep(r)
      PROVE  StoreInv'
  <2>1. CASE \E i \in DOMAIN steps[r] : BindRequest(r, i)
    BY <2>1, BindKeepsInv
  <2>2. CASE \E i \in DOMAIN steps[r], s \in Outcomes : FinishStep(r, i, s)
    BY <2>2, FinishStepKeepsInv, StoreAssumption
  <2>3. CASE \E i \in DOMAIN steps[r] : FinishFinalDecision(r, i)
    BY <2>3, FinishFinalKeepsInv
  <2>4. CASE \E i \in DOMAIN steps[r] : CompleteModelStep(r, i)
    BY <2>4, CompleteKeepsInv
  <2>5. CASE Settled(r) /\ PrepareModelStep(r)
    BY <2>5, PrepareKeepsInv
  <2>6. CASE \E ok, novel \in BOOLEAN : Settled(r) /\ RecordToolStep(r, ok, novel)
    BY <2>6, RecordToolKeepsInv
  <2>7. CASE \E s \in Outcomes : FinishRun(r, s)
    BY <2>7, FinishRunKeepsInv, StoreAssumption
  <2>8. CASE \E s \in Outcomes : FinishTurn(r, s)
    BY <2>8, FinishTurnKeepsInv, StoreAssumption
  <2> QED
    BY <1>1, <2>1, <2>2, <2>3, <2>4, <2>5, <2>6, <2>7, <2>8 DEF RunStep
<1>2. ASSUME NEW c \in Conversations, ConversationStep(c)
      PROVE  StoreInv'
  BY <1>2, StartKeepsInv, SetModeKeepsInv, ClearKeepsInv DEF ConversationStep
<1>3. CASE UNCHANGED store
  BY <1>3 DEF StoreInv, StoreTypeOK, ActiveModeKept, store, counters
<1> QED
  BY <1>1, <1>2, <1>3, BootstrapKeepsInv DEF Next

LEMMA StoreStart == ASSUME Init PROVE StoreInv
<1>1. StoreTypeOK
  BY GoneRow DEF Init, StoreTypeOK, Modes, Gone
<1>2. \A r \in Runs : /\ RowsOK(status[r], message[r], steps[r])
                     /\ CountsOK(total[r], progress[r], tools[r], steps[r])
  BY GoneRow, NoCounts DEF Init
<1>3. ActiveModeKept
  BY DEF Init, ActiveModeKept, Open
<1> QED
  BY <1>1, <1>2, <1>3 DEF StoreInv

\* Whatever order the calls come in, the rows of every run agree.
THEOREM StoreInvariant == Spec => []StoreInv
<1>1. Init => StoreInv
  BY StoreStart
<1>2. StoreInv /\ [Next]_store => StoreInv'
  BY StoreStep
<1> QED
  BY <1>1, <1>2, PTL DEF Spec

\* Every column keeps a value its CHECK or its type allows (MIGRATION_1, MIGRATION_3).
THEOREM StoreTypes == Spec => []StoreTypeOK
<1>1. StoreInv => StoreTypeOK
  BY DEF StoreInv
<1> QED
  BY <1>1, StoreInvariant, PTL

\* Ending a run closes its message and all of its steps (conversation_store.rs,
\* finish_agent_step, finish_agent_run, finish_agent_final_decision, bootstrap).
THEOREM EndedRunsAreClosed == Spec => []EndedHasNothingOpen
<1>1. StoreInv => EndedHasNothingOpen
  BY DEF StoreInv, EndedHasNothingOpen, RowsOK, EndedSteps
<1> QED
  BY <1>1, StoreInvariant, PTL

\* No late bind and no late terminal event opens an earlier step.
THEOREM OneStepIsOpen == Spec => []OnlyLastStepOpen
<1>1. StoreInv => OnlyLastStepOpen
  BY DEF StoreInv, OnlyLastStepOpen, RowsOK
<1> QED
  BY <1>1, StoreInvariant, PTL

\* The counters of a run's row count the rows of its steps.
THEOREM CountersCountRows == Spec => []CountersAgree
<1>1. StoreInv => CountersAgree
  BY DEF StoreInv, CountersAgree, CountsOK, BoundIn, ToolsIn
<1> QED
  BY <1>1, StoreInvariant, PTL

\* A prepared run is as start_agent_turn inserted it.
THEOREM PreparedRunsAreFresh == Spec => []PreparedIsFresh
<1>1. ASSUME StoreInv, NEW r \in Runs, status[r] = "prepared"
      PROVE  /\ steps[r] = <<ModelStep>>
             /\ total[r] = 0 /\ progress[r] = 0 /\ tools[r] = 0
  <2>1. steps[r] = <<ModelStep>> /\ CountsOK(total[r], progress[r], tools[r], <<ModelStep>>)
    BY <1>1 DEF StoreInv, RowsOK
  <2>2. total[r] = 0 /\ tools[r] = 0 /\ progress[r] <= total[r]
    BY <2>1, NoCounts DEF CountsOK
  <2>3. progress[r] \in Nat
    BY <1>1, Kept DEF StoreInv
  <2> QED
    BY <2>1, <2>2, <2>3
<1>2. StoreInv => PreparedIsFresh
  BY <1>1 DEF PreparedIsFresh
<1> QED
  BY <1>2, StoreInvariant, PTL

\* The mode of a conversation is that of its active runs.
THEOREM ModeIsKept == Spec => []ActiveModeKept
<1>1. StoreInv => ActiveModeKept
  BY DEF StoreInv
<1> QED
  BY <1>1, StoreInvariant, PTL

-----------------------------------------------------------------------------
(* What has ended stays as it ended                                        *)

\* The steps p of a run may become q.
StepsGrow(p, q) ==
    \A i \in DOMAIN p :
        /\ i \in DOMAIN q /\ q[i].kind = p[i].kind
        /\ p[i].status \in Ended => q[i] = p[i]

LEMMA StepsGrowTypes ==
    ASSUME NEW q \in Seq(Step)
    PROVE  /\ StepsGrow(q, q)
           /\ \A i \in DOMAIN q : q[i] = [kind |-> q[i].kind, status |-> q[i].status, bound |-> q[i].bound]
<1>1. ASSUME NEW i \in DOMAIN q
      PROVE  q[i] = [kind |-> q[i].kind, status |-> q[i].status, bound |-> q[i].bound]
  <2>1. q[i] \in Step
    BY ElementOfSeq, LenProperties
  <2> QED
    BY <2>1 DEF Step
<1> QED
  BY <1>1 DEF StepsGrow

LEMMA BoundGrows ==
    ASSUME NEW q \in Seq(Step), NEW i \in DOMAIN q, q[i].status = "prepared"
    PROVE  StepsGrow(q, Bound(q, i))
<1>1. /\ DOMAIN Bound(q, i) = DOMAIN q
      /\ Bound(q, i)[i] = [kind |-> q[i].kind, status |-> "running", bound |-> TRUE]
      /\ \A j \in DOMAIN q \ {i} : Bound(q, i)[j] = q[j]
  BY BoundProperties, Zenon
<1>2. Bound(q, i)[i].kind = q[i].kind /\ q[i].status \notin Ended
  BY <1>1 DEF Ended
<1> QED
  BY <1>1, <1>2 DEF StepsGrow

LEMMA SetStatusGrows ==
    ASSUME NEW q \in Seq(Step), NEW i \in DOMAIN q, q[i].status \in Open, NEW v \in Ended
    PROVE  StepsGrow(q, SetStatus(q, i, v))
<1>1. v \in Open \union Ended
  OBVIOUS
<1>2. /\ DOMAIN SetStatus(q, i, v) = DOMAIN q
      /\ SetStatus(q, i, v)[i] = [kind |-> q[i].kind, status |-> v, bound |-> q[i].bound]
      /\ \A j \in DOMAIN q \ {i} : SetStatus(q, i, v)[j] = q[j]
  BY <1>1, SetStatusProperties, Zenon
<1>3. SetStatus(q, i, v)[i].kind = q[i].kind /\ q[i].status \notin Ended
  BY <1>2 DEF Ended, Open
<1> QED
  BY <1>2, <1>3 DEF StepsGrow

LEMMA CloseStepsGrows ==
    ASSUME NEW q \in Seq(Step), NEW v \in Ended
    PROVE  StepsGrow(q, CloseSteps(q, v))
<1>1. DOMAIN CloseSteps(q, v) = DOMAIN q
  BY CloseStepsProperties
<1>2. ASSUME NEW j \in DOMAIN q
      PROVE  /\ CloseSteps(q, v)[j].kind = q[j].kind
             /\ q[j].status \in Ended => CloseSteps(q, v)[j] = q[j]
  <2>1. CloseSteps(q, v)[j] =
          [kind |-> q[j].kind, status |-> IF q[j].status \in Open THEN v ELSE q[j].status,
           bound |-> q[j].bound]
    BY CloseStepsProperties, Zenon
  <2>2. q[j] = [kind |-> q[j].kind, status |-> q[j].status, bound |-> q[j].bound]
    BY StepsGrowTypes
  <2> QED
    BY <2>1, <2>2 DEF Ended, Open
<1> QED
  BY <1>1, <1>2 DEF StepsGrow

LEMMA AppendGrows ==
    ASSUME NEW q \in Seq(Step), NEW e \in Step
    PROVE  StepsGrow(q, Append(q, e))
<1>1. /\ DOMAIN Append(q, e) = 1 .. (Len(q) + 1) /\ DOMAIN q = 1 .. Len(q) /\ Len(q) \in Nat
      /\ \A j \in 1 .. Len(q) : Append(q, e)[j] = q[j]
  BY AppendStepProperties
<1> QED
  BY <1>1 DEF StepsGrow

\* One run, or none, changes, and its rows only go forward.
LEMMA OneRunFinal ==
    ASSUME StoreInv, NEW r \in Runs, NEW s, NEW m, NEW q,
           status' = [status EXCEPT ![r] = s], message' = [message EXCEPT ![r] = m],
           steps' = [steps EXCEPT ![r] = q],
           status[r] \in Ended => s = status[r], message[r] \in Ended => m = message[r],
           StepsGrow(steps[r], q)
    PROVE  EndedOnce
<1>1. ASSUME NEW x \in Runs
      PROVE  /\ status[x] \in Ended => status'[x] = status[x]
             /\ message[x] \in Ended => message'[x] = message[x]
             /\ StepsGrow(steps[x], steps'[x])
  <2>1. CASE x = r
    BY <2>1 DEF StoreInv, StoreTypeOK
  <2>2. CASE x # r
    <3>1. status'[x] = status[x] /\ message'[x] = message[x] /\ steps'[x] = steps[x]
      BY <2>2 DEF StoreInv, StoreTypeOK
    <3> QED
      BY <3>1, StepsGrowTypes DEF StoreInv, StoreTypeOK
  <2> QED
    BY <2>1, <2>2
<1> QED
  BY <1>1 DEF EndedOnce, StepsGrow

LEMMA RunStepFinal ==
    ASSUME StoreInv, NEW r \in Runs, RunStep(r)
    PROVE  EndedOnce
<1> USE Kept DEF StoreInv
<1>1. ASSUME NEW i \in DOMAIN steps[r], BindRequest(r, i)
      PROVE  EndedOnce
  <2>1. status[r] \in Open /\ StepsGrow(steps[r], Bound(steps[r], i))
    BY <1>1, BindRow, BoundGrows DEF BindRequest, Bindable
  <2>2. /\ status' = [status EXCEPT ![r] = "running"] /\ message' = [message EXCEPT ![r] = message[r]]
        /\ steps' = [steps EXCEPT ![r] = Bound(steps[r], i)]
    BY <1>1, <2>1 DEF BindRequest, Bind
  <2>3. status[r] \notin Ended
    BY <2>1 DEF Open, Ended
  <2> QED
    BY <2>1, <2>2, <2>3, OneRunFinal
<1>2. ASSUME NEW i \in DOMAIN steps[r], NEW v \in Ended, FinishStep(r, i, v)
      PROVE  EndedOnce
  <2>1. status[r] \in Open /\ steps[r][i].status \in Open
    BY <1>2, StepOpenFacts DEF FinishStep
  <2>2. StepsGrow(steps[r], SetStatus(steps[r], i, v))
    BY <2>1, SetStatusGrows
  <2>3. /\ status' = [status EXCEPT ![r] = v] /\ message' = [message EXCEPT ![r] = EndOf(message[r], v)]
        /\ steps' = [steps EXCEPT ![r] = SetStatus(steps[r], i, v)]
    BY <1>2 DEF FinishStep, EndMessage, EndOf
  <2>4. status[r] \notin Ended /\ (message[r] \in Ended => EndOf(message[r], v) = message[r])
    BY <2>1 DEF Open, Ended, EndOf
  <2> QED
    BY <2>2, <2>3, <2>4, OneRunFinal
<1>3. ASSUME NEW i \in DOMAIN steps[r], FinishFinalDecision(r, i)
      PROVE  EndedOnce
  <2>1. FinishStep(r, i, "complete") /\ "complete" \in Ended
    BY <1>3 DEF FinishFinalDecision, FinishStep, Ended
  <2> QED
    BY <1>2, <2>1
<1>4. ASSUME NEW i \in DOMAIN steps[r], CompleteModelStep(r, i)
      PROVE  EndedOnce
  <2>1. StepsGrow(steps[r], SetStatus(steps[r], i, "complete"))
    BY <1>4, SetStatusGrows, StepOpenFacts DEF CompleteModelStep, Ended
  <2>2. /\ status' = [status EXCEPT ![r] = status[r]] /\ message' = [message EXCEPT ![r] = message[r]]
        /\ steps' = [steps EXCEPT ![r] = SetStatus(steps[r], i, "complete")]
    BY <1>4 DEF CompleteModelStep
  <2> QED
    BY <2>1, <2>2, OneRunFinal
<1>5. ASSUME NEW e \in Step, steps' = [steps EXCEPT ![r] = Append(steps[r], e)],
             UNCHANGED <<status, message>>
      PROVE  EndedOnce
  <2>1. StepsGrow(steps[r], Append(steps[r], e))
    BY AppendGrows
  <2>2. status' = [status EXCEPT ![r] = status[r]] /\ message' = [message EXCEPT ![r] = message[r]]
    BY <1>5
  <2> DEFINE q == Append(steps[r], e)
  <2>3. steps' = [steps EXCEPT ![r] = q] /\ StepsGrow(steps[r], q)
    BY <1>5, <2>1
  <2> HIDE DEF q
  <2> QED
    BY <2>2, <2>3, OneRunFinal
<1>6. CASE PrepareModelStep(r)
  BY <1>5, <1>6 DEF PrepareModelStep, ModelStep, Step, Open
<1>7. ASSUME NEW ok \in BOOLEAN, NEW novel \in BOOLEAN, RecordToolStep(r, ok, novel)
      PROVE  EndedOnce
  <2>1. ToolStep(ok) \in Step
    BY DEF ToolStep, Step, Ended
  <2> QED
    BY <1>5, <1>7, <2>1 DEF RecordToolStep
<1>8. ASSUME NEW v \in Ended, FinishRun(r, v)
      PROVE  EndedOnce
  <2>1. StepsGrow(steps[r], CloseSteps(steps[r], v))
    BY CloseStepsGrows
  <2>2. /\ status' = [status EXCEPT ![r] = v] /\ message' = [message EXCEPT ![r] = EndOf(message[r], v)]
        /\ steps' = [steps EXCEPT ![r] = CloseSteps(steps[r], v)]
    BY <1>8 DEF FinishRun, EndMessage, EndOf
  <2>3. status[r] \notin Ended /\ (message[r] \in Ended => EndOf(message[r], v) = message[r])
    BY <1>8 DEF FinishRun, Open, Ended, EndOf
  <2> QED
    BY <2>1, <2>2, <2>3, OneRunFinal
<1>9. ASSUME NEW v \in Ended, FinishTurn(r, v)
      PROVE  EndedOnce
  <2>1. /\ status' = [status EXCEPT ![r] = status[r]] /\ message' = [message EXCEPT ![r] = v]
        /\ steps' = [steps EXCEPT ![r] = steps[r]]
    BY <1>9 DEF FinishTurn
  <2>2. StepsGrow(steps[r], steps[r]) /\ message[r] \notin Ended
    BY <1>9, StepsGrowTypes DEF FinishTurn, Ended
  <2> QED
    BY <2>1, <2>2, OneRunFinal
<1> QED
  BY <1>1, <1>2, <1>3, <1>4, <1>6, <1>7, <1>8, <1>9, StoreAssumption DEF RunStep

LEMMA ConversationStepFinal ==
    ASSUME StoreInv, NEW c \in Conversations, ConversationStep(c)
    PROVE  EndedOnce
<1>1. ASSUME NEW r \in Runs, NEW m, AttachRun(c, m, r)
      PROVE  EndedOnce
  <2>1. /\ status' = [status EXCEPT ![r] = "prepared"] /\ message' = [message EXCEPT ![r] = "streaming"]
        /\ steps' = [steps EXCEPT ![r] = <<ModelStep>>]
    BY <1>1 DEF AttachRun
  <2>2. status[r] \notin Ended /\ message[r] \notin Ended /\ steps[r] = <<>>
    BY <1>1 DEF AttachRun, StoreInv, RowsOK, Gone, Ended
  <2>3. StepsGrow(steps[r], <<ModelStep>>)
    BY <2>2 DEF StepsGrow
  <2> QED
    BY <2>1, <2>2, <2>3, OneRunFinal
<1>2. CASE \E m \in Modes : SetMode(c, m)
  <2>1. UNCHANGED <<status, message, steps>>
    BY <1>2 DEF SetMode
  <2> QED
    BY <2>1 DEF EndedOnce
<1>3. CASE Cascade(c)
  <2>1. \A x \in Runs : status'[x] = "gone" \/
           (status'[x] = status[x] /\ message'[x] = message[x] /\ steps'[x] = steps[x])
    BY <1>3 DEF Cascade
  <2> QED
    BY <2>1 DEF EndedOnce, Gone
<1> QED
  BY <1>1, <1>2, <1>3 DEF ConversationStep, StartNewTurn, StartTurn, Clear, Delete

LEMMA BootstrapFinal ==
    ASSUME StoreInv, Bootstrap
    PROVE  EndedOnce
<1>1. ASSUME NEW x \in Runs
      PROVE  /\ status[x] \in Ended => status'[x] = status[x]
             /\ message[x] \in Ended => message'[x] = message[x]
             /\ StepsGrow(steps[x], steps'[x])
  <2>1. StepsGrow(steps[x], CloseSteps(steps[x], "interrupted"))
    BY CloseStepsGrows DEF StoreInv, StoreTypeOK, Ended
  <2> QED
    BY <2>1 DEF Bootstrap, Interrupt, Ended, Open
<1> QED
  BY <1>1 DEF EndedOnce, StepsGrow

\* The rows of the store agree, for every number of conversations, runs and steps
\* (conversation_store.rs, every transaction that writes agent_runs, agent_steps,
\* messages or conversations).
THEOREM RowsAlwaysAgree == Spec => []RowsAgree
<1>1. EndedHasNothingOpen /\ OnlyLastStepOpen /\ PreparedIsFresh /\ CountersAgree /\ ActiveModeKept
      => RowsAgree
  BY DEF RowsAgree
<1> QED
  BY <1>1, EndedRunsAreClosed, OneStepIsOpen, PreparedRunsAreFresh, CountersCountRows, ModeIsKept, PTL

\* Whichever of the stream, the user, a failure or a restart ends a run, a step or
\* a message first has the last word.
THEOREM EndedStays == Spec => EndedIsFinal
<1>1. StoreInv /\ [Next]_store => [EndedOnce]_store
  BY RunStepFinal, ConversationStepFinal, BootstrapFinal DEF Next
<1> QED
  BY <1>1, StoreInvariant, PTL DEF Spec, EndedIsFinal

=============================================================================
