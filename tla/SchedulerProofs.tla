---------------------------- MODULE SchedulerProofs ----------------------------
(***************************************************************************)
(* Proofs about the request scheduler, for every set of requests, number   *)
(* of slots and capacity.                                                  *)
(*                                                                         *)
(* First where requests are: every one that was accepted has a place, the  *)
(* permit its terminal event will need, and is counted until it ends.      *)
(*                                                                         *)
(* Then what they own: the sequences of the inference engine belong to one *)
(* request each; a sequence is created when its request is started, and    *)
(* removed before the slot, whose number is the sequence's identifier, is  *)
(* given to another.                                                       *)
(*                                                                         *)
(* Then what is heard of them.  The events of a request reach the callback *)
(* in the order of their numbers and end with one terminal event, as the   *)
(* contract of llw_runtime.h says, and a cancel that has returned is       *)
(* heeded.  Every step of the system does one of few things to the story   *)
(* the callback is told: the lemmas say which, then that the story stays   *)
(* in order, then that it is one the contract allows.                      *)
(***************************************************************************)
EXTENDS SchedulerContract, EventDispatcherProofs


\* The closing thread keeps mutex_ from the cancellation to its wait.
LockInv ==
    closer = "draining" => worker \in {"idle", "decode", "exited"}

\* The worker's local copies: what a loop still has to do is still to be done.
InSlot(r) ==
    /\ req[r].state \in {"preprocessing", "running"}
    /\ req[r].slot \in Slots /\ slots[req[r].slot] = r

LocalsInv ==
    /\ worker = "retry" => \A r \in handles : r \in Tracked /\ IsPending(r)
    /\ worker \in {"decode", "fail"} => \A r \in handles : InSlot(r) /\ ~IsPending(r)
    /\ worker = "apply" => \A st \in steps : InSlot(st.handle) /\ ~IsPending(st.handle)
    /\ \A st, t \in steps : st.handle = t.handle => st = t
    /\ worker # "apply" => steps = {} /\ ending = NoRequest
    /\ ending # NoRequest => \E st \in steps : st.handle = ending /\ Ends(st)

\* Handles are given out in order, once.
HandlesInv ==
    /\ \A r \in Requests : r > lastHandle => req[r] = Unknown
    /\ \A r \in Requests : req[r].state \in {"unknown", "erased"} => ~IsPending(r)

\* Nothing is tracked any more once the closing thread stops the worker, and
\* the dispatcher is stopped only after that.
ClosedInv ==
    /\ closer \in {"drained", "joining", "joined"} => Tracked = {}
    /\ stopping => closer = "joined"
    /\ \A c \in Callers : callerPc[c] # "idle" => closer = "joined"

\* Where every request is: its record, its place, its permit and its count.
Placement ==
    /\ HandlesInv
    /\ RequestsPlaced
    /\ PermitPerRequest
    /\ CountersMatch

SchedulerInv ==
    /\ DispatcherInv
    /\ SchedulerTypeOK
    /\ LockInv
    /\ LocalsInv
    /\ Placement
    /\ ClosedInv
-----------------------------------------------------------------------------
(* Events of requests, and what a scheduler thread does to the dispatcher *)

LEMMA TerminalEvent ==
    ASSUME SchedulerTypeOK, NEW r \in Requests, NEW type \in TerminalTypes
    PROVE  /\ EventOf(r, type) \in Event /\ IsTerminal(EventOf(r, type))
           /\ EventOf(r, type).request = r
<1>1. req[r].next \in Nat
  BY DEF SchedulerTypeOK, Request
<1>2. r # NoRequest
  BY RequestsAssumption DEF NoRequest
<1> QED
  BY <1>1, <1>2 DEF EventOf, Event, IsTerminal

LEMMA RegularEvent ==
    ASSUME SchedulerTypeOK, NEW r \in Requests, NEW type \in RegularTypes
    PROVE  EventOf(r, type) \in Event /\ ~IsTerminal(EventOf(r, type))
<1>1. req[r].next \in Nat
  BY DEF SchedulerTypeOK, Request
<1> QED
  BY <1>1 DEF EventOf, Event, IsTerminal, RegularTypes, TerminalTypes

LEMMA MetricsEvent == Metrics \in Event /\ ~IsTerminal(Metrics)
BY DEF Metrics, Event, RegularTypes, IsTerminal

LEMMA Frame ==
    ASSUME UNCHANGED otherDispatcherVars
    PROVE  UNCHANGED <<threadVars, stopVars, callerVars>>
BY DEF otherDispatcherVars

LEMMA PermitTypes ==
    ASSUME DispatcherInv
    PROVE  permits \in [Requests -> {"none", "reserved", "published"}]
BY DEF DispatcherInv, DispatcherTypeOK

\* Nothing but the thread of control moves in the dispatcher.
LEMMA NothingPublished ==
    ASSUME DispatcherInv, UNCHANGED publishVars, UNCHANGED otherDispatcherVars
    PROVE  DispatcherInv'
BY PermitsMoved, PermitTypes, Frame DEF publishVars

LEMMA Untouched == ASSUME DispatcherInv, UNCHANGED dispatcherVars PROVE DispatcherInv'
BY NothingPublished DEF dispatcherVars, publishVars, otherDispatcherVars

-----------------------------------------------------------------------------
(* The three things that can come of a terminal event *)

\* It is admitted, it stays pending, or it was pending before.
Admitted(r) ==
    \E outcome \in TerminalTypes :
        CanPublish(EventOf(r, outcome)) /\ CommitTerminal(r, outcome)
Kept(r) ==
    /\ \E outcome \in TerminalTypes, cleaned \in BOOLEAN :
          req' = [req EXCEPT ![r].pending = outcome, ![r].cleaned = cleaned]
    /\ UNCHANGED <<publishVars, slots, terminal>>
Settled == UNCHANGED <<publishVars, req, slots, terminal>>

LEMMA PublishTerminalEffect ==
    ASSUME NEW r \in Requests, NEW outcome \in TerminalTypes, NEW cleaned \in BOOLEAN,
           NEW fails, PublishTerminal(r, outcome, cleaned, fails)
    PROVE  Admitted(r) \/ Kept(r)
BY DEF PublishTerminal, KeepPending, NotCounted, Admitted, Kept

LEMMA FinishEffect ==
    ASSUME SchedulerTypeOK, NEW r \in Requests, NEW outcome \in TerminalTypes,
           Finish(r, outcome)
    PROVE  /\ Admitted(r) \/ Kept(r) \/ Settled
           /\ ~IsPending(r) => Admitted(r) \/ Kept(r)
           /\ engine' \in [Requests -> {Absent} \cup Nat] /\ faults' \in Nat
<1>1. /\ engine \in [Requests -> {Absent} \cup Nat] /\ faults \in Nat
      /\ req[r].cleaned \in BOOLEAN /\ req[r].started \in BOOLEAN
  BY DEF SchedulerTypeOK, Request
<1>2. CASE IsPending(r)
  BY <1>1, <1>2 DEF Finish, Settled
<1>3. CASE ~IsPending(r)
  <2>1. PICK publishFails \in BOOLEAN, cleanupFails \in BOOLEAN :
           /\ faults' = faults + Cost(publishFails) + Cost(cleanupFails)
           /\ engine' = IF NeedsCleanup(r) THEN [engine EXCEPT ![r] = Absent] ELSE engine
           /\ PublishTerminal(r, IF cleanupFails THEN "error" ELSE outcome,
                              NeedsCleanup(r) \/ req[r].cleaned, publishFails)
    BY <1>3 DEF Finish, MayFail
  <2>2. (IF cleanupFails THEN "error" ELSE outcome) \in TerminalTypes
    BY DEF TerminalTypes
  <2>3. (NeedsCleanup(r) \/ req[r].cleaned) \in BOOLEAN
    OBVIOUS
  <2>4. Admitted(r) \/ Kept(r)
    BY <2>1, <2>2, <2>3, PublishTerminalEffect
  <2>5. engine' \in [Requests -> {Absent} \cup Nat]
    BY <1>1, <2>1
  <2>6. faults' \in Nat
    BY <1>1, <2>1 DEF Cost
  <2> QED
    BY <2>4, <2>5, <2>6
<1> QED
  BY <1>2, <1>3

LEMMA AdmittedDispatch ==
    ASSUME DispatcherInv, SchedulerTypeOK, NEW r \in Requests, Admitted(r),
           UNCHANGED otherDispatcherVars
    PROVE  DispatcherInv'
<1>1. PICK outcome \in TerminalTypes :
         CanPublish(EventOf(r, outcome)) /\ EnqueueTerminal(EventOf(r, outcome))
  BY DEF Admitted, CommitTerminal
<1> QED
  BY <1>1, TerminalEvent, TerminalPublished, Frame

LEMMA SettledDispatch ==
    ASSUME DispatcherInv, NEW r \in Requests, Kept(r) \/ Settled,
           UNCHANGED otherDispatcherVars
    PROVE  DispatcherInv'
BY NothingPublished DEF Kept, Settled

LEMMA FinishDispatch ==
    ASSUME DispatcherInv, SchedulerTypeOK, NEW r \in Requests,
           NEW outcome \in TerminalTypes, Finish(r, outcome), UNCHANGED otherDispatcherVars
    PROVE  DispatcherInv'
BY FinishEffect, AdmittedDispatch, SettledDispatch

\* Accepting a request reserves its permit and publishes a regular event.
LEMMA SubmitDispatch ==
    ASSUME DispatcherInv, SchedulerTypeOK, NEW r \in Requests, Submit(r)
    PROVE  DispatcherInv'
<1> USE PermitTypes
<1>1. UNCHANGED <<threadVars, stopVars, callerVars>>
  BY Frame DEF Submit
<1>2. CASE SubmitRefused(r)
  BY <1>1, <1>2, PermitsMoved DEF SubmitRefused, RollBackPermit
<1>3. CASE SubmitAccepted(r)
  <2>1. EventOf(r, "queued") \in Event /\ ~IsTerminal(EventOf(r, "queued"))
    BY RegularEvent DEF RegularTypes
  <2>2. ~stopping /\ EnqueueRegular(EventOf(r, "queued")) /\ permits[r] = "none"
        /\ permits' = [permits EXCEPT ![r] = "reserved"]
    BY <1>3 DEF SubmitAccepted, CanReserve
  <2> QED
    BY <1>1, <2>1, <2>2, RegularPublished
<1> QED
  BY <1>2, <1>3 DEF Submit

LEMMA CancelDispatch ==
    ASSUME DispatcherInv, SchedulerTypeOK, NEW r \in Requests, Cancel(r)
    PROVE  DispatcherInv'
<1>1. UNCHANGED otherDispatcherVars
  BY DEF Cancel
<1>2. CASE CancelInSlot(r)
  BY <1>1, <1>2, NothingPublished DEF CancelInSlot
<1>3. CASE CancelQueued(r)
  <2>1. Admitted(r) \/ UNCHANGED publishVars
    BY <1>3 DEF CancelQueued, Admitted, TerminalTypes
  <2> QED
    BY <1>1, <2>1, AdmittedDispatch, NothingPublished
<1> QED
  BY <1>2, <1>3 DEF Cancel

LEMMA PromoteDispatch ==
    ASSUME DispatcherInv, SchedulerTypeOK, Promote
    PROVE  DispatcherInv'
<1> DEFINE r == Head(queued)
<1>1. UNCHANGED otherDispatcherVars
  BY DEF Promote
<1>2. r \in Requests
  BY DEF Promote, SchedulerTypeOK
<1>3. CASE Finish(r, "cancelled")
  BY <1>1, <1>2, <1>3, FinishDispatch DEF TerminalTypes
<1>4. CASE StartOk(r)
  BY <1>1, <1>4, NothingPublished DEF StartOk
<1>5. CASE StartFailed(r)
  <2>1. Admitted(r) \/ UNCHANGED publishVars
    BY <1>5 DEF StartFailed, Admitted, TerminalTypes, publishVars
  <2> QED
    BY <1>1, <1>2, <2>1, AdmittedDispatch, NothingPublished
<1> QED
  BY <1>3, <1>4, <1>5 DEF Promote

LEMMA RetryDispatch ==
    ASSUME DispatcherInv, SchedulerTypeOK, LocalsInv, NEW r \in Requests, Retry(r)
    PROVE  DispatcherInv'
<1>1. PICK fails \in BOOLEAN : PublishTerminal(r, req[r].pending, req[r].cleaned, fails)
  BY DEF Retry, MayFail
<1>2. req[r].pending \in TerminalTypes /\ req[r].cleaned \in BOOLEAN
  BY DEF Retry, LocalsInv, IsPending, SchedulerTypeOK, Request
<1>3. Admitted(r) \/ Kept(r)
  BY <1>1, <1>2, PublishTerminalEffect
<1> QED
  BY <1>3, AdmittedDispatch, SettledDispatch DEF Retry

\* The steps of the engine carry handles of requests.
LEMMA StepTypes ==
    ASSUME SchedulerTypeOK, NEW st \in steps
    PROVE  /\ st.handle \in Requests /\ st \in Step
           /\ Outcome(st) \in TerminalTypes
BY DEF SchedulerTypeOK, Step, Outcome, TerminalTypes

LEMMA ApplyDispatch ==
    ASSUME DispatcherInv, SchedulerTypeOK, NEW st \in steps,
           \/ ApplyCancelled(st) \/ ApplyToken(st) \/ ApplyOverflow(st)
           \/ ApplyThrows(st) \/ ApplyEnd(st)
    PROVE  DispatcherInv'
<1> USE StepTypes
<1>1. "cancelled" \in TerminalTypes /\ "error" \in TerminalTypes /\ "token" \in RegularTypes
  BY DEF TerminalTypes, RegularTypes
<1>2. CASE ApplyCancelled(st)
  BY <1>1, <1>2, FinishDispatch DEF ApplyCancelled
<1>3. CASE ApplyToken(st)
  <2>1. EventOf(st.handle, "token") \in Event /\ ~IsTerminal(EventOf(st.handle, "token"))
    BY <1>1, RegularEvent
  <2>2. ~stopping /\ EnqueueRegular(EventOf(st.handle, "token")) /\ permits' = permits
        /\ UNCHANGED <<threadVars, stopVars, callerVars>>
    BY <1>3 DEF ApplyToken, CanPublish, otherDispatcherVars
  <2> QED
    BY <2>1, <2>2, RegularPublished, PermitTypes
<1>4. CASE ApplyOverflow(st)
  BY <1>1, <1>4, FinishDispatch DEF ApplyOverflow
<1>5. CASE ApplyThrows(st)
  BY <1>5, Untouched DEF ApplyThrows
<1>6. CASE ApplyEnd(st)
  BY <1>6, FinishDispatch, NothingPublished DEF ApplyEnd
<1> QED
  BY <1>2, <1>3, <1>4, <1>5, <1>6

LEMMA MetricsDispatch == ASSUME DispatcherInv, SendMetrics PROVE DispatcherInv'
<1>1. permits' = permits /\ UNCHANGED <<threadVars, stopVars, callerVars>>
  BY DEF SendMetrics, otherDispatcherVars
<1>2. CASE CanPublish(Metrics) /\ EnqueueRegular(Metrics)
  BY <1>1, <1>2, MetricsEvent, RegularPublished, PermitTypes DEF CanPublish
<1>3. CASE UNCHANGED queueVars
  BY <1>1, <1>3, PermitsMoved, PermitTypes
<1> QED
  BY <1>2, <1>3 DEF SendMetrics

\* Whatever the scheduler's threads do, the dispatcher stays in order.
LEMMA DispatcherKept ==
    ASSUME DispatcherInv, SchedulerTypeOK, LocalsInv, [Next]_vars
    PROVE  DispatcherInv'
<1> USE DEF otherDispatcherVars
<1>1. CASE Client
  BY <1>1, SubmitDispatch, CancelDispatch DEF Client
<1>2. CASE CancelAll
  BY <1>2, Untouched DEF CancelAll
<1>3. CASE Closer
  <2>1. CASE DrainQueued
    <3>1. Head(queued) \in Requests
      BY <2>1 DEF DrainQueued, SchedulerTypeOK
    <3> QED
      BY <2>1, <3>1, FinishDispatch DEF DrainQueued, TerminalTypes
  <2>2. CASE DrainDone \/ WaitIdle \/ StopWorker \/ JoinWorker
    BY <2>2, Untouched DEF DrainDone, WaitIdle, StopWorker, JoinWorker
  <2> QED
    BY <1>3, <2>1, <2>2 DEF Closer
<1>4. CASE Worker
  <2>1. CASE Wake \/ WorkerExit \/ RetryDone \/ PromoteNothing \/ BeginDecode \/ FailDone
    BY <2>1, Untouched DEF Wake, WorkerExit, RetryDone, PromoteNothing, BeginDecode, FailDone
  <2>2. CASE Decode
    BY <2>2, Untouched DEF Decode, DecodeThrows, DecodeFails, DecodeAdvances
  <2>3. CASE CancelSlot
    <3>1. CASE UNCHANGED publishVars
      BY <2>3, <3>1, NothingPublished DEF CancelSlot
    <3>2. CASE ~UNCHANGED publishVars
      <4>1. slots[cursor] \in Requests /\ Finish(slots[cursor], "cancelled")
        BY <2>3, <3>2 DEF CancelSlot, SchedulerTypeOK
      <4> QED
        BY <2>3, <4>1, FinishDispatch DEF CancelSlot, TerminalTypes
    <3> QED
      BY <3>1, <3>2
  <2>4. CASE Promote
    BY <2>4, PromoteDispatch
  <2>5. CASE SendMetrics
    BY <2>5, MetricsDispatch
  <2>6. ASSUME NEW r \in Requests, FailActive(r) PROVE DispatcherInv'
    BY <2>6, FinishDispatch DEF FailActive, TerminalTypes
  <2> QED
    BY <1>4, <2>1, <2>2, <2>3, <2>4, <2>5, <2>6, RetryDispatch, ApplyDispatch DEF Worker
<1>5. CASE Dispatcher
  BY <1>5, DispatcherThreadStep, StopStep DEF Dispatcher, Stopper
<1>6. CASE UNCHANGED vars
  BY <1>6, Untouched DEF vars
<1> QED
  BY <1>1, <1>2, <1>3, <1>4, <1>5, <1>6 DEF Next

-----------------------------------------------------------------------------
(* Types *)

LEMMA ErasedIsRequest == Erased \in Request /\ Unknown \in Request
<1>1. NoSlot \in Slots \cup {NoSlot} /\ 1 \in Nat
  OBVIOUS
<1>2. Unknown \in Request
  BY <1>1 DEF Unknown, Request
<1> QED
  BY <1>1, <1>2 DEF Erased, Unknown, Request

LEMMA RecordUpdates ==
    ASSUME NEW q \in Request
    PROVE  /\ [q EXCEPT !.cancel = TRUE] \in Request
           /\ \A outcome \in TerminalTypes : [q EXCEPT !.pending = outcome] \in Request
           /\ \A cleaned \in BOOLEAN : [q EXCEPT !.cleaned = cleaned] \in Request
           /\ \A s \in {"queued", "preprocessing", "running"} : [q EXCEPT !.state = s] \in Request
           /\ [q EXCEPT !.next = @ + 1] \in Request
           /\ [q EXCEPT !.started = TRUE] \in Request
           /\ \A s \in Slots : [q EXCEPT !.slot = s] \in Request
<1> USE DEF Request
<1>1. [q EXCEPT !.cancel = TRUE] \in Request
  OBVIOUS
<1>2. \A outcome \in TerminalTypes : [q EXCEPT !.pending = outcome] \in Request
  OBVIOUS
<1>3. \A cleaned \in BOOLEAN : [q EXCEPT !.cleaned = cleaned] \in Request
  OBVIOUS
<1>4. \A s \in {"queued", "preprocessing", "running"} : [q EXCEPT !.state = s] \in Request
  OBVIOUS
<1>5. [q EXCEPT !.next = @ + 1] \in Request
  OBVIOUS
<1>6. [q EXCEPT !.started = TRUE] \in Request
  OBVIOUS
<1>7. \A s \in Slots : [q EXCEPT !.slot = s] \in Request
  OBVIOUS
<1> QED
  BY <1>1, <1>2, <1>3, <1>4, <1>5, <1>6, <1>7

\* What a terminal event does to the records, in types.
LEMMA SettledTypes ==
    ASSUME SchedulerTypeOK, NEW r \in Requests, Admitted(r) \/ Kept(r) \/ Settled
    PROVE  /\ req' \in [Requests -> Request]
           /\ slots' \in [Slots -> Requests \cup {NoRequest}]
           /\ terminal' \in Nat
<1> USE DEF SchedulerTypeOK
<1>1. CASE Admitted(r)
  BY <1>1, ErasedIsRequest DEF Admitted, CommitTerminal, SlotsWithout
<1>2. CASE Kept(r)
  <2>1. PICK outcome \in TerminalTypes, cleaned \in BOOLEAN :
           req' = [req EXCEPT ![r].pending = outcome, ![r].cleaned = cleaned]
    BY <1>2 DEF Kept
  <2>2. req' \in [Requests -> Request]
    BY <2>1, RecordUpdates
  <2> QED
    BY <1>2, <2>2 DEF Kept
<1>3. CASE Settled
  BY <1>3 DEF Settled
<1> QED
  BY <1>1, <1>2, <1>3

LEMMA QueueTypes ==
    ASSUME SchedulerTypeOK
    PROVE  /\ queued # <<>> => Head(queued) \in Requests /\ Tail(queued) \in Seq(Requests)
           /\ \A r \in Requests : JoinQueue(r) => queued' \in Seq(Requests)
           /\ \A i \in 1..Len(queued) : Without(i) \in Seq(Requests)
<1>1. queued \in Seq(Requests)
  BY DEF SchedulerTypeOK
<1>2. ASSUME NEW i \in 1..Len(queued) PROVE Without(i) \in Seq(Requests)
  BY <1>1 DEF Without, RemoveAt
<1>3. queued # <<>> => Head(queued) \in Requests /\ Tail(queued) \in Seq(Requests)
  BY <1>1
<1>4. ASSUME NEW r \in Requests, JoinQueue(r) PROVE queued' \in Seq(Requests)
  BY <1>1, <1>4 DEF JoinQueue
<1> QED
  BY <1>2, <1>3, <1>4

LEMMA ClientTypes ==
    ASSUME SchedulerTypeOK, DispatcherTypeOK', NEW r \in Requests, Submit(r) \/ Cancel(r)
    PROVE  SchedulerTypeOK'
<1> USE DEF SchedulerTypeOK, workerVars
<1>1. CASE Submit(r)
  <2>1. /\ lastHandle' \in Nat
        /\ UNCHANGED <<slots, terminal, closing, worker, handles, retryFailed, cursor, steps,
                        ending, closer, engine, metricsSent>>
    BY <1>1, RequestsAssumption DEF Submit
  <2>2. CASE SubmitAccepted(r)
    <3>1. req' \in [Requests -> Request]
      <4> DEFINE a == [req[r] EXCEPT !.state = "queued"]
                 b == [a EXCEPT !.next = @ + 1]
      <4>1. a \in Request
        BY RecordUpdates
      <4>2. b \in Request
        BY <4>1, RecordUpdates
      <4>3. req' = [req EXCEPT ![r] = b]
        BY <2>2 DEF SubmitAccepted
      <4> QED
        BY <4>2, <4>3
    <3> QED
      BY <2>1, <2>2, <3>1, QueueTypes DEF SubmitAccepted
  <2>3. CASE SubmitRefused(r)
    <3>1. faults' \in Nat /\ UNCHANGED <<queued, req, accepted>>
      <4>1. faults' = faults \/ faults' = faults + 1
        BY <2>3 DEF SubmitRefused
      <4> QED
        BY <2>3, <4>1 DEF SubmitRefused
    <3> QED
      BY <2>1, <3>1
  <2> QED
    BY <1>1, <2>2, <2>3 DEF Submit
<1>2. CASE Cancel(r)
  <2>1. UNCHANGED <<lastHandle, accepted, closing, worker, handles, retryFailed, cursor,
                    steps, ending, closer, metricsSent>>
    BY <1>2 DEF Cancel
  <2>2. CASE CancelQueued(r)
    <3>1. queued' \in Seq(Requests) /\ UNCHANGED engine
      BY <2>2, QueueTypes DEF CancelQueued
    <3>2. PICK publishFails \in BOOLEAN :
             /\ faults' = faults + Cost(publishFails)
             /\ \/ CanPublish(EventOf(r, "cancelled")) /\ CommitTerminal(r, "cancelled")
                \/ /\ req' = [req EXCEPT ![r].cancel = TRUE, ![r].pending = "cancelled"]
                   /\ UNCHANGED <<publishVars, slots, terminal>>
      BY <2>2 DEF CancelQueued, MayFail
    <3>3. faults' \in Nat
      BY <3>2 DEF Cost
    <3>4. /\ req' \in [Requests -> Request]
          /\ slots' \in [Slots -> Requests \cup {NoRequest}]
          /\ terminal' \in Nat
      <4>1. CASE CanPublish(EventOf(r, "cancelled")) /\ CommitTerminal(r, "cancelled")
        BY <4>1, SettledTypes DEF Admitted, TerminalTypes
      <4>2. CASE /\ req' = [req EXCEPT ![r].cancel = TRUE, ![r].pending = "cancelled"]
                 /\ UNCHANGED <<publishVars, slots, terminal>>
        BY <4>2, RecordUpdates DEF TerminalTypes
      <4> QED
        BY <3>2, <4>1, <4>2
    <3> QED
      BY <2>1, <3>1, <3>3, <3>4
  <2>3. CASE CancelInSlot(r)
    <3>1. req' = [req EXCEPT ![r].cancel = TRUE] /\ UNCHANGED <<queued, slots, terminal, engine, faults>>
      BY <2>3 DEF CancelInSlot
    <3>2. [req[r] EXCEPT !.cancel = TRUE] \in Request
      BY RecordUpdates
    <3>3. req' \in [Requests -> Request]
      BY <3>1, <3>2
    <3> QED
      BY <2>1, <3>1, <3>3
  <2> QED
    BY <1>2, <2>2, <2>3 DEF Cancel
<1> QED
  BY <1>1, <1>2

LEMMA CloserTypes ==
    ASSUME SchedulerTypeOK, DispatcherTypeOK', CancelAll \/ Closer
    PROVE  SchedulerTypeOK'
<1> USE DEF SchedulerTypeOK, workerVars, boundVars, requestVars
<1>1. CASE CancelAll
  <2>1. req' \in [Requests -> Request]
    BY <1>1, RecordUpdates DEF CancelAll
  <2> QED
    BY <1>1, <2>1 DEF CancelAll
<1>2. CASE DrainQueued
  <2>1. Head(queued) \in Requests /\ queued' \in Seq(Requests)
        /\ Finish(Head(queued), "cancelled") /\ "cancelled" \in TerminalTypes
    BY <1>2, QueueTypes DEF DrainQueued, TerminalTypes
  <2>2. /\ engine' \in [Requests -> {Absent} \cup Nat] /\ faults' \in Nat
        /\ req' \in [Requests -> Request]
        /\ slots' \in [Slots -> Requests \cup {NoRequest}]
        /\ terminal' \in Nat
    BY <2>1, FinishEffect, SettledTypes
  <2> QED
    BY <1>2, <2>1, <2>2 DEF DrainQueued
<1>3. CASE DrainDone \/ WaitIdle \/ StopWorker \/ JoinWorker
  BY <1>3 DEF DrainDone, WaitIdle, StopWorker, JoinWorker
<1> QED
  BY <1>1, <1>2, <1>3 DEF Closer

LEMMA WorkerMoves ==
    ASSUME SchedulerTypeOK, DispatcherTypeOK',
           Wake \/ WorkerExit \/ RetryDone \/ PromoteNothing \/ BeginDecode \/ FailDone
           \/ SendMetrics
    PROVE  SchedulerTypeOK'
<1> USE DEF SchedulerTypeOK, requestVars, boundVars
<1>1. Pending \in SUBSET Requests /\ Active \in SUBSET Requests
  BY DEF Pending, Tracked, Active
<1>2. 0 \in Slots /\ (cursor + 1 \in Slots \/ LastSlot)
  BY SchedulerAssumption DEF Slots, LastSlot
<1>3. CASE Wake
  BY <1>1, <1>3 DEF Wake
<1>4. CASE WorkerExit
  BY <1>4 DEF WorkerExit
<1>5. CASE RetryDone
  BY <1>2, <1>5 DEF RetryDone
<1>6. CASE PromoteNothing
  BY <1>2, <1>6 DEF PromoteNothing, NextSlot
<1>7. CASE BeginDecode
  BY <1>1, <1>7 DEF BeginDecode
<1>8. CASE FailDone
  BY <1>8 DEF FailDone
<1>9. CASE SendMetrics
  <2>1. metricsSent' \in 0..MaxMetrics
    BY <1>9, SchedulerAssumption DEF SendMetrics
  <2> QED
    BY <1>9, <2>1 DEF SendMetrics
<1> QED
  BY <1>3, <1>4, <1>5, <1>6, <1>7, <1>8, <1>9

LEMMA DecodeTypes ==
    ASSUME SchedulerTypeOK, DispatcherTypeOK', Decode
    PROVE  SchedulerTypeOK'
<1> USE DEF SchedulerTypeOK, requestVars, boundVars
<1>1. CASE DecodeThrows
  BY <1>1 DEF DecodeThrows
<1>2. CASE DecodeFails
  <2>1. \A r \in handles :
           [handle |-> r, bytes |-> FALSE, finished |-> FALSE, failed |-> TRUE] \in Step
    BY DEF Step
  <2> QED
    BY <1>2, <2>1 DEF DecodeFails
<1>3. CASE DecodeAdvances
  <2> DEFINE hasWork == {r \in handles : engine[r] > 0}
  <2>1. PICK batch, sampled, done, bytes \in SUBSET handles :
           batch \subseteq hasWork /\ sampled \subseteq batch
           /\ Advance(batch, sampled, done, bytes)
    BY <1>3 DEF DecodeAdvances
  <2>2. engine' \in [Requests -> {Absent} \cup Nat]
    <3>1. \A r \in batch : r \in Requests /\ engine[r] > 0 /\ engine[r] \in {Absent} \cup Nat
      BY <2>1
    <3>2. \A r \in batch : engine[r] - 1 \in Nat
      BY <3>1 DEF Absent
    <3> QED
      BY <2>1, <3>2 DEF Advance
  <2>3. steps' \in SUBSET Step
    <3>1. \A r \in sampled : r \in Requests
      OBVIOUS
    <3>2. \A r \in sampled :
             [handle |-> r, bytes |-> r \in bytes, finished |-> r \in done,
              failed |-> FALSE] \in Step
      BY <3>1 DEF Step
    <3> QED
      BY <2>1, <3>2 DEF Advance
  <2> QED
    BY <1>3, <2>2, <2>3 DEF DecodeAdvances
<1> QED
  BY <1>1, <1>2, <1>3 DEF Decode

LEMMA PromoteTypes ==
    ASSUME SchedulerTypeOK, DispatcherTypeOK', Promote
    PROVE  SchedulerTypeOK'
<1> DEFINE r == Head(queued)
<1>1. r \in Requests /\ queued' \in Seq(Requests)
  BY QueueTypes DEF Promote
<1>2. 0 \in Slots /\ (cursor + 1 \in Slots \/ LastSlot) /\ cursor \in Slots
  BY SchedulerAssumption DEF Slots, LastSlot, SchedulerTypeOK
<1>3. /\ cursor' \in Slots
      /\ worker' \in {"idle", "retry", "cancel", "promote", "active", "decode", "fail", "apply",
                       "exited"}
  BY <1>2 DEF Promote, NextSlot
<1>4. /\ req' \in [Requests -> Request]
      /\ slots' \in [Slots -> Requests \cup {NoRequest}]
      /\ terminal' \in Nat /\ faults' \in Nat
      /\ engine' \in [Requests -> {Absent} \cup Nat]
  <2> USE DEF SchedulerTypeOK
  <2>1. CASE Finish(r, "cancelled")
    BY <1>1, <2>1, FinishEffect, SettledTypes DEF TerminalTypes
  <2>2. CASE StartOk(r)
    <3> DEFINE a == [req[r] EXCEPT !.state = "running"]
               b == [a EXCEPT !.slot = cursor]
               d == [b EXCEPT !.started = TRUE]
    <3>1. a \in Request
      BY <1>1, RecordUpdates
    <3>2. b \in Request
      BY <1>2, <3>1, RecordUpdates
    <3>3. d \in Request
      BY <3>2, RecordUpdates
    <3>4. req' = [req EXCEPT ![r] = d]
      BY <2>2 DEF StartOk
    <3>5. req' \in [Requests -> Request]
      BY <3>3, <3>4
    <3> QED
      BY <1>1, <1>2, <2>2, <3>5, SchedulerAssumption DEF StartOk
  <2>3. CASE StartFailed(r)
    <3>1. PICK publishFails \in BOOLEAN :
             /\ faults' = faults + Cost(publishFails)
             /\ IF CanPublish(EventOf(r, "error")) /\ ~publishFails
                THEN CommitTerminal(r, "error")
                ELSE /\ req' = [req EXCEPT ![r].state = "preprocessing", ![r].slot = cursor,
                                           ![r].pending = "error"]
                     /\ slots' = [slots EXCEPT ![cursor] = r]
                     /\ UNCHANGED <<publishVars, terminal>>
      BY <2>3 DEF StartFailed, MayFail
    <3>2. faults' \in Nat /\ UNCHANGED engine
      BY <2>3, <3>1 DEF StartFailed, Cost
    <3>3. CASE CanPublish(EventOf(r, "error")) /\ CommitTerminal(r, "error")
      BY <1>1, <3>2, <3>3, SettledTypes DEF Admitted, TerminalTypes
    <3>4. CASE /\ req' = [req EXCEPT ![r].state = "preprocessing", ![r].slot = cursor,
                                     ![r].pending = "error"]
               /\ slots' = [slots EXCEPT ![cursor] = r]
               /\ UNCHANGED <<publishVars, terminal>>
      <4> DEFINE a == [req[r] EXCEPT !.state = "preprocessing"]
                 b == [a EXCEPT !.slot = cursor]
                 d == [b EXCEPT !.pending = "error"]
      <4>1. a \in Request
        BY <1>1, RecordUpdates
      <4>2. b \in Request
        BY <1>2, <4>1, RecordUpdates
      <4>3. d \in Request
        BY <4>2, RecordUpdates DEF TerminalTypes
      <4>4. req' = [req EXCEPT ![r] = d]
        BY <3>4
      <4>5. req' \in [Requests -> Request]
        BY <4>3, <4>4
      <4> QED
        BY <1>1, <1>2, <3>2, <3>4, <4>5
    <3> QED
      BY <3>1, <3>3, <3>4
  <2> QED
    BY <2>1, <2>2, <2>3 DEF Promote
<1> QED
  BY <1>1, <1>3, <1>4 DEF Promote, SchedulerTypeOK

LEMMA SweepTypes ==
    ASSUME SchedulerTypeOK, DispatcherTypeOK', LocalsInv,
           CancelSlot \/ \E r \in Requests : Retry(r) \/ FailActive(r)
    PROVE  SchedulerTypeOK'
<1>1. CASE CancelSlot
  <2> DEFINE r == slots[cursor]
  <2>1. 0 \in Slots /\ (cursor + 1 \in Slots \/ LastSlot) /\ cursor \in Slots
    BY SchedulerAssumption DEF Slots, LastSlot, SchedulerTypeOK
  <2>2. /\ req' \in [Requests -> Request]
        /\ slots' \in [Slots -> Requests \cup {NoRequest}]
        /\ terminal' \in Nat /\ faults' \in Nat
        /\ engine' \in [Requests -> {Absent} \cup Nat]
    <3>1. CASE r # NoRequest /\ req[r].cancel
      <4>1. r \in Requests /\ Finish(r, "cancelled") /\ "cancelled" \in TerminalTypes
        BY <1>1, <2>1, <3>1 DEF CancelSlot, SchedulerTypeOK, TerminalTypes
      <4> QED
        BY <4>1, FinishEffect, SettledTypes
    <3>2. CASE ~(r # NoRequest /\ req[r].cancel)
      BY <1>1, <3>2 DEF CancelSlot, SchedulerTypeOK
    <3> QED
      BY <3>1, <3>2
  <2> QED
    BY <1>1, <2>1, <2>2 DEF CancelSlot, NextSlot, SchedulerTypeOK
<1>2. ASSUME NEW r \in Requests, Retry(r) PROVE SchedulerTypeOK'
  <2>1. PICK fails \in BOOLEAN :
           /\ PublishTerminal(r, req[r].pending, req[r].cleaned, fails)
           /\ faults' = faults + Cost(fails)
           /\ retryFailed' = (retryFailed \/ fails \/ ~CanPublish(EventOf(r, req[r].pending)))
    BY <1>2 DEF Retry, MayFail
  <2>2. req[r].pending \in TerminalTypes /\ req[r].cleaned \in BOOLEAN
    BY <1>2 DEF Retry, LocalsInv, IsPending, SchedulerTypeOK, Request
  <2>3. Admitted(r) \/ Kept(r)
    BY <2>1, <2>2, PublishTerminalEffect
  <2>4. faults' \in Nat /\ retryFailed' \in BOOLEAN
    BY <2>1 DEF Cost, SchedulerTypeOK
  <2> QED
    BY <1>2, <2>3, <2>4, SettledTypes DEF Retry, SchedulerTypeOK
<1>3. ASSUME NEW r \in Requests, FailActive(r) PROVE SchedulerTypeOK'
  <2>1. Finish(r, "error") /\ "error" \in TerminalTypes
    BY <1>3 DEF FailActive, TerminalTypes
  <2> QED
    BY <1>3, <2>1, FinishEffect, SettledTypes DEF FailActive, SchedulerTypeOK
<1> QED
  BY <1>1, <1>2, <1>3

LEMMA ApplyTypes ==
    ASSUME SchedulerTypeOK, DispatcherTypeOK', NEW st \in steps,
           \/ ApplyCancelled(st) \/ ApplyToken(st) \/ ApplyOverflow(st)
           \/ ApplyThrows(st) \/ ApplyEnd(st)
    PROVE  SchedulerTypeOK'
<1> DEFINE r == st.handle
<1>1. r \in Requests /\ Outcome(st) \in TerminalTypes /\ "cancelled" \in TerminalTypes
      /\ "error" \in TerminalTypes
  BY StepTypes DEF TerminalTypes
<1>2. ASSUME NEW outcome \in TerminalTypes, Finish(r, outcome)
      PROVE  /\ req' \in [Requests -> Request]
             /\ slots' \in [Slots -> Requests \cup {NoRequest}]
             /\ terminal' \in Nat /\ faults' \in Nat
             /\ engine' \in [Requests -> {Absent} \cup Nat]
  BY <1>1, <1>2, FinishEffect, SettledTypes
<1>3. CASE ApplyCancelled(st)
  BY <1>1, <1>2, <1>3 DEF ApplyCancelled, SchedulerTypeOK
<1>4. CASE ApplyToken(st)
  <2>1. [req[r] EXCEPT !.next = @ + 1] \in Request
    BY <1>1, RecordUpdates DEF SchedulerTypeOK
  <2>2. req' \in [Requests -> Request]
    BY <1>4, <2>1 DEF ApplyToken, NumberEvent, SchedulerTypeOK
  <2> QED
    BY <1>1, <1>4, <2>2 DEF ApplyToken, SchedulerTypeOK, boundVars
<1>5. CASE ApplyOverflow(st)
  BY <1>1, <1>2, <1>5 DEF ApplyOverflow, SchedulerTypeOK
<1>6. CASE ApplyThrows(st)
  BY <1>6 DEF ApplyThrows, SchedulerTypeOK, requestVars
<1>7. CASE ApplyEnd(st)
  <2>1. CASE Ends(st)
    BY <1>1, <1>2, <1>7, <2>1 DEF ApplyEnd, SchedulerTypeOK
  <2>2. CASE ~Ends(st)
    BY <1>7, <2>2 DEF ApplyEnd, SchedulerTypeOK
  <2> QED
    BY <2>1, <2>2
<1> QED
  BY <1>3, <1>4, <1>5, <1>6, <1>7

LEMMA TypesKept ==
    ASSUME SchedulerTypeOK, LocalsInv, DispatcherTypeOK', [Next]_vars
    PROVE  SchedulerTypeOK'
<1>1. CASE Client
  BY <1>1, ClientTypes DEF Client
<1>2. CASE CancelAll \/ Closer
  BY <1>2, CloserTypes
<1>3. CASE Worker
  BY <1>3, WorkerMoves, DecodeTypes, PromoteTypes, SweepTypes, ApplyTypes DEF Worker
<1>4. CASE UNCHANGED schedulerVars
  BY <1>4 DEF schedulerVars, requestVars, workerVars, boundVars, SchedulerTypeOK
<1> QED
  BY <1>1, <1>2, <1>3, <1>4 DEF Next, vars

-----------------------------------------------------------------------------
(* The queue of handles *)

InQueue(r) == \E i \in 1..Len(queued) : queued[i] = r

\* The queue goes on without r, in the same order.
Leaves(r) ==
    /\ queued' \in Seq(Requests)
    /\ \A i \in 1..Len(queued') : queued'[i] # r /\ InQueue(queued'[i])
    /\ \A i, j \in 1..Len(queued') : i < j => queued'[i] < queued'[j]
    /\ \A k \in 1..Len(queued) :
          queued[k] # r => \E i \in 1..Len(queued') : queued'[i] = queued[k]

LEMMA QueueOrder ==
    ASSUME SchedulerTypeOK, RequestsPlaced
    PROVE  /\ queued \in Seq(Requests) /\ Len(queued) \in Nat
           /\ \A i, j \in 1..Len(queued) : i < j => queued[i] < queued[j]
           /\ \A i \in 1..Len(queued) : queued[i] \in Requests /\ queued[i] \in Nat
<1>1. queued \in Seq(Requests) /\ Len(queued) \in Nat
  BY DEF SchedulerTypeOK
<1>2. \A i \in 1..Len(queued) : queued[i] \in Requests
  BY <1>1
<1>3. \A i, j \in 1..Len(queued) : i < j => queued[i] < queued[j]
  BY DEF RequestsPlaced
<1> QED
  BY <1>1, <1>2, <1>3, RequestsAssumption

LEMMA QueueUntouched ==
    ASSUME SchedulerTypeOK, RequestsPlaced, NEW r \in Requests, ~InQueue(r),
           UNCHANGED queued
    PROVE  Leaves(r)
BY QueueOrder DEF Leaves, InQueue

LEMMA HeadLeaves ==
    ASSUME SchedulerTypeOK, RequestsPlaced, queued # <<>>, queued' = Tail(queued)
    PROVE  Leaves(Head(queued)) /\ InQueue(Head(queued)) /\ Head(queued) \in Requests
<1>1. /\ queued' \in Seq(Requests) /\ Len(queued') = Len(queued) - 1 /\ Len(queued) > 0
      /\ \A i \in 1..Len(queued') : queued'[i] = queued[i + 1]
      /\ Head(queued) = queued[1] /\ Len(queued) \in Nat
  BY QueueOrder
<1>2. \A i \in 1..Len(queued') : i + 1 \in 1..Len(queued) /\ 1 < i + 1
  BY <1>1
<1>3. \A i \in 1..Len(queued') : queued'[i] # Head(queued) /\ InQueue(queued'[i])
  BY <1>1, <1>2, QueueOrder DEF InQueue
<1>4. \A i, j \in 1..Len(queued') : i < j => queued'[i] < queued'[j]
  BY <1>1, <1>2, QueueOrder
<1>5. ASSUME NEW k \in 1..Len(queued), queued[k] # Head(queued)
      PROVE  \E i \in 1..Len(queued') : queued'[i] = queued[k]
  <2>1. k # 1 /\ k - 1 \in 1..Len(queued')
    BY <1>1, <1>5
  <2> QED
    BY <1>1, <2>1
<1>6. InQueue(Head(queued)) /\ Head(queued) \in Requests
  BY <1>1, QueueOrder DEF InQueue
<1> QED
  BY <1>1, <1>3, <1>4, <1>5, <1>6 DEF Leaves

LEMMA CancelledLeaves ==
    ASSUME SchedulerTypeOK, RequestsPlaced,
           NEW n \in 1..Len(queued), queued' = Without(n)
    PROVE  Leaves(queued[n])
<1> DEFINE before(i) == IF i < n THEN i ELSE i + 1
<1>1. /\ queued' \in Seq(Requests) /\ Len(queued) \in Nat /\ n \in Nat
      /\ Len(queued') = Len(queued) - 1
      /\ \A i \in 1..Len(queued') : queued'[i] = queued[before(i)]
  <2>1. queued' = SubSeq(queued, 1, n - 1) \o SubSeq(queued, n + 1, Len(queued))
    BY DEF Without, RemoveAt
  <2>2. queued \in Seq(Requests) /\ Len(queued) \in Nat /\ n \in Nat
    BY QueueOrder
  <2> DEFINE front == SubSeq(queued, 1, n - 1)
             back == SubSeq(queued, n + 1, Len(queued))
  <2>3. /\ front \in Seq(Requests) /\ Len(front) = n - 1
        /\ \A i \in 1..(n - 1) : front[i] = queued[i]
    BY <2>2
  <2>4. /\ back \in Seq(Requests) /\ Len(back) = Len(queued) - n
        /\ \A i \in 1..(Len(queued) - n) : back[i] = queued[n + i]
    BY <2>2
  <2> HIDE DEF front, back
  <2>5. /\ front \o back \in Seq(Requests)
        /\ Len(front \o back) = Len(queued) - 1
        /\ \A i \in 1..(Len(queued) - 1) :
              (front \o back)[i] = IF i < n THEN front[i] ELSE back[i - (n - 1)]
    <3>1. Len(front) + Len(back) = Len(queued) - 1
      BY <2>2, <2>3, <2>4
    <3>2. /\ front \o back \in Seq(Requests)
          /\ Len(front \o back) = Len(front) + Len(back)
          /\ \A i \in 1..(Len(front) + Len(back)) :
                (front \o back)[i] = IF i <= Len(front) THEN front[i] ELSE back[i - Len(front)]
      BY <2>3, <2>4, ConcatProperties
    <3> QED
      BY <2>2, <2>3, <3>1, <3>2
  <2>6. \A i \in 1..(Len(queued) - 1) : (front \o back)[i] = queued[before(i)]
    <3> SUFFICES ASSUME NEW i \in 1..(Len(queued) - 1)
                 PROVE  (front \o back)[i] = queued[before(i)]
      OBVIOUS
    <3>1. CASE i < n
      BY <2>2, <2>3, <2>5, <3>1
    <3>2. CASE ~(i < n)
      <4>1. i - (n - 1) \in 1..(Len(queued) - n) /\ n + (i - (n - 1)) = i + 1
        BY <2>2, <3>2
      <4> QED
        BY <2>4, <2>5, <3>2, <4>1
    <3> QED
      BY <3>1, <3>2
  <2> QED
    BY <2>1, <2>2, <2>5, <2>6 DEF front, back
<1>2. \A i \in 1..Len(queued') : before(i) \in 1..Len(queued) /\ before(i) # n
  BY <1>1
<1>3. \A i, j \in 1..Len(queued') : i < j => before(i) < before(j)
  BY <1>1
<1>4. \A i \in 1..Len(queued') : queued'[i] # queued[n] /\ InQueue(queued'[i])
  <2> SUFFICES ASSUME NEW i \in 1..Len(queued')
               PROVE  queued'[i] # queued[n] /\ InQueue(queued'[i])
    OBVIOUS
  <2> HIDE DEF before
  <2>1. before(i) \in 1..Len(queued) /\ (before(i) < n \/ n < before(i))
    BY <1>1, <1>2
  <2>2. queued[before(i)] < queued[n] \/ queued[n] < queued[before(i)]
    BY <2>1, QueueOrder
  <2> QED
    BY <1>1, <2>1, <2>2, QueueOrder DEF InQueue
<1>5. \A i, j \in 1..Len(queued') : i < j => queued'[i] < queued'[j]
  <2> HIDE DEF before
  <2> QED
    BY <1>1, <1>2, <1>3, QueueOrder
<1>6. ASSUME NEW k \in 1..Len(queued), queued[k] # queued[n]
      PROVE  \E i \in 1..Len(queued') : queued'[i] = queued[k]
  <2>1. CASE k < n
    BY <1>1, <2>1
  <2>2. CASE n < k
    <3>1. k - 1 \in 1..Len(queued') /\ before(k - 1) = k
      BY <1>1, <2>2
    <3> QED
      BY <1>1, <3>1
  <2> QED
    BY <1>1, <1>6, <2>1, <2>2
<1> QED
  BY <1>1, <1>4, <1>5, <1>6 DEF Leaves

-----------------------------------------------------------------------------
(* Where the requests are, after each kind of step *)

LEMMA TrackedFinite ==
    /\ Tracked \subseteq Requests /\ IsFiniteSet(Tracked)
    /\ Cardinality(Tracked) \in Nat
<1>1. Tracked \subseteq Requests
  BY DEF Tracked
<1> QED
  BY <1>1, RequestsAssumption, FS_Subset, FS_CardinalityType

\* A request in the queue or in a slot is tracked; one in a slot is in no queue.
LEMMA PlacesTracked ==
    ASSUME SchedulerTypeOK, RequestsPlaced
    PROVE  /\ \A r \in Requests : InQueue(r) =>
                 req[r].state = "queued" /\ ~IsPending(r) /\ r \in Tracked
           /\ \A s \in Slots : slots[s] # NoRequest =>
                 InSlot(slots[s]) /\ slots[s] \in Tracked
           /\ \A r \in Requests : InSlot(r) => r \in Tracked /\ ~InQueue(r)
<1>1. ASSUME NEW r \in Requests, InQueue(r)
      PROVE  req[r].state = "queued" /\ ~IsPending(r) /\ r \in Tracked
  BY <1>1 DEF InQueue, RequestsPlaced, Tracked
<1>2. ASSUME NEW s \in Slots, slots[s] # NoRequest
      PROVE  InSlot(slots[s]) /\ slots[s] \in Tracked
  <2>1. slots[s] \in Requests
    BY <1>2 DEF SchedulerTypeOK
  <2>2. req[slots[s]].state \in {"preprocessing", "running"} /\ req[slots[s]].slot = s
    BY <1>2 DEF RequestsPlaced
  <2> QED
    BY <2>1, <2>2 DEF InSlot, Tracked
<1>3. ASSUME NEW r \in Requests, InSlot(r) PROVE r \in Tracked /\ ~InQueue(r)
  BY <1>1, <1>3 DEF InSlot, Tracked
<1> QED
  BY <1>1, <1>2, <1>3

\* A terminal event is admitted: the request leaves, with its place and its permit.
LEMMA Gone ==
    ASSUME SchedulerTypeOK, Placement, NEW r \in Tracked, Leaves(r),
           permits \in [Requests -> {"none", "reserved", "published"}],
           req' = [req EXCEPT ![r] = Erased], slots' = SlotsWithout(r),
           permits' = [permits EXCEPT ![r] = "published"],
           terminal' = terminal + 1, UNCHANGED <<accepted, lastHandle>>
    PROVE  Placement' /\ Tracked' = Tracked \ {r}
<1> USE DEF Placement
<1>1. /\ r \in Requests /\ req \in [Requests -> Request]
      /\ slots \in [Slots -> Requests \cup {NoRequest}] /\ r # NoRequest
  BY RequestsAssumption DEF Tracked, SchedulerTypeOK, NoRequest
<1>2. /\ req'[r] = Erased /\ Erased.state = "erased" /\ Erased.pending = "none"
      /\ \A q \in Requests \ {r} : req'[q] = req[q]
  BY <1>1 DEF Erased, Unknown
<1>3. Tracked' = Tracked \ {r}
  BY <1>2 DEF Tracked
<1>4. HandlesInv'
  <2>1. r <= lastHandle
    <3>1. req[r] # Unknown
      BY DEF Tracked, Unknown
    <3> QED
      BY <1>1, <3>1, RequestsAssumption DEF HandlesInv, SchedulerTypeOK
  <2>2. r \in Nat /\ lastHandle \in Nat
    BY <1>1, RequestsAssumption DEF SchedulerTypeOK
  <2> QED
    BY <1>2, <2>1, <2>2 DEF HandlesInv, IsPending
<1>5. RequestsPlaced'
  <2>1. ASSUME NEW i \in 1..Len(queued')
        PROVE  /\ req'[queued'[i]].state = "queued" /\ ~IsPending(queued[i])'
               /\ \A j \in 1..Len(queued') : i < j => queued'[i] < queued'[j]
    <3>1. queued'[i] # r /\ queued'[i] \in Requests /\ InQueue(queued'[i])
      BY DEF Leaves
    <3>2. req'[queued'[i]].state = "queued" /\ ~IsPending(queued[i])'
      BY <1>2, <3>1, PlacesTracked DEF IsPending
    <3>3. \A j \in 1..Len(queued') : i < j => queued'[i] < queued'[j]
      BY DEF Leaves
    <3> QED
      BY <3>2, <3>3
  <2>2. ASSUME NEW s \in Slots, slots'[s] # NoRequest
        PROVE  req'[slots'[s]].state \in {"preprocessing", "running"} /\ req'[slots'[s]].slot = s
    <3>1. slots'[s] = slots[s] /\ slots[s] # r /\ slots[s] \in Requests
      BY <1>1, <2>2 DEF SlotsWithout
    <3> QED
      BY <1>2, <2>2, <3>1 DEF RequestsPlaced
  <2>3. ASSUME NEW q \in Tracked'
        PROVE  \/ \E i \in 1..Len(queued') : queued'[i] = q
               \/ \E s \in Slots : slots'[s] = q
               \/ IsPending(q)'
    <3>1. q \in Tracked /\ q # r /\ q \in Requests
      BY <1>3 DEF Tracked
    <3>2. CASE \E i \in 1..Len(queued) : queued[i] = q
      BY <3>1, <3>2 DEF Leaves
    <3>3. CASE \E s \in Slots : slots[s] = q
      BY <3>1, <3>3 DEF SlotsWithout
    <3>4. CASE IsPending(q)
      BY <1>2, <3>1, <3>4 DEF IsPending
    <3> QED
      BY <3>1, <3>2, <3>3, <3>4 DEF RequestsPlaced
  <2> QED
    BY <2>1, <2>2, <2>3 DEF RequestsPlaced, IsPending
<1>6. PermitPerRequest'
  BY <1>1, <1>3 DEF PermitPerRequest
<1>7. CountersMatch'
  <2>1. Cardinality(Tracked \ {r}) = Cardinality(Tracked) - 1
    BY TrackedFinite, FS_RemoveElement
  <2> QED
    BY <1>3, <2>1, TrackedFinite DEF CountersMatch, SchedulerTypeOK
<1> QED
  BY <1>3, <1>4, <1>5, <1>6, <1>7

\* It is refused: the request is out of the queue and waits for a retry.
LEMMA StaysPending ==
    ASSUME SchedulerTypeOK, Placement, NEW r \in Tracked, Leaves(r),
           \A q \in Requests \ {r} : req'[q] = req[q],
           req'[r].state = req[r].state, req'[r].slot = req[r].slot,
           req'[r].pending # "none",
           UNCHANGED <<slots, permits, accepted, terminal, lastHandle>>
    PROVE  Placement' /\ Tracked' = Tracked
<1> USE DEF Placement
<1>1. r \in Requests /\ slots \in [Slots -> Requests \cup {NoRequest}]
  BY DEF Tracked, SchedulerTypeOK
<1>2. \A q \in Requests : req'[q].state = req[q].state /\ req'[q].slot = req[q].slot
  OBVIOUS
<1>3. Tracked' = Tracked
  BY <1>2 DEF Tracked
<1>4. HandlesInv'
  <2>1. req[r] # Unknown /\ req[r].state \notin {"unknown", "erased"}
    BY DEF Tracked, Unknown
  <2> QED
    BY <1>1, <1>2, <2>1 DEF HandlesInv, IsPending
<1>5. RequestsPlaced'
  <2>1. ASSUME NEW i \in 1..Len(queued')
        PROVE  /\ req'[queued'[i]].state = "queued" /\ ~IsPending(queued[i])'
               /\ \A j \in 1..Len(queued') : i < j => queued'[i] < queued'[j]
    <3>1. queued'[i] # r /\ queued'[i] \in Requests /\ InQueue(queued'[i])
      BY DEF Leaves
    <3>2. req'[queued'[i]].state = "queued" /\ ~IsPending(queued[i])'
      BY <3>1, PlacesTracked DEF IsPending
    <3>3. \A j \in 1..Len(queued') : i < j => queued'[i] < queued'[j]
      BY DEF Leaves
    <3> QED
      BY <3>2, <3>3
  <2>2. ASSUME NEW s \in Slots, slots'[s] # NoRequest
        PROVE  req'[slots'[s]].state \in {"preprocessing", "running"} /\ req'[slots'[s]].slot = s
    BY <1>1, <1>2, <2>2 DEF RequestsPlaced
  <2>3. ASSUME NEW q \in Tracked'
        PROVE  \/ \E i \in 1..Len(queued') : queued'[i] = q
               \/ \E s \in Slots : slots'[s] = q
               \/ IsPending(q)'
    <3>1. q \in Tracked /\ q \in Requests
      BY <1>3 DEF Tracked
    <3>2. CASE q = r
      BY <3>2 DEF IsPending
    <3>3. CASE q # r
      BY <3>1, <3>3 DEF RequestsPlaced, Leaves, IsPending
    <3> QED
      BY <3>2, <3>3
  <2> QED
    BY <2>1, <2>2, <2>3 DEF RequestsPlaced, IsPending
<1>6. PermitPerRequest'
  BY <1>3 DEF PermitPerRequest
<1>7. CountersMatch'
  BY <1>3 DEF CountersMatch
<1> QED
  BY <1>3, <1>4, <1>5, <1>6, <1>7

\* Only a cancel mark, a number or nothing changes, and no permit is reserved or given up.
SameShape ==
    \A q \in Requests : /\ req'[q].state = req[q].state
                        /\ req'[q].slot = req[q].slot
                        /\ req'[q].pending = req[q].pending
                        /\ q \notin Tracked => req'[q] = req[q]

LEMMA Remarked ==
    ASSUME SchedulerTypeOK, Placement, SameShape,
           \A q \in Requests : permits'[q] = "reserved" <=> permits[q] = "reserved",
           UNCHANGED <<queued, slots, accepted, terminal, lastHandle>>
    PROVE  Placement' /\ Tracked' = Tracked
<1> USE DEF Placement, SameShape
<1>1. Tracked' = Tracked
  BY DEF Tracked
<1>2. HandlesInv'
  <2>1. \A q \in Requests : req[q] = Unknown => q \notin Tracked
    BY DEF Tracked, Unknown
  <2> QED
    BY <2>1 DEF HandlesInv, IsPending
<1>3. RequestsPlaced'
  <2>1. \A i \in 1..Len(queued) : queued[i] \in Requests
    BY QueueOrder
  <2>2. \A s \in Slots : slots[s] # NoRequest => slots[s] \in Requests
    BY DEF SchedulerTypeOK
  <2>3. Tracked \subseteq Requests
    BY DEF Tracked
  <2> QED
    BY <1>1, <2>1, <2>2, <2>3 DEF RequestsPlaced, IsPending
<1>4. PermitPerRequest' /\ CountersMatch'
  BY <1>1 DEF PermitPerRequest, CountersMatch
<1> QED
  BY <1>1, <1>2, <1>3, <1>4

\* A submitted handle is new: it joins the queue behind all others.
LEMMA Joined ==
    ASSUME SchedulerTypeOK, Placement, NEW r \in Requests,
           permits \in [Requests -> {"none", "reserved", "published"}],
           r = lastHandle + 1, lastHandle' = r, SubmitAccepted(r),
           UNCHANGED <<slots, terminal>>
    PROVE  Placement'
<1> USE DEF Placement
<1>1. /\ req \in [Requests -> Request] /\ lastHandle \in Nat /\ r \in Nat /\ r > lastHandle
      /\ accepted \in Nat /\ terminal \in Nat
      /\ slots \in [Slots -> Requests \cup {NoRequest}] /\ r # NoRequest
  BY RequestsAssumption DEF SchedulerTypeOK, NoRequest
<1>2. req[r] = Unknown /\ r \notin Tracked /\ Unknown.pending = "none"
  <2>1. req[r] = Unknown
    BY <1>1 DEF HandlesInv
  <2>2. Unknown.state = "unknown" /\ Unknown.pending = "none"
    BY DEF Unknown
  <2> QED
    BY <2>1, <2>2 DEF Tracked
<1>3. /\ req'[r].state = "queued" /\ req'[r].pending = "none"
      /\ \A q \in Requests \ {r} : req'[q] = req[q]
  BY <1>1, <1>2 DEF SubmitAccepted, Unknown
<1>4. Tracked' = Tracked \cup {r}
  BY <1>2, <1>3 DEF Tracked
<1>5. HandlesInv'
  BY <1>1, <1>3, RequestsAssumption DEF HandlesInv, IsPending
<1>6. RequestsPlaced'
  <2>1. /\ queued' = Append(queued, r) /\ Len(queued) \in Nat
        /\ queued \in Seq(Requests) /\ Len(queued') = Len(queued) + 1
        /\ \A i \in 1..Len(queued) : queued'[i] = queued[i]
        /\ queued'[Len(queued) + 1] = r
    BY QueueOrder DEF SubmitAccepted, JoinQueue
  <2>2. ASSUME NEW i \in 1..Len(queued)
        PROVE  /\ queued[i] \in Requests \ {r} /\ queued[i] < r
               /\ req[queued[i]].state = "queued" /\ ~IsPending(queued[i])
    <3>1. InQueue(queued[i]) /\ queued[i] \in Requests
      BY QueueOrder DEF InQueue
    <3>2. queued[i] \in Tracked
      BY <3>1, PlacesTracked
    <3>3. req[queued[i]] # Unknown
      BY <3>2 DEF Tracked, Unknown
    <3>4. ~(queued[i] > lastHandle)
      BY <3>1, <3>3 DEF HandlesInv
    <3>5. queued[i] \in Nat
      BY <3>1, RequestsAssumption
    <3>6. queued[i] < r
      BY <1>1, <3>4, <3>5
    <3>7. queued[i] # r
      BY <1>1, <3>5, <3>6
    <3> QED
      BY <3>1, <3>6, <3>7, PlacesTracked
  <2>3. ASSUME NEW i \in 1..Len(queued')
        PROVE  /\ req'[queued'[i]].state = "queued" /\ req'[queued'[i]].pending = "none"
               /\ \A j \in 1..Len(queued') : i < j => queued'[i] < queued'[j]
    <3>1. i \in 1..Len(queued) \/ i = Len(queued) + 1
      BY <2>1
    <3>2. req'[queued'[i]].state = "queued" /\ req'[queued'[i]].pending = "none"
      <4>1. CASE i \in 1..Len(queued)
        <5>1. queued'[i] = queued[i] /\ queued[i] \in Requests \ {r}
          BY <2>1, <2>2, <4>1
        <5>2. req'[queued[i]] = req[queued[i]]
          BY <1>3, <5>1
        <5> QED
          BY <2>2, <4>1, <5>1, <5>2 DEF IsPending
      <4>2. CASE i = Len(queued) + 1
        BY <1>3, <2>1, <4>2
      <4> QED
        BY <3>1, <4>1, <4>2
    <3>3. ASSUME NEW j \in 1..Len(queued'), i < j PROVE queued'[i] < queued'[j]
      <4>1. i \in 1..Len(queued)
        BY <2>1, <3>3
      <4>2. CASE j \in 1..Len(queued)
        BY <2>1, <3>3, <4>1, <4>2, QueueOrder
      <4>3. CASE j = Len(queued) + 1
        BY <2>1, <2>2, <4>1, <4>3
      <4> QED
        BY <2>1, <4>2, <4>3
    <3> QED
      BY <3>2, <3>3
  <2>4. ASSUME NEW s \in Slots, slots'[s] # NoRequest
        PROVE  req'[slots'[s]].state \in {"preprocessing", "running"} /\ req'[slots'[s]].slot = s
    <3>1. slots[s] \in Requests /\ slots[s] \in Tracked
      BY <1>1, <2>4, PlacesTracked
    <3> QED
      BY <1>2, <1>3, <2>4, <3>1 DEF RequestsPlaced
  <2>5. ASSUME NEW q \in Tracked'
        PROVE  \/ \E i \in 1..Len(queued') : queued'[i] = q
               \/ \E s \in Slots : slots'[s] = q
               \/ req'[q].pending # "none"
    <3>1. CASE q = r
      BY <2>1, <3>1
    <3>2. CASE q # r
      <4>1. q \in Tracked /\ q \in Requests
        BY <1>4, <3>2 DEF Tracked
      <4>2. CASE \E i \in 1..Len(queued) : queued[i] = q
        BY <2>1, <4>2
      <4>3. CASE (\E s \in Slots : slots[s] = q) \/ IsPending(q)
        BY <1>3, <3>2, <4>1, <4>3 DEF IsPending
      <4> QED
        BY <4>1, <4>2, <4>3 DEF RequestsPlaced
    <3> QED
      BY <3>1, <3>2
  <2> QED
    BY <2>3, <2>4, <2>5 DEF RequestsPlaced, IsPending
<1>7. PermitPerRequest'
  BY <1>4 DEF PermitPerRequest, SubmitAccepted
<1>8. CountersMatch'
  <2>1. Cardinality(Tracked \cup {r}) = Cardinality(Tracked) + 1
    BY <1>2, TrackedFinite, FS_AddElement
  <2> QED
    BY <1>1, <1>4, <2>1, TrackedFinite DEF CountersMatch, SubmitAccepted
<1> QED
  BY <1>5, <1>6, <1>7, <1>8

\* The head of the queue moves to a free slot, started or with a start that failed.
LEMMA Started ==
    ASSUME SchedulerTypeOK, Placement, NEW r \in Requests, InQueue(r), Leaves(r),
           NEW s \in Slots, slots[s] = NoRequest, slots' = [slots EXCEPT ![s] = r],
           \A q \in Requests \ {r} : req'[q] = req[q],
           req'[r].state \in {"preprocessing", "running"}, req'[r].slot = s,
           UNCHANGED <<permits, accepted, terminal, lastHandle>>
    PROVE  Placement' /\ Tracked' = Tracked
<1> USE DEF Placement
<1>1. /\ slots \in [Slots -> Requests \cup {NoRequest}] /\ r # NoRequest
      /\ r \in Tracked /\ req[r].state = "queued"
  BY PlacesTracked, RequestsAssumption DEF SchedulerTypeOK, NoRequest
<1>2. Tracked' = Tracked
  BY <1>1 DEF Tracked
<1>3. HandlesInv'
  <2>1. req[r] # Unknown
    BY <1>1 DEF Unknown
  <2> QED
    BY <2>1 DEF HandlesInv, IsPending
<1>4. RequestsPlaced'
  <2>1. ASSUME NEW i \in 1..Len(queued')
        PROVE  /\ req'[queued'[i]].state = "queued" /\ req'[queued'[i]].pending = "none"
               /\ \A j \in 1..Len(queued') : i < j => queued'[i] < queued'[j]
    <3>1. queued'[i] # r /\ queued'[i] \in Requests /\ InQueue(queued'[i])
      BY DEF Leaves
    <3>2. req'[queued'[i]].state = "queued" /\ req'[queued'[i]].pending = "none"
      BY <3>1, PlacesTracked DEF IsPending
    <3>3. \A j \in 1..Len(queued') : i < j => queued'[i] < queued'[j]
      BY DEF Leaves
    <3> QED
      BY <3>2, <3>3
  <2>2. ASSUME NEW t \in Slots, slots'[t] # NoRequest
        PROVE  req'[slots'[t]].state \in {"preprocessing", "running"} /\ req'[slots'[t]].slot = t
    <3>1. CASE t = s
      BY <1>1, <3>1
    <3>2. CASE t # s
      <4>1. slots'[t] = slots[t] /\ slots[t] \in Requests /\ InSlot(slots[t])
        BY <1>1, <2>2, <3>2, PlacesTracked
      <4>2. slots[t] # r
        BY <1>1, <4>1 DEF InSlot
      <4> QED
        BY <2>2, <4>1, <4>2 DEF RequestsPlaced
    <3> QED
      BY <3>1, <3>2
  <2>3. ASSUME NEW q \in Tracked'
        PROVE  \/ \E i \in 1..Len(queued') : queued'[i] = q
               \/ \E t \in Slots : slots'[t] = q
               \/ req'[q].pending # "none"
    <3>1. CASE q = r
      BY <1>1, <3>1
    <3>2. CASE q # r
      <4>1. q \in Tracked /\ q \in Requests /\ q # NoRequest
        BY <1>2, RequestsAssumption DEF Tracked, NoRequest
      <4>2. CASE \E i \in 1..Len(queued) : queued[i] = q
        BY <3>2, <4>2 DEF Leaves
      <4>3. CASE \E t \in Slots : slots[t] = q
        BY <1>1, <4>1, <4>3
      <4>4. CASE IsPending(q)
        BY <3>2, <4>1, <4>4 DEF IsPending
      <4> QED
        BY <4>1, <4>2, <4>3, <4>4 DEF RequestsPlaced
    <3> QED
      BY <3>1, <3>2
  <2> QED
    BY <2>1, <2>2, <2>3 DEF RequestsPlaced, IsPending
<1>5. PermitPerRequest' /\ CountersMatch'
  BY <1>2 DEF PermitPerRequest, CountersMatch
<1> QED
  BY <1>2, <1>3, <1>4, <1>5

\* The other requests do not notice.
Elsewhere(r) ==
    \A q \in Requests \ {r} : req'[q] = req[q] /\ (InSlot(q) => InSlot(q)')

LEMMA OthersUnmoved ==
    ASSUME SchedulerTypeOK, NEW r \in Requests, Admitted(r) \/ Kept(r)
    PROVE  Elsewhere(r)
<1>1. req \in [Requests -> Request] /\ slots \in [Slots -> Requests \cup {NoRequest}]
  BY DEF SchedulerTypeOK
<1>2. CASE Admitted(r)
  BY <1>1, <1>2 DEF Admitted, CommitTerminal, Elsewhere, InSlot, SlotsWithout
<1>3. CASE Kept(r)
  <2>1. slots' = slots /\ \A q \in Requests \ {r} : req'[q] = req[q]
    BY <1>1, <1>3 DEF Kept
  <2> QED
    BY <2>1 DEF Elsewhere, InSlot
<1> QED
  BY <1>2, <1>3

LEMMA FinishPlaced ==
    ASSUME SchedulerTypeOK, DispatcherInv, Placement, NEW r \in Tracked, Leaves(r),
           Admitted(r) \/ Kept(r), UNCHANGED <<accepted, lastHandle>>
    PROVE  Placement' /\ Tracked' \subseteq Tracked /\ Elsewhere(r)
<1>1. r \in Requests /\ req \in [Requests -> Request] /\ r # NoRequest
      /\ slots \in [Slots -> Requests \cup {NoRequest}]
  BY RequestsAssumption DEF Tracked, SchedulerTypeOK, NoRequest
<1>2. CASE Admitted(r)
  <2>1. /\ req' = [req EXCEPT ![r] = Erased] /\ slots' = SlotsWithout(r)
        /\ permits' = [permits EXCEPT ![r] = "published"] /\ terminal' = terminal + 1
    BY <1>2 DEF Admitted, CommitTerminal, EnqueueTerminal, UsePermit, EventOf
  <2>2. Placement' /\ Tracked' \subseteq Tracked
    BY <2>1, PermitTypes, Gone
  <2> QED
    BY <1>1, <1>2, <2>2, OthersUnmoved
<1>3. CASE Kept(r)
  <2>1. PICK outcome \in TerminalTypes, cleaned \in BOOLEAN :
           req' = [req EXCEPT ![r].pending = outcome, ![r].cleaned = cleaned]
    BY <1>3 DEF Kept
  <2>2. UNCHANGED <<slots, permits, terminal>>
    BY <1>3 DEF Kept, publishVars
  <2>3. /\ req'[r].state = req[r].state /\ req'[r].slot = req[r].slot
        /\ req'[r].pending = outcome /\ outcome # "none"
        /\ \A q \in Requests \ {r} : req'[q] = req[q]
    BY <1>1, <2>1 DEF Request, TerminalTypes
  <2>4. Placement' /\ Tracked' = Tracked
    BY <2>2, <2>3, StaysPending
  <2> QED
    BY <1>1, <1>3, <2>4, OthersUnmoved
<1> QED
  BY <1>2, <1>3

\* A step that moves no request.
LEMMA NobodyMoves ==
    ASSUME SchedulerTypeOK, Placement, UNCHANGED <<requestVars, permits>>
    PROVE  Placement' /\ Tracked' = Tracked
<1>1. UNCHANGED <<lastHandle, queued, req, slots, accepted, terminal, permits>>
  BY DEF requestVars
<1>2. SameShape
  BY <1>1 DEF SameShape
<1> QED
  BY <1>1, <1>2, Remarked

\* The worker's copies stay right when the requests they name are left alone.
LEMMA LocalsCarried ==
    ASSUME SchedulerTypeOK, LocalsInv, worker # "retry",
           UNCHANGED <<worker, handles, steps, ending>>,
           \A q \in Requests : InSlot(q) /\ ~IsPending(q) => InSlot(q)' /\ ~IsPending(q)'
    PROVE  LocalsInv'
<1>1. handles \subseteq Requests /\ \A st \in steps : st.handle \in Requests
  BY StepTypes DEF SchedulerTypeOK
<1> QED
  BY <1>1 DEF LocalsInv

LEMMA ShapeKeepsLocals ==
    ASSUME SchedulerTypeOK, LocalsInv, worker # "retry", SameShape,
           UNCHANGED <<slots, worker, handles, steps, ending>>
    PROVE  LocalsInv'
<1>1. \A q \in Requests : InSlot(q) /\ ~IsPending(q) => InSlot(q)' /\ ~IsPending(q)'
  BY DEF SameShape, InSlot, IsPending
<1> QED
  BY <1>1, LocalsCarried

LEMMA SubmitPlaced ==
    ASSUME SchedulerInv, NEW r \in Requests, Submit(r)
    PROVE  Placement' /\ LocalsInv'
<1> USE DEF SchedulerInv
<1>1. /\ r = lastHandle + 1 /\ lastHandle' = r /\ worker # "retry"
      /\ UNCHANGED <<slots, terminal, worker, handles, steps, ending>>
  BY DEF Submit, workerVars, LockFree
<1>2. req[r] = Unknown
  BY <1>1, RequestsAssumption DEF Placement, HandlesInv, SchedulerTypeOK
<1>3. CASE SubmitAccepted(r)
  <2>1. Placement'
    BY <1>1, <1>3, PermitTypes, Joined
  <2>2. ASSUME NEW q \in Requests, InSlot(q) /\ ~IsPending(q)
        PROVE  InSlot(q)' /\ ~IsPending(q)'
    <3>1. q # r
      BY <1>2, <2>2 DEF InSlot, Unknown
    <3>2. req'[q] = req[q]
      BY <1>3, <3>1 DEF SubmitAccepted, SchedulerTypeOK
    <3> QED
      BY <1>1, <2>2, <3>2 DEF InSlot, IsPending
  <2> QED
    BY <1>1, <2>1, <2>2, LocalsCarried
<1>4. CASE SubmitRefused(r)
  <2>1. UNCHANGED <<queued, req, accepted, permits>>
    BY <1>4 DEF SubmitRefused, RollBackPermit
  <2>2. HandlesInv'
    BY <1>1, <2>1, RequestsAssumption DEF Placement, HandlesInv, IsPending, SchedulerTypeOK
  <2>3. Tracked' = Tracked
    BY <2>1 DEF Tracked
  <2>4. RequestsPlaced'
    BY <1>1, <2>1, <2>3 DEF Placement, RequestsPlaced, IsPending
  <2>5. PermitPerRequest' /\ CountersMatch'
    BY <1>1, <2>1, <2>3 DEF Placement, PermitPerRequest, CountersMatch
  <2>6. LocalsInv'
    BY <1>1, <2>1, LocalsCarried DEF InSlot, IsPending
  <2> QED
    BY <2>2, <2>4, <2>5, <2>6 DEF Placement
<1> QED
  BY <1>3, <1>4 DEF Submit

LEMMA CancelPlaced ==
    ASSUME SchedulerInv, NEW r \in Requests, Cancel(r)
    PROVE  Placement' /\ LocalsInv' /\ Tracked' \subseteq Tracked
<1> USE DEF SchedulerInv
<1>1. /\ r \in Tracked /\ worker # "retry" /\ req \in [Requests -> Request]
      /\ UNCHANGED <<lastHandle, accepted, worker, handles, steps, ending>>
  BY DEF Cancel, workerVars, LockFree, SchedulerTypeOK
<1>2. CASE CancelQueued(r)
  <2>1. PICK i \in 1..Len(queued) : queued[i] = r /\ queued' = Without(i)
    BY <1>2 DEF CancelQueued
  <2>2. Leaves(r)
    BY <2>1, CancelledLeaves DEF Placement
  <2>3. /\ ~InSlot(r)
        /\ \/ Admitted(r)
           \/ /\ req' = [req EXCEPT ![r].cancel = TRUE, ![r].pending = "cancelled"]
              /\ UNCHANGED <<permits, slots, terminal>>
    BY <1>2 DEF CancelQueued, InSlot, Admitted, TerminalTypes, publishVars
  <2>4. Placement' /\ Tracked' \subseteq Tracked /\ Elsewhere(r)
    <3>1. CASE Admitted(r)
      BY <1>1, <2>2, <3>1, FinishPlaced
    <3>2. CASE /\ req' = [req EXCEPT ![r].cancel = TRUE, ![r].pending = "cancelled"]
               /\ UNCHANGED <<permits, slots, terminal>>
      <4>1. /\ req'[r].state = req[r].state /\ req'[r].slot = req[r].slot
            /\ req'[r].pending = "cancelled"
            /\ \A q \in Requests \ {r} : req'[q] = req[q]
        BY <1>1, <3>2 DEF Request
      <4>2. Placement' /\ Tracked' = Tracked
        BY <1>1, <2>2, <3>2, <4>1, StaysPending
      <4>3. Elsewhere(r)
        BY <3>2, <4>1 DEF Elsewhere, InSlot
      <4> QED
        BY <4>2, <4>3
    <3> QED
      BY <2>3, <3>1, <3>2
  <2>5. LocalsInv'
    BY <1>1, <2>3, <2>4, LocalsCarried DEF Elsewhere, IsPending
  <2> QED
    BY <2>4, <2>5
<1>3. CASE CancelInSlot(r)
  <2>1. /\ SameShape
        /\ UNCHANGED <<queued, slots, terminal, permits>>
    BY <1>1, <1>3 DEF CancelInSlot, publishVars, Request, SameShape
  <2>2. Placement' /\ Tracked' = Tracked
    BY <1>1, <2>1, Remarked
  <2>3. LocalsInv'
    BY <1>1, <2>1, ShapeKeepsLocals
  <2> QED
    BY <2>2, <2>3
<1> QED
  BY <1>2, <1>3 DEF Cancel

LEMMA CloserPlaced ==
    ASSUME SchedulerInv, CancelAll \/ Closer
    PROVE  Placement' /\ LocalsInv' /\ Tracked' \subseteq Tracked
<1> USE DEF SchedulerInv
<1>1. CASE CancelAll
  <2>1. /\ SameShape
        /\ UNCHANGED <<queued, slots, terminal, accepted, lastHandle, permits,
                       worker, handles, steps, ending>>
        /\ worker # "retry"
    <3>1. req \in [Requests -> Request]
      BY DEF SchedulerTypeOK
    <3>2. req' = [r \in Requests |-> IF r \in Tracked THEN [req[r] EXCEPT !.cancel = TRUE]
                                                     ELSE req[r]]
      BY <1>1 DEF CancelAll
    <3> QED
      BY <1>1, <3>1, <3>2 DEF CancelAll, dispatcherVars, workerVars, LockFree, Request, SameShape
  <2>2. Placement' /\ Tracked' = Tracked
    BY <2>1, Remarked
  <2>3. LocalsInv'
    BY <2>1, ShapeKeepsLocals
  <2> QED
    BY <2>2, <2>3
<1>2. CASE DrainQueued
  <2> DEFINE r == Head(queued)
  <2>1. /\ Leaves(r) /\ InQueue(r) /\ r \in Requests
    BY <1>2, HeadLeaves DEF DrainQueued, Placement
  <2>2. r \in Tracked /\ ~IsPending(r) /\ ~InSlot(r)
    BY <2>1, PlacesTracked DEF Placement
  <2>3. Admitted(r) \/ Kept(r)
    BY <1>2, <2>1, <2>2, FinishEffect DEF DrainQueued, TerminalTypes
  <2>4. Placement' /\ Tracked' \subseteq Tracked /\ Elsewhere(r)
    BY <1>2, <2>1, <2>2, <2>3, FinishPlaced DEF DrainQueued
  <2>5. worker # "retry" /\ UNCHANGED <<worker, handles, steps, ending>>
    BY <1>2 DEF DrainQueued, LockInv, workerVars
  <2>6. LocalsInv'
    BY <2>2, <2>4, <2>5, LocalsCarried DEF Elsewhere, IsPending
  <2> QED
    BY <2>4, <2>6
<1>3. CASE DrainDone \/ WaitIdle \/ StopWorker \/ JoinWorker
  <2>1. UNCHANGED <<requestVars, permits, workerVars>>
    BY <1>3 DEF DrainDone, WaitIdle, StopWorker, JoinWorker, dispatcherVars
  <2>2. Placement' /\ Tracked' = Tracked
    BY <2>1, NobodyMoves
  <2>3. LocalsInv'
    BY <2>1, <2>2 DEF LocalsInv, workerVars, requestVars, InSlot, IsPending
  <2> QED
    BY <2>2, <2>3
<1> QED
  BY <1>1, <1>2, <1>3 DEF Closer

LEMMA WorkerMovesPlaced ==
    ASSUME SchedulerInv,
           Wake \/ WorkerExit \/ RetryDone \/ PromoteNothing \/ BeginDecode \/ FailDone
           \/ Decode \/ SendMetrics
    PROVE  Placement' /\ LocalsInv' /\ Tracked' \subseteq Tracked
<1> USE DEF SchedulerInv
<1>1. UNCHANGED <<requestVars, permits>>
  BY DEF Wake, WorkerExit, RetryDone, PromoteNothing, BeginDecode, FailDone, SendMetrics,
         Decode, DecodeThrows, DecodeFails, DecodeAdvances, dispatcherVars
<1>2. Placement' /\ Tracked' = Tracked
  BY <1>1, NobodyMoves
<1>3. /\ UNCHANGED <<req, slots>>
      /\ \A r : (InSlot(r)' <=> InSlot(r)) /\ (IsPending(r)' <=> IsPending(r))
  BY <1>1 DEF requestVars, InSlot, IsPending
<1>4. LocalsInv'
  <2> USE <1>2, <1>3 DEF LocalsInv
  <2>1. CASE Wake
    BY <2>1 DEF Wake, Pending
  <2>2. CASE WorkerExit
    BY <2>2 DEF WorkerExit
  <2>3. CASE RetryDone
    BY <2>3 DEF RetryDone
  <2>4. CASE PromoteNothing
    BY <2>4 DEF PromoteNothing, NextSlot
  <2>5. CASE BeginDecode
    <3>1. \A r \in Active : InSlot(r) /\ ~IsPending(r)
      <4> SUFFICES ASSUME NEW r \in Active PROVE InSlot(r) /\ ~IsPending(r)
        OBVIOUS
      <4>1. PICK s \in Slots : slots[s] = r
        BY DEF Active
      <4>2. r \in Requests /\ ~IsPending(r) /\ r # NoRequest
        BY RequestsAssumption DEF Active, NoRequest
      <4> QED
        BY <4>1, <4>2, PlacesTracked DEF Placement
    <3> QED
      BY <2>5, <3>1 DEF BeginDecode
  <2>6. CASE FailDone
    BY <2>6 DEF FailDone
  <2>7. CASE SendMetrics
    BY <2>7 DEF SendMetrics
  <2>8. CASE Decode
    <3>1. CASE DecodeThrows
      BY <3>1 DEF DecodeThrows
    <3>2. CASE DecodeFails
      <4>1. steps' = {[handle |-> r, bytes |-> FALSE, finished |-> FALSE, failed |-> TRUE] :
                       r \in handles}
        BY <3>2 DEF DecodeFails
      <4>2. \A st \in steps' : st.handle \in handles
        BY <4>1
      <4> DEFINE step(r) == [handle |-> r, bytes |-> FALSE, finished |-> FALSE, failed |-> TRUE]
      <4>3. ASSUME NEW st \in steps', NEW t \in steps', st.handle = t.handle PROVE st = t
        <5>1. PICK r \in handles : st = step(r)
          BY <4>1
        <5>2. PICK q \in handles : t = step(q)
          BY <4>1
        <5>3. r = q
          BY <4>3, <5>1, <5>2
        <5> QED
          BY <5>1, <5>2, <5>3
      <4> QED
        BY <3>2, <4>2, <4>3 DEF DecodeFails
    <3>3. CASE DecodeAdvances
      <4>1. PICK batch, sampled, done, bytes \in SUBSET handles :
               Advance(batch, sampled, done, bytes)
        BY <3>3 DEF DecodeAdvances
      <4>2. steps' = {[handle |-> r, bytes |-> r \in bytes, finished |-> r \in done,
                        failed |-> FALSE] : r \in sampled}
        BY <4>1 DEF Advance
      <4>3. \A st \in steps' : st.handle \in handles
        BY <4>2
      <4> DEFINE step(r) == [handle |-> r, bytes |-> r \in bytes, finished |-> r \in done,
                             failed |-> FALSE]
      <4>4. ASSUME NEW st \in steps', NEW t \in steps', st.handle = t.handle PROVE st = t
        <5>1. PICK r \in sampled : st = step(r)
          BY <4>2
        <5>2. PICK q \in sampled : t = step(q)
          BY <4>2
        <5>3. r = q
          BY <4>4, <5>1, <5>2
        <5> QED
          BY <5>1, <5>2, <5>3
      <4> QED
        BY <3>3, <4>3, <4>4 DEF DecodeAdvances
    <3> QED
      BY <2>8, <3>1, <3>2, <3>3 DEF Decode
  <2> QED
    BY <2>1, <2>2, <2>3, <2>4, <2>5, <2>6, <2>7, <2>8
<1> QED
  BY <1>2, <1>4

LEMMA CancelSlotPlaced ==
    ASSUME SchedulerInv, CancelSlot
    PROVE  Placement' /\ LocalsInv' /\ Tracked' \subseteq Tracked
<1> USE DEF SchedulerInv
<1> DEFINE r == slots[cursor]
<1>1. LocalsInv'
  BY DEF CancelSlot, NextSlot, LocalsInv
<1>2. UNCHANGED <<queued, accepted, lastHandle>>
  BY DEF CancelSlot
<1>3. CASE Settled
  BY <1>1, <1>2, <1>3, NobodyMoves DEF Settled, publishVars, requestVars
<1>4. CASE ~Settled
  <2>1. r # NoRequest /\ Finish(r, "cancelled") /\ cursor \in Slots
    BY <1>4 DEF CancelSlot, Settled, SchedulerTypeOK
  <2>2. r \in Tracked /\ r \in Requests /\ ~InQueue(r)
    BY <2>1, PlacesTracked DEF Placement, Tracked
  <2>3. Leaves(r)
    BY <1>2, <2>2, QueueUntouched DEF Placement
  <2>4. Admitted(r) \/ Kept(r)
    BY <1>4, <2>1, <2>2, FinishEffect DEF TerminalTypes
  <2> QED
    BY <1>1, <1>2, <2>2, <2>3, <2>4, FinishPlaced
<1> QED
  BY <1>3, <1>4

LEMMA PromotePlaced ==
    ASSUME SchedulerInv, Promote
    PROVE  Placement' /\ LocalsInv' /\ Tracked' \subseteq Tracked
<1> USE DEF SchedulerInv
<1> DEFINE r == Head(queued)
<1>1. LocalsInv'
  BY DEF Promote, NextSlot, LocalsInv
<1>2. Leaves(r) /\ InQueue(r) /\ r \in Requests
  BY HeadLeaves DEF Promote, Placement
<1>3. r \in Tracked /\ ~IsPending(r)
  BY <1>2, PlacesTracked DEF Placement
<1>4. /\ UNCHANGED <<accepted, lastHandle>>
      /\ cursor \in Slots /\ slots[cursor] = NoRequest /\ req \in [Requests -> Request]
  BY DEF Promote, SchedulerTypeOK
<1>5. CASE Admitted(r) \/ Kept(r)
  BY <1>1, <1>2, <1>3, <1>4, <1>5, FinishPlaced
<1>6. CASE /\ slots' = [slots EXCEPT ![cursor] = r]
           /\ UNCHANGED <<permits, terminal>>
           /\ \A q \in Requests \ {r} : req'[q] = req[q]
           /\ req'[r].state \in {"preprocessing", "running"} /\ req'[r].slot = cursor
  BY <1>1, <1>2, <1>4, <1>6, Started
<1>7. CASE Finish(r, "cancelled")
  BY <1>2, <1>3, <1>5, <1>7, FinishEffect DEF TerminalTypes
<1>8. CASE StartOk(r)
  <2>1. req' = [req EXCEPT ![r].state = "running", ![r].slot = cursor, ![r].started = TRUE]
    BY <1>8 DEF StartOk
  <2>2. /\ \A q \in Requests \ {r} : req'[q] = req[q]
        /\ req'[r].state = "running" /\ req'[r].slot = cursor
    BY <1>2, <1>4, <2>1 DEF Request
  <2> QED
    BY <1>6, <1>8, <2>2 DEF StartOk, publishVars
<1>9. CASE StartFailed(r)
  <2>1. CASE Admitted(r)
    BY <1>5, <2>1
  <2>2. CASE ~Admitted(r)
    <3>1. /\ req' = [req EXCEPT ![r].state = "preprocessing", ![r].slot = cursor,
                               ![r].pending = "error"]
          /\ slots' = [slots EXCEPT ![cursor] = r]
          /\ UNCHANGED <<permits, terminal>>
      BY <1>9, <2>2 DEF StartFailed, Admitted, TerminalTypes, publishVars
    <3>2. /\ \A q \in Requests \ {r} : req'[q] = req[q]
          /\ req'[r].state = "preprocessing" /\ req'[r].slot = cursor
      BY <1>2, <1>4, <3>1 DEF Request
    <3> QED
      BY <1>6, <3>1, <3>2
  <2> QED
    BY <2>1, <2>2
<1> QED
  BY <1>7, <1>8, <1>9 DEF Promote

LEMMA RetryPlaced ==
    ASSUME SchedulerInv, NEW r \in Requests, Retry(r)
    PROVE  Placement' /\ LocalsInv' /\ Tracked' \subseteq Tracked
<1> USE DEF SchedulerInv
<1>1. /\ r \in Tracked /\ IsPending(r) /\ worker = "retry"
      /\ \A q \in handles : q \in Tracked /\ IsPending(q)
      /\ steps = {} /\ ending = NoRequest
      /\ handles' = handles \ {r}
      /\ UNCHANGED <<queued, accepted, lastHandle, worker, steps, ending>>
  BY DEF Retry, LocalsInv
<1>2. ~InQueue(r)
  BY <1>1, PlacesTracked DEF Placement
<1>3. Leaves(r)
  BY <1>1, <1>2, QueueUntouched DEF Placement
<1>4. Admitted(r) \/ Kept(r)
  <2>1. PICK fails \in BOOLEAN : PublishTerminal(r, req[r].pending, req[r].cleaned, fails)
    BY DEF Retry, MayFail
  <2>2. req[r].pending \in TerminalTypes /\ req[r].cleaned \in BOOLEAN
    BY <1>1 DEF IsPending, SchedulerTypeOK, Request
  <2> QED
    BY <2>1, <2>2, PublishTerminalEffect
<1>5. Placement' /\ Tracked' \subseteq Tracked /\ Elsewhere(r)
  BY <1>1, <1>3, <1>4, FinishPlaced
<1>6. LocalsInv'
  <2>1. handles \subseteq Requests
    BY DEF SchedulerTypeOK
  <2>2. \A q \in handles' : q \in Tracked' /\ IsPending(q)'
    BY <1>1, <1>5, <2>1 DEF Elsewhere, Tracked, IsPending
  <2> QED
    BY <1>1, <2>2 DEF LocalsInv
<1> QED
  BY <1>5, <1>6

LEMMA FailActivePlaced ==
    ASSUME SchedulerInv, NEW r \in Requests, FailActive(r)
    PROVE  Placement' /\ LocalsInv' /\ Tracked' \subseteq Tracked
<1> USE DEF SchedulerInv
<1>1. /\ worker = "fail" /\ \A q \in handles : InSlot(q) /\ ~IsPending(q)
      /\ r \in handles /\ steps = {} /\ ending = NoRequest
      /\ handles' = handles \ {r} /\ handles \subseteq Requests
      /\ UNCHANGED <<queued, accepted, lastHandle, worker, steps, ending>>
  BY DEF FailActive, LocalsInv, SchedulerTypeOK
<1>2. r \in Tracked /\ ~InQueue(r)
  BY <1>1, PlacesTracked DEF Placement
<1>3. Leaves(r)
  BY <1>1, <1>2, QueueUntouched DEF Placement
<1>4. Admitted(r) \/ Kept(r)
  BY <1>1, FinishEffect DEF FailActive, TerminalTypes
<1>5. Placement' /\ Tracked' \subseteq Tracked /\ Elsewhere(r)
  BY <1>1, <1>2, <1>3, <1>4, FinishPlaced
<1>6. LocalsInv'
  <2>1. \A q \in handles' : InSlot(q)' /\ ~IsPending(q)'
    BY <1>1, <1>5 DEF Elsewhere, IsPending
  <2> QED
    BY <1>1, <2>1 DEF LocalsInv
<1> QED
  BY <1>5, <1>6

LEMMA ApplyPlaced ==
    ASSUME SchedulerInv, NEW st \in steps,
           \/ ApplyCancelled(st) \/ ApplyToken(st) \/ ApplyOverflow(st)
           \/ ApplyThrows(st) \/ ApplyEnd(st)
    PROVE  Placement' /\ LocalsInv' /\ Tracked' \subseteq Tracked
<1> USE DEF SchedulerInv
<1> DEFINE r == st.handle
<1>1. /\ worker = "apply" /\ r \in Requests /\ InSlot(r) /\ ~IsPending(r)
      /\ \A t \in steps : t.handle \in Requests /\ InSlot(t.handle) /\ ~IsPending(t.handle)
      /\ \A t \in steps : t.handle = r => t = st
      /\ \A t, u \in steps : t.handle = u.handle => t = u
  BY StepTypes DEF ApplyCancelled, ApplyToken, ApplyOverflow, ApplyThrows, ApplyEnd, Applying,
                   LocalsInv
<1>2. r \in Tracked /\ ~InQueue(r)
  BY <1>1, PlacesTracked DEF Placement
<1>3. ASSUME NEW outcome \in TerminalTypes, Finish(r, outcome),
             UNCHANGED <<queued, accepted, lastHandle, worker>>,
             steps' = steps \ {st}, ending' = NoRequest
      PROVE  Placement' /\ LocalsInv' /\ Tracked' \subseteq Tracked
  <2>1. Leaves(r)
    BY <1>1, <1>2, <1>3, QueueUntouched DEF Placement
  <2>2. Admitted(r) \/ Kept(r)
    BY <1>1, <1>3, FinishEffect
  <2>3. Placement' /\ Tracked' \subseteq Tracked /\ Elsewhere(r)
    BY <1>2, <1>3, <2>1, <2>2, FinishPlaced
  <2>4. \A t \in steps' : InSlot(t.handle)' /\ ~IsPending(t.handle)'
    <3> SUFFICES ASSUME NEW t \in steps \ {st}
                 PROVE  InSlot(t.handle)' /\ ~IsPending(t.handle)'
      BY <1>3
    <3>1. t.handle \in Requests \ {r} /\ InSlot(t.handle) /\ ~IsPending(t.handle)
      BY <1>1
    <3> QED
      BY <2>3, <3>1 DEF Elsewhere, IsPending
  <2>5. LocalsInv'
    BY <1>1, <1>3, <2>4 DEF LocalsInv
  <2> QED
    BY <2>3, <2>5
<1>4. CASE ApplyCancelled(st) \/ ApplyOverflow(st)
  <2>1. PICK outcome \in {"cancelled", "error"} : Finish(r, outcome)
    BY <1>4 DEF ApplyCancelled, ApplyOverflow
  <2> QED
    BY <1>3, <1>4, <2>1 DEF ApplyCancelled, ApplyOverflow, Applying, TerminalTypes
<1>5. CASE ApplyToken(st)
  <2>1. SameShape /\ UNCHANGED <<slots, queued, accepted, terminal, lastHandle, permits, worker>>
    BY <1>1, <1>2, <1>5
    DEF ApplyToken, NumberEvent, SameShape, SchedulerTypeOK, Request
  <2>2. Placement' /\ Tracked' = Tracked
    BY <2>1, Remarked
  <2>3. \A q \in Requests : (InSlot(q) => InSlot(q)') /\ (~IsPending(q) => ~IsPending(q)')
    BY <2>1 DEF SameShape, InSlot, IsPending
  <2>4. /\ steps' \subseteq steps
        /\ ending' # NoRequest => ending' = r /\ Ends(st) /\ st \in steps'
    BY <1>5 DEF ApplyToken
  <2>5. LocalsInv'
    BY <1>1, <2>1, <2>3, <2>4 DEF LocalsInv
  <2> QED
    BY <2>2, <2>5
<1>6. CASE ApplyThrows(st)
  <2>1. Placement' /\ Tracked' = Tracked
    BY <1>6, NobodyMoves DEF ApplyThrows, dispatcherVars
  <2>2. LocalsInv'
    BY <1>6 DEF ApplyThrows, Applying, LocalsInv
  <2> QED
    BY <2>1, <2>2
<1>7. CASE ApplyEnd(st)
  <2>1. steps' = steps \ {st} /\ ending' = NoRequest
        /\ UNCHANGED <<queued, accepted, lastHandle, worker>>
    BY <1>7 DEF ApplyEnd
  <2>2. CASE Ends(st)
    BY <1>3, <1>7, <2>1, <2>2, StepTypes DEF ApplyEnd
  <2>3. CASE ~Ends(st)
    <3>1. UNCHANGED <<requestVars, permits>>
      BY <1>7, <2>1, <2>3 DEF ApplyEnd, requestVars, publishVars
    <3>2. Placement' /\ Tracked' = Tracked
      BY <3>1, NobodyMoves
    <3>3. \A q : (InSlot(q)' <=> InSlot(q)) /\ (IsPending(q)' <=> IsPending(q))
      BY <3>1 DEF requestVars, InSlot, IsPending
    <3>4. LocalsInv'
      BY <1>1, <2>1, <3>3 DEF LocalsInv
    <3> QED
      BY <3>2, <3>4
  <2> QED
    BY <2>2, <2>3
<1> QED
  BY <1>4, <1>5, <1>6, <1>7

\* A step of the dispatcher gives up no reserved permit of a tracked request.
LEMMA DispatcherPlaced ==
    ASSUME SchedulerInv, Dispatcher, UNCHANGED schedulerVars
    PROVE  Placement' /\ LocalsInv' /\ Tracked' \subseteq Tracked
<1> USE DEF SchedulerInv
<1>1. UNCHANGED <<lastHandle, queued, req, slots, accepted, terminal, worker, handles, steps,
                  ending>>
  BY DEF schedulerVars, requestVars, workerVars
<1>2. SameShape
  BY <1>1 DEF SameShape
<1>3. \A q \in Requests : permits'[q] = "reserved" <=> permits[q] = "reserved"
  <2>1. CASE Complete
    <3>1. CASE IsTerminal(current)
      <4>1. current.request \in Requests
        BY <2>1, <3>1, EventTypes DEF Complete, DispatcherInv, DispatcherTypeOK
      <4>2. permits[current.request] = "published"
        BY <3>1, <4>1 DEF DispatcherInv, TerminalMatchesPermit, IsTerminalOf
      <4>3. permits' = [permits EXCEPT ![current.request] = "none"]
        BY <2>1, <3>1 DEF Complete
      <4> QED
        BY <4>1, <4>2, <4>3, PermitTypes
    <3>2. CASE ~IsTerminal(current)
      BY <2>1, <3>2 DEF Complete
    <3> QED
      BY <3>1, <3>2
  <2>2. ASSUME NEW c \in Callers, StopJoined(c)
        PROVE  \A q \in Requests : permits'[q] = "reserved" <=> permits[q] = "reserved"
    <3>1. Tracked = {}
      BY <2>2 DEF StopJoined, ClosedInv
    <3>2. \A q \in Requests : permits[q] # "reserved"
      BY <3>1 DEF Placement, PermitPerRequest
    <3> QED
      BY <2>2, <3>2 DEF StopJoined
  <2>3. CASE Take \/ Exit \/ \E c \in Callers : StopBegin(c) \/ StopAwaited(c)
    BY <2>3 DEF Take, Exit, StopBegin, StopAwaited
  <2> QED
    BY <2>1, <2>2, <2>3 DEF Dispatcher, DispatcherThread, Stopper
<1>4. Placement' /\ Tracked' = Tracked
  BY <1>1, <1>2, <1>3, Remarked
<1>5. LocalsInv'
  BY <1>1, <1>4 DEF LocalsInv, InSlot, IsPending
<1> QED
  BY <1>4, <1>5

-----------------------------------------------------------------------------
(* The two threads that share mutex_ over several steps, and the end *)

LEMMA PlacementKept ==
    ASSUME SchedulerInv, [Next]_vars
    PROVE  /\ Placement' /\ LocalsInv'
           /\ Tracked' \subseteq Tracked \/ (closer = "open" /\ closer' = "open")
<1>1. CASE Client
  <2>1. ASSUME NEW r \in Requests, Submit(r) PROVE closer = "open" /\ closer' = "open"
    BY <2>1 DEF Submit, Open
  <2> QED
    BY <1>1, <2>1, SubmitPlaced, CancelPlaced DEF Client
<1>2. CASE CancelAll \/ Closer
  BY <1>2, CloserPlaced
<1>3. CASE Worker
  BY <1>3, WorkerMovesPlaced, CancelSlotPlaced, PromotePlaced, RetryPlaced, FailActivePlaced,
     ApplyPlaced DEF Worker
<1>4. CASE Dispatcher /\ UNCHANGED schedulerVars
  BY <1>4, DispatcherPlaced
<1>5. CASE UNCHANGED vars
  <2>1. UNCHANGED <<requestVars, permits, workerVars>>
    BY <1>5 DEF vars, schedulerVars, dispatcherVars
  <2>2. Placement' /\ Tracked' = Tracked
    BY <2>1, NobodyMoves DEF SchedulerInv
  <2>3. LocalsInv'
    BY <2>1, <2>2 DEF SchedulerInv, LocalsInv, workerVars, requestVars, InSlot, IsPending
  <2> QED
    BY <2>2, <2>3
<1> QED
  BY <1>1, <1>2, <1>3, <1>4, <1>5 DEF Next

LEMMA LockKept == ASSUME SchedulerInv, [Next]_vars PROVE LockInv'
<1> USE DEF SchedulerInv, LockInv
<1>1. CASE Client
  BY <1>1 DEF Client, Submit, Cancel, workerVars
<1>2. CASE CancelAll \/ Closer
  BY <1>2 DEF CancelAll, Closer, DrainQueued, DrainDone, WaitIdle, StopWorker, JoinWorker,
              workerVars, LockFree
<1>3. CASE Worker
  <2>1. closer' = closer
    BY <1>3 DEF Worker, Wake, WorkerExit, RetryDone, CancelSlot, Promote, PromoteNothing,
                BeginDecode, FailDone, SendMetrics, Retry, FailActive, ApplyCancelled,
                ApplyToken, ApplyOverflow, ApplyThrows, ApplyEnd, Decode, DecodeThrows,
                DecodeFails, DecodeAdvances
  <2>2. closer # "draining"
    BY <1>3 DEF Worker, Wake, WorkerExit, RetryDone, CancelSlot, Promote, PromoteNothing,
                BeginDecode, FailDone, SendMetrics, Retry, FailActive, ApplyCancelled,
                ApplyToken, ApplyOverflow, ApplyThrows, ApplyEnd, Decode, Applying, LockFree
  <2> QED
    BY <2>1, <2>2
<1>4. CASE UNCHANGED schedulerVars
  BY <1>4 DEF schedulerVars, workerVars
<1> QED
  BY <1>1, <1>2, <1>3, <1>4 DEF Next, vars

\* The threads of the scheduler never stop the dispatcher.
LEMMA DispatcherLeftRunning ==
    ASSUME Client \/ CancelAll \/ Closer \/ Worker
    PROVE  /\ UNCHANGED <<stopping, callerPc>>
           /\ closer = "joined" => closer' = "joined"
<1> USE DEF otherDispatcherVars, dispatcherVars, stopVars, callerVars
<1>1. CASE Client
  BY <1>1 DEF Client, Submit, Cancel, Open
<1>2. CASE CancelAll \/ Closer
  BY <1>2 DEF CancelAll, Closer, DrainQueued, DrainDone, WaitIdle, StopWorker, JoinWorker, Open
<1>3. CASE Worker
  BY <1>3 DEF Worker, Wake, WorkerExit, RetryDone, CancelSlot, Promote, PromoteNothing,
              BeginDecode, FailDone, SendMetrics, Retry, FailActive, ApplyCancelled,
              ApplyToken, ApplyOverflow, ApplyThrows, ApplyEnd, Decode, DecodeThrows,
              DecodeFails, DecodeAdvances
<1> QED
  BY <1>1, <1>2, <1>3

LEMMA ClosedKept == ASSUME SchedulerInv, [Next]_vars PROVE ClosedInv'
<1> USE DEF SchedulerInv
<1>1. (closer \in {"drained", "joining", "joined"} => Tracked = {})'
  <2>1. CASE WaitIdle
    <3>1. Cardinality(Tracked) = 0
      BY <2>1, TrackedFinite DEF WaitIdle, Idle, Placement, CountersMatch, SchedulerTypeOK
    <3>2. Tracked = {}
      BY <3>1, TrackedFinite, FS_EmptySet
    <3>3. Tracked' = Tracked
      BY <2>1 DEF WaitIdle, requestVars, Tracked
    <3> QED
      BY <3>2, <3>3
  <2>2. CASE ~WaitIdle
    <3>1. closer' \in {"drained", "joining", "joined"} =>
             closer \in {"drained", "joining", "joined"}
      <4>1. CASE Client
        BY <4>1 DEF Client, Submit, Cancel
      <4>2. CASE CancelAll \/ Closer
        BY <2>2, <4>2 DEF CancelAll, Closer, DrainQueued, DrainDone, StopWorker, JoinWorker
      <4>3. CASE Worker
        BY <4>3 DEF Worker, Wake, WorkerExit, RetryDone, CancelSlot, Promote, PromoteNothing,
                    BeginDecode, FailDone, SendMetrics, Retry, FailActive, ApplyCancelled,
                    ApplyToken, ApplyOverflow, ApplyThrows, ApplyEnd, Decode, DecodeThrows,
                    DecodeFails, DecodeAdvances
      <4>4. CASE UNCHANGED schedulerVars
        BY <4>4 DEF schedulerVars
      <4> QED
        BY <4>1, <4>2, <4>3, <4>4 DEF Next, vars
    <3> QED
      BY <3>1, PlacementKept DEF ClosedInv
  <2> QED
    BY <2>1, <2>2
<1>2. (stopping => closer = "joined")' /\ (\A c \in Callers : callerPc[c] # "idle" => closer = "joined")'
  <2>1. CASE Client \/ CancelAll \/ Closer \/ Worker
    BY <2>1, DispatcherLeftRunning DEF ClosedInv
  <2>2. CASE Dispatcher /\ UNCHANGED schedulerVars
    <3>1. closer' = closer
      BY <2>2 DEF schedulerVars
    <3>2. callerPc \in [Callers -> {"idle", "flushing", "joining", "awaiting"}]
      BY DEF DispatcherInv, DispatcherTypeOK
    <3>3. CASE DispatcherThread
      BY <3>1, <3>3 DEF DispatcherThread, Take, Complete, Exit, stopVars, callerVars, ClosedInv
    <3>4. ASSUME NEW c \in Callers, Stopper(c) PROVE closer = "joined"
      BY <3>2, <3>4 DEF Stopper, StopJoined, StopAwaited, ClosedInv
    <3> QED
      BY <2>2, <3>1, <3>3, <3>4 DEF Dispatcher
  <2>3. CASE UNCHANGED vars
    BY <2>3 DEF vars, dispatcherVars, stopVars, callerVars, schedulerVars, ClosedInv
  <2> QED
    BY <2>1, <2>2, <2>3 DEF Next
<1> QED
  BY <1>1, <1>2 DEF ClosedInv

LEMMA SchedulerInitially == ASSUME SchedulerInit PROVE SchedulerInv
<1> USE DEF SchedulerInit
<1>1. DispatcherInv
  BY DispatcherInitially
<1>2. 0 \in Slots /\ <<>> \in Seq(Requests)
  BY SchedulerAssumption, EmptySeq DEF Slots
<1>3. SchedulerTypeOK
  BY <1>1, <1>2, ErasedIsRequest, SchedulerAssumption DEF SchedulerTypeOK, DispatcherInv
<1>4. /\ \A r \in Requests : req[r] = Unknown
      /\ Unknown.state = "unknown" /\ Unknown.pending = "none"
  BY DEF Unknown
<1>5. Tracked = {}
  BY <1>4 DEF Tracked
<1>6. HandlesInv
  BY <1>4 DEF HandlesInv, IsPending
<1>7. RequestsPlaced
  BY <1>2, <1>5, EmptySeq DEF RequestsPlaced
<1>8. PermitPerRequest
  BY <1>5 DEF PermitPerRequest, DispatcherInit
<1>9. CountersMatch
  BY <1>5, FS_EmptySet DEF CountersMatch
<1>10. LockInv /\ LocalsInv /\ ClosedInv
  BY DEF LockInv, LocalsInv, ClosedInv, DispatcherInit
<1> QED
  BY <1>1, <1>3, <1>6, <1>7, <1>8, <1>9, <1>10 DEF SchedulerInv, Placement

-----------------------------------------------------------------------------
(* The theorems *)

(* The inductive invariant: whatever clients, the worker, the closing       *)
(* thread, the dispatcher and transient failures do in whatever order,      *)
(* records, queue, slots, permits and counters tell the same story.         *)
THEOREM SchedulerInvariant == Spec => []SchedulerInv
<1>1. SchedulerInit => SchedulerInv
  BY SchedulerInitially
<1>2. SchedulerInv /\ [Next]_vars => SchedulerInv'
  <2> SUFFICES ASSUME SchedulerInv, [Next]_vars PROVE SchedulerInv'
    OBVIOUS
  <2>1. DispatcherInv'
    BY DispatcherKept DEF SchedulerInv
  <2>2. SchedulerTypeOK'
    BY <2>1, TypesKept DEF SchedulerInv, DispatcherInv
  <2>3. Placement' /\ LocalsInv'
    BY PlacementKept
  <2> QED
    BY <2>1, <2>2, <2>3, LockKept, ClosedKept DEF SchedulerInv
<1> QED
  BY <1>1, <1>2, PTL DEF Spec

(* Type correctness of the scheduler; in particular the engine's remaining  *)
(* work and the dispatcher's unsigned counters never go below zero, and the *)
(* worker's cursor never leaves the slots.                                  *)
THEOREM SchedulerTypeCorrect == Spec => []SchedulerTypeOK
BY SchedulerInvariant, PTL DEF SchedulerInv

(* No request is lost by scheduler.cpp: a request in requests_ is in the    *)
(* queue, in its slot, or has a terminal event to retry, and holds the      *)
(* permit of that event until it is admitted: publish cannot refuse it for  *)
(* lack of room, whatever the capacities.                                   *)
THEOREM NoRequestLost == Spec => []RequestsHeld
<1>1. SchedulerInv => RequestsHeld
  BY DEF SchedulerInv, Placement, RequestsHeld
<1> QED
  BY <1>1, SchedulerInvariant, PTL

(* The counters cancel_all_and_wait compares differ by the number of        *)
(* requests in requests_, so its wait ends neither early nor never.         *)
THEOREM WaitCountsRequests == Spec => []CountersMatch
BY SchedulerInvariant, PTL DEF SchedulerInv, Placement

-----------------------------------------------------------------------------
(* The engine's sequences *)

\* What the flags of a record say about its place in the engine.
FlagsRight(r) ==
    /\ req[r].started <=> req[r].state = "running"
    /\ req[r].cleaned => IsPending(r)
    /\ req[r].state = "preprocessing" => IsPending(r)

RecordsInv == \A r \in Tracked : FlagsRight(r)

OwnershipInv == SequencesOwned /\ RecordsInv

\* The right-hand side of SequencesOwned: the request runs in its slot.
Runs(r) ==
    /\ req[r].state = "running" /\ ~IsPending(r)
    /\ req[r].slot \in Slots /\ slots[req[r].slot] = r

-----------------------------------------------------------------------------
\* A request that the step leaves alone, in the engine as well.
LEMMA OthersOwned ==
    ASSUME SchedulerInv, OwnershipInv, SchedulerTypeOK', NEW r \in Requests, Elsewhere(r),
           \A q \in Requests \ {r} : engine'[q] = engine[q],
           \A q \in Requests \ {r} : Runs(q)' => Runs(q),
           r \in Tracked' => FlagsRight(r)',
           engine'[r] # Absent <=> Runs(r)'
    PROVE  OwnershipInv'
<1>1. ASSUME NEW q \in Requests \ {r} PROVE engine'[q] # Absent <=> Runs(q)'
  <2>1. req'[q] = req[q] /\ engine'[q] = engine[q] /\ (InSlot(q) => InSlot(q)')
    BY DEF Elsewhere
  <2>2. engine[q] # Absent <=> Runs(q)
    BY DEF OwnershipInv, SequencesOwned, Runs
  <2>3. Runs(q) => Runs(q)'
    BY <2>1 DEF Runs, InSlot, IsPending
  <2>4. Runs(q)' => Runs(q)
    OBVIOUS
  <2> QED
    BY <2>1, <2>2, <2>3, <2>4
<1>2. SequencesOwned'
  BY <1>1 DEF SequencesOwned, Runs
<1>3. RecordsInv'
  <2>1. ASSUME NEW q \in Tracked', q # r PROVE FlagsRight(q)'
    <3>1. q \in Requests /\ req'[q] = req[q]
      BY <2>1 DEF Tracked, Elsewhere
    <3>2. q \in Tracked
      BY <3>1 DEF Tracked
    <3> QED
      BY <3>1, <3>2 DEF OwnershipInv, RecordsInv, FlagsRight, IsPending
  <2> QED
    BY <2>1 DEF RecordsInv
<1> QED
  BY <1>2, <1>3 DEF OwnershipInv

\* The request leaves, or waits for its retry; either way it is out of the engine.
LEMMA FinishOwned ==
    ASSUME SchedulerInv, OwnershipInv, SchedulerTypeOK', NEW r \in Tracked,
           Elsewhere(r), Admitted(r) \/ Kept(r), engine' \in [Requests -> {Absent} \cup Nat],
           engine'[r] = Absent, \A q \in Requests \ {r} : engine'[q] = engine[q]
    PROVE  OwnershipInv'
<1>1. /\ r \in Requests /\ req \in [Requests -> Request]
      /\ slots \in [Slots -> Requests \cup {NoRequest}] /\ FlagsRight(r)
      /\ NoRequest \notin Requests
  BY RequestsAssumption
  DEF Tracked, SchedulerInv, SchedulerTypeOK, OwnershipInv, RecordsInv, NoRequest
<1>2. CASE Admitted(r)
  <2>1. /\ req' = [req EXCEPT ![r] = Erased] /\ slots' = SlotsWithout(r)
    BY <1>2 DEF Admitted, CommitTerminal
  <2>2. req'[r].state = "erased"
    BY <1>1, <2>1 DEF Erased, Unknown
  <2>3. r \notin Tracked' /\ ~Runs(r)'
    BY <2>2 DEF Tracked, Runs
  <2>4. \A q \in Requests \ {r} : Runs(q)' => Runs(q)
    BY <1>1, <2>1 DEF Runs, SlotsWithout, IsPending
  <2> QED
    BY <1>1, <2>3, <2>4, OthersOwned
<1>3. CASE Kept(r)
  <2>1. PICK outcome \in TerminalTypes, cleaned \in BOOLEAN :
           req' = [req EXCEPT ![r].pending = outcome, ![r].cleaned = cleaned]
    BY <1>3 DEF Kept
  <2>2. /\ req'[r].pending # "none" /\ req'[r].state = req[r].state
        /\ req'[r].started = req[r].started
    BY <1>1, <2>1 DEF Request, TerminalTypes
  <2>5. /\ \A q \in Requests \ {r} : req'[q] = req[q]
        /\ slots' = slots
    BY <1>1, <1>3, <2>1 DEF Kept
  <2>3. FlagsRight(r)' /\ ~Runs(r)'
    BY <1>1, <2>2 DEF FlagsRight, Runs, IsPending
  <2>4. \A q \in Requests \ {r} : Runs(q)' => Runs(q)
    BY <2>5 DEF Runs, IsPending
  <2> QED
    BY <1>1, <2>3, <2>4, OthersOwned
<1> QED
  BY <1>2, <1>3

\* finish_locked removes the sequence of a request that has one.
LEMMA FinishEngine ==
    ASSUME SchedulerInv, OwnershipInv, NEW r \in Tracked, ~IsPending(r),
           NEW outcome, Finish(r, outcome)
    PROVE  engine'[r] = Absent /\ \A q \in Requests \ {r} : engine'[q] = engine[q]
<1>1. /\ r \in Requests /\ engine \in [Requests -> {Absent} \cup Nat] /\ FlagsRight(r)
      /\ engine[r] # Absent => Runs(r)
  BY DEF Tracked, SchedulerInv, SchedulerTypeOK, OwnershipInv, RecordsInv, SequencesOwned, Runs
<1>2. engine' = IF NeedsCleanup(r) THEN [engine EXCEPT ![r] = Absent] ELSE engine
  BY DEF Finish
<1>3. NeedsCleanup(r) <=> req[r].state = "running"
  BY <1>1 DEF NeedsCleanup, FlagsRight
<1> QED
  BY <1>1, <1>2, <1>3 DEF Runs

LEMMA FinishedOwned ==
    ASSUME SchedulerInv, OwnershipInv, SchedulerTypeOK', NEW r \in Tracked, ~IsPending(r),
           NEW outcome \in TerminalTypes, Finish(r, outcome)
    PROVE  OwnershipInv'
<1>1. r \in Requests /\ SchedulerTypeOK
  BY DEF Tracked, SchedulerInv
<1>2. Admitted(r) \/ Kept(r)
  BY <1>1, FinishEffect
<1>3. Elsewhere(r)
  BY <1>1, <1>2, OthersUnmoved
<1>4. engine' \in [Requests -> {Absent} \cup Nat]
  BY DEF SchedulerTypeOK
<1> QED
  BY <1>2, <1>3, <1>4, FinishEngine, FinishOwned

\* Cancel marks and event numbers say nothing about the engine.
LEMMA SameOwners ==
    ASSUME OwnershipInv, UNCHANGED slots,
           \A q \in Requests : engine'[q] = Absent <=> engine[q] = Absent,
           \A q \in Requests : /\ req'[q].state = req[q].state
                               /\ req'[q].slot = req[q].slot
                               /\ req'[q].pending = req[q].pending
                               /\ req'[q].started = req[q].started
                               /\ req'[q].cleaned = req[q].cleaned
    PROVE  OwnershipInv'
<1>1. Tracked' = Tracked /\ Tracked \subseteq Requests
  BY DEF Tracked
<1>2. SequencesOwned'
  BY DEF OwnershipInv, SequencesOwned, IsPending
<1>3. RecordsInv'
  BY <1>1 DEF OwnershipInv, RecordsInv, FlagsRight, IsPending
<1> QED
  BY <1>2, <1>3 DEF OwnershipInv

LEMMA UntouchedOwned ==
    ASSUME OwnershipInv, UNCHANGED <<req, slots, engine>> PROVE OwnershipInv'
BY SameOwners

LEMMA SubmitOwned ==
    ASSUME SchedulerInv, OwnershipInv, SchedulerTypeOK', NEW r \in Requests, Submit(r)
    PROVE  OwnershipInv'
<1>1. UNCHANGED <<slots, engine>> /\ req \in [Requests -> Request]
  BY DEF Submit, SchedulerInv, SchedulerTypeOK
<1>2. CASE SubmitRefused(r)
  BY <1>1, <1>2, UntouchedOwned DEF SubmitRefused
<1>3. CASE SubmitAccepted(r)
  <2>1. req[r] = Unknown
    BY RequestsAssumption
    DEF Submit, SchedulerInv, SchedulerTypeOK, Placement, HandlesInv
  <2>2. ~Runs(r) /\ engine[r] = Absent
    BY <2>1 DEF Runs, Unknown, OwnershipInv, SequencesOwned
  <2>3. /\ \A q \in Requests \ {r} : req'[q] = req[q]
        /\ req'[r].state = "queued" /\ ~req'[r].started /\ ~req'[r].cleaned
    BY <1>1, <1>3, <2>1 DEF SubmitAccepted, Unknown
  <2>4. FlagsRight(r)' /\ ~Runs(r)' /\ Elsewhere(r)
    BY <1>1, <2>3 DEF FlagsRight, Runs, Elsewhere, InSlot
  <2>5. \A q \in Requests \ {r} : Runs(q)' => Runs(q)
    BY <1>1, <2>3 DEF Runs, IsPending
  <2> QED
    BY <1>1, <2>2, <2>4, <2>5, OthersOwned
<1> QED
  BY <1>2, <1>3 DEF Submit

LEMMA CancelOwned ==
    ASSUME SchedulerInv, OwnershipInv, SchedulerTypeOK', NEW r \in Requests, Cancel(r)
    PROVE  OwnershipInv'
<1>1. /\ r \in Tracked /\ req \in [Requests -> Request] /\ FlagsRight(r)
      /\ engine \in [Requests -> {Absent} \cup Nat]
  BY DEF Cancel, SchedulerInv, SchedulerTypeOK, OwnershipInv, RecordsInv
<1>2. CASE CancelQueued(r)
  <2>1. engine' = engine /\ engine[r] = Absent /\ req[r].state = "queued"
    BY <1>2 DEF CancelQueued, OwnershipInv, SequencesOwned
  <2>2. CASE Admitted(r)
    BY <1>1, <2>1, <2>2, OthersUnmoved, FinishOwned DEF SchedulerInv
  <2>3. CASE ~Admitted(r)
    <3>1. /\ req' = [req EXCEPT ![r].cancel = TRUE, ![r].pending = "cancelled"]
          /\ slots' = slots
      BY <1>2, <2>3 DEF CancelQueued, Admitted, TerminalTypes
    <3>2. /\ req'[r].pending = "cancelled" /\ req'[r].started = req[r].started
          /\ req'[r].state = "queued"
          /\ \A q \in Requests \ {r} : req'[q] = req[q]
      BY <1>1, <2>1, <3>1 DEF Request
    <3>3. FlagsRight(r)' /\ ~Runs(r)' /\ Elsewhere(r)
      BY <1>1, <2>1, <3>1, <3>2 DEF FlagsRight, Runs, Elsewhere, InSlot, IsPending
    <3>4. \A q \in Requests \ {r} : Runs(q)' => Runs(q)
      BY <3>1, <3>2 DEF Runs, IsPending
    <3> QED
      BY <2>1, <3>3, <3>4, OthersOwned
  <2> QED
    BY <2>2, <2>3
<1>3. CASE CancelInSlot(r)
  <2>1. UNCHANGED <<slots, engine>> /\ req' = [req EXCEPT ![r].cancel = TRUE]
    BY <1>3 DEF CancelInSlot
  <2> QED
    BY <1>1, <2>1, SameOwners DEF Request
<1> QED
  BY <1>2, <1>3 DEF Cancel

LEMMA CloserOwned ==
    ASSUME SchedulerInv, OwnershipInv, SchedulerTypeOK', CancelAll \/ Closer
    PROVE  OwnershipInv'
<1>1. CASE CancelAll
  <2>1. req \in [Requests -> Request] /\ UNCHANGED <<slots, engine>>
    BY <1>1 DEF CancelAll, SchedulerInv, SchedulerTypeOK
  <2>2. req' = [r \in Requests |-> IF r \in Tracked THEN [req[r] EXCEPT !.cancel = TRUE]
                                                   ELSE req[r]]
    BY <1>1 DEF CancelAll
  <2> QED
    BY <2>1, <2>2, SameOwners DEF Request
<1>2. CASE DrainQueued
  <2> DEFINE r == Head(queued)
  <2>1. InQueue(r) /\ r \in Requests
    BY <1>2, HeadLeaves DEF DrainQueued, SchedulerInv, Placement
  <2>2. r \in Tracked /\ ~IsPending(r)
    BY <2>1, PlacesTracked DEF SchedulerInv, Placement
  <2> QED
    BY <1>2, <2>2, FinishedOwned DEF DrainQueued, TerminalTypes
<1>3. CASE DrainDone \/ WaitIdle \/ StopWorker \/ JoinWorker
  BY <1>3, UntouchedOwned DEF DrainDone, WaitIdle, StopWorker, JoinWorker, requestVars
<1> QED
  BY <1>1, <1>2, <1>3 DEF Closer

LEMMA PromoteOwned ==
    ASSUME SchedulerInv, OwnershipInv, SchedulerTypeOK', Promote
    PROVE  OwnershipInv'
<1>0. PICK r \in Requests : r = Head(queued)
  BY HeadLeaves DEF Promote, SchedulerInv, Placement
<1>1. InQueue(r) /\ r \in Requests
  BY <1>0, HeadLeaves DEF Promote, SchedulerInv, Placement
<1>2. r \in Tracked /\ ~IsPending(r) /\ req[r].state = "queued" /\ FlagsRight(r)
  BY <1>1, PlacesTracked DEF SchedulerInv, Placement, OwnershipInv, RecordsInv
<1>3. /\ engine[r] = Absent /\ engine \in [Requests -> {Absent} \cup Nat]
      /\ req \in [Requests -> Request] /\ slots \in [Slots -> Requests \cup {NoRequest}]
      /\ cursor \in Slots /\ slots[cursor] = NoRequest
  BY <1>1, <1>2 DEF OwnershipInv, SequencesOwned, SchedulerInv, SchedulerTypeOK, Promote
<1>4. NoRequest \notin Requests /\ \A work \in 1..MaxWork : work # Absent
  BY RequestsAssumption, SchedulerAssumption DEF NoRequest, Absent
<1>5. ASSUME slots' = [slots EXCEPT ![cursor] = r],
             \A q \in Requests \ {r} : req'[q] = req[q]
      PROVE  Elsewhere(r) /\ \A q \in Requests \ {r} : Runs(q)' => Runs(q)
  BY <1>1, <1>3, <1>4, <1>5 DEF Elsewhere, InSlot, Runs, IsPending
<1>6. CASE Finish(r, "cancelled")
  BY <1>2, <1>6, FinishedOwned DEF TerminalTypes
<1>7. CASE StartOk(r)
  <2>1. /\ req' = [req EXCEPT ![r].state = "running", ![r].slot = cursor, ![r].started = TRUE]
        /\ slots' = [slots EXCEPT ![cursor] = r]
    BY <1>7 DEF StartOk
  <2>2. PICK work \in 1..MaxWork : engine' = [engine EXCEPT ![r] = work]
    BY <1>7 DEF StartOk
  <2>3. /\ \A q \in Requests \ {r} : req'[q] = req[q] /\ engine'[q] = engine[q]
        /\ engine'[r] # Absent
    BY <1>1, <1>3, <1>4, <2>1, <2>2
  <2>4. /\ req'[r].state = "running" /\ req'[r].slot = cursor /\ req'[r].started = TRUE
        /\ req'[r].pending = req[r].pending /\ req'[r].cleaned = req[r].cleaned
    BY <1>1, <1>3, <2>1 DEF Request
  <2>5. FlagsRight(r)' /\ Runs(r)'
    BY <1>1, <1>2, <1>3, <2>1, <2>4 DEF FlagsRight, Runs, IsPending
  <2> QED
    BY <1>1, <1>5, <2>1, <2>3, <2>5, OthersOwned
<1>8. CASE StartFailed(r)
  <2>1. engine' = engine
    BY <1>8 DEF StartFailed
  <2>2. CASE Admitted(r)
    BY <1>2, <1>3, <2>1, <2>2, OthersUnmoved, FinishOwned, <1>1 DEF SchedulerInv
  <2>3. CASE ~Admitted(r)
    <3>1. /\ req' = [req EXCEPT ![r].state = "preprocessing", ![r].slot = cursor,
                               ![r].pending = "error"]
          /\ slots' = [slots EXCEPT ![cursor] = r]
      BY <1>8, <2>3 DEF StartFailed, Admitted, TerminalTypes
    <3>2. /\ \A q \in Requests \ {r} : req'[q] = req[q]
          /\ req'[r].state = "preprocessing" /\ req'[r].started = req[r].started
          /\ req'[r].pending = "error"
      BY <1>1, <1>3, <3>1 DEF Request
    <3>3. FlagsRight(r)' /\ ~Runs(r)'
      BY <1>2, <3>2 DEF FlagsRight, Runs, IsPending
    <3> QED
      BY <1>1, <1>3, <1>5, <2>1, <3>1, <3>2, <3>3, OthersOwned
  <2> QED
    BY <2>2, <2>3
<1> QED
  BY <1>6, <1>7, <1>8, <1>0 DEF Promote

LEMMA DecodeOwned == ASSUME SchedulerInv, OwnershipInv, Decode PROVE OwnershipInv'
<1>1. UNCHANGED <<req, slots>>
  BY DEF Decode, DecodeThrows, DecodeFails, DecodeAdvances, requestVars
<1>2. CASE DecodeThrows \/ DecodeFails
  BY <1>1, <1>2, UntouchedOwned DEF DecodeThrows, DecodeFails
<1>3. CASE DecodeAdvances
  <2>1. PICK batch, sampled, done, bytes \in SUBSET handles :
           /\ \A r \in batch : engine[r] > 0
           /\ done \subseteq batch
           /\ Advance(batch, sampled, done, bytes)
    BY <1>3 DEF DecodeAdvances
  <2>2. engine \in [Requests -> {Absent} \cup Nat] /\ handles \subseteq Requests
    BY DEF SchedulerInv, SchedulerTypeOK
  <2>3. ASSUME NEW q \in Requests PROVE engine'[q] = Absent <=> engine[q] = Absent
    <3>1. engine'[q] = IF q \in done THEN 0
                       ELSE IF q \in batch THEN engine[q] - 1 ELSE engine[q]
      BY <2>1 DEF Advance
    <3>2. engine[q] = Absent \/ engine[q] \in Nat
      BY <2>2
    <3> QED
      BY <2>1, <3>1, <3>2 DEF Absent
  <2> QED
    BY <1>1, <2>3, SameOwners
<1> QED
  BY <1>2, <1>3 DEF Decode

LEMMA SweepOwned ==
    ASSUME SchedulerInv, OwnershipInv, SchedulerTypeOK',
           CancelSlot \/ \E r \in Requests : Retry(r) \/ FailActive(r)
    PROVE  OwnershipInv'
<1>1. CASE CancelSlot
  <2> DEFINE r == slots[cursor]
  <2>1. CASE r # NoRequest /\ req[r].cancel
    <3>1. r \in Tracked /\ Finish(r, "cancelled") /\ r \in Requests
      BY <1>1, <2>1, PlacesTracked
      DEF CancelSlot, SchedulerInv, SchedulerTypeOK, Placement, Tracked
    <3>2. CASE IsPending(r)
      BY <3>1, <3>2, UntouchedOwned DEF Finish
    <3>3. CASE ~IsPending(r)
      BY <3>1, <3>3, FinishedOwned DEF TerminalTypes
    <3> QED
      BY <3>2, <3>3
  <2>2. CASE ~(r # NoRequest /\ req[r].cancel)
    BY <1>1, <2>2, UntouchedOwned DEF CancelSlot
  <2> QED
    BY <2>1, <2>2
<1>2. ASSUME NEW r \in Requests, Retry(r) PROVE OwnershipInv'
  <2>1. r \in Tracked /\ IsPending(r) /\ engine' = engine
    BY <1>2 DEF Retry, SchedulerInv, LocalsInv
  <2>2. engine'[r] = Absent /\ engine' \in [Requests -> {Absent} \cup Nat]
    BY <2>1 DEF OwnershipInv, SequencesOwned, SchedulerTypeOK
  <2>3. Admitted(r) \/ Kept(r)
    <3>1. PICK fails \in BOOLEAN : PublishTerminal(r, req[r].pending, req[r].cleaned, fails)
      BY <1>2 DEF Retry, MayFail
    <3>2. req[r].pending \in TerminalTypes /\ req[r].cleaned \in BOOLEAN
      BY <2>1 DEF IsPending, SchedulerInv, SchedulerTypeOK, Request
    <3> QED
      BY <3>1, <3>2, PublishTerminalEffect
  <2> QED
    BY <2>1, <2>2, <2>3, OthersUnmoved, FinishOwned DEF SchedulerInv
<1>3. ASSUME NEW r \in Requests, FailActive(r) PROVE OwnershipInv'
  <2>1. InSlot(r) /\ ~IsPending(r) /\ Finish(r, "error")
    BY <1>3 DEF FailActive, SchedulerInv, LocalsInv
  <2> QED
    BY <2>1, PlacesTracked, FinishedOwned DEF SchedulerInv, Placement, TerminalTypes
<1> QED
  BY <1>1, <1>2, <1>3

LEMMA ApplyOwned ==
    ASSUME SchedulerInv, OwnershipInv, SchedulerTypeOK', NEW st \in steps,
           \/ ApplyCancelled(st) \/ ApplyToken(st) \/ ApplyOverflow(st)
           \/ ApplyThrows(st) \/ ApplyEnd(st)
    PROVE  OwnershipInv'
<1> DEFINE r == st.handle
<1>1. r \in Tracked /\ ~IsPending(r) /\ Outcome(st) \in TerminalTypes /\ r \in Requests
  <2>1. r \in Requests /\ InSlot(r) /\ ~IsPending(r) /\ Outcome(st) \in TerminalTypes
    BY StepTypes DEF ApplyCancelled, ApplyToken, ApplyOverflow, ApplyThrows, ApplyEnd, Applying,
                     SchedulerInv, LocalsInv
  <2> QED
    BY <2>1, PlacesTracked DEF SchedulerInv, Placement
<1>2. CASE ApplyCancelled(st) \/ ApplyOverflow(st)
  BY <1>1, <1>2, FinishedOwned DEF ApplyCancelled, ApplyOverflow, TerminalTypes
<1>3. CASE ApplyToken(st)
  BY <1>1, <1>3, SameOwners
  DEF ApplyToken, NumberEvent, SchedulerInv, SchedulerTypeOK, Request
<1>4. CASE ApplyThrows(st)
  BY <1>4, UntouchedOwned DEF ApplyThrows, requestVars
<1>5. CASE ApplyEnd(st)
  BY <1>1, <1>5, FinishedOwned, UntouchedOwned DEF ApplyEnd
<1> QED
  BY <1>2, <1>3, <1>4, <1>5

LEMMA OwnershipKept ==
    ASSUME SchedulerInv, OwnershipInv, SchedulerTypeOK', [Next]_vars
    PROVE  OwnershipInv'
<1>1. CASE Client
  BY <1>1, SubmitOwned, CancelOwned DEF Client
<1>2. CASE CancelAll \/ Closer
  BY <1>2, CloserOwned
<1>3. CASE Worker
  <2>1. CASE Wake \/ WorkerExit \/ RetryDone \/ PromoteNothing \/ BeginDecode \/ FailDone
             \/ SendMetrics
    BY <2>1, UntouchedOwned
    DEF Wake, WorkerExit, RetryDone, PromoteNothing, BeginDecode, FailDone, SendMetrics,
        requestVars
  <2> QED
    BY <1>3, <2>1, PromoteOwned, DecodeOwned, SweepOwned, ApplyOwned DEF Worker
<1>4. CASE UNCHANGED schedulerVars
  BY <1>4, UntouchedOwned DEF schedulerVars, requestVars
<1> QED
  BY <1>1, <1>2, <1>3, <1>4 DEF Next, vars

-----------------------------------------------------------------------------
(* The theorems *)

(* The engine's sequences and the flags of the records go together.         *)
THEOREM OwnershipInvariant == Spec => [](SchedulerInv /\ OwnershipInv)
<1>1. SchedulerInit => OwnershipInv
  <2> SUFFICES ASSUME SchedulerInit PROVE OwnershipInv
    OBVIOUS
  <2>1. \A r \in Requests : req[r].state = "unknown" /\ engine[r] = Absent
    BY DEF SchedulerInit, Unknown
  <2> QED
    BY <2>1 DEF OwnershipInv, SequencesOwned, RecordsInv, Tracked
<1>2. SchedulerInv /\ SchedulerInv' /\ OwnershipInv /\ [Next]_vars => OwnershipInv'
  BY OwnershipKept DEF SchedulerInv
<1> QED
  BY <1>1, <1>2, SchedulerInvariant, PTL DEF Spec

(* A sequence lives in the engine exactly while its request runs in its     *)
(* slot: the sequence of a finished request is removed before the slot, and *)
(* with it the sequence's identifier, goes to the next request, also when   *)
(* publishes and cleanups fail.                                             *)
THEOREM SequencesHaveOneOwner == Spec => []SequencesOwned
BY OwnershipInvariant, PTL DEF OwnershipInv

(* The requests engine_.decode was given stay in the engine, unfinished and *)
(* in their slots, for as long as it runs without the lock.                 *)
THEOREM DecodedRequestsStay == Spec => []DecodeOnLiveSequences
<1>1. SchedulerInv /\ OwnershipInv => DecodeOnLiveSequences
  <2> SUFFICES ASSUME SchedulerInv, OwnershipInv, worker = "decode", NEW r \in handles
               PROVE  engine[r] # Absent /\ ~IsPending(r) /\ slots[req[r].slot] = r
    BY DEF DecodeOnLiveSequences
  <2>1. InSlot(r) /\ ~IsPending(r) /\ r \in Requests
    BY DEF SchedulerInv, LocalsInv, SchedulerTypeOK
  <2>2. FlagsRight(r)
    BY <2>1, PlacesTracked DEF SchedulerInv, Placement, OwnershipInv, RecordsInv
  <2>3. Runs(r)
    BY <2>1, <2>2 DEF InSlot, FlagsRight, Runs
  <2> QED
    BY <2>1, <2>3 DEF Runs, OwnershipInv, SequencesOwned
<1> QED
  BY <1>1, OwnershipInvariant, PTL

-----------------------------------------------------------------------------
(* What the callback hears *)

\* The events of a request that wait in the queue.
Waiting(r) == {i \in 1..Len(eventQueue) : eventQueue[i].request = r}

\* Numbers increase along the queue, after what was delivered; nothing follows
\* a terminal event.
Ordered(r) ==
    /\ \A i, j \in Waiting(r) : i < j =>
          eventQueue[i].seq < eventQueue[j].seq /\ ~IsTerminal(eventQueue[i])
    /\ \A i \in Waiting(r) : received[r].last < eventQueue[i].seq

\* A tracked request has not ended for the callback, and its next number is new.
Unfinished(r) ==
    r \in Tracked =>
        /\ received[r].last < req[r].next /\ received[r].ended = "no"
        /\ \A i \in Waiting(r) :
              eventQueue[i].seq < req[r].next /\ ~IsTerminal(eventQueue[i])

\* Nothing is said of a request that was not accepted.
Silence(r) ==
    req[r].state = "unknown" =>
        /\ permits[r] = "none" /\ Waiting(r) = {}
        /\ received[r].last = 0 /\ received[r].ended = "no"

\* The end is the last event; one that was not heard waits in the queue.
Finality(r) ==
    /\ received[r].ended # "no" => Waiting(r) = {}
    /\ req[r].state = "erased" /\ received[r].ended = "no" =>
          \E i \in Waiting(r) : IsTerminal(eventQueue[i])
    /\ IsTerminalOf(current, r) => received[r].ended # "no"

Story(r) == Ordered(r) /\ Unfinished(r) /\ Silence(r) /\ Finality(r)

\* A request whose last token was published is finished before anyone can cancel it.
EndingUncancelled == ending # NoRequest => ~req[ending].cancel

StoryInv == (\A r \in Requests : Story(r)) /\ EndingUncancelled

-----------------------------------------------------------------------------
(* What a step says *)

\* A request whose record says the same to this part of the proof.
Same(r) ==
    /\ req'[r].state = "unknown" <=> req[r].state = "unknown"
    /\ req'[r].state = "erased" <=> req[r].state = "erased"
    /\ r \in Tracked' <=> r \in Tracked
    /\ req'[r].next = req[r].next
Others(r) == \A q \in Requests \ {r} : Same(q)

Silent ==
    /\ \A r \in Requests : Same(r)
    /\ UNCHANGED <<eventQueue, permits, received, current, accepted>>

Reports ==
    /\ \A r \in Requests : Same(r)
    /\ eventQueue' = Append(eventQueue, Metrics)
    /\ UNCHANGED <<permits, received, current, accepted>>

Accepts(r) ==
    /\ req[r].state = "unknown" /\ req[r].next = 1
    /\ r \in Tracked' /\ req'[r].state # "unknown" /\ req'[r].state # "erased"
    /\ req'[r].next = 2
    /\ permits' = [permits EXCEPT ![r] = "reserved"]
    /\ eventQueue' = Append(eventQueue, EventOf(r, "queued"))
    /\ accepted' = accepted + 1
    /\ Others(r) /\ UNCHANGED <<received, current>>

Speaks(r) ==
    /\ r \in Tracked /\ ~req[r].cancel
    /\ r \in Tracked' /\ req'[r].state # "unknown" /\ req'[r].state # "erased"
    /\ req'[r].next = req[r].next + 1
    /\ eventQueue' = Append(eventQueue, EventOf(r, "token"))
    /\ Others(r) /\ UNCHANGED <<permits, received, current, accepted>>

\* A cancelled request is done only if that was decided before.
Concludes(r, outcome) ==
    /\ r \in Tracked /\ (outcome = "done" => IsPending(r) \/ ~req[r].cancel)
    /\ r \notin Tracked' /\ req'[r].state = "erased"
    /\ permits' = [permits EXCEPT ![r] = "published"]
    /\ eventQueue' = Append(eventQueue, EventOf(r, outcome))
    /\ Others(r) /\ UNCHANGED <<received, current, accepted>>

Says == \/ Silent \/ Reports
        \/ \E r \in Requests : \/ Accepts(r) \/ Speaks(r)
                               \/ \E outcome \in TerminalTypes : Concludes(r, outcome)

LEMMA NothingHeard ==
    ASSUME UNCHANGED otherDispatcherVars PROVE UNCHANGED <<received, current>>
BY DEF otherDispatcherVars, threadVars

LEMMA RecordsSilent ==
    ASSUME UNCHANGED <<eventQueue, permits>>, UNCHANGED <<otherDispatcherVars, accepted>>,
           \A q \in Requests : req'[q].next = req[q].next /\
              \/ req'[q].state = req[q].state
              \/ q \in Tracked /\ q \in Tracked' /\ req'[q].state \notin {"unknown", "erased"}
    PROVE  Silent
<1>1. ASSUME NEW q \in Requests PROVE Same(q)
  <2>1. CASE req'[q].state = req[q].state
    BY <2>1 DEF Same, Tracked
  <2>2. CASE q \in Tracked /\ q \in Tracked' /\ req'[q].state \notin {"unknown", "erased"}
    BY <2>2 DEF Same, Tracked
  <2> QED
    BY <2>1, <2>2
<1> QED
  BY <1>1, NothingHeard DEF Silent

LEMMA NothingSaid ==
    ASSUME UNCHANGED <<eventQueue, permits, req>>, UNCHANGED <<otherDispatcherVars, accepted>>
    PROVE  Silent
BY RecordsSilent

LEMMA CommitConcludes ==
    ASSUME SchedulerTypeOK, NEW r \in Tracked, NEW outcome \in TerminalTypes,
           outcome = "done" => IsPending(r) \/ ~req[r].cancel,
           CommitTerminal(r, outcome), UNCHANGED <<otherDispatcherVars, accepted>>
    PROVE  Says
<1>1. r \in Requests /\ req \in [Requests -> Request]
  BY DEF Tracked, SchedulerTypeOK
<1>2. req' = [req EXCEPT ![r] = Erased] /\ EnqueueTerminal(EventOf(r, outcome))
  BY DEF CommitTerminal
<1>3. /\ permits' = [permits EXCEPT ![r] = "published"]
      /\ eventQueue' = Append(eventQueue, EventOf(r, outcome))
  BY <1>1, <1>2, TerminalEvent DEF EnqueueTerminal, QueueWith, UsePermit
<1>4. req'[r].state = "erased" /\ r \notin Tracked'
  BY <1>1, <1>2 DEF Erased, Unknown, Tracked
<1>5. Others(r)
  BY <1>1, <1>2 DEF Others, Same, Tracked
<1>6. Concludes(r, outcome)
  BY <1>3, <1>4, <1>5, NothingHeard DEF Concludes
<1> QED
  BY <1>1, <1>6 DEF Says

LEMMA PublishSays ==
    ASSUME SchedulerTypeOK, NEW r \in Tracked, NEW outcome \in TerminalTypes,
           NEW cleaned, NEW fails,
           outcome = "done" => IsPending(r) \/ ~req[r].cancel,
           PublishTerminal(r, outcome, cleaned, fails), UNCHANGED <<otherDispatcherVars, accepted>>
    PROVE  Says
<1>1. CASE CommitTerminal(r, outcome)
  BY <1>1, CommitConcludes
<1>2. CASE KeepPending(r, outcome, cleaned)
  <2>1. /\ req' = [req EXCEPT ![r].pending = outcome, ![r].cleaned = cleaned]
        /\ UNCHANGED <<eventQueue, permits>> /\ req \in [Requests -> Request]
    BY <1>2 DEF KeepPending, publishVars, queueVars, SchedulerTypeOK
  <2>2. \A q \in Requests : req'[q].next = req[q].next /\ req'[q].state = req[q].state
    BY <2>1 DEF Request
  <2> QED
    BY <2>1, <2>2, RecordsSilent DEF Says
<1> QED
  BY <1>1, <1>2 DEF PublishTerminal

LEMMA FinishSays ==
    ASSUME SchedulerTypeOK, NEW r \in Tracked, NEW outcome \in TerminalTypes,
           outcome = "done" => ~req[r].cancel,
           Finish(r, outcome), UNCHANGED <<otherDispatcherVars, accepted>>
    PROVE  Says
<1>1. CASE IsPending(r)
  BY <1>1, NothingSaid DEF Finish, publishVars, queueVars, Says
<1>2. CASE ~IsPending(r)
  <2>1. PICK publishFails \in BOOLEAN, cleanupFails \in BOOLEAN :
           PublishTerminal(r, IF cleanupFails THEN "error" ELSE outcome,
                           NeedsCleanup(r) \/ req[r].cleaned, publishFails)
    BY <1>2 DEF Finish, MayFail
  <2> DEFINE o == IF cleanupFails THEN "error" ELSE outcome
  <2>2. o \in TerminalTypes /\ (o = "done" => ~req[r].cancel)
    BY DEF TerminalTypes
  <2> HIDE DEF o
  <2> QED
    BY <2>1, <2>2, PublishSays DEF o
<1> QED
  BY <1>1, <1>2

LEMMA SubmitSays ==
    ASSUME SchedulerInv, NEW r \in Requests, Submit(r)
    PROVE  Says
<1> USE DEF SchedulerInv
<1>1. UNCHANGED otherDispatcherVars /\ req \in [Requests -> Request]
  BY DEF Submit, SchedulerTypeOK
<1>2. CASE SubmitRefused(r)
  BY <1>1, <1>2, NothingSaid DEF SubmitRefused, RollBackPermit, queueVars, Says
<1>3. CASE SubmitAccepted(r)
  <2>1. req[r] = Unknown
    BY RequestsAssumption DEF Submit, SchedulerTypeOK, Placement, HandlesInv
  <2>2. req' = [req EXCEPT ![r].state = "queued", ![r].next = @ + 1]
    BY <1>3 DEF SubmitAccepted
  <2>3. /\ req'[r].state = "queued" /\ req'[r].next = 2
        /\ \A q \in Requests \ {r} : req'[q] = req[q]
    BY <1>1, <2>1, <2>2 DEF Unknown
  <2>4. r \in Tracked' /\ Others(r)
    BY <2>3 DEF Tracked, Others, Same
  <2>5. Accepts(r)
    BY <1>1, <1>3, <2>1, <2>3, <2>4, NothingHeard
    DEF SubmitAccepted, EnqueueRegular, QueueWith, Unknown, Accepts
  <2> QED
    BY <2>5 DEF Says
<1> QED
  BY <1>2, <1>3 DEF Submit

LEMMA CancelSays ==
    ASSUME SchedulerInv, NEW r \in Requests, Cancel(r)
    PROVE  Says
<1> USE DEF SchedulerInv
<1>1. /\ UNCHANGED <<otherDispatcherVars, accepted>> /\ req \in [Requests -> Request] /\ r \in Tracked
  BY DEF Cancel, SchedulerTypeOK
<1>2. ASSUME UNCHANGED publishVars,
             \/ req' = [req EXCEPT ![r].cancel = TRUE, ![r].pending = "cancelled"]
             \/ req' = [req EXCEPT ![r].cancel = TRUE]
      PROVE  Says
  <2>1. \A q \in Requests : req'[q].next = req[q].next /\ req'[q].state = req[q].state
    BY <1>1, <1>2 DEF Request
  <2> QED
    BY <1>1, <1>2, <2>1, RecordsSilent DEF publishVars, queueVars, Says
<1>3. CASE CommitTerminal(r, "cancelled")
  BY <1>1, <1>3, CommitConcludes DEF TerminalTypes
<1> QED
  BY <1>2, <1>3 DEF Cancel, CancelQueued, CancelInSlot

LEMMA CloserSays ==
    ASSUME SchedulerInv, CancelAll \/ Closer
    PROVE  Says
<1> USE DEF SchedulerInv
<1>1. CASE CancelAll
  <2>1. req \in [Requests -> Request]
    BY DEF SchedulerTypeOK
  <2>2. req' = [r \in Requests |-> IF r \in Tracked THEN [req[r] EXCEPT !.cancel = TRUE]
                                                   ELSE req[r]]
    BY <1>1 DEF CancelAll
  <2>3. \A q \in Requests : req'[q].next = req[q].next /\ req'[q].state = req[q].state
    BY <2>1, <2>2 DEF Request
  <2> QED
    BY <1>1, <2>3, RecordsSilent
    DEF CancelAll, dispatcherVars, otherDispatcherVars, queueVars, Says
<1>2. CASE DrainQueued
  <2>1. InQueue(Head(queued)) /\ Head(queued) \in Requests
    BY <1>2, HeadLeaves DEF DrainQueued, Placement
  <2>2. Head(queued) \in Tracked
    BY <2>1, PlacesTracked DEF Placement
  <2> QED
    BY <1>2, <2>2, FinishSays DEF DrainQueued, TerminalTypes
<1>3. CASE DrainDone \/ WaitIdle \/ StopWorker \/ JoinWorker
  BY <1>3, NothingSaid DEF DrainDone, WaitIdle, StopWorker, JoinWorker, dispatcherVars,
     otherDispatcherVars, queueVars, requestVars, Says
<1> QED
  BY <1>1, <1>2, <1>3 DEF Closer

LEMMA PromoteSays ==
    ASSUME SchedulerInv, Promote
    PROVE  Says
<1> USE DEF SchedulerInv
<1>0. PICK r \in Requests : r = Head(queued)
  BY HeadLeaves DEF Promote, Placement
<1>1. InQueue(r) /\ r \in Tracked
  BY <1>0, HeadLeaves, PlacesTracked DEF Promote, Placement
<1>2. req[r].state = "queued" /\ req \in [Requests -> Request] /\ UNCHANGED <<otherDispatcherVars, accepted>>
  BY <1>1, PlacesTracked DEF Promote, Placement, SchedulerTypeOK
<1>3. CASE Finish(r, "cancelled")
  BY <1>1, <1>2, <1>3, FinishSays DEF TerminalTypes
<1>4. ASSUME UNCHANGED publishVars,
             \/ req' = [req EXCEPT ![r].state = "running", ![r].slot = cursor,
                                   ![r].started = TRUE]
             \/ req' = [req EXCEPT ![r].state = "preprocessing", ![r].slot = cursor,
                                   ![r].pending = "error"]
      PROVE  Says
  <2>1. /\ \A q \in Requests : req'[q].next = req[q].next
        /\ \A q \in Requests \ {r} : req'[q].state = req[q].state
        /\ req'[r].state \in {"running", "preprocessing"}
    BY <1>2, <1>4 DEF Request
  <2>2. r \in Tracked'
    BY <2>1 DEF Tracked
  <2> QED
    BY <1>1, <1>2, <1>4, <2>1, <2>2, RecordsSilent DEF publishVars, queueVars, Says
<1>5. CASE StartOk(r)
  BY <1>4, <1>5 DEF StartOk
<1>6. CASE StartFailed(r)
  <2>1. CASE CommitTerminal(r, "error")
    BY <1>1, <1>2, <2>1, CommitConcludes DEF TerminalTypes
  <2> QED
    BY <1>4, <1>6, <2>1 DEF StartFailed
<1> QED
  BY <1>0, <1>3, <1>5, <1>6 DEF Promote

LEMMA SweepSays ==
    ASSUME SchedulerInv, CancelSlot \/ \E r \in Requests : Retry(r) \/ FailActive(r)
    PROVE  Says
<1> USE DEF SchedulerInv
<1>1. CASE CancelSlot
  <2> DEFINE r == slots[cursor]
  <2>1. CASE r # NoRequest /\ req[r].cancel
    <3>1. r \in Tracked /\ Finish(r, "cancelled")
      BY <1>1, <2>1, PlacesTracked DEF CancelSlot, SchedulerTypeOK, Placement
    <3> QED
      BY <1>1, <3>1, FinishSays DEF CancelSlot, TerminalTypes
  <2>2. CASE ~(r # NoRequest /\ req[r].cancel)
    BY <1>1, <2>2, NothingSaid DEF CancelSlot, publishVars, queueVars, Says
  <2> QED
    BY <2>1, <2>2
<1>2. ASSUME NEW r \in Requests, Retry(r) PROVE Says
  <2>1. r \in Tracked /\ IsPending(r) /\ UNCHANGED <<otherDispatcherVars, accepted>>
    BY <1>2 DEF Retry, LocalsInv
  <2>2. PICK fails \in BOOLEAN : PublishTerminal(r, req[r].pending, req[r].cleaned, fails)
    BY <1>2 DEF Retry, MayFail
  <2>3. req[r].pending \in TerminalTypes
    BY <2>1 DEF IsPending, SchedulerTypeOK, Request
  <2> QED
    BY <2>1, <2>2, <2>3, PublishSays
<1>3. ASSUME NEW r \in Requests, FailActive(r) PROVE Says
  <2>1. r \in Tracked
    BY <1>3, PlacesTracked DEF FailActive, LocalsInv, Placement
  <2> QED
    BY <1>3, <2>1, FinishSays DEF FailActive, TerminalTypes
<1> QED
  BY <1>1, <1>2, <1>3

LEMMA ApplySays ==
    ASSUME SchedulerInv, EndingUncancelled, NEW st \in steps,
           \/ ApplyCancelled(st) \/ ApplyToken(st) \/ ApplyOverflow(st)
           \/ ApplyThrows(st) \/ ApplyEnd(st)
    PROVE  Says
<1> USE DEF SchedulerInv
<1> DEFINE r == st.handle
<1>1. r \in Tracked /\ r \in Requests /\ Outcome(st) \in TerminalTypes
  <2>1. r \in Requests /\ InSlot(r) /\ Outcome(st) \in TerminalTypes
    BY StepTypes DEF ApplyCancelled, ApplyToken, ApplyOverflow, ApplyThrows, ApplyEnd, Applying,
                     LocalsInv
  <2> QED
    BY <2>1, PlacesTracked DEF Placement
<1>2. CASE ApplyCancelled(st) \/ ApplyOverflow(st)
  BY <1>1, <1>2, FinishSays DEF ApplyCancelled, ApplyOverflow, TerminalTypes
<1>3. CASE ApplyToken(st)
  <2>1. /\ UNCHANGED <<otherDispatcherVars, permits, accepted>> /\ ~req[r].cancel
        /\ eventQueue' = Append(eventQueue, EventOf(r, "token"))
        /\ req' = [req EXCEPT ![r].next = @ + 1] /\ req \in [Requests -> Request]
    BY <1>3 DEF ApplyToken, EnqueueRegular, QueueWith, NumberEvent, CancelSeen, SchedulerTypeOK
  <2>2. /\ req'[r].next = req[r].next + 1 /\ req'[r].state = req[r].state
        /\ \A q \in Requests \ {r} : req'[q] = req[q]
    BY <1>1, <2>1 DEF Request
  <2>3. /\ r \in Tracked' /\ req'[r].state # "unknown" /\ req'[r].state # "erased"
        /\ Others(r)
    BY <1>1, <2>2 DEF Tracked, Others, Same
  <2>4. Speaks(r)
    BY <1>1, <2>1, <2>2, <2>3, NothingHeard DEF Speaks
  <2> QED
    BY <1>1, <2>4 DEF Says
<1>4. CASE ApplyThrows(st)
  BY <1>4, NothingSaid DEF ApplyThrows, dispatcherVars, otherDispatcherVars, queueVars,
     requestVars, Says
<1>5. CASE ApplyEnd(st)
  <2>1. ~req[r].cancel \/ Outcome(st) # "done"
    BY <1>1, <1>5, RequestsAssumption DEF ApplyEnd, CancelSeen, EndingUncancelled, NoRequest
  <2>2. CASE Ends(st)
    BY <1>1, <1>5, <2>1, <2>2, FinishSays DEF ApplyEnd
  <2>3. CASE ~Ends(st)
    BY <1>5, <2>3, NothingSaid DEF ApplyEnd, publishVars, queueVars, Says
  <2> QED
    BY <2>2, <2>3
<1> QED
  BY <1>2, <1>3, <1>4, <1>5

LEMMA WorkerSays == ASSUME SchedulerInv, EndingUncancelled, Worker PROVE Says
<1>1. CASE \/ Wake \/ WorkerExit \/ RetryDone \/ PromoteNothing \/ BeginDecode \/ FailDone
           \/ Decode
  BY <1>1, NothingSaid
  DEF Wake, WorkerExit, RetryDone, PromoteNothing, BeginDecode, FailDone, Decode,
      DecodeThrows, DecodeFails, DecodeAdvances, dispatcherVars, otherDispatcherVars,
      queueVars, requestVars, Says
<1>2. CASE SendMetrics
  <2>1. UNCHANGED <<permits, req, otherDispatcherVars, accepted>>
    BY <1>2 DEF SendMetrics, requestVars
  <2>2. CASE eventQueue' = eventQueue
    BY <2>1, <2>2, NothingSaid DEF Says
  <2>3. CASE eventQueue' = Append(eventQueue, Metrics)
    BY <2>1, <2>3, NothingHeard DEF Reports, Same, Tracked, Says
  <2> QED
    BY <1>2, <2>2, <2>3 DEF SendMetrics, EnqueueRegular, QueueWith, queueVars
<1> QED
  BY <1>1, <1>2, PromoteSays, SweepSays, ApplySays DEF Worker

\* Whatever the threads of the scheduler do, they say one thing at a time.
LEMMA SchedulerSays ==
    ASSUME SchedulerInv, EndingUncancelled, Client \/ CancelAll \/ Closer \/ Worker
    PROVE  Says
BY SubmitSays, CancelSays, CloserSays, WorkerSays DEF Client

-----------------------------------------------------------------------------
(* The story stays in order *)

LEMMA QueueOfEvents ==
    ASSUME SchedulerInv
    PROVE  /\ eventQueue \in Seq(Event) /\ Len(eventQueue) \in Nat
           /\ \A i \in 1..Len(eventQueue) : eventQueue[i] \in Event
           /\ \A r \in Requests : \A i \in Waiting(r) :
                 /\ i \in 1..Len(eventQueue) /\ eventQueue[i] \in Event
                 /\ eventQueue[i].seq \in Nat /\ eventQueue[i].request = r
<1>1. eventQueue \in Seq(Event)
  BY DEF SchedulerInv, DispatcherInv, DispatcherTypeOK
<1>2. \A i \in 1..Len(eventQueue) : eventQueue[i] \in Event /\ eventQueue[i].seq \in Nat
  BY <1>1, EventTypes
<1> QED
  BY <1>1, <1>2 DEF Waiting

\* Nothing is said about r, and nothing is taken that was said about it.
LEMMA Untold ==
    ASSUME SchedulerInv, NEW r \in Requests, Story(r), Same(r),
           Waiting(r)' = Waiting(r), \A i \in Waiting(r) : eventQueue'[i] = eventQueue[i],
           permits[r] = "none" => permits'[r] = "none", received'[r] = received[r],
           IsTerminalOf(current', r) => IsTerminalOf(current, r)
    PROVE  Story(r)'
<1>1. Ordered(r)'
  BY DEF Story, Ordered
<1>2. Unfinished(r)'
  BY DEF Story, Unfinished, Same
<1>3. Silence(r)'
  BY DEF Story, Silence, Same
<1>4. Finality(r)'
  BY DEF Story, Finality, Same
<1> QED
  BY <1>1, <1>2, <1>3, <1>4 DEF Story

LEMMA WaitingAppended ==
    ASSUME SchedulerInv, NEW e \in Event, eventQueue' = Append(eventQueue, e), NEW r \in Requests
    PROVE  /\ \A i \in Waiting(r) : eventQueue'[i] = eventQueue[i] /\ i < Len(eventQueue) + 1
           /\ eventQueue'[Len(eventQueue) + 1] = e
           /\ Waiting(r)' = IF e.request = r THEN Waiting(r) \cup {Len(eventQueue) + 1}
                                             ELSE Waiting(r)
<1>1. /\ eventQueue \in Seq(Event) /\ Len(eventQueue) \in Nat
      /\ Len(eventQueue') = Len(eventQueue) + 1
      /\ eventQueue'[Len(eventQueue) + 1] = e
      /\ \A i \in 1..Len(eventQueue) : eventQueue'[i] = eventQueue[i]
  BY QueueOfEvents, AppendIsQueue
<1>2. \A i \in Waiting(r) : i \in 1..Len(eventQueue)
  BY DEF Waiting
<1>3. \A i \in 1..Len(eventQueue') : i \in 1..Len(eventQueue) \/ i = Len(eventQueue) + 1
  BY <1>1
<1>4. \A i \in 1..Len(eventQueue) : i \in 1..Len(eventQueue')
  BY <1>1
<1>5. Len(eventQueue) + 1 \in 1..Len(eventQueue')
  BY <1>1
<1>6. CASE e.request = r
  BY <1>1, <1>3, <1>4, <1>5, <1>6 DEF Waiting
<1>7. CASE e.request # r
  BY <1>1, <1>3, <1>4, <1>7 DEF Waiting
<1> QED
  BY <1>1, <1>2, <1>6, <1>7

\* The next number of an open request is larger than all before.
LEMMA NumberedNext ==
    ASSUME SchedulerInv, NEW r \in Requests, Story(r), NEW type \in TerminalTypes \cup RegularTypes,
           eventQueue' = Append(eventQueue, EventOf(r, type)), received' = received,
           r \in Tracked \/ (req[r].state = "unknown" /\ req[r].next = 1)
    PROVE  /\ Ordered(r)'
           /\ Waiting(r)' = Waiting(r) \cup {Len(eventQueue) + 1}
           /\ \A i \in Waiting(r) : eventQueue'[i] = eventQueue[i]
           /\ eventQueue'[Len(eventQueue) + 1] = EventOf(r, type)
<1> DEFINE e == EventOf(r, type)
           n == Len(eventQueue) + 1
<1>1. e \in Event /\ e.request = r /\ e.seq = req[r].next /\ req[r].next \in Nat
  BY RegularEvent, TerminalEvent DEF SchedulerInv, EventOf, SchedulerTypeOK, Request
<1>2. /\ \A i \in Waiting(r) : eventQueue'[i] = eventQueue[i] /\ i < n
      /\ eventQueue'[n] = e
      /\ Waiting(r)' = Waiting(r) \cup {n}
  BY <1>1, WaitingAppended
<1>3. \A i \in Waiting(r) : i \in Nat /\ eventQueue[i].seq \in Nat
  BY QueueOfEvents
<1>4. /\ \A i \in Waiting(r) : eventQueue[i].seq < req[r].next /\ ~IsTerminal(eventQueue[i])
      /\ received[r].last < req[r].next
  BY <1>3 DEF Story, Unfinished, Silence
<1>5. n \in Nat
  BY QueueOfEvents
<1> HIDE DEF e, n
<1>6. Ordered(r)'
  <2>1. ASSUME NEW i \in Waiting(r)', NEW j \in Waiting(r)', i < j
        PROVE  eventQueue'[i].seq < eventQueue'[j].seq /\ ~IsTerminal(eventQueue'[i])
    <3>1. i \in Waiting(r)
      BY <1>2, <1>3, <1>5, <2>1
    <3>2. CASE j \in Waiting(r)
      BY <1>2, <2>1, <3>1, <3>2 DEF Story, Ordered
    <3>3. CASE j = n
      BY <1>1, <1>2, <1>4, <3>1, <3>3
    <3> QED
      BY <1>2, <3>2, <3>3
  <2>2. ASSUME NEW i \in Waiting(r)' PROVE received'[r].last < eventQueue'[i].seq
    BY <1>1, <1>2, <1>4 DEF Story, Ordered
  <2> QED
    BY <2>1, <2>2 DEF Ordered
<1> QED
  BY <1>2, <1>4, <1>6 DEF e, n

LEMMA OthersUntold ==
    ASSUME SchedulerInv, NEW e \in Event, eventQueue' = Append(eventQueue, e),
           UNCHANGED <<received, current>>,
           NEW q \in Requests, q # e.request, Story(q), Same(q), permits'[q] = permits[q]
    PROVE  Story(q)'
BY Untold, WaitingAppended

LEMMA AcceptsStory ==
    ASSUME SchedulerInv, NEW r \in Requests, Accepts(r), \A q \in Requests : Story(q)
    PROVE  \A q \in Requests : Story(q)'
<1>1. EventOf(r, "queued") \in Event /\ ~IsTerminal(EventOf(r, "queued"))
      /\ EventOf(r, "queued").request = r /\ EventOf(r, "queued").seq = 1
  BY RegularEvent DEF RegularTypes, SchedulerInv, EventOf, Accepts
<1>2. ASSUME NEW q \in Requests \ {r} PROVE Story(q)'
  BY <1>1, OthersUntold, PermitTypes DEF Accepts, Others, SchedulerInv
<1>3. Story(r)'
  <2>1. /\ Ordered(r)' /\ Waiting(r)' = Waiting(r) \cup {Len(eventQueue) + 1}
        /\ eventQueue'[Len(eventQueue) + 1] = EventOf(r, "queued")
    BY NumberedNext DEF Accepts, RegularTypes
  <2>2. Waiting(r) = {} /\ received'[r].last = 0 /\ received'[r].ended = "no"
    BY DEF Accepts, Story, Silence
  <2>3. Unfinished(r)'
    BY <1>1, <2>1, <2>2 DEF Unfinished, Accepts
  <2>4. Silence(r)'
    BY DEF Silence, Accepts
  <2>5. Finality(r)'
    BY <2>2 DEF Finality, Accepts, Story
  <2> QED
    BY <2>1, <2>3, <2>4, <2>5 DEF Story
<1> QED
  BY <1>2, <1>3

LEMMA SpeaksStory ==
    ASSUME SchedulerInv, NEW r \in Requests, Speaks(r), \A q \in Requests : Story(q)
    PROVE  \A q \in Requests : Story(q)'
<1>1. EventOf(r, "token") \in Event /\ ~IsTerminal(EventOf(r, "token"))
      /\ EventOf(r, "token").request = r /\ EventOf(r, "token").seq = req[r].next
      /\ req[r].next \in Nat
  BY RegularEvent DEF RegularTypes, SchedulerInv, EventOf, SchedulerTypeOK, Request
<1>2. ASSUME NEW q \in Requests \ {r} PROVE Story(q)'
  BY <1>1, OthersUntold DEF Speaks, Others
<1>3. Story(r)'
  <2>1. /\ Ordered(r)' /\ Waiting(r)' = Waiting(r) \cup {Len(eventQueue) + 1}
        /\ \A i \in Waiting(r) : eventQueue'[i] = eventQueue[i]
        /\ eventQueue'[Len(eventQueue) + 1] = EventOf(r, "token")
    <3>1. /\ eventQueue' = Append(eventQueue, EventOf(r, "token")) /\ received' = received
          /\ Story(r) /\ r \in Tracked
      BY DEF Speaks
    <3>2. "token" \in TerminalTypes \cup RegularTypes
      BY DEF RegularTypes
    <3> QED
      BY <3>1, <3>2, NumberedNext
  <2>2. /\ received'[r].last < req[r].next /\ received'[r].ended = "no"
        /\ received[r].last \in Nat
    BY DEF Speaks, Story, Unfinished, SchedulerInv, DispatcherInv, DispatcherTypeOK
  <2>3. \A i \in Waiting(r) : /\ eventQueue[i].seq \in Nat /\ eventQueue[i].seq < req[r].next
                              /\ ~IsTerminal(eventQueue[i])
    BY QueueOfEvents DEF Speaks, Story, Unfinished
  <2>4. Unfinished(r)'
    <3>1. req'[r].next = req[r].next + 1
      BY DEF Speaks
    <3>2. received'[r].last < req'[r].next
      BY <1>1, <2>2, <3>1 DEF Speaks
    <3>3. \A i \in Waiting(r)' : eventQueue'[i].seq < req'[r].next /\ ~IsTerminal(eventQueue'[i])
      BY <1>1, <2>1, <2>3, <3>1
    <3> QED
      BY <2>2, <3>2, <3>3 DEF Unfinished
  <2>5. Silence(r)'
    BY DEF Silence, Speaks
  <2>6. Finality(r)'
    BY <2>2 DEF Finality, Speaks, Story
  <2> QED
    BY <2>1, <2>4, <2>5, <2>6 DEF Story
<1> QED
  BY <1>2, <1>3

LEMMA ConcludesStory ==
    ASSUME SchedulerInv, NEW r \in Requests, NEW outcome \in TerminalTypes, Concludes(r, outcome),
           \A q \in Requests : Story(q)
    PROVE  \A q \in Requests : Story(q)'
<1>1. EventOf(r, outcome) \in Event /\ IsTerminal(EventOf(r, outcome))
      /\ EventOf(r, outcome).request = r
  BY TerminalEvent DEF SchedulerInv
<1>2. ASSUME NEW q \in Requests \ {r} PROVE Story(q)'
  BY <1>1, OthersUntold, PermitTypes DEF Concludes, Others, SchedulerInv
<1>3. Story(r)'
  <2>1. /\ Ordered(r)' /\ Waiting(r)' = Waiting(r) \cup {Len(eventQueue) + 1}
        /\ eventQueue'[Len(eventQueue) + 1] = EventOf(r, outcome)
    <3>1. /\ eventQueue' = Append(eventQueue, EventOf(r, outcome)) /\ received' = received
          /\ Story(r) /\ r \in Tracked
      BY DEF Concludes
    <3> QED
      BY <3>1, NumberedNext
  <2>2. received'[r].ended = "no"
    BY DEF Concludes, Story, Unfinished
  <2>3. Unfinished(r)' /\ Silence(r)'
    BY DEF Unfinished, Silence, Concludes
  <2>4. Finality(r)'
    BY <1>1, <2>1, <2>2 DEF Finality, Concludes, Story
  <2> QED
    BY <2>1, <2>3, <2>4 DEF Story
<1> QED
  BY <1>2, <1>3

LEMMA SaysStory ==
    ASSUME SchedulerInv, \A q \in Requests : Story(q), Says
    PROVE  \A q \in Requests : Story(q)'
<1>1. CASE Silent
  BY <1>1, Untold DEF Silent, Waiting
<1>2. CASE Reports
  <2>1. Metrics.request = NoRequest /\ NoRequest \notin Requests
    BY RequestsAssumption DEF Metrics, NoRequest
  <2> QED
    BY <1>2, <2>1, OthersUntold, MetricsEvent DEF Reports
<1> QED
  BY <1>1, <1>2, AcceptsStory, SpeaksStory, ConcludesStory DEF Says

\* The oldest event is handed to the callback.
LEMMA TakenFacts ==
    ASSUME SchedulerInv, Take
    PROVE  /\ current' = eventQueue[1] /\ 1 \in 1..Len(eventQueue) /\ eventQueue[1] \in Event
           /\ \A r \in Requests : \A i \in Waiting(r)' :
                 i + 1 \in Waiting(r) /\ eventQueue'[i] = eventQueue[i + 1] /\ 1 < i + 1
           /\ \A r \in Requests : \A i \in Waiting(r) \ {1} : i - 1 \in Waiting(r)'
           /\ \A r \in Requests : r # eventQueue[1].request => received'[r] = received[r]
           /\ \A r \in Requests : r = eventQueue[1].request =>
                 /\ received'[r].last = eventQueue[1].seq
                 /\ received'[r].ended =
                       IF IsTerminal(eventQueue[1]) THEN eventQueue[1].type ELSE received[r].ended
           /\ permits' = permits
<1> DEFINE e == Head(eventQueue)
           q == Tail(eventQueue)
<1>1. /\ eventQueue \in Seq(Event) /\ eventQueue # <<>>
      /\ current' = e /\ eventQueue' = q /\ received' = Receive(e) /\ permits' = permits
  BY QueueOfEvents DEF Take
<1>2. /\ e \in Event /\ q \in Seq(Event)
      /\ Len(eventQueue) \in Nat \ {0} /\ Len(q) = Len(eventQueue) - 1
      /\ e = eventQueue[1]
      /\ \A i \in 1..Len(q) : q[i] = eventQueue[i + 1]
  BY <1>1, EmptySeq, HeadTailProperties
<1> HIDE DEF e, q
<1>3. ASSUME NEW r \in Requests, NEW i \in Waiting(r)'
      PROVE  i + 1 \in Waiting(r) /\ eventQueue'[i] = eventQueue[i + 1] /\ 1 < i + 1
  <2>1. i \in 1..Len(q) /\ q[i].request = r
    BY <1>1, <1>3 DEF Waiting
  <2>2. i + 1 \in 1..Len(eventQueue) /\ 1 < i + 1
    BY <1>2, <2>1
  <2> QED
    BY <1>1, <1>2, <2>1, <2>2 DEF Waiting
<1>4. ASSUME NEW r \in Requests, NEW i \in Waiting(r) \ {1} PROVE i - 1 \in Waiting(r)'
  <2>1. i \in 1..Len(eventQueue) /\ eventQueue[i].request = r /\ i # 1
    BY <1>4 DEF Waiting
  <2>2. i - 1 \in 1..Len(q) /\ q[i - 1] = eventQueue[(i - 1) + 1] /\ (i - 1) + 1 = i
    BY <1>2, <2>1
  <2> QED
    BY <1>1, <2>1, <2>2 DEF Waiting
<1>5. received \in [Requests -> [last : Nat, ended : TerminalTypes \cup {"no"}]]
  BY DEF SchedulerInv, DispatcherInv, DispatcherTypeOK
<1>6. ASSUME NEW r \in Requests, r # e.request PROVE received'[r] = received[r]
  BY <1>1, <1>5, <1>6 DEF Receive
<1>7. ASSUME NEW r \in Requests, r = e.request
      PROVE  /\ received'[r].last = e.seq
             /\ received'[r].ended = IF IsTerminal(e) THEN e.type ELSE received[r].ended
  <2>1. e.request # NoRequest
    BY <1>7, RequestsAssumption DEF NoRequest
  <2>2. received'[r] = [last |-> e.seq, ended |-> IF IsTerminal(e) THEN e.type
                                                  ELSE received[r].ended]
    BY <1>1, <1>5, <1>7, <2>1 DEF Receive
  <2> QED
    BY <2>2
<1>8. 1 \in 1..Len(eventQueue)
  BY <1>2
<1> QED
  BY <1>1, <1>2, <1>3, <1>4, <1>6, <1>7, <1>8

\* Among the events of a request the head of the queue comes first.
LEMMA HeadFirst ==
    ASSUME SchedulerInv, Take, NEW r \in Requests, Story(r), eventQueue[1].request = r
    PROVE  /\ 1 \in Waiting(r) /\ received[r].ended = "no"
           /\ received[r].last < eventQueue[1].seq
           /\ \A i \in Waiting(r) \ {1} :
                 eventQueue[1].seq < eventQueue[i].seq /\ ~IsTerminal(eventQueue[1])
<1>1. 1 \in Waiting(r)
  BY TakenFacts DEF Waiting
<1>2. \A i \in Waiting(r) \ {1} : 1 < i
  BY QueueOfEvents DEF Waiting
<1> QED
  BY <1>1, <1>2 DEF Story, Ordered, Finality

LEMMA TakeStory ==
    ASSUME SchedulerInv, Take, UNCHANGED schedulerVars, \A q \in Requests : Story(q),
           NEW r \in Requests
    PROVE  Story(r)'
<1> DEFINE e == eventQueue[1]
<1>1. /\ req' = req /\ Tracked' = Tracked /\ permits' = permits
  BY TakenFacts DEF schedulerVars, requestVars, Tracked
<1>2. \A i \in Waiting(r)' : i + 1 \in Waiting(r) \ {1} /\ eventQueue'[i] = eventQueue[i + 1]
  BY TakenFacts
<1>3. \A i, j \in Waiting(r)' : i < j => i + 1 < j + 1
  BY QueueOfEvents, TakenFacts DEF Waiting
<1>4. CASE e.request # r
  <2>1. received'[r] = received[r] /\ ~IsTerminalOf(current', r) /\ 1 \notin Waiting(r)
    BY <1>4, TakenFacts DEF IsTerminalOf, Waiting
  <2>2. Ordered(r)'
    BY <1>2, <1>3, <2>1 DEF Story, Ordered
  <2>3. Unfinished(r)'
    BY <1>1, <1>2, <2>1 DEF Story, Unfinished
  <2>4. Silence(r)'
    BY <1>1, <1>2, <2>1 DEF Story, Silence
  <2>5. Finality(r)'
    <3>1. ASSUME NEW i \in Waiting(r) PROVE i - 1 \in Waiting(r)' /\ eventQueue'[i - 1] = eventQueue[i]
      <4>1. i \in Nat /\ i - 1 \in Waiting(r)'
        BY <2>1, QueueOfEvents, TakenFacts
      <4>2. eventQueue'[i - 1] = eventQueue[(i - 1) + 1] /\ (i - 1) + 1 = i
        BY <1>2, <4>1
      <4> QED
        BY <4>1, <4>2
    <3>2. received[r].ended # "no" => Waiting(r)' = {}
      BY <1>2 DEF Story, Finality
    <3> QED
      BY <1>1, <2>1, <3>1, <3>2 DEF Story, Finality
  <2> QED
    BY <2>2, <2>3, <2>4, <2>5 DEF Story
<1>5. CASE e.request = r
  <2>1. /\ received'[r].last = e.seq /\ current' = e
        /\ received'[r].ended = IF IsTerminal(e) THEN e.type ELSE received[r].ended
    BY <1>5, TakenFacts
  <2>2. /\ 1 \in Waiting(r) /\ received[r].ended = "no"
        /\ \A i \in Waiting(r) \ {1} : e.seq < eventQueue[i].seq /\ ~IsTerminal(e)
    BY <1>5, HeadFirst
  <2>3. Ordered(r)'
    BY <1>2, <1>3, <2>1, <2>2 DEF Story, Ordered
  <2>4. Unfinished(r)'
    BY <1>1, <1>2, <2>1, <2>2 DEF Story, Unfinished
  <2>5. Silence(r)'
    BY <1>1, <2>2 DEF Story, Silence
  <2>6. Finality(r)'
    <3>1. CASE IsTerminal(e)
      <4>1. Waiting(r)' = {}
        BY <1>2, <2>2, <3>1
      <4>2. received'[r].ended # "no"
        BY <2>1, <3>1 DEF IsTerminal, TerminalTypes
      <4> QED
        BY <4>1, <4>2 DEF Finality
    <3>2. CASE ~IsTerminal(e)
      <4>1. received'[r].ended = "no" /\ ~IsTerminalOf(current', r)
        BY <2>1, <2>2, <3>2 DEF IsTerminalOf
      <4>2. ASSUME req[r].state = "erased"
            PROVE  \E i \in Waiting(r)' : IsTerminal(eventQueue'[i])
        <5>1. PICK k \in Waiting(r) : IsTerminal(eventQueue[k])
          BY <2>2, <4>2 DEF Story, Finality
        <5>2. k # 1 /\ k \in Nat
          BY <3>2, <5>1, QueueOfEvents
        <5>3. k - 1 \in Waiting(r)'
          BY <5>1, <5>2, TakenFacts
        <5>4. eventQueue'[k - 1] = eventQueue[(k - 1) + 1] /\ (k - 1) + 1 = k
          BY <1>2, <5>2, <5>3
        <5> QED
          BY <5>1, <5>3, <5>4
      <4> QED
        BY <1>1, <4>1, <4>2 DEF Finality
    <3> QED
      BY <3>1, <3>2
  <2> QED
    BY <2>3, <2>4, <2>5, <2>6 DEF Story
<1> QED
  BY <1>4, <1>5

LEMMA DispatcherStory ==
    ASSUME SchedulerInv, Dispatcher, UNCHANGED schedulerVars, \A q \in Requests : Story(q)
    PROVE  \A q \in Requests : Story(q)'
<1>1. ASSUME UNCHANGED <<eventQueue, received>>, current' = current \/ current' = NoEvent,
             \A q \in Requests : permits[q] = "none" => permits'[q] = "none",
             NEW q \in Requests
      PROVE  Story(q)'
  <2>1. Same(q) /\ Waiting(q)' = Waiting(q)
    BY <1>1 DEF schedulerVars, requestVars, Same, Tracked, Waiting
  <2>2. IsTerminalOf(current', q) => IsTerminalOf(current, q)
    BY <1>1, NoEventIsNone DEF IsTerminalOf
  <2> QED
    BY <1>1, <2>1, <2>2, Untold
<1>2. CASE Take
  BY <1>2, TakeStory
<1>3. CASE Complete
  <2>1. \A q \in Requests : permits[q] = "none" => permits'[q] = "none"
    <3>1. CASE IsTerminal(current)
      BY <1>3, <3>1, PermitTypes DEF Complete, SchedulerInv
    <3>2. CASE ~IsTerminal(current)
      BY <1>3, <3>2 DEF Complete
    <3> QED
      BY <3>1, <3>2
  <2> QED
    BY <1>1, <1>3, <2>1 DEF Complete, queueVars
<1>4. CASE Exit
  BY <1>1, <1>4 DEF Exit, queueVars
<1>5. ASSUME NEW c \in Callers, Stopper(c) PROVE \A q \in Requests : Story(q)'
  BY <1>1, <1>5 DEF Stopper, StopBegin, StopJoined, StopAwaited, queueVars, threadVars
<1> QED
  BY <1>2, <1>3, <1>4, <1>5 DEF Dispatcher, DispatcherThread

\* While a finished step waits for its end, the worker has the lock.
LEMMA EndingStaysUncancelled ==
    ASSUME SchedulerInv, EndingUncancelled, [Next]_vars
    PROVE  EndingUncancelled'
<1> USE DEF SchedulerInv
<1>1. req \in [Requests -> Request] /\ NoRequest \notin Requests
      /\ ending \in Requests \cup {NoRequest}
  BY RequestsAssumption DEF SchedulerTypeOK, NoRequest
<1>2. CASE Client \/ CancelAll \/ Closer
  <2>1. ending' = ending
    BY <1>2 DEF Client, Submit, Cancel, CancelAll, Closer, DrainQueued, DrainDone, WaitIdle,
                StopWorker, JoinWorker, workerVars
  <2>2. CASE ending = NoRequest
    BY <2>1, <2>2 DEF EndingUncancelled
  <2>3. CASE ending # NoRequest
    <3>1. worker = "apply" /\ ~LockFree /\ closer # "draining"
      BY <2>3 DEF LocalsInv, LockFree, LockInv
    <3>2. req' = req
      BY <1>2, <3>1 DEF Client, Submit, Cancel, CancelAll, Closer, DrainQueued, DrainDone,
                        WaitIdle, StopWorker, JoinWorker, requestVars
    <3> QED
      BY <2>1, <3>2 DEF EndingUncancelled
  <2> QED
    BY <2>2, <2>3
<1>3. CASE Worker
  <2>1. ASSUME NEW st \in steps, ApplyToken(st) PROVE EndingUncancelled'
    <3>1. st.handle \in Requests
      BY StepTypes
    <3>2. /\ req' = [req EXCEPT ![st.handle].next = @ + 1] /\ ~req[st.handle].cancel
          /\ ending' = st.handle \/ ending' = NoRequest
      BY <2>1 DEF ApplyToken, NumberEvent, CancelSeen
    <3>3. ~req'[st.handle].cancel
      BY <1>1, <3>1, <3>2 DEF Request
    <3> QED
      BY <3>2, <3>3 DEF EndingUncancelled
  <2>2. ASSUME NEW st \in steps, ApplyEnd(st) PROVE EndingUncancelled'
    BY <2>2 DEF ApplyEnd, EndingUncancelled
  <2>3. ASSUME NEW st \in steps, \/ ApplyCancelled(st) \/ ApplyOverflow(st)
        PROVE  EndingUncancelled'
    BY <2>3 DEF ApplyCancelled, ApplyOverflow, Applying, EndingUncancelled
  <2>4. ASSUME NEW st \in steps, ApplyThrows(st) PROVE EndingUncancelled'
    BY <2>4 DEF ApplyThrows, Applying, EndingUncancelled
  <2>5. CASE worker # "apply"
    BY <1>3, <2>5 DEF Worker, Wake, WorkerExit, RetryDone, CancelSlot, Promote,
       PromoteNothing, BeginDecode, FailDone, SendMetrics, Retry, FailActive, ApplyCancelled,
       ApplyToken, ApplyOverflow, ApplyThrows, ApplyEnd, Applying, Decode, DecodeThrows,
       DecodeFails, DecodeAdvances, LocalsInv, EndingUncancelled
  <2>6. CASE SendMetrics
    BY <2>6 DEF SendMetrics, requestVars, EndingUncancelled
  <2>7. CASE worker = "apply" /\ ~SendMetrics
    BY <1>3, <2>1, <2>2, <2>3, <2>4, <2>7
    DEF Worker, Wake, WorkerExit, RetryDone, CancelSlot, Promote,
       PromoteNothing, BeginDecode, FailDone, Retry, FailActive, Decode, DecodeThrows,
       DecodeFails, DecodeAdvances
  <2> QED
    BY <2>5, <2>6, <2>7
<1>4. CASE UNCHANGED schedulerVars
  BY <1>4 DEF schedulerVars, requestVars, workerVars, EndingUncancelled
<1> QED
  BY <1>2, <1>3, <1>4 DEF Next, vars

LEMMA StoryKept ==
    ASSUME SchedulerInv, StoryInv, [Next]_vars
    PROVE  StoryInv'
<1>1. \A r \in Requests : Story(r)
  BY DEF StoryInv
<1>2. \A r \in Requests : Story(r)'
  <2>1. CASE Client \/ CancelAll \/ Closer \/ Worker
    BY <1>1, <2>1, SchedulerSays, SaysStory DEF StoryInv
  <2>2. CASE Dispatcher /\ UNCHANGED schedulerVars
    BY <1>1, <2>2, DispatcherStory
  <2>3. CASE UNCHANGED vars
    <3>1. UNCHANGED <<eventQueue, permits, received, current, req>>
      BY <2>3 DEF vars, dispatcherVars, schedulerVars, requestVars, queueVars, threadVars
    <3>2. \A r \in Requests : Same(r) /\ Waiting(r)' = Waiting(r)
      BY <3>1 DEF Same, Tracked, Waiting
    <3> QED
      BY <1>1, <3>1, <3>2, Untold
  <2> QED
    BY <2>1, <2>2, <2>3 DEF Next
<1> QED
  BY <1>2, EndingStaysUncancelled DEF StoryInv

-----------------------------------------------------------------------------
(* What the contract allows *)

Phases == [r \in Requests |-> PhaseOf(r)]
Lasts  == [r \in Requests |-> received[r].last]

\* What a record, a permit and the callback say of a request's phase.
LEMMA PhaseFacts ==
    ASSUME SchedulerInv, NEW r \in Requests, Story(r)
    PROVE  /\ r \in Tracked => PhaseOf(r) = "open" /\ permits[r] = "reserved"
           /\ req[r].state = "unknown" => PhaseOf(r) = "unknown"
           /\ req[r].state = "erased" /\ received[r].ended = "no" =>
                 PhaseOf(r) = "open" /\ eventQueue # <<>>
           /\ r \in Tracked \/ req[r].state \in {"unknown", "erased"}
<1>1. permits[r] = "reserved" <=> r \in Tracked
  BY DEF SchedulerInv, Placement, PermitPerRequest
<1>2. r \in Tracked \/ req[r].state \in {"unknown", "erased"}
  BY DEF SchedulerInv, SchedulerTypeOK, Request, Tracked
<1>3. ASSUME req[r].state = "erased", received[r].ended = "no"
      PROVE  PhaseOf(r) = "open" /\ eventQueue # <<>>
  <2>1. PICK i \in Waiting(r) : IsTerminal(eventQueue[i])
    BY <1>3 DEF Story, Finality
  <2>2. i \in 1..Len(eventQueue) /\ IsTerminalOf(eventQueue[i], r)
    BY <2>1, QueueOfEvents DEF IsTerminalOf
  <2>3. permits[r] = "published"
    BY <2>2 DEF SchedulerInv, DispatcherInv, TerminalMatchesPermit
  <2>4. eventQueue # <<>>
    BY <2>2, EmptySeq, QueueOfEvents
  <2> QED
    BY <1>3, <2>3, <2>4 DEF PhaseOf
<1>4. r \in Tracked => PhaseOf(r) = "open" /\ permits[r] = "reserved"
  BY <1>1 DEF Story, Unfinished, PhaseOf
<1>5. req[r].state = "unknown" => PhaseOf(r) = "unknown"
  BY DEF Story, Silence, PhaseOf
<1> QED
  BY <1>2, <1>3, <1>4, <1>5

LEMMA PhasesKept ==
    ASSUME \A r \in Requests : PhaseOf(r)' = PhaseOf(r) /\ received'[r].last = received[r].last
    PROVE  [Contract!Next]_<<Phases, Lasts>>
BY DEF Phases, Lasts

LEMMA SaysContract ==
    ASSUME SchedulerInv, \A q \in Requests : Story(q), Says
    PROVE  [Contract!Next]_<<Phases, Lasts>>
<1> USE PermitTypes DEF SchedulerInv
<1>1. CASE Silent \/ Reports \/ \E r \in Requests : Speaks(r)
  BY <1>1, PhasesKept DEF Silent, Reports, Speaks, PhaseOf
<1>2. ASSUME NEW r \in Requests, NEW outcome \in TerminalTypes, Concludes(r, outcome)
      PROVE  [Contract!Next]_<<Phases, Lasts>>
  <2>1. permits[r] = "reserved"
    BY <1>2, PhaseFacts DEF Concludes
  <2>2. \A q \in Requests : permits'[q] = "none" <=> permits[q] = "none"
    BY <1>2, <2>1 DEF Concludes
  <2> QED
    BY <1>2, <2>2, PhasesKept DEF Concludes, PhaseOf
<1>3. ASSUME NEW r \in Requests, Accepts(r)
      PROVE  [Contract!Next]_<<Phases, Lasts>>
  <2>1. received' = received /\ PhaseOf(r) = "unknown"
    BY <1>3, PhaseFacts DEF Accepts
  <2>2. received[r].ended = "no" /\ permits'[r] = "reserved"
        /\ \A q \in Requests \ {r} : permits'[q] = permits[q]
    BY <1>3 DEF Accepts, Story, Silence
  <2>3. PhaseOf(r)' = "open" /\ \A q \in Requests \ {r} : PhaseOf(q)' = PhaseOf(q)
    BY <2>1, <2>2 DEF PhaseOf
  <2>4. Phases' = [Phases EXCEPT ![r] = "open"] /\ Phases[r] = "unknown" /\ Lasts' = Lasts
    BY <2>1, <2>3 DEF Phases, Lasts
  <2> QED
    BY <2>4 DEF Contract!Next, Contract!Accept, Phases, Lasts
<1> QED
  BY <1>1, <1>2, <1>3 DEF Says

LEMMA TakeContract ==
    ASSUME SchedulerInv, \A q \in Requests : Story(q), Take
    PROVE  [Contract!Next]_<<Phases, Lasts>>
<1> DEFINE e == eventQueue[1]
<1>1. permits' = permits
  BY TakenFacts
<1>2. CASE e.request \notin Requests
  <2>1. \A q \in Requests : received'[q] = received[q]
    BY <1>2, TakenFacts
  <2> QED
    BY <1>1, <2>1, PhasesKept DEF PhaseOf
<1>3. ASSUME NEW r \in Requests, e.request = r
      PROVE  [Contract!Next]_<<Phases, Lasts>>
  <2>1. /\ received'[r].last = e.seq
        /\ received'[r].ended = IF IsTerminal(e) THEN e.type ELSE received[r].ended
        /\ \A q \in Requests \ {r} : received'[q] = received[q]
    BY <1>3, TakenFacts
  <2>2. /\ received[r].ended = "no" /\ received[r].last < e.seq /\ Waiting(r) # {}
    BY <1>3, HeadFirst
  <2>3. PhaseOf(r) = "open"
    BY <2>2, PhaseFacts DEF Story, Silence
  <2>4. permits[r] # "none"
    BY <2>2, <2>3 DEF PhaseOf
  <2>5. PhaseOf(r)' = IF IsTerminal(e) THEN "closed" ELSE "open"
    BY <1>1, <2>1, <2>2, <2>4 DEF PhaseOf, IsTerminal, TerminalTypes
  <2>6. \A q \in Requests \ {r} : PhaseOf(q)' = PhaseOf(q)
    BY <1>1, <2>1 DEF PhaseOf
  <2>7. /\ Phases[r] = "open" /\ Lasts'[r] > Lasts[r]
        /\ Lasts' = [Lasts EXCEPT ![r] = Lasts'[r]]
    <3>1. e.seq > received[r].last
      <4>1. e.seq \in Nat /\ received[r].last \in Nat
        BY TakenFacts, EventTypes DEF SchedulerInv, DispatcherInv, DispatcherTypeOK
      <4> QED
        BY <2>2, <4>1
    <3> QED
      BY <2>1, <2>3, <3>1 DEF Phases, Lasts
  <2>8. CASE IsTerminal(e)
    <3>1. Phases' = [Phases EXCEPT ![r] = "closed"]
      BY <2>5, <2>6, <2>8 DEF Phases
    <3> QED
      BY <2>7, <3>1 DEF Contract!Next, Contract!Close, Contract!Said, Phases, Lasts
  <2>9. CASE ~IsTerminal(e)
    <3>1. Phases' = Phases
      BY <2>3, <2>5, <2>6, <2>9 DEF Phases
    <3> QED
      BY <2>7, <3>1 DEF Contract!Next, Contract!Tell, Contract!Said, Phases, Lasts
  <2> QED
    BY <2>8, <2>9
<1> QED
  BY <1>2, <1>3

LEMMA DispatcherContract ==
    ASSUME SchedulerInv, \A q \in Requests : Story(q), Dispatcher, UNCHANGED schedulerVars
    PROVE  [Contract!Next]_<<Phases, Lasts>>
<1>1. CASE Take
  BY <1>1, TakeContract
<1>2. CASE Complete
  <2>1. received' = received
    BY <1>2 DEF Complete
  <2>2. ASSUME NEW r \in Requests PROVE PhaseOf(r)' = PhaseOf(r)
    <3>1. CASE IsTerminalOf(current, r)
      BY <2>1, <3>1 DEF Story, Finality, PhaseOf
    <3>2. CASE ~IsTerminalOf(current, r)
      <4>1. permits'[r] = permits[r]
        BY <1>2, <3>2, PermitTypes DEF Complete, IsTerminalOf, SchedulerInv
      <4> QED
        BY <2>1, <4>1 DEF PhaseOf
    <3> QED
      BY <3>1, <3>2
  <2> QED
    BY <2>1, <2>2, PhasesKept
<1>3. CASE Exit
  BY <1>3, PhasesKept DEF Exit, PhaseOf
<1>4. ASSUME NEW c \in Callers, Stopper(c)
      PROVE  [Contract!Next]_<<Phases, Lasts>>
  <2>1. CASE StopBegin(c) \/ StopAwaited(c)
    BY <2>1, PhasesKept DEF StopBegin, StopAwaited, threadVars, PhaseOf
  <2>2. CASE StopJoined(c)
    <3>1. received' = received /\ \A r \in Requests : permits'[r] = "none"
      BY <2>2 DEF StopJoined, threadVars
    <3>2. Tracked = {} /\ eventQueue = <<>>
      BY <2>2 DEF StopJoined, SchedulerInv, ClosedInv, DispatcherInv, Quiescence
    <3>3. ASSUME NEW r \in Requests PROVE PhaseOf(r)' = PhaseOf(r)
      <4>1. req[r].state = "unknown" => PhaseOf(r) = "unknown" /\ received[r].ended = "no"
        BY PhaseFacts DEF Story, Silence
      <4>2. req[r].state = "unknown" \/ received[r].ended # "no"
        BY <3>2, PhaseFacts
      <4> QED
        BY <3>1, <4>1, <4>2 DEF PhaseOf
    <3> QED
      BY <3>1, <3>3, PhasesKept
  <2> QED
    BY <1>4, <2>1, <2>2 DEF Stopper
<1> QED
  BY <1>1, <1>2, <1>3, <1>4 DEF Dispatcher, DispatcherThread

LEMMA ContractStep ==
    ASSUME SchedulerInv, StoryInv, [Next]_vars
    PROVE  [Contract!Next]_<<Phases, Lasts>>
<1>1. \A r \in Requests : Story(r)
  BY DEF StoryInv
<1>2. CASE Client \/ CancelAll \/ Closer \/ Worker
  BY <1>1, <1>2, SchedulerSays, SaysContract DEF StoryInv
<1>3. CASE Dispatcher /\ UNCHANGED schedulerVars
  BY <1>1, <1>3, DispatcherContract
<1>4. CASE UNCHANGED vars
  BY <1>4, PhasesKept DEF vars, dispatcherVars, queueVars, threadVars, PhaseOf
<1> QED
  BY <1>2, <1>3, <1>4 DEF Next

-----------------------------------------------------------------------------
(* The counter of accepted requests *)

Known == {r \in Requests : req[r].state # "unknown"}

AcceptedAreKnown == accepted = Cardinality(Known)

LEMMA KnownFinite == IsFiniteSet(Known)
<1>1. Known \subseteq Requests
  BY DEF Known
<1> QED
  BY <1>1, RequestsAssumption, FS_Subset

LEMMA KnownCounted ==
    ASSUME SchedulerInv, StoryInv, AcceptedAreKnown, [Next]_vars
    PROVE  AcceptedAreKnown'
<1>1. ASSUME accepted' = accepted, \A q \in Requests : Same(q) \/ (/\ req[q].state # "unknown"
                                                                 /\ req'[q].state # "unknown")
      PROVE  AcceptedAreKnown'
  <2>1. Known' = Known
    BY <1>1 DEF Known, Same
  <2> QED
    BY <1>1, <2>1 DEF AcceptedAreKnown
<1>2. ASSUME NEW r \in Requests, Accepts(r) PROVE AcceptedAreKnown'
  <2>1. Known' = Known \cup {r} /\ r \notin Known /\ accepted' = accepted + 1
    BY <1>2 DEF Accepts, Others, Same, Known
  <2> QED
    BY <2>1, KnownFinite, FS_AddElement DEF AcceptedAreKnown
<1>3. CASE Client \/ CancelAll \/ Closer \/ Worker
  <2>1. Says
    BY <1>3, SchedulerSays DEF StoryInv
  <2>2. ASSUME NEW r \in Requests, NEW outcome \in TerminalTypes,
               Speaks(r) \/ Concludes(r, outcome)
        PROVE  AcceptedAreKnown'
    BY <1>1, <2>2 DEF Speaks, Concludes, Others, Tracked
  <2> QED
    BY <1>1, <1>2, <2>1, <2>2 DEF Says, Silent, Reports, TerminalTypes
<1>4. CASE UNCHANGED schedulerVars
  BY <1>1, <1>4 DEF schedulerVars, requestVars, Same, Tracked
<1> QED
  BY <1>3, <1>4 DEF Next, vars

-----------------------------------------------------------------------------
(* The theorems *)

(* The inductive invariant of the events: what waits in the queue continues *)
(* what the callback has heard.                                             *)
THEOREM StoryInvariant == Spec => [](SchedulerInv /\ StoryInv)
<1>1. SchedulerInit => StoryInv
  <2> SUFFICES ASSUME SchedulerInit PROVE StoryInv
    OBVIOUS
  <2>1. /\ eventQueue = <<>> /\ current = NoEvent /\ ending = NoRequest
        /\ \A r \in Requests : /\ req[r] = Unknown /\ permits[r] = "none"
                               /\ received[r] = [last |-> 0, ended |-> "no"]
    BY DEF SchedulerInit, DispatcherInit
  <2>2. \A r \in Requests : Waiting(r) = {}
    BY <2>1, EmptySeq DEF Waiting
  <2>3. \A r \in Requests : Ordered(r) /\ Unfinished(r) /\ Silence(r)
    BY <2>1, <2>2 DEF Ordered, Unfinished, Silence, Tracked, Unknown
  <2>4. \A r \in Requests : Finality(r)
    BY <2>1, <2>2, NoEventIsNone DEF Finality, Unknown, IsTerminalOf
  <2> QED
    BY <2>1, <2>3, <2>4 DEF StoryInv, Story, EndingUncancelled
<1>2. SchedulerInv /\ StoryInv /\ [Next]_vars => StoryInv'
  BY StoryKept
<1> QED
  BY <1>1, <1>2, SchedulerInvariant, PTL DEF Spec

(* The events of a request are queued in the order of their numbers, after  *)
(* all its callback has seen; nothing is queued after its terminal event.   *)
THEOREM EventsStayInOrder == Spec => []EventsInOrder
<1>1. SchedulerInv /\ StoryInv => EventsInOrder
  <2> SUFFICES ASSUME SchedulerInv, StoryInv, NEW i \in 1..Len(eventQueue),
                      eventQueue[i].request # NoRequest
               PROVE  LET e == eventQueue[i] IN
                      /\ received[e.request].last < e.seq
                      /\ e.request \in Tracked => e.seq < req[e.request].next /\ ~IsTerminal(e)
                      /\ \A j \in (i + 1)..Len(eventQueue) :
                            eventQueue[j].request = e.request =>
                               e.seq < eventQueue[j].seq /\ ~IsTerminal(e)
    BY DEF EventsInOrder
  <2> DEFINE r == eventQueue[i].request
  <2>1. r \in Requests /\ i \in Waiting(r) /\ Story(r)
    BY QueueOfEvents, EventTypes DEF Waiting, StoryInv
  <2>2. ASSUME NEW j \in (i + 1)..Len(eventQueue), eventQueue[j].request = r
        PROVE  j \in Waiting(r) /\ i < j
    BY <2>2, QueueOfEvents DEF Waiting
  <2> QED
    BY <2>1, <2>2 DEF Story, Ordered, Unfinished
<1> QED
  BY <1>1, StoryInvariant, PTL

(* The native scheduler and its dispatcher implement the contract of        *)
(* llw_runtime.h: each request is accepted, told about with increasing      *)
(* numbers and closed, once, by its terminal event; whatever is cancelled,  *)
(* fails, is refused or retried, and whenever the runtime is destroyed.     *)
THEOREM ContractHolds == Spec => ContractImplemented
<1>1. SchedulerInit => Contract!Init
  BY DEF SchedulerInit, DispatcherInit, Contract!Init, PhaseOf
<1>2. SchedulerInv /\ StoryInv /\ [Next]_vars => [Contract!Next]_Contract!contractVars
  BY ContractStep DEF Contract!contractVars, Phases, Lasts
<1> QED
  BY <1>1, <1>2, StoryInvariant, PTL DEF Spec, ContractImplemented, Contract!Spec

(* A cancel that returned while the outcome was open is heeded: the request *)
(* gets neither a token nor DONE any more, also from a decode under way.    *)
THEOREM CancelHeeded == Spec => CancelIsHeeded
<1>1. ASSUME SchedulerInv, StoryInv, [Next]_vars, NEW r \in Tracked, req[r].cancel,
             ~IsPending(r), NEW type \in {"token", "done"}
      PROVE  ~Appended(EventOf(r, type))
  <2> SUFFICES ASSUME Appended(EventOf(r, type)) PROVE FALSE
    OBVIOUS
  <2>1. /\ Len(eventQueue') > Len(eventQueue)
        /\ eventQueue'[Len(eventQueue')].type = type
        /\ eventQueue'[Len(eventQueue')].request = r
    BY DEF Appended, EventOf
  <2>2. eventQueue \in Seq(Event) /\ Len(eventQueue) \in Nat /\ r \in Requests
    BY <1>1, QueueOfEvents DEF Tracked
  <2>3. ASSUME NEW e, eventQueue' = Append(eventQueue, e) PROVE e.type = type /\ e.request = r
    BY <2>1, <2>2, <2>3
  <2>4. CASE Client \/ CancelAll \/ Closer \/ Worker
    <3>1. Says
      BY <1>1, <2>4, SchedulerSays DEF StoryInv
    <3>2. ASSUME NEW q \in Requests, Accepts(q) \/ Speaks(q) PROVE FALSE
      BY <1>1, <2>3, <3>2 DEF Accepts, Speaks, EventOf
    <3>3. ASSUME NEW q \in Requests, NEW outcome \in TerminalTypes, Concludes(q, outcome)
          PROVE  FALSE
      BY <1>1, <2>3, <3>3 DEF Concludes, EventOf, TerminalTypes
    <3>4. ~Silent
      BY <2>1, <2>2 DEF Silent
    <3>5. ~Reports
      BY <2>3 DEF Reports, Metrics
    <3> QED
      BY <3>1, <3>2, <3>3, <3>4, <3>5 DEF Says
  <2>5. CASE Dispatcher
    <3>1. CASE Take
      <4>1. eventQueue # <<>> /\ eventQueue' = Tail(eventQueue)
        BY <3>1 DEF Take
      <4>2. Len(eventQueue') = Len(eventQueue) - 1
        BY <2>2, <4>1, EmptySeq, HeadTailProperties
      <4> QED
        BY <2>1, <2>2, <4>2
    <3>2. CASE ~Take
      <4>1. eventQueue' = eventQueue
        BY <2>5, <3>2 DEF Dispatcher, DispatcherThread, Complete, Exit, Stopper, StopBegin,
                          StopJoined, StopAwaited, queueVars
      <4> QED
        BY <2>1, <2>2, <4>1
    <3> QED
      BY <3>1, <3>2
  <2>6. CASE UNCHANGED vars
    BY <2>1, <2>2, <2>6 DEF vars, dispatcherVars, queueVars
  <2> QED
    BY <1>1, <2>4, <2>5, <2>6 DEF Next
<1>2. SchedulerInv /\ StoryInv /\ [Next]_vars =>
         \A r \in Tracked : req[r].cancel /\ ~IsPending(r) =>
            ~Appended(EventOf(r, "token")) /\ ~Appended(EventOf(r, "done"))
  BY <1>1
<1> QED
  BY <1>2, StoryInvariant, PTL DEF Spec, CancelIsHeeded

(* When the runtime is destroyed every request it accepted has been told    *)
(* how it ended: neither the wait for the counters nor the stop of the      *)
(* dispatcher comes too early for one of them.                              *)
THEOREM DestroyOwesNothing == Spec => []NothingOwedAtDestroy
<1>1. SchedulerInit => AcceptedAreKnown
  <2> SUFFICES ASSUME SchedulerInit PROVE AcceptedAreKnown
    OBVIOUS
  <2>1. accepted = 0 /\ Known = {}
    BY DEF SchedulerInit, Known, Unknown
  <2> QED
    BY <2>1, FS_EmptySet DEF AcceptedAreKnown
<1>2. SchedulerInv /\ StoryInv /\ AcceptedAreKnown /\ [Next]_vars => AcceptedAreKnown'
  BY KnownCounted
<1>3. SchedulerInv /\ StoryInv /\ AcceptedAreKnown => NothingOwedAtDestroy
  <2> SUFFICES ASSUME SchedulerInv, StoryInv, AcceptedAreKnown, joinFinished
               PROVE  accepted = Cardinality({r \in Requests : received[r].ended # "no"})
    BY DEF NothingOwedAtDestroy, SchedulerInv, Placement
  <2>1. Tracked = {} /\ eventQueue = <<>>
    BY DEF SchedulerInv, ClosedInv, DispatcherInv, Quiescence
  <2>2. ASSUME NEW r \in Requests PROVE received[r].ended # "no" <=> req[r].state # "unknown"
    BY <2>1, PhaseFacts DEF StoryInv, Story, Silence
  <2>3. {r \in Requests : received[r].ended # "no"} = Known
    BY <2>2 DEF Known
  <2> QED
    BY <2>3 DEF AcceptedAreKnown
<1> QED
  BY <1>1, <1>2, <1>3, StoryInvariant, PTL DEF Spec
================================================================================
