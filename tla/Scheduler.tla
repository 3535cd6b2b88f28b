------------------------------- MODULE Scheduler -------------------------------
(***************************************************************************)
(* The request scheduler of the native runtime (scheduler.cpp) with the    *)
(* event dispatcher it publishes to and the inference engine it drives.    *)
(*                                                                         *)
(* Three kinds of threads meet here: clients in submit and cancel, the     *)
(* worker thread in run, and the closing thread in cancel_all_and_wait and *)
(* the destructor.  mutex_ serialises them; the worker gives it up only    *)
(* while it waits and during engine_.decode.  The worker's pass is split   *)
(* into one action per request it handles, because the dispatcher's thread *)
(* takes events between any two of its publishes; the operations of the    *)
(* other threads publish at most one regular event, so one action each is  *)
(* enough (taking an event commutes with everything else they do).         *)
(*                                                                         *)
(* Transient failures (an allocation that throws inside publish, an engine *)
(* that cannot clear a sequence) are nondeterministic, at most MaxFaults   *)
(* of the kinds in Faults.                                                 *)
(***************************************************************************)
EXTENDS EventDispatcher, SequencesExt

CONSTANTS
    SlotCount,       \* slots_count_
    QueueCapacity,   \* queue_capacity_
    MaxWork,         \* bound: engine passes a sequence may need
    MaxMetrics,      \* bound: METRICS events admitted in one behaviour
    Faults,          \* the kinds of transient failure that may happen
    MaxFaults        \* bound: how many of them may happen

FaultKinds == {"submit", "token", "terminal", "cleanup"}

ASSUME SchedulerAssumption ==
    /\ SlotCount \in Nat \ {0} /\ QueueCapacity \in Nat \ {0}
    /\ MaxWork \in Nat \ {0} /\ MaxMetrics \in Nat /\ MaxFaults \in Nat
    /\ Faults \subseteq FaultKinds

Slots  == 0..(SlotCount - 1)
NoSlot == SlotCount           \* UINT32_MAX in the code: a request in no slot
Absent == -1                  \* no such sequence in the engine

VARIABLES
    lastHandle,   \* the last value of next_request_handle given out
    queued,       \* queued_
    req,          \* requests_: the record of every handle
    slots,        \* slots_: the request in each slot, or NoRequest
    accepted,     \* accepted_
    terminal,     \* terminal_
    closing,      \* stopping_ of the scheduler
    worker,       \* where the worker thread is in run()
    handles,      \* its local `pending` (retry) or `active` (decode)
    retryFailed,  \* its local retry_failed
    cursor,       \* the slot its loop over slots_ is at
    steps,        \* what is left of the engine's steps
    ending,       \* the step whose token was published, to be finished next
    closer,       \* where the closing thread is
    engine,       \* LlamaEngine::sequences_: passes each sequence still needs
    metricsSent,  \* METRICS events admitted
    faults        \* transient failures so far

requestVars == <<lastHandle, queued, req, slots, accepted, terminal>>
workerVars  == <<worker, handles, retryFailed, cursor, steps, ending>>
boundVars   == <<metricsSent, faults>>
schedulerVars == <<requestVars, closing, workerVars, closer, engine, boundVars>>
vars == <<dispatcherVars, schedulerVars>>

\* What a scheduler thread never touches in the dispatcher.
otherDispatcherVars == <<threadVars, stopVars, callerVars>>
publishVars == <<queueVars, permits>>

Unknown == [state |-> "unknown", cancel |-> FALSE, pending |-> "none",
            started |-> FALSE, cleaned |-> FALSE, slot |-> NoSlot, next |-> 1]
Erased == [Unknown EXCEPT !.state = "erased"]

Request == [state : {"unknown", "queued", "preprocessing", "running", "erased"},
            cancel : BOOLEAN,                     \* cancel_requested
            pending : {"none"} \cup TerminalTypes, \* terminal_pending and its state
            started : BOOLEAN,                    \* engine_started
            cleaned : BOOLEAN,                    \* cleanup_attempted
            slot : Slots \cup {NoSlot},           \* slot_id
            next : Nat]                           \* next_sequence

Step == [handle : Requests, bytes : BOOLEAN, finished : BOOLEAN, failed : BOOLEAN]

Tracked == {r \in Requests : req[r].state \in {"queued", "preprocessing", "running"}}
IsPending(r) == req[r].pending # "none"

\* mutex_ is free while the worker waits, decodes or has left, and the closer waits.
LockFree == worker \in {"idle", "decode", "exited"} /\ closer # "draining"

EventOf(r, type) == [type |-> type, request |-> r, seq |-> req[r].next]
Metrics == [type |-> "metrics", request |-> NoRequest, seq |-> 0]

\* Whether a failure of this kind may be injected, and what it costs.
MayFail(kind) == IF kind \in Faults /\ faults < MaxFaults THEN BOOLEAN ELSE {FALSE}
Cost(happened) == IF happened THEN 1 ELSE 0

-----------------------------------------------------------------------------
(* Finishing a request: finish_locked and try_publish_terminal_locked *)

\* A slot is given back when the terminal event is admitted.
SlotsWithout(r) == [s \in Slots |-> IF slots[s] = r THEN NoRequest ELSE slots[s]]

\* The terminal event is admitted: the request is erased and counted.
CommitTerminal(r, outcome) ==
    /\ EnqueueTerminal(EventOf(r, outcome))
    /\ req' = [req EXCEPT ![r] = Erased]
    /\ slots' = SlotsWithout(r)
    /\ terminal' = terminal + 1

\* A refused terminal event that is counted all the same.
CountedAnyway == terminal' = terminal + 1
NotCounted == UNCHANGED terminal

\* It is not: the request keeps its slot and its outcome, to be retried.
KeepPending(r, outcome, cleaned) ==
    /\ req' = [req EXCEPT ![r].pending = outcome, ![r].cleaned = cleaned]
    /\ NotCounted
    /\ UNCHANGED <<publishVars, slots>>

PublishTerminal(r, outcome, cleaned, fails) ==
    IF CanPublish(EventOf(r, outcome)) /\ ~fails
    THEN CommitTerminal(r, outcome)
    ELSE KeepPending(r, outcome, cleaned)

\* Forgetting that a request may be in the engine.
NeverCleaned(r) == FALSE
NeedsCleanup(r) == req[r].started /\ ~req[r].cleaned

\* finish_locked: the first outcome decided for a request stands.
Finish(r, outcome) ==
    IF IsPending(r)
    THEN UNCHANGED <<publishVars, req, slots, terminal, engine, faults>>
    ELSE \E publishFails \in MayFail("terminal"),
            cleanupFails \in IF NeedsCleanup(r) THEN MayFail("cleanup") ELSE {FALSE} :
           /\ faults' = faults + Cost(publishFails) + Cost(cleanupFails)
           /\ engine' = IF NeedsCleanup(r) THEN [engine EXCEPT ![r] = Absent] ELSE engine
           /\ PublishTerminal(r, IF cleanupFails THEN "error" ELSE outcome,
                              NeedsCleanup(r) \/ req[r].cleaned, publishFails)

-----------------------------------------------------------------------------
(* Clients: submit and cancel *)

\* The runtime refuses every client while it unloads or destroys.
Open == closer = "open"

\* Rolling back everything but the permit.
LeakPermit(r) == permits' = [permits EXCEPT ![r] = "reserved"]
RollBackPermit(r) == UNCHANGED permits

\* The handle is spent, nothing is retained: no permit, no room, or a throw.
SubmitRefused(r) ==
    /\ \/ ~CanReserve(r) /\ UNCHANGED faults
       \/ CanReserve(r) /\ ~CanPublish(EventOf(r, "queued")) /\ UNCHANGED faults
       \/ TRUE \in MayFail("submit") /\ faults' = faults + 1
    /\ RollBackPermit(r)
    /\ UNCHANGED <<queueVars, queued, req, accepted>>

JoinQueue(r) == queued' = Append(queued, r)

SubmitAccepted(r) ==
    /\ CanReserve(r)
    /\ CanPublish(EventOf(r, "queued"))
    /\ permits' = [permits EXCEPT ![r] = "reserved"]
    /\ EnqueueRegular(EventOf(r, "queued"))
    /\ req' = [req EXCEPT ![r].state = "queued", ![r].next = @ + 1]
    /\ JoinQueue(r)
    /\ accepted' = accepted + 1
    /\ UNCHANGED faults

Submit(r) ==
    /\ LockFree /\ Open
    /\ Len(queued) < QueueCapacity
    /\ r = lastHandle + 1
    /\ lastHandle' = r
    /\ SubmitAccepted(r) \/ SubmitRefused(r)
    /\ UNCHANGED <<otherDispatcherVars, slots, terminal, closing, workerVars, closer,
                   engine, metricsSent>>

Without(i) == RemoveAt(queued, i)

\* A request in the queue is finished at once, any other by the worker.
CancelQueued(r) ==
    /\ req[r].state = "queued"
    /\ \E i \in 1..Len(queued) : queued[i] = r /\ queued' = Without(i)
    /\ \E publishFails \in MayFail("terminal") :
          /\ faults' = faults + Cost(publishFails)
          /\ IF CanPublish(EventOf(r, "cancelled")) /\ ~publishFails
             THEN CommitTerminal(r, "cancelled")
             ELSE /\ req' = [req EXCEPT ![r].cancel = TRUE, ![r].pending = "cancelled"]
                  /\ UNCHANGED <<publishVars, slots, terminal>>
    /\ UNCHANGED engine

\* Finishing a running request from the client's thread.
FinishInSlot(r) == req[r].state # "queued" /\ Finish(r, "cancelled") /\ UNCHANGED queued

CancelInSlot(r) ==
    /\ req[r].state # "queued"
    /\ req' = [req EXCEPT ![r].cancel = TRUE]
    /\ UNCHANGED <<publishVars, queued, slots, terminal, engine, faults>>

\* A handle that is not tracked, or already cancelled, changes nothing.
Cancel(r) ==
    /\ LockFree /\ Open
    /\ r \in Tracked /\ ~req[r].cancel
    /\ CancelQueued(r) \/ CancelInSlot(r)
    /\ UNCHANGED <<otherDispatcherVars, lastHandle, accepted, closing, workerVars,
                   closer, metricsSent>>

-----------------------------------------------------------------------------
(* The closing thread: cancel_all_and_wait, then the destructor *)

CancelAll ==
    /\ LockFree /\ Open
    /\ req' = [r \in Requests |-> IF r \in Tracked THEN [req[r] EXCEPT !.cancel = TRUE]
                                                   ELSE req[r]]
    /\ closer' = "draining"
    /\ UNCHANGED <<dispatcherVars, lastHandle, queued, slots, accepted, terminal, closing,
                   workerVars, engine, boundVars>>

DrainQueued ==
    /\ closer = "draining"
    /\ queued # <<>>
    /\ queued' = Tail(queued)
    /\ Finish(Head(queued), "cancelled")
    /\ UNCHANGED <<otherDispatcherVars, lastHandle, accepted, closing, workerVars, closer,
                   metricsSent>>

DrainDone ==
    /\ closer = "draining"
    /\ queued = <<>>
    /\ closer' = "waiting"
    /\ UNCHANGED <<dispatcherVars, requestVars, closing, workerVars, engine, boundVars>>

\* The wait on idle_.
Idle == terminal = accepted

WaitIdle ==
    /\ closer = "waiting"
    /\ LockFree
    /\ Idle
    /\ closer' = "drained"
    /\ UNCHANGED <<dispatcherVars, requestVars, closing, workerVars, engine, boundVars>>

StopWorker ==
    /\ closer = "drained"
    /\ LockFree
    /\ closing' = TRUE
    /\ closer' = "joining"
    /\ UNCHANGED <<dispatcherVars, requestVars, workerVars, engine, boundVars>>

JoinWorker ==
    /\ closer = "joining"
    /\ worker = "exited"
    /\ closer' = "joined"
    /\ UNCHANGED <<dispatcherVars, requestVars, closing, workerVars, engine, boundVars>>

-----------------------------------------------------------------------------
(* The worker thread: run *)

Pending == {r \in Tracked : IsPending(r)}

\* A wait that overlooks the requests whose terminal event must be retried.
HasWorkButRetries ==
    queued # <<>> \/ \E s \in Slots : slots[s] # NoRequest /\ ~IsPending(slots[s])
HasWork ==
    \/ queued # <<>>
    \/ Pending # {}
    \/ \E s \in Slots : slots[s] # NoRequest

\* The pass begins by collecting the requests with a terminal event to retry.
Wake ==
    /\ worker = "idle"
    /\ LockFree
    /\ HasWork
    /\ worker' = "retry"
    /\ handles' = Pending
    /\ retryFailed' = FALSE
    /\ UNCHANGED <<dispatcherVars, requestVars, closing, cursor, steps, ending, closer,
                   engine, boundVars>>

WorkerExit ==
    /\ worker = "idle"
    /\ LockFree
    /\ closing /\ ~HasWork
    /\ worker' = "exited"
    /\ UNCHANGED <<dispatcherVars, requestVars, closing, handles, retryFailed, cursor, steps,
                   ending, closer, engine, boundVars>>

\* requests_ is ordered by handle.
Retry(r) ==
    /\ worker = "retry"
    /\ r \in handles
    /\ \A q \in handles : r <= q
    /\ handles' = handles \ {r}
    /\ \E fails \in MayFail("terminal") :
          /\ faults' = faults + Cost(fails)
          /\ PublishTerminal(r, req[r].pending, req[r].cleaned, fails)
          /\ retryFailed' = (retryFailed \/ fails \/ ~CanPublish(EventOf(r, req[r].pending)))
    /\ UNCHANGED <<otherDispatcherVars, lastHandle, queued, accepted, closing, worker, cursor,
                   steps, ending, closer, engine, metricsSent>>

\* A failed retry ends the pass: unlock, yield, start over.
RetryDone ==
    /\ worker = "retry"
    /\ handles = {}
    /\ worker' = IF retryFailed THEN "idle" ELSE "cancel"
    /\ retryFailed' = FALSE
    /\ cursor' = 0
    /\ UNCHANGED <<dispatcherVars, requestVars, closing, handles, steps, ending, closer,
                   engine, boundVars>>

LastSlot == cursor + 1 = SlotCount

\* The cursor moves to the next slot, or to the next loop after the last one.
NextSlot(loop, after) ==
    /\ worker' = IF LastSlot THEN after ELSE loop
    /\ cursor' = IF LastSlot THEN 0 ELSE cursor + 1

CancelSlot ==
    /\ worker = "cancel"
    /\ LET r == slots[cursor] IN
       IF r # NoRequest /\ req[r].cancel
       THEN Finish(r, "cancelled")
       ELSE UNCHANGED <<publishVars, req, slots, terminal, engine, faults>>
    /\ NextSlot("cancel", "promote")
    /\ UNCHANGED <<otherDispatcherVars, lastHandle, queued, accepted, closing, handles,
                   retryFailed, steps, ending, closer, metricsSent>>

\* engine_.start succeeded: the sequence needs at least one pass.
StartOk(r) ==
    /\ req' = [req EXCEPT ![r].state = "running", ![r].slot = cursor, ![r].started = TRUE]
    /\ slots' = [slots EXCEPT ![cursor] = r]
    /\ \E work \in 1..MaxWork : engine' = [engine EXCEPT ![r] = work]
    /\ UNCHANGED <<publishVars, terminal, faults>>

\* It threw: the request was in its slot, but never in the engine.
StartFailed(r) ==
    /\ UNCHANGED engine
    /\ \E publishFails \in MayFail("terminal") :
          /\ faults' = faults + Cost(publishFails)
          /\ IF CanPublish(EventOf(r, "error")) /\ ~publishFails
             THEN CommitTerminal(r, "error")
             ELSE /\ req' = [req EXCEPT ![r].state = "preprocessing", ![r].slot = cursor,
                                        ![r].pending = "error"]
                  /\ slots' = [slots EXCEPT ![cursor] = r]
                  /\ UNCHANGED <<publishVars, terminal>>

Promote ==
    /\ worker = "promote"
    /\ slots[cursor] = NoRequest /\ queued # <<>>
    /\ queued' = Tail(queued)
    /\ LET r == Head(queued) IN
       IF req[r].cancel THEN Finish(r, "cancelled") ELSE StartOk(r) \/ StartFailed(r)
    /\ NextSlot("promote", "active")
    /\ UNCHANGED <<otherDispatcherVars, lastHandle, accepted, closing, handles, retryFailed,
                   steps, ending, closer, metricsSent>>

PromoteNothing ==
    /\ worker = "promote"
    /\ slots[cursor] # NoRequest \/ queued = <<>>
    /\ NextSlot("promote", "active")
    /\ UNCHANGED <<dispatcherVars, requestVars, closing, handles, retryFailed, steps, ending,
                   closer, engine, boundVars>>

Active == {r \in Requests : ~IsPending(r) /\ \E s \in Slots : slots[s] = r}

\* Collect the active requests and release the lock to decode them.
BeginDecode ==
    /\ worker = "active"
    /\ handles' = Active
    /\ worker' = IF Active = {} THEN "idle" ELSE "decode"
    /\ UNCHANGED <<dispatcherVars, requestVars, closing, retryFailed, cursor, steps, ending,
                   closer, engine, boundVars>>

-----------------------------------------------------------------------------
(* The engine, without the lock: LlamaEngine::decode *)

DecodeThrows ==
    /\ worker = "decode"
    /\ worker' = "fail"
    /\ UNCHANGED <<dispatcherVars, requestVars, closing, handles, retryFailed, cursor, steps,
                   ending, closer, engine, boundVars>>

\* llama_decode returned an error: every active request gets a failed step.
DecodeFails ==
    /\ worker = "decode"
    /\ worker' = "apply"
    /\ steps' = {[handle |-> r, bytes |-> FALSE, finished |-> FALSE, failed |-> TRUE] :
                  r \in handles}
    /\ handles' = {}
    /\ UNCHANGED <<dispatcherVars, requestVars, closing, retryFailed, cursor, ending, closer,
                   engine, boundVars>>

\* One pass of the batch: who advanced, who sampled a token, who is done.
Advance(batch, sampled, done, bytes) ==
    /\ engine' = [r \in Requests |-> IF r \in done THEN 0
                                     ELSE IF r \in batch THEN engine[r] - 1
                                     ELSE engine[r]]
    /\ steps' = {[handle |-> r, bytes |-> r \in bytes, finished |-> r \in done,
                   failed |-> FALSE] : r \in sampled}

\* The batch advances some sequence that still has work, if there is one; a
\* sequence samples a token or not, and ends when its work does, or earlier.
DecodeAdvances ==
    /\ worker = "decode"
    /\ worker' = "apply"
    /\ LET hasWork == {r \in handles : engine[r] > 0} IN
       \E batch \in SUBSET hasWork : \E sampled \in SUBSET batch :
       \E done \in SUBSET sampled, bytes \in SUBSET sampled :
          /\ hasWork # {} => batch # {}
          /\ \A r \in batch : engine[r] = 1 => r \in done
          /\ Advance(batch, sampled, done, bytes)
    /\ handles' = {}
    /\ UNCHANGED <<dispatcherVars, requestVars, closing, retryFailed, cursor, ending, closer,
                   boundVars>>

\* The worker goes on when it has the lock again.
Decode == closer # "draining" /\ (DecodeThrows \/ DecodeFails \/ DecodeAdvances)

-----------------------------------------------------------------------------
(* Applying the engine's answer, with the lock again *)

FailActive(r) ==
    /\ worker = "fail"
    /\ r \in handles
    /\ handles' = handles \ {r}
    /\ Finish(r, "error")
    /\ UNCHANGED <<otherDispatcherVars, lastHandle, queued, accepted, closing, worker,
                   retryFailed, cursor, steps, ending, closer, metricsSent>>

FailDone ==
    /\ worker = "fail"
    /\ handles = {}
    /\ worker' = "idle"
    /\ UNCHANGED <<dispatcherVars, requestVars, closing, handles, retryFailed, cursor, steps,
                   ending, closer, engine, boundVars>>

\* A worker that decided what to do with the step before it took the lock.
CancelUnseen(r) == FALSE
CancelSeen(r) == req[r].cancel

Applying(st) == worker = "apply" /\ ending = NoRequest /\ st \in steps

ApplyCancelled(st) ==
    /\ Applying(st)
    /\ CancelSeen(st.handle)
    /\ steps' = steps \ {st}
    /\ Finish(st.handle, "cancelled")
    /\ UNCHANGED <<otherDispatcherVars, lastHandle, queued, accepted, closing, worker, handles,
                   retryFailed, cursor, ending, closer, metricsSent>>

Outcome(st) == IF st.failed THEN "error" ELSE "done"
Ends(st) == st.failed \/ st.finished

\* The next event gets the same number again.
RepeatNumber(r) == UNCHANGED req
NumberEvent(r) == req' = [req EXCEPT ![r].next = @ + 1]

\* The token is admitted; a step that ends its request is finished next.
ApplyToken(st) ==
    /\ Applying(st) /\ ~CancelSeen(st.handle)
    /\ st.bytes
    /\ CanPublish(EventOf(st.handle, "token"))
    /\ EnqueueRegular(EventOf(st.handle, "token"))
    /\ NumberEvent(st.handle)
    /\ ending' = IF Ends(st) THEN st.handle ELSE NoRequest
    /\ steps' = IF Ends(st) THEN steps ELSE steps \ {st}
    /\ UNCHANGED <<otherDispatcherVars, permits, lastHandle, queued, slots, accepted, terminal,
                   closing, worker, handles, retryFailed, cursor, closer, engine, boundVars>>

\* The queue is full: the request fails, its last token is lost.
ApplyOverflow(st) ==
    /\ Applying(st) /\ ~CancelSeen(st.handle)
    /\ st.bytes
    /\ ~CanPublish(EventOf(st.handle, "token"))
    /\ steps' = steps \ {st}
    /\ Finish(st.handle, "error")
    /\ UNCHANGED <<otherDispatcherVars, lastHandle, queued, accepted, closing, worker, handles,
                   retryFailed, cursor, ending, closer, metricsSent>>

\* The publish throws: the catch around the pass drops every step not yet applied.
ApplyThrows(st) ==
    /\ Applying(st) /\ ~CancelSeen(st.handle)
    /\ st.bytes
    /\ TRUE \in MayFail("token")
    /\ faults' = faults + 1
    /\ steps' = {}
    /\ worker' = "idle"
    /\ UNCHANGED <<dispatcherVars, requestVars, closing, handles, retryFailed, cursor, ending,
                   closer, engine, metricsSent>>

\* A step without bytes, or the end of one whose token was published.
ApplyEnd(st) ==
    /\ worker = "apply" /\ st \in steps
    /\ \/ ending = st.handle
       \/ ending = NoRequest /\ ~st.bytes /\ ~CancelSeen(st.handle)
    /\ steps' = steps \ {st}
    /\ ending' = NoRequest
    /\ IF Ends(st) THEN Finish(st.handle, Outcome(st))
       ELSE UNCHANGED <<publishVars, req, slots, terminal, engine, faults>>
    /\ UNCHANGED <<otherDispatcherVars, lastHandle, queued, accepted, closing, worker, handles,
                   retryFailed, cursor, closer, metricsSent>>

\* Telemetry of the pass, dropped when the queue is full.
SendMetrics ==
    /\ worker = "apply" /\ steps = {}
    /\ worker' = "idle"
    /\ IF CanPublish(Metrics) /\ metricsSent < MaxMetrics
       THEN EnqueueRegular(Metrics) /\ metricsSent' = metricsSent + 1
       ELSE UNCHANGED <<queueVars, metricsSent>>
    /\ UNCHANGED <<otherDispatcherVars, permits, requestVars, closing, handles, retryFailed,
                   cursor, steps, ending, closer, engine, faults>>

-----------------------------------------------------------------------------
SchedulerInit ==
    /\ DispatcherInit
    /\ lastHandle = 0
    /\ queued = <<>>
    /\ req = [r \in Requests |-> Unknown]
    /\ slots = [s \in Slots |-> NoRequest]
    /\ accepted = 0
    /\ terminal = 0
    /\ closing = FALSE
    /\ worker = "idle"
    /\ handles = {}
    /\ retryFailed = FALSE
    /\ cursor = 0
    /\ steps = {}
    /\ ending = NoRequest
    /\ closer = "open"
    /\ engine = [r \in Requests |-> Absent]
    /\ metricsSent = 0
    /\ faults = 0

Client == \E r \in Requests : Submit(r) \/ Cancel(r)

Worker ==
    \/ Wake \/ WorkerExit \/ RetryDone \/ CancelSlot \/ Promote \/ PromoteNothing
    \/ BeginDecode \/ Decode \/ FailDone \/ SendMetrics
    \/ \E r \in Requests : Retry(r) \/ FailActive(r)
    \/ \E st \in steps :
          ApplyCancelled(st) \/ ApplyToken(st) \/ ApplyOverflow(st) \/ ApplyThrows(st)
          \/ ApplyEnd(st)

\* What the closing thread does once it has begun.
Closer == DrainQueued \/ DrainDone \/ WaitIdle \/ StopWorker \/ JoinWorker

\* The dispatcher is stopped after the scheduler is destroyed (llw_runtime_destroy).
Stopper(c) == (closer = "joined" /\ StopBegin(c)) \/ StopJoined(c) \/ StopAwaited(c)

Dispatcher == DispatcherThread \/ \E c \in Callers : Stopper(c)

Next == \/ Client \/ CancelAll \/ Closer \/ Worker
        \/ Dispatcher /\ UNCHANGED schedulerVars

\* The two threads of the runtime are scheduled and callbacks return; a
\* closing thread continues.  Clients may stop calling at any moment.
Fairness ==
    /\ WF_vars(Worker)
    /\ WF_vars(Closer)
    /\ WF_vars(DispatcherThread /\ UNCHANGED schedulerVars)

Spec == SchedulerInit /\ [][Next]_vars /\ Fairness

-----------------------------------------------------------------------------
SchedulerTypeOK ==
    /\ DispatcherTypeOK
    /\ lastHandle \in Nat
    /\ queued \in Seq(Requests)
    /\ req \in [Requests -> Request]
    /\ slots \in [Slots -> Requests \cup {NoRequest}]
    /\ accepted \in Nat /\ terminal \in Nat
    /\ closing \in BOOLEAN
    /\ worker \in {"idle", "retry", "cancel", "promote", "active", "decode", "fail", "apply",
                   "exited"}
    /\ handles \in SUBSET Requests
    /\ retryFailed \in BOOLEAN
    /\ cursor \in Slots
    /\ steps \in SUBSET Step
    /\ ending \in Requests \cup {NoRequest}
    /\ closer \in {"open", "draining", "waiting", "drained", "joining", "joined"}
    /\ engine \in [Requests -> {Absent} \cup Nat]
    /\ metricsSent \in 0..MaxMetrics
    /\ faults \in Nat

(* No request is lost: every tracked request waits in the queue, holds its  *)
(* slot, or has a terminal event to retry; the queue and the slots hold     *)
(* only requests in the state that says so, in the order of arrival.        *)
RequestsPlaced ==
    /\ \A i \in 1..Len(queued) :
          /\ req[queued[i]].state = "queued" /\ ~IsPending(queued[i])
          /\ \A j \in 1..Len(queued) : i < j => queued[i] < queued[j]
    /\ \A s \in Slots : slots[s] # NoRequest =>
          req[slots[s]].state \in {"preprocessing", "running"} /\ req[slots[s]].slot = s
    /\ \A r \in Tracked :
          \/ \E i \in 1..Len(queued) : queued[i] = r
          \/ \E s \in Slots : slots[s] = r
          \/ IsPending(r)

(* A request holds the permit of its terminal event from acceptance until   *)
(* that event is admitted, and a refused submit keeps none: the terminal    *)
(* event of a tracked request can be refused only by a stopping dispatcher. *)
PermitPerRequest ==
    \A r \in Requests : permits[r] = "reserved" <=> r \in Tracked

(* No submit, cancel, retry or failure loses a request: as long as it has   *)
(* not ended it is in the place its record names, and its terminal event    *)
(* has a permit.                                                            *)
RequestsHeld == RequestsPlaced /\ PermitPerRequest

(* cancel_all_and_wait waits for the right thing: the two counters agree    *)
(* exactly when nothing is tracked any more.                                *)
CountersMatch == accepted - terminal = Cardinality(Tracked)

(* Sequence memory is never shared: a sequence lives in the engine exactly  *)
(* while its request runs in its slot, so cleanup precedes the slot's reuse.*)
SequencesOwned ==
    \A r \in Requests :
        engine[r] # Absent <=>
            /\ req[r].state = "running" /\ ~IsPending(r)
            /\ req[r].slot \in Slots /\ slots[req[r].slot] = r

(* engine_.decode runs without the lock, and meanwhile nobody finishes,     *)
(* cleans up or moves the requests it was given.                            *)
DecodeOnLiveSequences ==
    worker = "decode" => \A r \in handles :
        engine[r] # Absent /\ ~IsPending(r) /\ slots[req[r].slot] = r

(* The events of a request are numbered in the order they are queued, after *)
(* everything its callback has seen, and its terminal event is the last.    *)
EventsInOrder ==
    \A i \in 1..Len(eventQueue) : eventQueue[i].request # NoRequest =>
        LET e == eventQueue[i] IN
        /\ received[e.request].last < e.seq
        /\ e.request \in Tracked => e.seq < req[e.request].next /\ ~IsTerminal(e)
        /\ \A j \in (i + 1)..Len(eventQueue) : eventQueue[j].request = e.request =>
              e.seq < eventQueue[j].seq /\ ~IsTerminal(e)

(* The counters cancel_all_and_wait compares are exact, so that when the    *)
(* runtime is destroyed every accepted request has been told how it ended.  *)
NothingOwedAtDestroy ==
    /\ CountersMatch
    /\ joinFinished => accepted = Cardinality({r \in Requests : received[r].ended # "no"})

Appended(e) == Len(eventQueue') > Len(eventQueue) /\ eventQueue'[Len(eventQueue')] = e

(* Once cancel has returned for a request whose outcome is open, no token   *)
(* and no DONE of it is published, even by a decode that was already under  *)
(* way.                                                                     *)
CancelIsHeeded ==
    [][\A r \in Tracked : req[r].cancel /\ ~IsPending(r) =>
          ~Appended(EventOf(r, "token")) /\ ~Appended(EventOf(r, "done"))]_vars

\* The callback is eventually given the terminal event of every accepted request.
AcceptedTerminates == \A r \in Requests : r \in Tracked ~> received[r].ended # "no"

\* cancel_all_and_wait and the destructor return.
CloseReturns == closer = "draining" ~> closer = "joined"
=============================================================================
