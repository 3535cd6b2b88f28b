----------------------------- MODULE RustEvents -----------------------------
(***************************************************************************)
(* The routing of native events in the Rust wrapper, crates/llm-runtime:   *)
(* the callback of the native dispatcher thread (CallbackState), the       *)
(* registry of requests with their one-shot terminal channels, the shared  *)
(* bounded channel of regular events, and the cancellation worker that     *)
(* withdraws the requests of a consumer that is too slow.                  *)
(*                                                                         *)
(* Four threads meet here: the native dispatcher, which runs the callback, *)
(* the owner of the runtime, which submits, cancels, drops and unloads     *)
(* under call_lock, the cancellation worker and the consumer of events.    *)
(* The native side is what RequestContract allows: QUEUED is said before   *)
(* submit returns, the terminal event comes last and keeps its permit      *)
(* until its callback has returned.                                        *)
(***************************************************************************)
EXTENDS Naturals, FiniteSets, SequencesExt

CONSTANTS
    Requests,         \* the handles the native side gives out, in order
    Live,             \* slots and queue: requests the native side works on at once
    Permits,          \* terminal_capacity_ of the native dispatcher
    MaxOutstanding,   \* max_outstanding of the registry
    RegularCapacity,  \* event_queue_capacity
    MaxSaid           \* bound on the tokens, metrics and log events

ASSUME BoundsAssumption ==
    /\ Requests \subseteq Nat \ {0}
    /\ Live \in Nat \ {0} /\ Permits \in Nat \ {0} /\ MaxOutstanding \in Nat \ {0}
    /\ RegularCapacity \in Nat \ {0} /\ MaxSaid \in Nat

VARIABLES
    native,      \* what the native side knows of a request
    said,        \* tokens and telemetry so far
    withdrawn,   \* requests whose native cancellation was asked for
    queue,       \* the native dispatcher's queue
    callback,    \* where the callback is, and with which event
    registry,    \* RequestRegistry.entries
    state,       \* the RequestState a stream and an entry share
    regular,     \* events in the shared channel
    terminals,   \* what was sent into the one-shot channel of a request
    pending,     \* CancellationState
    wake,        \* the wake channel of capacity 1, and whether its sender is gone
    worker,      \* the cancellation worker
    owner,       \* the thread that owns the runtime
    streams,     \* the RequestStreams it holds
    lost,        \* requests of which a regular event was thrown away
    calls,       \* native cancellations of a request
    violations   \* the reasons invariant_violations was raised for

nativeVars == <<native, said, withdrawn>>
routing == <<registry, state, terminals>>
cancelling == <<pending, wake>>
history == <<lost, calls, violations>>
vars == <<nativeVars, queue, callback, routing, regular, cancelling, worker, owner,
          streams, history>>

Event(kind, r) == [kind |-> kind, request |-> r]
NoEvent == Event("none", 0)
At(step, e) == [step |-> step, event |-> e]
Idle == At("idle", NoEvent)
Doing(what, r) == [at |-> what, handle |-> r]

\* TerminalRoute and RegistryEntry; "absent" is a handle without an entry.
Absent == [route |-> "absent", state |-> FALSE, done |-> FALSE,
           failed |-> FALSE, cancel |-> FALSE]
Fresh == [Absent EXCEPT !.route = "unregistered"]
Entries == {r \in Requests : registry[r].route # "absent"}
Entry(r) == IF registry[r] = Absent THEN Fresh ELSE registry[r]
RegistryFull(r) == registry[r] = Absent /\ Cardinality(Entries) >= MaxOutstanding

Running == {r \in Requests : native[r] = "running"}
Outstanding == {r \in Requests : native[r] \in {"running", "ended"}}

\* Who holds the RequestState, and with it the correlation number that the
\* native side only knows the address of.
Held(r) == r \in streams \/ owner = Doing("registering", r) \/ registry[r].state

Init ==
    /\ native = [r \in Requests |-> "new"] /\ said = 0
    /\ withdrawn = {} /\ queue = <<>> /\ callback = Idle
    /\ registry = [r \in Requests |-> Absent]
    /\ state = [r \in Requests |-> [done |-> FALSE, failed |-> FALSE, cancel |-> FALSE]]
    /\ regular = 0 /\ terminals = [r \in Requests |-> <<>>]
    /\ pending = <<>> /\ wake = "empty" /\ worker = Doing("recv", 0)
    /\ owner = Doing("idle", 0) /\ streams = {}
    /\ lost = {} /\ calls = [r \in Requests |-> 0] /\ violations = {}

(***************************************************************************)
(* The native side                                                         *)
(***************************************************************************)
\* A token of a request, or metrics and log lines, which belong to none.
Say(e) ==
    /\ said < MaxSaid
    /\ said' = said + 1
    /\ queue' = Append(queue, e)
    /\ UNCHANGED <<native, withdrawn, callback, routing, regular, cancelling, worker, owner,
                   streams, history>>
Generate(r) == native[r] = "running" /\ Say(Event("token", r))
Telemetry == owner.at # "closed" /\ Say(Event("metrics", 0))

End(r) ==
    /\ native[r] = "running"
    /\ native' = [native EXCEPT ![r] = "ended"]
    /\ queue' = Append(queue, Event("terminal", r))
    /\ UNCHANGED <<said, withdrawn, callback, routing, regular, cancelling, worker, owner,
                   streams, history>>
EndWithdrawn(r) == r \in withdrawn /\ End(r)

(***************************************************************************)
(* The callback                                                            *)
(***************************************************************************)
\* The registry's mutex is held while a wake token is sent.
RegistryFree == callback.step # "wake"

\* send_or_store: the route afterwards, and what goes into the one-shot channel.
RouteAfter(e, kind) ==
    CASE e.route \in {"sender", "delivered"} -> "delivered"
      [] e.route = "unregistered" -> kind
      [] OTHER -> e.route
SentNow(e, kind) == IF e.route = "sender" THEN <<kind>> ELSE <<>>

\* The entry of a request that has ended stays.
KeepEntry(r) ==
    LET now == [Entry(r) EXCEPT !.route = RouteAfter(Entry(r), "native"), !.done = TRUE]
    IN /\ registry' = [registry EXCEPT ![r] = now]
       /\ state' = IF now.state THEN [state EXCEPT ![r].done = TRUE] ELSE state
       /\ terminals' = [terminals EXCEPT ![r] = @ \o SentNow(Entry(r), "native")]
       /\ UNCHANGED violations

\* native_terminal, up to the end of the registry's critical section.
NativeTerminal(r) ==
    LET e == Entry(r)
        now == IF e.failed THEN e ELSE [e EXCEPT !.route = RouteAfter(e, "native")]
    IN IF RegistryFull(r)
       THEN /\ violations' = violations \union {"registry"}
            /\ UNCHANGED routing
       ELSE /\ registry' = [registry EXCEPT ![r] =
                               IF e.state THEN Absent ELSE [now EXCEPT !.done = TRUE]]
            /\ state' = IF e.state THEN [state EXCEPT ![r].done = TRUE] ELSE state
            /\ terminals' = IF e.failed THEN terminals
                            ELSE [terminals EXCEPT ![r] = @ \o SentNow(e, "native")]
            /\ UNCHANGED violations

TakeTerminal ==
    /\ callback = Idle /\ queue # <<>> /\ Head(queue).kind = "terminal"
    /\ queue' = Tail(queue)
    /\ callback' = At("forget", Head(queue))
    /\ NativeTerminal(Head(queue).request)
    /\ UNCHANGED <<nativeVars, regular, cancelling, worker, owner, streams, lost, calls>>

\* CancellationRegistry::remove: a request waits there once at most.
Withdraw(r) ==
    IF \A i \in DOMAIN pending : pending[i] # r THEN UNCHANGED pending
    ELSE \E i \in DOMAIN pending : pending[i] = r /\ pending' = RemoveAt(pending, i)

\* The entry's pending cancel goes, and the native side erases the permit.
Forget ==
    /\ callback.step = "forget"
    /\ Withdraw(callback.event.request)
    /\ native' = [native EXCEPT ![callback.event.request] = "over"]
    /\ callback' = Idle
    /\ UNCHANGED <<said, withdrawn, queue, routing, regular, wake, worker, owner, streams,
                   history>>

\* An event that finds the channel full is dropped and nobody is told.
DropWhenFull ==
    /\ callback = Idle /\ queue # <<>> /\ Head(queue).kind # "terminal"
    /\ queue' = Tail(queue)
    /\ LET r == Head(queue).request
           full == regular = RegularCapacity
       IN /\ regular' = IF full THEN regular ELSE regular + 1
          /\ lost' = IF r # 0 /\ full THEN lost \union {r} ELSE lost
    /\ UNCHANGED <<nativeVars, callback, routing, cancelling, worker, owner, streams, calls,
                   violations>>

\* deliver, for an event that does not end its request.
TakeRegular ==
    /\ callback = Idle /\ queue # <<>> /\ Head(queue).kind # "terminal"
    /\ queue' = Tail(queue)
    /\ LET r == Head(queue).request
           refused == r # 0 /\ registry[r].failed
           full == regular = RegularCapacity
       IN /\ regular' = IF refused \/ full THEN regular ELSE regular + 1
          /\ callback' = IF ~refused /\ full /\ r # 0 THEN At("overflow", Head(queue)) ELSE Idle
          /\ lost' = IF r # 0 /\ (refused \/ full) THEN lost \union {r} ELSE lost
          /\ violations' = IF r = 0 /\ full THEN violations \union {"telemetry"} ELSE violations
    /\ UNCHANGED <<nativeVars, routing, cancelling, worker, owner, streams, calls>>

\* CancellationRegistry::request, under the registry's mutex: the claim is taken
\* unless the stream, or an earlier overflow, has it.
Asks(e, r) == ~e.cancel /\ \A i \in DOMAIN pending : pending[i] # r
\* The claim of the stream is not looked at.
ClaimsAgain(e, r) == Asks(e, r)
Claims(e, r) == Asks(e, r) /\ (e.state => ~state[r].cancel)

Overflow ==
    /\ callback.step = "overflow"
    /\ LET r == callback.event.request
           e == Entry(r)
       IN IF RegistryFull(r) \/ e.failed
          THEN /\ violations' = IF e.failed THEN violations ELSE violations \union {"registry"}
               /\ callback' = Idle
               /\ UNCHANGED <<routing, pending>>
          ELSE /\ registry' = [registry EXCEPT ![r] =
                                  [e EXCEPT !.failed = TRUE, !.cancel = TRUE,
                                            !.route = RouteAfter(e, "overflow")]]
               /\ state' = IF e.state THEN [state EXCEPT ![r].failed = TRUE,
                                                         ![r].cancel = @ \/ Asks(e, r)] ELSE state
               /\ terminals' = [terminals EXCEPT ![r] = @ \o SentNow(e, "overflow")]
               /\ pending' = IF Claims(e, r) THEN Append(pending, r) ELSE pending
               /\ callback' = IF Claims(e, r) THEN At("wake", callback.event) ELSE Idle
               /\ UNCHANGED violations
    /\ UNCHANGED <<nativeVars, queue, regular, wake, worker, owner, streams, lost, calls>>

Wake ==
    /\ callback.step = "wake"
    /\ wake' = IF wake \in {"empty", "token"} THEN "token" ELSE wake
    /\ violations' = IF wake \in {"last", "closed"} THEN violations \union {"wake"} ELSE violations
    /\ callback' = Idle
    /\ UNCHANGED <<nativeVars, queue, routing, regular, pending, worker, owner, streams,
                   lost, calls>>

(***************************************************************************)
(* The cancellation worker and the consumer                                *)
(***************************************************************************)
Receive ==
    /\ worker.at = "recv" /\ wake \in {"token", "last"}
    /\ wake' = IF wake = "token" THEN "empty" ELSE "closed"
    /\ worker' = Doing("pop", 0)
    /\ UNCHANGED <<nativeVars, queue, callback, routing, regular, pending, owner, streams,
                   history>>

Pop ==
    /\ worker.at = "pop"
    /\ IF pending = <<>>
       THEN worker' = Doing("recv", 0) /\ UNCHANGED pending
       ELSE worker' = Doing("cancel", Head(pending)) /\ pending' = Tail(pending)
    /\ UNCHANGED <<nativeVars, queue, callback, routing, regular, wake, owner, streams,
                   history>>

\* llw_request_cancel: refused for a request that has ended.
NativeCancel(r) ==
    /\ withdrawn' = IF r \in Running THEN withdrawn \union {r} ELSE withdrawn
    /\ calls' = [calls EXCEPT ![r] = @ + 1]

\* One request for every wake, although several wakes make one.
CancelOnePerWake ==
    /\ worker.at = "cancel"
    /\ NativeCancel(worker.handle)
    /\ worker' = Doing("recv", 0)
    /\ UNCHANGED <<native, said, queue, callback, routing, regular, cancelling, owner,
                   streams, lost, violations>>

WorkerCancel ==
    /\ worker.at = "cancel"
    /\ NativeCancel(worker.handle)
    /\ worker' = Doing("pop", 0)
    /\ UNCHANGED <<native, said, queue, callback, routing, regular, cancelling, owner,
                   streams, lost, violations>>

WorkerExit ==
    /\ worker.at = "recv" /\ wake = "closed"
    /\ worker' = Doing("exited", 0)
    /\ UNCHANGED <<nativeVars, queue, callback, routing, regular, cancelling, owner,
                   streams, history>>

Consume ==
    /\ regular > 0
    /\ regular' = regular - 1
    /\ UNCHANGED <<nativeVars, queue, callback, routing, cancelling, worker, owner,
                   streams, history>>

(***************************************************************************)
(* The owner                                                               *)
(***************************************************************************)
\* submit_inner up to the return of the native call, which has said QUEUED.
Submit(r) ==
    /\ owner.at = "idle" /\ native[r] = "new"
    /\ \A s \in Requests : s < r => native[s] # "new"
    /\ Cardinality(Running) < Live /\ Cardinality(Outstanding) < Permits
    /\ native' = [native EXCEPT ![r] = "running"]
    /\ queue' = Append(queue, Event("queued", r))
    /\ owner' = Doing("registering", r)
    /\ UNCHANGED <<said, withdrawn, callback, routing, regular, cancelling, worker,
                   streams, history>>

\* An entry that does not hold the state of its stream.
RegisterBare(r) ==
    LET e == Entry(r) IN
    /\ registry' = [registry EXCEPT ![r] = IF e.done THEN Absent ELSE [e EXCEPT !.route = "sender"]]
    /\ state' = [state EXCEPT ![r].done = e.done]
    /\ UNCHANGED <<terminals, violations>>

\* An end that came first is not passed on.
RegisterDeaf(r) ==
    LET e == Entry(r) IN
    /\ registry' = [registry EXCEPT ![r] = IF e.done THEN Absent
                                           ELSE [e EXCEPT !.state = TRUE, !.route = "sender"]]
    /\ state' = [state EXCEPT ![r] = [done |-> e.done, failed |-> e.failed, cancel |-> e.cancel]]
    /\ UNCHANGED <<terminals, violations>>

\* register: the entry takes the stream's state and sender, an event that came
\* first is passed on, and a request that has ended already leaves no entry.
Registered(r) ==
    LET e == Entry(r)
        early == e.route \in {"native", "overflow"}
    IN /\ registry' = [registry EXCEPT ![r] =
                          IF e.done THEN Absent
                          ELSE [e EXCEPT !.state = TRUE,
                                         !.route = IF e.route = "unregistered" THEN "sender"
                                                   ELSE "delivered"]]
       /\ state' = [state EXCEPT ![r] = [done |-> e.done, failed |-> e.failed,
                                         cancel |-> e.cancel]]
       /\ terminals' = IF early THEN [terminals EXCEPT ![r] = Append(@, e.route)]
                       ELSE terminals
       /\ UNCHANGED violations

RegisterRefused(r) ==
    /\ state' = [state EXCEPT ![r].done = TRUE]
    /\ terminals' = [terminals EXCEPT ![r] = Append(@, "refused")]
    /\ violations' = violations \union {"registry"}
    /\ UNCHANGED registry

Register ==
    /\ owner.at = "registering" /\ RegistryFree
    /\ IF RegistryFull(owner.handle) THEN RegisterRefused(owner.handle)
                                     ELSE Registered(owner.handle)
    /\ streams' = streams \union {owner.handle}
    /\ owner' = Doing("idle", 0)
    /\ UNCHANGED <<nativeVars, queue, callback, regular, cancelling, worker, lost, calls>>

\* request_native_cancel, called by cancel and by the drop of a stream.
Claim(r, then) ==
    /\ owner.at = "idle" /\ r \in streams
    /\ IF state[r].done \/ state[r].cancel
       THEN /\ then = "drop" /\ streams' = streams \ {r}
            /\ UNCHANGED <<state, owner>>
       ELSE /\ state' = [state EXCEPT ![r].cancel = TRUE]
            /\ owner' = Doing(then, r)
            /\ UNCHANGED streams
    /\ UNCHANGED <<nativeVars, queue, callback, registry, regular, terminals, cancelling,
                   worker, history>>

OwnerCancel ==
    /\ owner.at \in {"cancel", "drop"}
    /\ NativeCancel(owner.handle)
    /\ streams' = IF owner.at = "drop" THEN streams \ {owner.handle} ELSE streams
    /\ owner' = Doing("idle", 0)
    /\ UNCHANGED <<native, said, queue, callback, routing, regular, cancelling, worker,
                   lost, violations>>

\* ModelState::drop, after the last stream: the native unload cancels what is
\* left and returns when the callback has seen everything.
Unload ==
    /\ owner.at = "idle" /\ streams = {}
    /\ owner' = Doing("unloading", 0)
    /\ withdrawn' = withdrawn \union Running
    /\ UNCHANGED <<native, said, queue, callback, routing, regular, cancelling, worker,
                   streams, history>>

\* The runtime waits for a worker it has not told.
CloseQuietly ==
    /\ owner.at = "unloading" /\ Outstanding = {}
    /\ owner' = Doing("joining", 0)
    /\ UNCHANGED <<nativeVars, queue, callback, routing, regular, pending, wake, worker,
                   streams, history>>

\* RuntimeInner::drop: close, join the worker, destroy.
Close ==
    /\ owner.at = "unloading" /\ Outstanding = {}
    /\ owner' = Doing("joining", 0)
    /\ wake' = "last"
    /\ UNCHANGED <<nativeVars, queue, callback, routing, regular, pending, worker, streams,
                   history>>

Destroy ==
    /\ owner.at = "joining" /\ worker.at = "exited"
    /\ owner' = Doing("closed", 0)
    /\ UNCHANGED <<nativeVars, queue, callback, routing, regular, cancelling, worker,
                   streams, history>>

-----------------------------------------------------------------------------
Callback == TakeTerminal \/ Forget \/ TakeRegular \/ Overflow \/ Wake
Worker == Receive \/ Pop \/ WorkerCancel \/ WorkerExit
Owner == Register \/ OwnerCancel \/ Close \/ Destroy
Environment ==
    \/ Telemetry \/ Consume \/ Unload
    \/ \E r \in Requests : Generate(r) \/ End(r) \/ Submit(r)
    \/ \E r \in Requests, then \in {"cancel", "drop"} : Claim(r, then)

Next == Callback \/ Worker \/ Owner \/ Environment

\* The three threads run; the native side ends what it was asked to end.  The
\* owner need not call anything and the consumer need not read.
Fairness ==
    /\ WF_vars(Callback) /\ WF_vars(Worker) /\ WF_vars(Owner)
    /\ \A r \in Requests : WF_vars(EndWithdrawn(r))

Spec == Init /\ [][Next]_vars /\ Fairness

(***************************************************************************)
(* Properties                                                              *)
(***************************************************************************)
RustTypeOK ==
    /\ native \in [Requests -> {"new", "running", "ended", "over"}]
    /\ said \in 0..MaxSaid /\ withdrawn \subseteq Requests
    /\ queue \in Seq([kind : {"queued", "token", "metrics", "terminal"},
                      request : Requests \union {0}])
    /\ callback \in [step : {"idle", "overflow", "wake", "forget"},
                     event : [kind : {"none", "queued", "token", "metrics", "terminal"},
                              request : Requests \union {0}]]
    /\ registry \in [Requests -> [route : {"absent", "unregistered", "sender", "native",
                                           "overflow", "delivered"},
                                  state : BOOLEAN, done : BOOLEAN, failed : BOOLEAN,
                                  cancel : BOOLEAN]]
    /\ state \in [Requests -> [done : BOOLEAN, failed : BOOLEAN, cancel : BOOLEAN]]
    /\ regular \in 0..RegularCapacity
    /\ terminals \in [Requests -> Seq({"native", "overflow", "refused"})]
    /\ pending \in Seq(Requests) /\ wake \in {"empty", "token", "last", "closed"}
    /\ worker \in [at : {"recv", "pop", "cancel", "exited"}, handle : Requests \union {0}]
    /\ owner \in [at : {"idle", "registering", "cancel", "drop", "unloading", "joining",
                        "closed"}, handle : Requests \union {0}]
    /\ streams \subseteq Requests /\ lost \subseteq Requests
    /\ calls \in [Requests -> Nat] /\ violations \subseteq {"registry", "wake", "telemetry"}

\* The native side keeps the address of the correlation number and reads it for
\* every event: it is held until the callback has copied the last one.
CorrelationHeld ==
    \A r \in Requests :
        r \in Running \/ (\E i \in DOMAIN queue : queue[i].request = r) => Held(r)

\* The registry never refuses: an entry is left only for a request the native
\* side still owes an end, or whose registration is on its way, and the wake
\* channel is not closed under a claim.  The counter the wrapper keeps of what
\* must not happen rises for dropped telemetry only.
Registering == {r \in Requests : owner = Doing("registering", r)}
NothingViolated ==
    /\ violations \subseteq {"telemetry"}
    /\ Entries \subseteq Outstanding \union Registering
    /\ Len(pending) <= MaxOutstanding

\* A stream hears one end of its request, and hears the native one only when
\* every event before it was passed on.
EndIsTrue ==
    \A r \in Requests :
        /\ Len(terminals[r]) <= 1
        /\ terminals[r] = <<"native">> => r \notin lost

\* A stream that says its request is over is right: only then may its cancel,
\* and its drop, do nothing.
DoneIsOver == \A r \in Requests : state[r].done => native[r] \in {"ended", "over"}

\* A cancel by the caller, by the drop of the stream and by the overflow reach the
\* native side once between them; none is left out but for a request that is over.
CancelledOnce == DoneIsOver /\ \A r \in Requests : calls[r] <= 1

\* The request of a consumer that fell behind is withdrawn: no wake is lost
\* between the callback, the worker and the claims of the stream.
OverflowWithdraws ==
    \A r \in Requests : r \in Entries /\ registry[r].failed ~> native[r] = "over"

\* Every stream whose request ended hears of it, also when the end came before
\* the registration.
EndIsHeard ==
    \A r \in Requests : r \in streams /\ native[r] = "ended" ~> terminals[r] # <<>>

\* Closing the runtime ends: the worker sees the last wake and leaves.
ShutdownEnds == owner.at = "unloading" ~> owner.at = "closed"
=============================================================================
