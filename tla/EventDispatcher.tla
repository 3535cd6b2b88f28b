---------------------------- MODULE EventDispatcher ----------------------------
(***************************************************************************)
(* The bounded event queue of the native runtime and the one thread that   *)
(* invokes the application's callback (event_dispatcher.cpp).              *)
(*                                                                         *)
(* An event is admitted either as a regular event, against                 *)
(* RegularCapacity, or as the terminal event of a request, against the     *)
(* permit reserved for it before the request was accepted; a saturated     *)
(* queue therefore never refuses a terminal event.  A permit outlives its  *)
(* event's stay in the queue: the callback's return gives it back.         *)
(*                                                                         *)
(* Every action below is one critical section of mutex_.  Waits on         *)
(* readable_, flushed_ and joined_ are guards on the awaited predicate:    *)
(* every assignment that can make one of them true is followed by a        *)
(* notification, so no wakeup is lost.                                     *)
(***************************************************************************)
EXTENDS Integers, Sequences, FiniteSets

CONSTANTS
    Requests,          \* request handles; 0 is the handle of no request
    RegularCapacity,   \* regular_capacity_, the runtime's event queue capacity
    TerminalCapacity,  \* terminal_capacity_
    Callers            \* threads that call flush() and stop()

ASSUME RequestsAssumption == Requests \subseteq Nat \ {0} /\ IsFiniteSet(Requests)
ASSUME CapacityAssumption == RegularCapacity \in Nat /\ TerminalCapacity \in Nat

NoRequest == 0

TerminalTypes == {"done", "cancelled", "error"}
RegularTypes  == {"queued", "token", "metrics"}

Event == [type : TerminalTypes \cup RegularTypes,
          request : Requests \cup {NoRequest},
          seq : Nat]

\* The value of `current` while no callback runs.
NoEvent == [type |-> "none", request |-> NoRequest, seq |-> 0]

\* The admission class of an event, fixed when it is published.
IsTerminal(e) == e.request # NoRequest /\ e.type \in TerminalTypes

VARIABLES
    eventQueue,     \* queue_
    regularQueued,  \* regular_queued_
    permits,        \* terminal_permits_: "none", "reserved" or "published"
    enqueued,       \* enqueued_: events admitted so far
    completed,      \* completed_: events whose callback has returned
    current,        \* the event whose callback is running (in_callback_)
    running,        \* the dispatcher thread has not left run()
    stopping,       \* stopping_
    joinStarted,    \* join_started_
    joinFinished,   \* join_finished_
    callerPc,       \* where each caller is inside flush() or stop()
    flushTarget,    \* the local `target` of flush_impl
    received        \* what the callback has been given for each request

queueVars  == <<eventQueue, regularQueued, enqueued>>
threadVars == <<completed, current, running, received>>
stopVars   == <<stopping, joinStarted, joinFinished>>
callerVars == <<callerPc, flushTarget>>
dispatcherVars == <<queueVars, permits, threadVars, stopVars, callerVars>>

-----------------------------------------------------------------------------
(* Publishing: reserve_terminal, release_terminal, publish *)

Outstanding == {r \in Requests : permits[r] # "none"}

CanReserve(r) == ~stopping /\ permits[r] = "none"
                 /\ Cardinality(Outstanding) < TerminalCapacity

ReserveTerminal(r) ==
    /\ CanReserve(r)
    /\ permits' = [permits EXCEPT ![r] = "reserved"]
    /\ UNCHANGED <<queueVars, threadVars, stopVars, callerVars>>

\* A release that takes back a permit whose terminal event is queued.
AnyPermit(r) == permits[r] # "none"
Releasable(r) == permits[r] = "reserved"

ReleaseTerminal(r) ==
    /\ Releasable(r)
    /\ permits' = [permits EXCEPT ![r] = "none"]
    /\ UNCHANGED <<queueVars, threadVars, stopVars, callerVars>>

RegularRoom == regularQueued < RegularCapacity

CanPublish(e) ==
    /\ ~stopping
    /\ IF IsTerminal(e) THEN permits[e.request] = "reserved" ELSE RegularRoom

\* Terminal events overtaking the regular ones.
UrgentFirst(e) == IF IsTerminal(e) THEN <<e>> \o eventQueue ELSE Append(eventQueue, e)
QueueWith(e) == Append(eventQueue, e)

\* The regular half of an admitted publish; the permits are untouched.
EnqueueRegular(e) ==
    /\ eventQueue' = QueueWith(e)
    /\ enqueued' = enqueued + 1
    /\ regularQueued' = regularQueued + 1

\* The bug a forgotten state change in publish would be: the permit can be used again.
PermitStaysReserved(r) == permits' = permits
UsePermit(r) == permits' = [permits EXCEPT ![r] = "published"]

\* The terminal half of an admitted publish: it consumes the permit and no regular capacity.
EnqueueTerminal(e) ==
    /\ eventQueue' = QueueWith(e)
    /\ enqueued' = enqueued + 1
    /\ UsePermit(e.request)
    /\ UNCHANGED regularQueued

Publish(e) ==
    /\ CanPublish(e)
    /\ IF IsTerminal(e) THEN EnqueueTerminal(e)
                        ELSE EnqueueRegular(e) /\ UNCHANGED permits
    /\ UNCHANGED <<threadVars, stopVars, callerVars>>

-----------------------------------------------------------------------------
(* The dispatcher thread: run *)

RegularAfterTake(e) == IF IsTerminal(e) THEN regularQueued ELSE regularQueued - 1

Receive(e) ==
    IF e.request = NoRequest
    THEN received
    ELSE [received EXCEPT ![e.request] =
            [last |-> e.seq, ended |-> IF IsTerminal(e) THEN e.type ELSE @.ended]]

\* Pop the oldest event and start its callback, with mutex_ released.
Take ==
    /\ running
    /\ current = NoEvent
    /\ eventQueue # <<>>
    /\ current' = Head(eventQueue)
    /\ eventQueue' = Tail(eventQueue)
    /\ regularQueued' = RegularAfterTake(Head(eventQueue))
    /\ received' = Receive(Head(eventQueue))
    /\ UNCHANGED <<permits, enqueued, completed, running, stopVars, callerVars>>

\* Completion counted for regular events only.
CountRegularReturn == IF IsTerminal(current) THEN completed ELSE completed + 1
CountReturn == completed + 1

\* callback_done: the callback returned or threw.
Complete ==
    /\ current # NoEvent
    /\ permits' = IF IsTerminal(current)
                  THEN [permits EXCEPT ![current.request] = "none"]
                  ELSE permits
    /\ current' = NoEvent
    /\ completed' = CountReturn
    /\ UNCHANGED <<queueVars, running, received, stopVars, callerVars>>

\* Leaving at once when asked to stop, and waiting for every permit to come back.
ExitWithoutDraining == stopping
ExitWhenNoPermit == stopping /\ eventQueue = <<>> /\ Outstanding = {}
ExitReady == stopping /\ eventQueue = <<>>

Exit ==
    /\ running
    /\ current = NoEvent
    /\ ExitReady
    /\ running' = FALSE
    /\ UNCHANGED <<queueVars, permits, completed, current, received, stopVars, callerVars>>

-----------------------------------------------------------------------------
(* flush and stop *)

FlushBegin(c) ==
    /\ callerPc[c] = "idle"
    /\ ~stopping
    /\ flushTarget' = [flushTarget EXCEPT ![c] = enqueued]
    /\ callerPc' = [callerPc EXCEPT ![c] = "flushing"]
    /\ UNCHANGED <<queueVars, permits, threadVars, stopVars>>

\* A barrier that looks at the queue and forgets the callback still running.
FlushQueueEmpty(c) == eventQueue = <<>>
FlushReached(c) == completed >= flushTarget[c]

LeaveFlush(c) ==
    /\ callerPc' = [callerPc EXCEPT ![c] = "idle"]
    /\ flushTarget' = [flushTarget EXCEPT ![c] = 0]
    /\ UNCHANGED <<queueVars, permits, threadVars, stopVars>>

\* flush() returns normally.
FlushReturn(c) ==
    /\ callerPc[c] = "flushing"
    /\ FlushReached(c)
    /\ LeaveFlush(c)

\* flush() throws: the dispatcher is stopping before the target is reached.
FlushThrow(c) ==
    /\ callerPc[c] = "flushing"
    /\ stopping /\ ~FlushReached(c)
    /\ LeaveFlush(c)

\* stop() from another thread: the first caller joins, the others wait for it.
StopBegin(c) ==
    /\ callerPc[c] = "idle"
    /\ stopping' = TRUE
    /\ joinStarted' = TRUE
    /\ callerPc' = [callerPc EXCEPT ![c] = IF joinStarted THEN "awaiting" ELSE "joining"]
    /\ UNCHANGED <<queueVars, permits, threadVars, joinFinished, flushTarget>>

\* stop() from inside the callback only asks for the stop.
StopFromCallback ==
    /\ current # NoEvent
    /\ stopping' = TRUE
    /\ UNCHANGED <<queueVars, permits, threadVars, joinStarted, joinFinished, callerVars>>

StopJoined(c) ==
    /\ callerPc[c] = "joining"
    /\ ~running
    /\ permits' = [r \in Requests |-> "none"]
    /\ joinFinished' = TRUE
    /\ callerPc' = [callerPc EXCEPT ![c] = "idle"]
    /\ UNCHANGED <<queueVars, threadVars, stopping, joinStarted, flushTarget>>

StopAwaited(c) ==
    /\ callerPc[c] = "awaiting"
    /\ joinFinished
    /\ callerPc' = [callerPc EXCEPT ![c] = "idle"]
    /\ UNCHANGED <<queueVars, permits, threadVars, stopVars, flushTarget>>

-----------------------------------------------------------------------------
DispatcherInit ==
    /\ eventQueue = <<>>
    /\ regularQueued = 0
    /\ permits = [r \in Requests |-> "none"]
    /\ enqueued = 0
    /\ completed = 0
    /\ current = NoEvent
    /\ running = TRUE
    /\ stopping = FALSE
    /\ joinStarted = FALSE
    /\ joinFinished = FALSE
    /\ callerPc = [c \in Callers |-> "idle"]
    /\ flushTarget = [c \in Callers |-> 0]
    /\ received = [r \in Requests |-> [last |-> 0, ended |-> "no"]]

DispatcherThread == Take \/ Complete \/ Exit

CallerStep(c) ==
    \/ FlushBegin(c) \/ FlushReturn(c) \/ FlushThrow(c)
    \/ StopBegin(c) \/ StopJoined(c) \/ StopAwaited(c)

DispatcherTypeOK ==
    /\ eventQueue \in Seq(Event)
    /\ regularQueued \in Nat
    /\ permits \in [Requests -> {"none", "reserved", "published"}]
    /\ enqueued \in Nat
    /\ completed \in Nat
    /\ current \in Event \cup {NoEvent}
    /\ running \in BOOLEAN
    /\ stopping \in BOOLEAN
    /\ joinStarted \in BOOLEAN
    /\ joinFinished \in BOOLEAN
    /\ callerPc \in [Callers -> {"idle", "flushing", "joining", "awaiting"}]
    /\ flushTarget \in [Callers -> Nat]
    /\ received \in [Requests -> [last : Nat, ended : TerminalTypes \cup {"no"}]]

\* The number of regular events in the queue.
RegularInQueue ==
    Cardinality({i \in 1..Len(eventQueue) : ~IsTerminal(eventQueue[i])})

InCallback == IF current = NoEvent THEN 0 ELSE 1

(* The counters that flush() and the capacity check rely on are exact:      *)
(* every admitted event is in the queue, in its callback or completed, and  *)
(* regular_queued_ counts the regular events in the queue, whatever mix of  *)
(* admissions the queue holds.                                              *)
CompletionAccounting ==
    /\ completed + Len(eventQueue) + InCallback = enqueued
    /\ regularQueued = RegularInQueue
    /\ \A c \in Callers : flushTarget[c] <= enqueued

IsTerminalOf(e, r) == e.request = r /\ IsTerminal(e)

(* A request has at most one terminal event between publish and the return  *)
(* of its callback, and it has one exactly while its permit says            *)
(* "published": a permit is neither spent twice nor given back early.       *)
TerminalMatchesPermit ==
    \A r \in Requests :
        /\ \A i, j \in 1..Len(eventQueue) :
              IsTerminalOf(eventQueue[i], r) /\ IsTerminalOf(eventQueue[j], r) => i = j
        /\ IsTerminalOf(current, r) =>
              \A i \in 1..Len(eventQueue) : ~IsTerminalOf(eventQueue[i], r)
        /\ permits[r] = "published" <=>
              \/ IsTerminalOf(current, r)
              \/ \E i \in 1..Len(eventQueue) : IsTerminalOf(eventQueue[i], r)

(* The deque holds at most regular_capacity_ + terminal_capacity_ events    *)
(* (event_dispatcher.h), although a terminal event is admitted without a    *)
(* look at the queue: the permits bound them.                               *)
QueueBounded == Len(eventQueue) <= RegularCapacity + TerminalCapacity

(* When stop() has joined the thread every admitted event was delivered:    *)
(* no callback is executing and none can begin any more.                    *)
StopQuiesces ==
    joinFinished => /\ eventQueue = <<>> /\ current = NoEvent
                    /\ completed = enqueued /\ ~running

(* flush() is a barrier: when it returns normally no event admitted before  *)
(* the call is queued or in its callback (those outstanding are at most the *)
(* ones admitted since; the queue is first in, first out).                  *)
FlushIsBarrier ==
    [][\A c \in Callers : FlushReturn(c) =>
          Len(eventQueue) + InCallback <= enqueued - flushTarget[c]]_dispatcherVars

(* A callback never sees a permit it still holds disappear: a permit leaves *)
(* "published" only when its terminal callback has returned, or at the join.*)
PermitOutlivesCallback ==
    [][\A r \in Requests :
          permits[r] = "published" /\ permits'[r] # "published" =>
              IsTerminalOf(current, r) /\ current' = NoEvent]_dispatcherVars

\* flush() returns, normally or not, whatever is published meanwhile.
FlushReturns == \A c \in Callers : callerPc[c] = "flushing" ~> callerPc[c] = "idle"

\* stop() returns to every thread that called it, after draining the queue.
StopReturns == \A c \in Callers : callerPc[c] \in {"joining", "awaiting"} ~> callerPc[c] = "idle"

\* No thread that waits in flush() or stop() waits for ever: neither for an event
\* delivered between its two critical sections nor for another thread that stops.
CallersReturn == FlushReturns /\ StopReturns
=============================================================================
