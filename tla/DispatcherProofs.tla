---------------------------- MODULE DispatcherProofs ----------------------------
(***************************************************************************)
(* The safety properties of the event dispatcher, for any number of        *)
(* requests and callers and any capacities.                                *)
(***************************************************************************)
EXTENDS DispatcherClients, EventDispatcherProofs

LEMMA OfferStep ==
    ASSUME DispatcherInv, NEW type \in {"token", "done", "metrics"},
           NEW r \in Requests \cup {NoRequest}, Offer(type, r)
    PROVE  DispatcherInv'
<1> DEFINE e == Offered(type, r)
<1>1. e \in Event
  BY DEF Offered, Event, TerminalTypes, RegularTypes, DispatcherInv, DispatcherTypeOK
<1>2. CanPublish(e) /\ UNCHANGED <<threadVars, stopVars, callerVars>>
  BY DEF Offer, Publish
<1>3. CASE IsTerminal(e)
  BY <1>1, <1>2, <1>3, TerminalPublished DEF Offer, Publish
<1>4. CASE ~IsTerminal(e)
  <2>1. EnqueueRegular(e) /\ permits' = permits
    BY <1>4 DEF Offer, Publish
  <2> QED
    BY <1>1, <1>2, <1>4, <2>1, RegularPublished
    DEF CanPublish, DispatcherInv, DispatcherTypeOK
<1> QED
  BY <1>3, <1>4

LEMMA ClientStep == ASSUME DispatcherInv, Client PROVE DispatcherInv'
<1>1. ASSUME NEW r \in Requests, ReserveTerminal(r) PROVE DispatcherInv'
  BY <1>1, PermitsMoved DEF ReserveTerminal, CanReserve, DispatcherInv, DispatcherTypeOK
<1>2. ASSUME NEW r \in Requests, ReleaseTerminal(r) PROVE DispatcherInv'
  BY <1>2, PermitsMoved DEF ReleaseTerminal, Releasable, DispatcherInv, DispatcherTypeOK
<1> QED
  BY <1>1, <1>2, OfferStep DEF Client

LEMMA DispatcherInvStep ==
    ASSUME DispatcherInv, [Next]_dispatcherVars PROVE DispatcherInv'
<1>1. CASE Client
  BY <1>1, ClientStep
<1>2. ASSUME NEW c \in Callers, CallerStep(c) PROVE DispatcherInv'
  BY <1>2, FlushStep, StopStep DEF CallerStep
<1>3. CASE DispatcherThread
  BY <1>3, DispatcherThreadStep
<1>4. CASE StopFromCallback
  <2>1. CASE Callers = {}
    BY <1>4, <2>1, CallerMoved
    DEF StopFromCallback, callerVars, DispatcherInv, DispatcherTypeOK
  <2>2. CASE Callers # {}
    BY <1>4, <2>2, StopStep
  <2> QED
    BY <2>1, <2>2
<1>5. CASE UNCHANGED dispatcherVars
  BY <1>5, PermitsMoved DEF dispatcherVars, DispatcherInv, DispatcherTypeOK
<1> QED
  BY <1>1, <1>2, <1>3, <1>4, <1>5 DEF Next

(* The inductive invariant: the dispatcher's counters, its permits and its  *)
(* queue agree after any sequence of publishes, callbacks, flushes and stops.*)
THEOREM DispatcherInvariant == Spec => []DispatcherInv
<1>1. DispatcherInit => DispatcherInv
  BY DispatcherInitially
<1>2. DispatcherInv /\ [Next]_dispatcherVars => DispatcherInv'
  BY DispatcherInvStep
<1> QED
  BY <1>1, <1>2, PTL DEF Spec

(* Every variable keeps its type; in particular regular_queued_, which is   *)
(* unsigned in event_dispatcher.h, never wraps.                             *)
THEOREM TypeCorrect == Spec => []DispatcherTypeOK
<1>1. DispatcherInv => DispatcherTypeOK
  BY DEF DispatcherInv
<1> QED
  BY <1>1, DispatcherInvariant, PTL

(* The counters that flush() and the capacity check read are exact, for     *)
(* every mix of regular and terminal admissions.                            *)
THEOREM AccountingExact == Spec => []CompletionAccounting
<1>1. DispatcherInv => CompletionAccounting
  BY DEF DispatcherInv
<1> QED
  BY <1>1, DispatcherInvariant, PTL

(* A request has at most one terminal event in flight, and exactly while    *)
(* its permit is published: publish() and callback_done keep them together. *)
THEOREM OneTerminalPerPermit == Spec => []TerminalMatchesPermit
<1>1. DispatcherInv => TerminalMatchesPermit
  BY DEF DispatcherInv
<1> QED
  BY <1>1, DispatcherInvariant, PTL

(* When stop() has joined the thread, everything admitted was delivered and *)
(* no callback runs or can begin.                                           *)
THEOREM StopDrains == Spec => []StopQuiesces
<1>1. DispatcherInv => StopQuiesces
  <2> SUFFICES ASSUME DispatcherInv, joinFinished
               PROVE  StopQuiesces
    BY DEF StopQuiesces
  <2>1. ~running /\ eventQueue = <<>> /\ current = NoEvent
    BY DEF DispatcherInv, Quiescence
  <2>2. completed \in Nat /\ enqueued \in Nat /\ completed + 0 + 0 = enqueued
    BY <2>1, EmptySeq DEF DispatcherInv, CompletionAccounting, InCallback, DispatcherTypeOK
  <2> QED
    BY <2>1, <2>2 DEF StopQuiesces
<1> QED
  BY <1>1, DispatcherInvariant, PTL

(* flush() is a barrier for every event admitted before the call, whatever  *)
(* is published while it waits.                                             *)
THEOREM FlushBarrier == Spec => FlushIsBarrier
<1>1. DispatcherInv /\ [Next]_dispatcherVars =>
         [\A c \in Callers : FlushReturn(c) =>
             Len(eventQueue) + InCallback <= enqueued - flushTarget[c]]_dispatcherVars
  <2> SUFFICES ASSUME DispatcherInv, NEW c \in Callers, FlushReturn(c)
               PROVE  Len(eventQueue) + InCallback <= enqueued - flushTarget[c]
    OBVIOUS
  <2>1. completed >= flushTarget[c]
    BY DEF FlushReturn, FlushReached
  <2>2. /\ completed \in Nat /\ enqueued \in Nat /\ flushTarget[c] \in Nat
        /\ Len(eventQueue) \in Nat /\ InCallback \in Nat
    BY DEF DispatcherInv, DispatcherTypeOK, InCallback
  <2> QED
    BY <2>1, <2>2 DEF DispatcherInv, CompletionAccounting
<1> QED
  BY <1>1, DispatcherInvariant, PTL DEF Spec, FlushIsBarrier

(* The permit of a terminal event is given back by the return of its own    *)
(* callback and by nothing else, neither a release nor the join in stop().  *)
THEOREM PermitHeld == Spec => PermitOutlivesCallback
<1> DEFINE Held(r) == permits[r] = "published" /\ permits'[r] # "published" =>
                          IsTerminalOf(current, r) /\ current' = NoEvent
<1>1. DispatcherInv /\ [Next]_dispatcherVars => [\A r \in Requests : Held(r)]_dispatcherVars
  <2> SUFFICES ASSUME DispatcherInv, Next, NEW r \in Requests PROVE Held(r)
    OBVIOUS
  <2>1. permits \in [Requests -> {"none", "reserved", "published"}]
    BY DEF DispatcherInv, DispatcherTypeOK
  <2>2. CASE Client
    BY <2>1, <2>2
    DEF Client, ReserveTerminal, CanReserve, ReleaseTerminal, Releasable, Offer, Publish,
        EnqueueTerminal, UsePermit
  <2>3. ASSUME NEW c \in Callers, CallerStep(c) PROVE Held(r)
    <3>1. CASE StopJoined(c)
      BY <3>1, EmptySeq, NoEventIsNone
      DEF StopJoined, DispatcherInv, Quiescence, TerminalMatchesPermit, IsTerminalOf
    <3>2. CASE ~StopJoined(c)
      BY <2>3, <3>2
      DEF CallerStep, FlushBegin, FlushReturn, FlushThrow, LeaveFlush, StopBegin, StopAwaited
    <3> QED
      BY <3>1, <3>2
  <2>4. CASE DispatcherThread
    BY <2>1, <2>4 DEF DispatcherThread, Take, Complete, Exit, IsTerminalOf
  <2>5. CASE StopFromCallback
    BY <2>5 DEF StopFromCallback
  <2> QED
    BY <2>2, <2>3, <2>4, <2>5 DEF Next
<1> QED
  BY <1>1, DispatcherInvariant, PTL DEF Spec, PermitOutlivesCallback

-----------------------------------------------------------------------------
(* The bound on the queue *)

\* What the two capacity checks keep, whichever events are in the queue.
AdmissionsBounded ==
    /\ regularQueued <= RegularCapacity
    /\ Cardinality(Outstanding) <= TerminalCapacity

LEMMA OutstandingFinite == IsFiniteSet(Outstanding) /\ Cardinality(Outstanding) \in Nat
<1>1. Outstanding \in SUBSET Requests
  BY DEF Outstanding
<1> QED
  BY <1>1, RequestsAssumption, FS_Subset, FS_CardinalityType

\* A step that hands out no permit keeps both bounds if it respects the regular capacity.
LEMMA BoundsKept ==
    ASSUME AdmissionsBounded, Outstanding' \subseteq Outstanding,
           regularQueued' <= RegularCapacity
    PROVE  AdmissionsBounded'
<1>1. Outstanding' \in SUBSET Outstanding
  OBVIOUS
<1>2. IsFiniteSet(Outstanding') /\ Cardinality(Outstanding') <= Cardinality(Outstanding)
  BY <1>1, OutstandingFinite, FS_Subset
<1>3. Cardinality(Outstanding') \in Nat
  BY <1>2, FS_CardinalityType
<1> QED
  BY <1>2, <1>3, OutstandingFinite, CapacityAssumption DEF AdmissionsBounded

LEMMA AdmissionsBoundedStep ==
    ASSUME DispatcherInv, AdmissionsBounded, [Next]_dispatcherVars PROVE AdmissionsBounded'
<1>1. /\ regularQueued \in Nat /\ regularQueued <= RegularCapacity
      /\ permits \in [Requests -> {"none", "reserved", "published"}]
      /\ RegularCapacity \in Nat /\ TerminalCapacity \in Nat
  BY CapacityAssumption DEF DispatcherInv, DispatcherTypeOK, AdmissionsBounded
<1>2. ASSUME NEW r \in Requests, ReserveTerminal(r) PROVE AdmissionsBounded'
  <2>1. /\ Outstanding' = Outstanding \cup {r} /\ r \notin Outstanding
        /\ Cardinality(Outstanding) < TerminalCapacity /\ regularQueued' = regularQueued
    BY <1>1, <1>2 DEF ReserveTerminal, CanReserve, Outstanding, queueVars
  <2>2. Cardinality(Outstanding') = Cardinality(Outstanding) + 1
    BY <2>1, OutstandingFinite, FS_AddElement
  <2> QED
    BY <1>1, <2>1, <2>2, OutstandingFinite DEF AdmissionsBounded
<1>3. ASSUME NEW r \in Requests, ReleaseTerminal(r) PROVE AdmissionsBounded'
  BY <1>1, <1>3, BoundsKept DEF ReleaseTerminal, Releasable, Outstanding, queueVars
<1>4. ASSUME NEW type \in {"token", "done", "metrics"}, NEW r \in Requests \cup {NoRequest},
             Offer(type, r)
      PROVE  AdmissionsBounded'
  <2> DEFINE e == Offered(type, r)
  <2>1. CASE IsTerminal(e)
    BY <1>1, <1>4, <2>1, BoundsKept
    DEF Offer, Publish, CanPublish, EnqueueTerminal, UsePermit, Outstanding
  <2>2. CASE ~IsTerminal(e)
    BY <1>1, <1>4, <2>2, BoundsKept
    DEF Offer, Publish, CanPublish, RegularRoom, EnqueueRegular, Outstanding
  <2> QED
    BY <2>1, <2>2
<1>5. ASSUME NEW c \in Callers, CallerStep(c) PROVE AdmissionsBounded'
  <2>1. Outstanding' \subseteq Outstanding /\ regularQueued' = regularQueued
    BY <1>1, <1>5
    DEF CallerStep, FlushBegin, FlushReturn, FlushThrow, LeaveFlush, StopBegin, StopJoined,
        StopAwaited, queueVars, Outstanding
  <2> QED
    BY <1>1, <2>1, BoundsKept
<1>6. CASE Take
  <2>1. regularQueued' <= regularQueued /\ Outstanding' = Outstanding
    BY <1>1, <1>6 DEF Take, RegularAfterTake, Outstanding
  <2>2. regularQueued' \in Nat
    BY <1>6, TakeStep DEF DispatcherInv, DispatcherTypeOK
  <2> QED
    BY <1>1, <2>1, <2>2, BoundsKept
<1>7. CASE Complete \/ Exit \/ StopFromCallback \/ UNCHANGED dispatcherVars
  <2>1. Outstanding' \subseteq Outstanding /\ regularQueued' = regularQueued
    BY <1>1, <1>7
    DEF Complete, Exit, StopFromCallback, dispatcherVars, queueVars, Outstanding
  <2> QED
    BY <1>1, <2>1, BoundsKept
<1> QED
  BY <1>2, <1>3, <1>4, <1>5, <1>6, <1>7 DEF Next, Client, DispatcherThread

LEMMA AdmissionsStayBounded == Spec => []AdmissionsBounded
<1>1. DispatcherInit => AdmissionsBounded
  <2> SUFFICES ASSUME DispatcherInit PROVE AdmissionsBounded
    OBVIOUS
  <2>1. Outstanding = {} /\ regularQueued = 0
    BY DEF DispatcherInit, Outstanding
  <2> QED
    BY <2>1, FS_EmptySet, CapacityAssumption DEF AdmissionsBounded
<1>2. DispatcherInv /\ AdmissionsBounded /\ [Next]_dispatcherVars => AdmissionsBounded'
  BY AdmissionsBoundedStep
<1> QED
  BY <1>1, <1>2, DispatcherInvariant, PTL DEF Spec

\* Each queued terminal event holds a permit of its own.
LEMMA TerminalsHoldPermits ==
    ASSUME DispatcherInv
    PROVE  LET T == {i \in 1..Len(eventQueue) : IsTerminal(eventQueue[i])}
           IN  IsFiniteSet(T) /\ Cardinality(T) <= Cardinality(Outstanding)
<1> DEFINE T == {i \in 1..Len(eventQueue) : IsTerminal(eventQueue[i])}
           owner == [i \in T |-> eventQueue[i].request]
<1>1. eventQueue \in Seq(Event)
  BY DEF DispatcherInv, DispatcherTypeOK
<1>2. \A i \in T : /\ eventQueue[i].request \in Requests
                   /\ IsTerminalOf(eventQueue[i], eventQueue[i].request)
  BY <1>1, EventTypes, ElementOfSeq DEF IsTerminalOf
<1>3. owner \in [T -> Outstanding]
  <2>1. \A i \in T : permits[eventQueue[i].request] = "published"
    BY <1>2 DEF DispatcherInv, TerminalMatchesPermit
  <2> QED
    BY <1>2, <2>1 DEF Outstanding
<1>4. \A i, j \in T : owner[i] = owner[j] => i = j
  <2> SUFFICES ASSUME NEW i \in T, NEW j \in T, owner[i] = owner[j] PROVE i = j
    OBVIOUS
  <2>1. IsTerminalOf(eventQueue[j], eventQueue[i].request)
    BY <1>2
  <2> QED
    BY <1>2, <2>1 DEF DispatcherInv, TerminalMatchesPermit
<1>5. owner \in Injection(T, Outstanding)
  BY <1>3, <1>4 DEF Injection, IsInjective
<1> QED
  BY <1>5, OutstandingFinite, FS_Injection

(* event_dispatcher.h: the deque holds at most regular_capacity_ +          *)
(* terminal_capacity_ events, because every terminal event in it has a      *)
(* permit of its own and the regular ones are counted exactly.              *)
THEOREM QueueStaysBounded == Spec => []QueueBounded
<1>1. DispatcherInv /\ AdmissionsBounded => QueueBounded
  <2> SUFFICES ASSUME DispatcherInv, AdmissionsBounded PROVE QueueBounded
    OBVIOUS
  <2> DEFINE T == {i \in 1..Len(eventQueue) : IsTerminal(eventQueue[i])}
             R == RegularIn(eventQueue)
  <2>1. eventQueue \in Seq(Event) /\ Len(eventQueue) \in Nat
    BY DEF DispatcherInv, DispatcherTypeOK
  <2>2. IsFiniteSet(T) /\ Cardinality(T) \in Nat /\ Cardinality(T) <= TerminalCapacity
    BY TerminalsHoldPermits, OutstandingFinite, FS_CardinalityType, CapacityAssumption
    DEF AdmissionsBounded
  <2>3. IsFiniteSet(R) /\ Cardinality(R) \in Nat /\ Cardinality(R) <= RegularCapacity
    BY <2>1, RegularInFinite
    DEF AdmissionsBounded, DispatcherInv, CompletionAccounting, RegularInQueue, RegularIn
  <2>4. /\ R \cup T = 1..Len(eventQueue)
        /\ R \cap T = {}
    <3> DEFINE I == 1..Len(eventQueue)
               P(i) == IsTerminal(eventQueue[i])
    <3>1. R = {i \in I : ~P(i)} /\ T = {i \in I : P(i)}
      BY DEF RegularIn
    <3> HIDE DEF I, P, R, T
    <3> QED
      BY <3>1 DEF I
  <2>5. Cardinality(1..Len(eventQueue)) = Len(eventQueue)
    <3>1. \A n \in Nat : Cardinality(1..n) = n
      <4> TAKE n \in Nat
      <4>1. Cardinality(1..n) = IF 1 > n THEN 0 ELSE n - 1 + 1
        BY FS_Interval
      <4> QED
        BY <4>1
    <3> QED
      BY <2>1, <3>1
  <2>6. Cardinality(R \cup T) = Cardinality(R) + Cardinality(T)
    <3> HIDE DEF R, T
    <3>1. Cardinality(R \cup T) = Cardinality(R) + Cardinality(T) - Cardinality(R \cap T)
      BY <2>2, <2>3, FS_Union
    <3>2. Cardinality(R \cap T) = 0
      BY <2>4, FS_EmptySet
    <3> QED
      BY <2>2, <2>3, <3>1, <3>2
  <2>7. Len(eventQueue) = Cardinality(R) + Cardinality(T)
    BY <2>4, <2>5, <2>6
  <2> HIDE DEF R, T
  <2> QED
    BY <2>1, <2>2, <2>3, <2>7, CapacityAssumption DEF QueueBounded
<1> QED
  BY <1>1, DispatcherInvariant, AdmissionsStayBounded, PTL
=============================================================================
