------------------------- MODULE EventDispatcherProofs -------------------------
(***************************************************************************)
(* Lemmas about the actions of the event dispatcher, shared by the proofs  *)
(* about its clients in general (DispatcherProofs) and about the scheduler *)
(* in particular (SchedulerProofs).                                        *)
(*                                                                         *)
(* Type correctness alone is not inductive: regular_queued_ is unsigned,   *)
(* and its decrement stays a natural number only because the counter       *)
(* equals the number of regular events in the queue.  In the same way the  *)
(* permits agree with the queue only because a joined thread has left      *)
(* nothing behind.  The inductive invariant therefore joins them.          *)
(***************************************************************************)
EXTENDS EventDispatcher, TLAPS, FiniteSetTheorems, SequenceTheorems

\* The thread leaves only a drained queue behind, and is joined only once it has left.
Quiescence ==
    /\ ~running => stopping /\ eventQueue = <<>> /\ current = NoEvent
    /\ joinFinished => ~running

DispatcherInv ==
    /\ DispatcherTypeOK
    /\ CompletionAccounting
    /\ Quiescence
    /\ TerminalMatchesPermit

\* The positions of the regular events of a queue.
RegularIn(q) == {i \in 1..Len(q) : ~IsTerminal(q[i])}

-----------------------------------------------------------------------------
(* Counting the regular events of a queue *)

LEMMA RegularInFinite ==
    ASSUME NEW q \in Seq(Event)
    PROVE  IsFiniteSet(RegularIn(q)) /\ Cardinality(RegularIn(q)) \in Nat
<1>1. IsFiniteSet(1..Len(q))
  BY FS_Interval, LenProperties
<1>2. RegularIn(q) \in SUBSET (1..Len(q))
  BY DEF RegularIn
<1>3. IsFiniteSet(RegularIn(q))
  BY <1>1, <1>2, FS_Subset
<1> QED
  BY <1>3, FS_CardinalityType

LEMMA RegularInEmpty == Cardinality(RegularIn(<<>>)) = 0
<1>1. RegularIn(<<>>) = {}
  BY DEF RegularIn
<1> QED
  BY <1>1, FS_EmptySet

LEMMA RegularInAppend ==
    ASSUME NEW q \in Seq(Event), NEW e \in Event
    PROVE  Cardinality(RegularIn(Append(q, e))) =
              IF IsTerminal(e) THEN Cardinality(RegularIn(q))
                               ELSE Cardinality(RegularIn(q)) + 1
<1> DEFINE n == Len(q) + 1
<1>1. /\ Len(q) \in Nat
      /\ Len(Append(q, e)) = n
      /\ Append(q, e)[n] = e
      /\ \A i \in 1..Len(q) : Append(q, e)[i] = q[i]
  OBVIOUS
<1>2. n \notin RegularIn(q)
  BY <1>1 DEF RegularIn
<1>3. CASE IsTerminal(e)
  <2>1. RegularIn(Append(q, e)) = RegularIn(q)
    BY <1>1, <1>3 DEF RegularIn
  <2> QED
    BY <1>3, <2>1
<1>4. CASE ~IsTerminal(e)
  <2>1. RegularIn(Append(q, e)) = RegularIn(q) \cup {n}
    BY <1>1, <1>4 DEF RegularIn
  <2> QED
    BY <1>2, <1>4, <2>1, RegularInFinite, FS_AddElement
<1> QED
  BY <1>3, <1>4

LEMMA RegularInTail ==
    ASSUME NEW q \in Seq(Event), q # <<>>
    PROVE  Cardinality(RegularIn(q)) =
              IF IsTerminal(Head(q)) THEN Cardinality(RegularIn(Tail(q)))
                                     ELSE Cardinality(RegularIn(Tail(q))) + 1
<1> DEFINE later == RegularIn(q) \ {1}
           shift == [i \in RegularIn(Tail(q)) |-> i + 1]
<1>1. /\ Len(q) \in Nat \ {0} /\ Tail(q) \in Seq(Event)
      /\ Len(Tail(q)) = Len(q) - 1
      /\ Head(q) = q[1]
      /\ \A i \in 1..Len(Tail(q)) : Tail(q)[i] = q[i + 1]
  BY EmptySeq, HeadTailProperties
<1>2. shift \in Bijection(RegularIn(Tail(q)), later)
  <2>1. shift \in [RegularIn(Tail(q)) -> later]
    BY <1>1 DEF RegularIn
  <2>2. \A i, j \in RegularIn(Tail(q)) : shift[i] = shift[j] => i = j
    BY <1>1 DEF RegularIn
  <2>3. \A k \in later : \E i \in RegularIn(Tail(q)) : shift[i] = k
    <3> TAKE k \in later
    <3>1. k - 1 \in RegularIn(Tail(q)) /\ shift[k - 1] = k
      BY <1>1 DEF RegularIn
    <3> QED
      BY <3>1
  <2> QED
    BY <2>1, <2>2, <2>3 DEF Bijection, Injection, Surjection, IsInjective
<1>3. Cardinality(later) = Cardinality(RegularIn(Tail(q)))
  BY <1>1, <1>2, RegularInFinite, FS_Bijection DEF ExistsBijection
<1>4. Cardinality(later) = IF 1 \in RegularIn(q) THEN Cardinality(RegularIn(q)) - 1
                                                 ELSE Cardinality(RegularIn(q))
  BY RegularInFinite, FS_RemoveElement
<1>5. 1 \in RegularIn(q) <=> ~IsTerminal(Head(q))
  BY <1>1 DEF RegularIn
<1> QED
  BY <1>1, <1>3, <1>4, <1>5, RegularInFinite

-----------------------------------------------------------------------------
(* The initial states *)

LEMMA NoEventIsNone == NoEvent \notin Event /\ ~IsTerminal(NoEvent)
BY DEF NoEvent, Event, IsTerminal, TerminalTypes, RegularTypes, NoRequest

LEMMA EventTypes ==
    ASSUME NEW e \in Event
    PROVE  /\ e.request \in Requests \cup {NoRequest} /\ e.seq \in Nat
           /\ IsTerminal(e) => e.request \in Requests /\ e.type \in TerminalTypes
BY DEF Event, IsTerminal

LEMMA DispatcherInitially == ASSUME DispatcherInit PROVE DispatcherInv
<1> USE DEF DispatcherInit
<1>1. DispatcherTypeOK
  BY EmptySeq DEF DispatcherTypeOK, TerminalTypes
<1>2. CompletionAccounting
  <2>1. regularQueued = RegularInQueue
    BY RegularInEmpty DEF RegularInQueue, RegularIn
  <2> QED
    BY <2>1, EmptySeq DEF CompletionAccounting, InCallback
<1>3. Quiescence
  BY DEF Quiescence
<1>4. TerminalMatchesPermit
  BY NoEventIsNone, EmptySeq DEF TerminalMatchesPermit, IsTerminalOf
<1> QED
  BY <1>1, <1>2, <1>3, <1>4 DEF DispatcherInv

-----------------------------------------------------------------------------
(* Publishing *)

\* What every publishing thread leaves alone.
LEMMA PublisherFrame ==
    ASSUME UNCHANGED <<threadVars, stopVars, callerVars>>
    PROVE  UNCHANGED <<completed, current, running, received, stopping, joinStarted,
                       joinFinished, callerPc, flushTarget>>
BY DEF threadVars, stopVars, callerVars

\* Permits may be reserved and released freely: only "published" is tied to the queue.
LEMMA PermitsMoved ==
    ASSUME DispatcherInv,
           UNCHANGED <<queueVars, threadVars, stopVars, callerVars>>,
           permits' \in [Requests -> {"none", "reserved", "published"}],
           \A r \in Requests : permits'[r] = "published" <=> permits[r] = "published"
    PROVE  DispatcherInv'
<1> USE DEF DispatcherInv
<1>1. UNCHANGED <<eventQueue, regularQueued, enqueued>>
  BY DEF queueVars
<1>2. DispatcherTypeOK'
  BY <1>1, PublisherFrame DEF DispatcherTypeOK
<1>3. CompletionAccounting'
  BY <1>1, PublisherFrame DEF CompletionAccounting, RegularInQueue, InCallback
<1>4. Quiescence'
  BY <1>1, PublisherFrame DEF Quiescence
<1>5. TerminalMatchesPermit'
  BY <1>1, PublisherFrame DEF TerminalMatchesPermit
<1> QED
  BY <1>2, <1>3, <1>4, <1>5

LEMMA AppendIsQueue ==
    ASSUME NEW q \in Seq(Event), NEW e \in Event
    PROVE  /\ Append(q, e) \in Seq(Event)
           /\ Len(q) \in Nat /\ Len(Append(q, e)) = Len(q) + 1
           /\ Append(q, e)[Len(q) + 1] = e
           /\ \A i \in 1..Len(q) : Append(q, e)[i] = q[i]
OBVIOUS

LEMMA RegularPublished ==
    ASSUME DispatcherInv, ~stopping,
           NEW e \in Event, ~IsTerminal(e), EnqueueRegular(e),
           UNCHANGED <<threadVars, stopVars, callerVars>>,
           permits' \in [Requests -> {"none", "reserved", "published"}],
           \A r \in Requests : permits'[r] = "published" <=> permits[r] = "published"
    PROVE  DispatcherInv'
<1> USE DEF DispatcherInv
<1>1. /\ eventQueue \in Seq(Event) /\ regularQueued \in Nat /\ enqueued \in Nat
      /\ eventQueue' = Append(eventQueue, e)
      /\ enqueued' = enqueued + 1 /\ regularQueued' = regularQueued + 1
  BY DEF DispatcherTypeOK, EnqueueRegular, QueueWith
<1>2. DispatcherTypeOK'
  BY <1>1, AppendIsQueue, PublisherFrame DEF DispatcherTypeOK
<1>3. CompletionAccounting'
  <2>1. regularQueued' = RegularInQueue'
    BY <1>1, RegularInAppend, RegularInFinite
    DEF CompletionAccounting, RegularInQueue, RegularIn
  <2>2. (completed + Len(eventQueue) + InCallback = enqueued)'
    <3>1. InCallback' = InCallback /\ completed' = completed
      BY PublisherFrame DEF InCallback
    <3>2. Len(eventQueue') = Len(eventQueue) + 1 /\ Len(eventQueue) \in Nat
      BY <1>1, AppendIsQueue
    <3>3. InCallback \in Nat /\ completed \in Nat
      BY DEF InCallback, DispatcherTypeOK
    <3> QED
      BY <1>1, <3>1, <3>2, <3>3 DEF CompletionAccounting
  <2>3. (\A c \in Callers : flushTarget[c] <= enqueued)'
    BY <1>1, PublisherFrame DEF CompletionAccounting, DispatcherTypeOK
  <2> QED
    BY <2>1, <2>2, <2>3 DEF CompletionAccounting
<1>4. Quiescence'
  BY PublisherFrame DEF Quiescence
<1>5. TerminalMatchesPermit'
  <2> SUFFICES ASSUME NEW r \in Requests
               PROVE  TerminalMatchesPermit!(r)'
    BY DEF TerminalMatchesPermit
  <2>1. \A i \in 1..Len(eventQueue') :
           IsTerminalOf(eventQueue'[i], r) =>
              i \in 1..Len(eventQueue) /\ eventQueue'[i] = eventQueue[i]
    BY <1>1, AppendIsQueue DEF IsTerminalOf
  <2>2. \A i \in 1..Len(eventQueue) :
           i \in 1..Len(eventQueue') /\ eventQueue'[i] = eventQueue[i]
    BY <1>1, AppendIsQueue
  <2> QED
    BY <2>1, <2>2, PublisherFrame DEF TerminalMatchesPermit
<1> QED
  BY <1>2, <1>3, <1>4, <1>5

LEMMA TerminalPublished ==
    ASSUME DispatcherInv,
           NEW e \in Event, IsTerminal(e), CanPublish(e), EnqueueTerminal(e),
           UNCHANGED <<threadVars, stopVars, callerVars>>
    PROVE  DispatcherInv'
<1> USE DEF DispatcherInv
<1>1. /\ eventQueue \in Seq(Event) /\ regularQueued \in Nat /\ enqueued \in Nat
      /\ eventQueue' = Append(eventQueue, e)
      /\ enqueued' = enqueued + 1 /\ regularQueued' = regularQueued
      /\ permits' = [permits EXCEPT ![e.request] = "published"]
      /\ permits[e.request] = "reserved"
      /\ ~stopping
      /\ permits \in [Requests -> {"none", "reserved", "published"}]
  BY DEF DispatcherTypeOK, EnqueueTerminal, QueueWith, UsePermit, CanPublish
<1>2. DispatcherTypeOK'
  <2>1. eventQueue' \in Seq(Event)
    BY <1>1, AppendIsQueue
  <2>2. permits' \in [Requests -> {"none", "reserved", "published"}]
    BY <1>1
  <2>3. regularQueued' \in Nat /\ enqueued' \in Nat
    BY <1>1
  <2> QED
    BY <2>1, <2>2, <2>3, PublisherFrame DEF DispatcherTypeOK
<1>3. CompletionAccounting'
  <2>1. regularQueued' = RegularInQueue'
    BY <1>1, RegularInAppend, RegularInFinite
    DEF CompletionAccounting, RegularInQueue, RegularIn
  <2>2. (completed + Len(eventQueue) + InCallback = enqueued)'
    <3>1. InCallback' = InCallback /\ completed' = completed
      BY PublisherFrame DEF InCallback
    <3>2. Len(eventQueue') = Len(eventQueue) + 1 /\ Len(eventQueue) \in Nat
      BY <1>1, AppendIsQueue
    <3>3. InCallback \in Nat /\ completed \in Nat
      BY DEF InCallback, DispatcherTypeOK
    <3> QED
      BY <1>1, <3>1, <3>2, <3>3 DEF CompletionAccounting
  <2>3. (\A c \in Callers : flushTarget[c] <= enqueued)'
    BY <1>1, PublisherFrame DEF CompletionAccounting, DispatcherTypeOK
  <2> QED
    BY <2>1, <2>2, <2>3 DEF CompletionAccounting
<1>4. Quiescence'
  BY <1>1, PublisherFrame DEF Quiescence
<1>5. TerminalMatchesPermit'
  <2> SUFFICES ASSUME NEW r \in Requests
               PROVE  TerminalMatchesPermit!(r)'
    BY DEF TerminalMatchesPermit
  <2> DEFINE n == Len(eventQueue) + 1
  <2>1. /\ \A i \in 1..Len(eventQueue') : i = n \/ i \in 1..Len(eventQueue)
        /\ \A i \in 1..Len(eventQueue) :
              i \in 1..Len(eventQueue') /\ eventQueue'[i] = eventQueue[i] /\ i # n
        /\ n \in 1..Len(eventQueue') /\ eventQueue'[n] = e
    BY <1>1, AppendIsQueue
  <2>2. CASE r = e.request
    <3>1. permits'[r] = "published" /\ permits[r] # "published"
      BY <1>1, <2>2
    <3>2. /\ \A i \in 1..Len(eventQueue) : ~IsTerminalOf(eventQueue[i], r)
          /\ ~IsTerminalOf(current, r)
      BY <3>1 DEF TerminalMatchesPermit
    <3>3. IsTerminalOf(e, r)
      BY <2>2 DEF IsTerminalOf
    <3> HIDE DEF n
    <3> QED
      BY <2>1, <3>1, <3>2, <3>3, PublisherFrame
  <2>3. CASE r # e.request
    <3>1. permits'[r] = permits[r]
      BY <1>1, <2>3
    <3>2. ~IsTerminalOf(e, r)
      BY <2>3 DEF IsTerminalOf
    <3> HIDE DEF n
    <3> QED
      BY <2>1, <3>1, <3>2, PublisherFrame DEF TerminalMatchesPermit
  <2> QED
    BY <2>2, <2>3
<1> QED
  BY <1>2, <1>3, <1>4, <1>5

-----------------------------------------------------------------------------
(* The dispatcher thread *)

LEMMA TakeStep == ASSUME DispatcherInv, Take PROVE DispatcherInv'
<1> USE DEF DispatcherInv
<1> DEFINE e == Head(eventQueue)
           q == Tail(eventQueue)
<1>1. /\ eventQueue \in Seq(Event) /\ eventQueue # <<>>
      /\ current = NoEvent /\ current' = e /\ eventQueue' = q
      /\ regularQueued' = RegularAfterTake(e)
      /\ received' = Receive(e)
      /\ UNCHANGED <<permits, enqueued, completed, running, stopping, joinStarted,
                     joinFinished, callerPc, flushTarget>>
      /\ running
  BY DEF DispatcherTypeOK, Take, stopVars, callerVars
<1>2. /\ e \in Event /\ q \in Seq(Event)
      /\ Len(eventQueue) \in Nat \ {0} /\ Len(q) = Len(eventQueue) - 1
      /\ e = eventQueue[1]
      /\ \A i \in 1..Len(q) : q[i] = eventQueue[i + 1]
  BY <1>1, EmptySeq, HeadTailProperties
<1> HIDE DEF e, q
<1>3. regularQueued' = RegularInQueue' /\ regularQueued' \in Nat
  <2>1. Cardinality(RegularIn(eventQueue)) =
           IF IsTerminal(e) THEN Cardinality(RegularIn(q)) ELSE Cardinality(RegularIn(q)) + 1
    BY <1>1, RegularInTail DEF e, q
  <2>2. regularQueued = Cardinality(RegularIn(eventQueue))
    BY DEF CompletionAccounting, RegularInQueue, RegularIn
  <2>3. Cardinality(RegularIn(q)) \in Nat
    BY <1>2, RegularInFinite
  <2>4. regularQueued' = Cardinality(RegularIn(q))
    BY <1>1, <2>1, <2>2, <2>3 DEF RegularAfterTake
  <2>5. Cardinality(RegularIn(q)) = RegularInQueue'
    BY <1>1 DEF RegularInQueue, RegularIn
  <2> QED
    BY <2>3, <2>4, <2>5
<1>4. DispatcherTypeOK'
  <2>1. Receive(e) \in [Requests -> [last : Nat, ended : TerminalTypes \cup {"no"}]]
    <3>1. CASE e.request = NoRequest
      BY <3>1 DEF Receive, DispatcherTypeOK
    <3>2. CASE e.request # NoRequest
      <4>1. e.request \in Requests /\ e.seq \in Nat /\ (IsTerminal(e) => e.type \in TerminalTypes)
        BY <1>2, <3>2, EventTypes
      <4> QED
        BY <3>2, <4>1 DEF Receive, DispatcherTypeOK
    <3> QED
      BY <3>1, <3>2
  <2> QED
    BY <1>1, <1>2, <1>3, <2>1 DEF DispatcherTypeOK
<1>5. CompletionAccounting'
  <2>1. InCallback = 0 /\ InCallback' = 1
    BY <1>1, <1>2, NoEventIsNone DEF InCallback
  <2>2. completed \in Nat /\ enqueued \in Nat /\ Len(eventQueue') = Len(eventQueue) - 1
    BY <1>1, <1>2 DEF DispatcherTypeOK
  <2> QED
    BY <1>1, <1>2, <1>3, <2>1, <2>2 DEF CompletionAccounting
<1>6. Quiescence'
  BY <1>1 DEF Quiescence
<1>7. TerminalMatchesPermit'
  <2> SUFFICES ASSUME NEW r \in Requests
               PROVE  TerminalMatchesPermit!(r)'
    BY DEF TerminalMatchesPermit
  <2>1. ~IsTerminalOf(current, r)
    BY <1>1, NoEventIsNone DEF IsTerminalOf
  <2>2. \A i \in 1..Len(q) : i + 1 \in 1..Len(eventQueue) /\ i + 1 # 1
    BY <1>2
  <2>3. \A k \in 1..Len(eventQueue) : k = 1 \/ (k - 1 \in 1..Len(q) /\ q[k - 1] = eventQueue[k])
    BY <1>2
  <2>4. \A i, j \in 1..Len(q) : i + 1 = j + 1 => i = j
    BY <1>2
  <2>5. 1 \in 1..Len(eventQueue)
    BY <1>2
  <2>6. \A i, j \in 1..Len(q) :
           IsTerminalOf(q[i], r) /\ IsTerminalOf(q[j], r) => i = j
    BY <1>2, <2>2, <2>4 DEF TerminalMatchesPermit
  <2>7. IsTerminalOf(e, r) => \A i \in 1..Len(q) : ~IsTerminalOf(q[i], r)
    BY <1>2, <2>2, <2>5 DEF TerminalMatchesPermit
  <2>8. (\E k \in 1..Len(eventQueue) : IsTerminalOf(eventQueue[k], r)) <=>
           \/ IsTerminalOf(e, r)
           \/ \E i \in 1..Len(q) : IsTerminalOf(q[i], r)
    BY <1>2, <2>2, <2>3, <2>5
  <2> QED
    BY <1>1, <2>1, <2>6, <2>7, <2>8 DEF TerminalMatchesPermit
<1> QED
  BY <1>4, <1>5, <1>6, <1>7

LEMMA CompleteStep == ASSUME DispatcherInv, Complete PROVE DispatcherInv'
<1> USE DEF DispatcherInv
<1>1. /\ current \in Event /\ current # NoEvent /\ current' = NoEvent
      /\ completed' = completed + 1
      /\ UNCHANGED <<eventQueue, regularQueued, enqueued, running, received, stopping,
                     joinStarted, joinFinished, callerPc, flushTarget>>
  BY DEF Complete, DispatcherTypeOK, CountReturn, queueVars, stopVars, callerVars
<1>2. /\ permits' \in [Requests -> {"none", "reserved", "published"}]
      /\ \A r \in Requests : permits'[r] =
            IF IsTerminalOf(current, r) THEN "none" ELSE permits[r]
  <2>1. permits \in [Requests -> {"none", "reserved", "published"}]
    BY DEF DispatcherTypeOK
  <2>2. CASE IsTerminal(current)
    BY <1>1, <2>1, <2>2, EventTypes DEF Complete, IsTerminalOf
  <2>3. CASE ~IsTerminal(current)
    BY <2>1, <2>3 DEF Complete, IsTerminalOf
  <2> QED
    BY <2>2, <2>3
<1>3. DispatcherTypeOK'
  BY <1>1, <1>2 DEF DispatcherTypeOK
<1>4. CompletionAccounting'
  <2>1. InCallback = 1 /\ InCallback' = 0
    BY <1>1 DEF InCallback
  <2>2. completed \in Nat /\ enqueued \in Nat /\ Len(eventQueue) \in Nat
    BY DEF DispatcherTypeOK
  <2>3. RegularInQueue' = RegularInQueue
    BY <1>1 DEF RegularInQueue
  <2> QED
    BY <1>1, <2>1, <2>2, <2>3 DEF CompletionAccounting
<1>5. Quiescence'
  BY <1>1 DEF Quiescence
<1>6. TerminalMatchesPermit'
  BY <1>1, <1>2, NoEventIsNone DEF TerminalMatchesPermit, IsTerminalOf
<1> QED
  BY <1>3, <1>4, <1>5, <1>6

LEMMA ExitStep == ASSUME DispatcherInv, Exit PROVE DispatcherInv'
<1> USE DEF DispatcherInv
<1>1. /\ current = NoEvent /\ stopping /\ eventQueue = <<>> /\ running'= FALSE
      /\ UNCHANGED <<eventQueue, regularQueued, enqueued, permits, completed, current,
                     received, stopping, joinStarted, joinFinished, callerPc, flushTarget>>
  BY DEF Exit, ExitReady, queueVars, stopVars, callerVars
<1>2. DispatcherTypeOK'
  BY <1>1 DEF DispatcherTypeOK
<1>3. CompletionAccounting'
  BY <1>1 DEF CompletionAccounting, RegularInQueue, InCallback
<1>4. Quiescence'
  BY <1>1 DEF Quiescence
<1>5. TerminalMatchesPermit'
  BY <1>1 DEF TerminalMatchesPermit
<1> QED
  BY <1>2, <1>3, <1>4, <1>5

LEMMA DispatcherThreadStep == ASSUME DispatcherInv, DispatcherThread PROVE DispatcherInv'
BY TakeStep, CompleteStep, ExitStep DEF DispatcherThread

-----------------------------------------------------------------------------
(* flush and stop *)

\* A caller moves only its own program counter and the stop flags.
LEMMA CallerMoved ==
    ASSUME DispatcherInv,
           UNCHANGED <<queueVars, permits, threadVars, joinFinished>>,
           stopping' \in BOOLEAN, joinStarted' \in BOOLEAN, stopping => stopping',
           callerPc' \in [Callers -> {"idle", "flushing", "joining", "awaiting"}],
           flushTarget' \in [Callers -> Nat],
           \A c \in Callers : flushTarget'[c] <= enqueued
    PROVE  DispatcherInv'
<1> USE DEF DispatcherInv
<1>1. UNCHANGED <<eventQueue, regularQueued, enqueued, permits, completed, current, running,
                  received, joinFinished>>
  BY DEF queueVars, threadVars
<1>2. DispatcherTypeOK'
  BY <1>1 DEF DispatcherTypeOK
<1>3. CompletionAccounting'
  BY <1>1 DEF CompletionAccounting, RegularInQueue, InCallback
<1>4. Quiescence'
  BY <1>1 DEF Quiescence
<1>5. TerminalMatchesPermit'
  BY <1>1 DEF TerminalMatchesPermit
<1> QED
  BY <1>2, <1>3, <1>4, <1>5

LEMMA FlushStep ==
    ASSUME DispatcherInv, NEW c \in Callers,
           FlushBegin(c) \/ FlushReturn(c) \/ FlushThrow(c)
    PROVE  DispatcherInv'
<1>1. /\ callerPc \in [Callers -> {"idle", "flushing", "joining", "awaiting"}]
      /\ flushTarget \in [Callers -> Nat] /\ enqueued \in Nat
      /\ \A d \in Callers : flushTarget[d] <= enqueued
      /\ stopping \in BOOLEAN /\ joinStarted \in BOOLEAN
  BY DEF DispatcherInv, DispatcherTypeOK, CompletionAccounting
<1>2. CASE FlushBegin(c)
  BY <1>1, <1>2, CallerMoved DEF FlushBegin, stopVars
<1>3. CASE LeaveFlush(c)
  BY <1>1, <1>3, CallerMoved DEF LeaveFlush, stopVars
<1> QED
  BY <1>2, <1>3 DEF FlushReturn, FlushThrow

LEMMA StopStep ==
    ASSUME DispatcherInv, NEW c \in Callers,
           StopBegin(c) \/ StopJoined(c) \/ StopAwaited(c) \/ StopFromCallback
    PROVE  DispatcherInv'
<1>1. /\ callerPc \in [Callers -> {"idle", "flushing", "joining", "awaiting"}]
      /\ flushTarget \in [Callers -> Nat] /\ enqueued \in Nat
      /\ \A d \in Callers : flushTarget[d] <= enqueued
      /\ stopping \in BOOLEAN /\ joinStarted \in BOOLEAN
  BY DEF DispatcherInv, DispatcherTypeOK, CompletionAccounting
<1>2. CASE StopBegin(c)
  BY <1>1, <1>2, CallerMoved DEF StopBegin, stopVars, callerVars
<1>3. CASE StopAwaited(c)
  BY <1>1, <1>3, CallerMoved DEF StopAwaited, stopVars
<1>4. CASE StopFromCallback
  BY <1>1, <1>4, CallerMoved DEF StopFromCallback, callerVars
<1>5. CASE StopJoined(c)
  <2> USE DEF DispatcherInv
  <2>1. /\ ~running /\ permits' = [r \in Requests |-> "none"] /\ joinFinished' = TRUE
        /\ callerPc' = [callerPc EXCEPT ![c] = "idle"]
        /\ UNCHANGED <<eventQueue, regularQueued, enqueued, completed, current, running,
                       received, stopping, joinStarted, flushTarget>>
    BY <1>5 DEF StopJoined, queueVars, threadVars
  <2>2. eventQueue = <<>> /\ current = NoEvent /\ stopping
    BY <2>1 DEF Quiescence
  <2>3. DispatcherTypeOK'
    BY <1>1, <2>1 DEF DispatcherTypeOK
  <2>4. CompletionAccounting'
    BY <2>1 DEF CompletionAccounting, RegularInQueue, InCallback
  <2>5. Quiescence'
    BY <2>1, <2>2 DEF Quiescence
  <2>6. TerminalMatchesPermit'
    BY <2>1, <2>2, EmptySeq, NoEventIsNone DEF TerminalMatchesPermit, IsTerminalOf
  <2> QED
    BY <2>3, <2>4, <2>5, <2>6
<1> QED
  BY <1>2, <1>3, <1>4, <1>5
=============================================================================
