-------------------------- MODULE RustEventsProofs --------------------------
(***************************************************************************)
(* The routing of native events is right for every number of requests and  *)
(* every size of the channels, as long as the native side owes no more     *)
(* ends than the registry has entries.  The code does not see to that      *)
(* (its bound is the number of slots and queued requests, the native one   *)
(* that of permits), so it is a hypothesis about the behaviour; it follows *)
(* from the bounds alone when there are no more permits than entries.      *)
(***************************************************************************)
EXTENDS RustEvents, TLAPS, FiniteSetTheorems, SequenceTheorems

\* A request whose stream has been handed out, or is about to be dropped.
Known(r) == native[r] # "new" /\ owner # Doing("registering", r)

\* A regular event of a request, or its end, is still to be heard of.
Queued(r) == \E i \in DOMAIN queue : queue[i].request = r
Overflowing(r) == callback.step = "overflow" /\ callback.event.request = r
Speaks(r) == native[r] = "running" \/ Queued(r) \/ Overflowing(r)
Ending(r) == callback.step = "forget" /\ callback.event.request = r

Owed == Outstanding \union Registering
InPending(r) == \E i \in DOMAIN pending : pending[i] = r
OwnerAsks(r) == owner = Doing("cancel", r) \/ owner = Doing("drop", r)
WorkerAsks(r) == worker = Doing("cancel", r)

\* Only requests the native side works on are in its queue, their end comes last.
QueueOK ==
    \A i \in DOMAIN queue :
        /\ queue[i].request # 0 => native[queue[i].request] \in {"running", "ended"}
        /\ queue[i].kind = "terminal" =>
              /\ queue[i].request \in Requests /\ native[queue[i].request] = "ended"
              /\ \A j \in DOMAIN queue : j > i => queue[j].request # queue[i].request

\* The threads work for a request that is not over.
ThreadsOK ==
    /\ callback.step # "idle" =>
          /\ callback.event.request \in Requests
          /\ native[callback.event.request] \in {"running", "ended"}
    /\ \A r \in Requests : Ending(r) => native[r] = "ended" /\ ~Queued(r)
    /\ owner.at = "registering" => owner.handle \in Requests /\ native[owner.handle] # "new"
    /\ owner.at \in {"cancel", "drop"} => owner.handle \in streams
    /\ worker.at = "cancel" => worker.handle \in Requests
    /\ wake \in {"last", "closed"} => owner.at \in {"joining", "closed"}
    /\ owner.at \in {"joining", "closed"} => Outstanding = {}

\* An entry before its registration, while its request speaks, and afterwards.
EntryOK(r) ==
    /\ registry[r].route = "absent" => registry[r] = Absent
    /\ native[r] = "new" => registry[r] = Absent
    /\ ~Known(r) =>
          /\ ~registry[r].state /\ r \notin streams
          /\ state[r] = [done |-> FALSE, failed |-> FALSE, cancel |-> FALSE]
    /\ Known(r) => ~registry[r].done /\ (registry[r] = Absent \/ registry[r].state)
    /\ Known(r) /\ Speaks(r) => registry[r] # Absent
    /\ registry[r].done => native[r] \in {"ended", "over"} /\ ~Speaks(r)
    /\ native[r] = "over" \/ Ending(r) =>
          IF Known(r) THEN registry[r] = Absent ELSE registry[r].done
    /\ state[r].done => native[r] \in {"ended", "over"}

\* A cancel is asked for by one thread and reaches the native side once.
CancelOK(r) ==
    /\ calls[r] <= 1
    /\ InPending(r) \/ WorkerAsks(r) \/ OwnerAsks(r) => calls[r] = 0
    /\ ~(InPending(r) /\ WorkerAsks(r)) /\ ~(InPending(r) /\ OwnerAsks(r))
    /\ ~(WorkerAsks(r) /\ OwnerAsks(r))
    /\ InPending(r) => native[r] \in {"running", "ended"}
    /\ InPending(r) \/ WorkerAsks(r) \/ OwnerAsks(r) \/ calls[r] > 0 =>
          IF Known(r) THEN state[r].cancel ELSE registry[r].cancel

PendingOK == \A i, j \in DOMAIN pending : pending[i] = pending[j] => i = j

\* What a stream was sent, and what was kept for it before its registration.
EndOK(r) ==
    /\ ~Known(r) =>
          /\ terminals[r] = <<>>
          /\ registry[r].route \in {"absent", "unregistered", "native", "overflow"}
          /\ registry[r].failed <=> registry[r].route = "overflow"
          /\ registry[r].route = "native" => registry[r].done
    /\ Known(r) /\ registry[r] # Absent => registry[r].route \in {"sender", "delivered"}
    /\ registry[r].route = "sender" => terminals[r] = <<>> /\ ~registry[r].failed
    /\ terminals[r] \in {<<>>, <<"native">>, <<"overflow">>}
    /\ terminals[r] = <<"native">> => native[r] \in {"ended", "over"} /\ ~Speaks(r)
    /\ terminals[r] = <<"native">> \/ registry[r].route = "native" => r \notin lost
    /\ r \in lost => Overflowing(r) \/ registry[r].failed \/ (Known(r) /\ registry[r] = Absent)

\* No more requests are owed than there are permits.
CountOK == IsFiniteSet(Owed) /\ Cardinality(Owed) <= Permits

\* The registry has an entry for each of them.
OwedFit == Cardinality(Owed) <= MaxOutstanding

RoutingInv ==
    /\ RustTypeOK /\ QueueOK /\ ThreadsOK /\ PendingOK /\ CountOK
    /\ \A r \in Requests : EntryOK(r) /\ CancelOK(r) /\ EndOK(r)
    /\ violations \subseteq {"telemetry"}

-----------------------------------------------------------------------------
(* Sequences and the requests a step leaves alone *)

LEMMA AppendIs ==
    ASSUME NEW S, NEW q \in Seq(S), NEW e \in S
    PROVE  /\ Append(q, e) \in Seq(S)
           /\ DOMAIN Append(q, e) = 1..(Len(q) + 1) /\ DOMAIN q = 1..Len(q) /\ Len(q) \in Nat
           /\ \A i \in 1..Len(q) : Append(q, e)[i] = q[i]
           /\ Append(q, e)[Len(q) + 1] = e
OBVIOUS

LEMMA TailIs ==
    ASSUME NEW S, NEW q \in Seq(S), q # <<>>
    PROVE  /\ Tail(q) \in Seq(S) /\ Head(q) \in S /\ Head(q) = q[1]
           /\ Len(q) \in Nat /\ Len(q) > 0 /\ DOMAIN q = 1..Len(q)
           /\ DOMAIN Tail(q) = 1..(Len(q) - 1)
           /\ \A i \in 1..(Len(q) - 1) : Tail(q)[i] = q[i + 1]
OBVIOUS

LEMMA RemoveAtIs ==
    ASSUME NEW S, NEW q \in Seq(S), NEW n \in 1..Len(q)
    PROVE  /\ RemoveAt(q, n) \in Seq(S)
           /\ DOMAIN q = 1..Len(q) /\ Len(q) \in Nat
           /\ DOMAIN RemoveAt(q, n) = 1..(Len(q) - 1)
           /\ \A i \in 1..(Len(q) - 1) :
                 RemoveAt(q, n)[i] = IF i < n THEN q[i] ELSE q[i + 1]
<1> DEFINE before == SubSeq(q, 1, n - 1)
           last == Len(q)
           after == SubSeq(q, n + 1, last)
<1>1. /\ last \in Nat /\ n \in Nat /\ 1 <= n /\ n <= last
      /\ DOMAIN q = 1..last /\ \A i \in 1..last : q[i] \in S
  OBVIOUS
<1> HIDE DEF last
<1>2. /\ before \in Seq(S) /\ Len(before) = n - 1
      /\ \A i \in 1..(n - 1) : before[i] = q[i]
  <2>1. \A i \in 1..(n - 1) : q[i] \in S
    BY <1>1
  <2> QED
    BY <1>1, <2>1, SubSeqProperties
<1>3. /\ after \in Seq(S) /\ Len(after) = last - n
      /\ \A i \in 1..(last - n) : after[i] = q[i + n]
  <2>1. \A i \in (n + 1)..last : q[i] \in S
    BY <1>1
  <2>2. /\ after \in Seq(S) /\ Len(after) = IF n + 1 <= last THEN last - (n + 1) + 1 ELSE 0
        /\ \A i \in 1..(last - (n + 1) + 1) : after[i] = q[n + 1 + i - 1]
    BY <1>1, <2>1, SubSeqProperties
  <2> HIDE DEF after
  <2>3. last - (n + 1) + 1 = last - n
    BY <1>1
  <2>4. Len(after) = last - n
    BY <1>1, <2>2, <2>3
  <2>5. ASSUME NEW i \in 1..(last - n) PROVE n + 1 + i - 1 = i + n /\ i \in 1..(last - (n + 1) + 1)
    BY <1>1, <2>3
  <2>6. ASSUME NEW i \in 1..(last - n) PROVE after[i] = q[i + n]
    BY <2>2, <2>5
  <2> QED
    BY <2>2, <2>4, <2>6
<1>4. RemoveAt(q, n) = before \o after
  BY DEF RemoveAt, last
<1> HIDE DEF before, after
<1>5. /\ before \o after \in Seq(S) /\ Len(before \o after) = last - 1
      /\ \A i \in 1..(last - 1) :
            (before \o after)[i] = IF i <= n - 1 THEN before[i] ELSE after[i - (n - 1)]
  <2>1. /\ before \o after \in Seq(S) /\ Len(before \o after) = Len(before) + Len(after)
        /\ \A i \in 1..(Len(before) + Len(after)) :
              (before \o after)[i] = IF i <= Len(before) THEN before[i] ELSE after[i - Len(before)]
    BY <1>2, <1>3, ConcatProperties
  <2> QED
    BY <1>1, <1>2, <1>3, <2>1
<1>6. \A i \in 1..(last - 1) : (before \o after)[i] = IF i < n THEN q[i] ELSE q[i + 1]
  BY <1>1, <1>2, <1>3, <1>5
<1>7. DOMAIN (before \o after) = 1..(last - 1)
  BY <1>5, LenProperties
<1> QED
  BY <1>1, <1>4, <1>5, <1>6, <1>7 DEF last

\* What a step may do to a request that is not its own.
SameRequest(r) ==
    /\ native'[r] = native[r] /\ registry'[r] = registry[r] /\ state'[r] = state[r]
    /\ terminals'[r] = terminals[r] /\ calls'[r] = calls[r]
    /\ Known(r)' <=> Known(r)
    /\ r \in streams' => r \in streams
    /\ Speaks(r)' => Speaks(r)
    /\ Ending(r)' => Ending(r)
    /\ Overflowing(r) => Overflowing(r)'
    /\ InPending(r)' => InPending(r)
    /\ WorkerAsks(r)' => WorkerAsks(r)
    /\ OwnerAsks(r)' => OwnerAsks(r)
    /\ r \in lost' => r \in lost

\* Nothing the invariant says of such a request is lost.
LEMMA Unaffected ==
    ASSUME NEW r \in Requests, EntryOK(r), CancelOK(r), EndOK(r), SameRequest(r)
    PROVE  EntryOK(r)' /\ CancelOK(r)' /\ EndOK(r)'
<1>1. EntryOK(r)'
  BY DEF EntryOK, SameRequest
<1>2. CancelOK(r)'
  BY DEF CancelOK, SameRequest
<1>3. EndOK(r)'
  BY DEF EndOK, SameRequest
<1> QED
  BY <1>1, <1>2, <1>3

\* Nothing has happened yet.
LEMMA RoutingStart == Init => RoutingInv
<1> SUFFICES ASSUME Init PROVE RoutingInv
  OBVIOUS
<1>1. RustTypeOK
  BY BoundsAssumption DEF Init, RustTypeOK, Absent, Idle, At, NoEvent, Event, Doing
<1>2. QueueOK /\ PendingOK
  BY DEF Init, QueueOK, PendingOK
<1>3. Outstanding = {} /\ Registering = {}
  BY DEF Init, Outstanding, Registering, Doing
<1>4. CountOK
  BY <1>3, FS_EmptySet, BoundsAssumption DEF CountOK, Owed
<1>5. ThreadsOK
  BY DEF Init, ThreadsOK, Idle, At, NoEvent, Event, Doing, Ending
<1>6. ASSUME NEW r \in Requests PROVE EntryOK(r) /\ CancelOK(r) /\ EndOK(r)
  BY <1>6 DEF Init, EntryOK, CancelOK, EndOK, Known, Speaks, Queued, Overflowing, Ending, Absent,
     Idle, At, NoEvent, Event, Doing, InPending, WorkerAsks, OwnerAsks
<1> QED
  BY <1>1, <1>2, <1>4, <1>5, <1>6 DEF RoutingInv, Init

-----------------------------------------------------------------------------
(* The queue of the native side *)

Events == [kind : {"queued", "token", "metrics", "terminal"}, request : Requests \union {0}]

\* An event that is admitted keeps the queue in order, unless its request has ended.
LEMMA Admitted ==
    ASSUME RoutingInv, NEW e \in Events, queue' = Append(queue, e),
           e.request # 0 => native[e.request] # "ended" /\ native'[e.request] \in {"running", "ended"},
           e.kind = "terminal" => e.request # 0 /\ native'[e.request] = "ended",
           \A r \in Requests : r # e.request => native'[r] = native[r]
    PROVE  /\ queue' \in Seq(Events) /\ QueueOK'
           /\ \A r : Queued(r)' <=> Queued(r) \/ e.request = r
<1>1. queue \in Seq(Events) /\ QueueOK
  BY DEF RoutingInv, RustTypeOK, Events
<1>2. /\ queue' \in Seq(Events) /\ Len(queue) \in Nat
      /\ DOMAIN queue' = 1..(Len(queue) + 1) /\ DOMAIN queue = 1..Len(queue)
      /\ \A i \in 1..Len(queue) : queue'[i] = queue[i]
      /\ queue'[Len(queue) + 1] = e
  BY <1>1, AppendIs
<1>3. \A i \in 1..Len(queue) : queue[i] \in Events
  BY <1>1
<1>4. QueueOK'
  <2> SUFFICES ASSUME NEW i \in DOMAIN queue'
               PROVE  /\ queue'[i].request # 0 => native'[queue'[i].request] \in {"running", "ended"}
                      /\ queue'[i].kind = "terminal" =>
                            /\ queue'[i].request \in Requests /\ native'[queue'[i].request] = "ended"
                            /\ \A j \in DOMAIN queue' : j > i => queue'[j].request # queue'[i].request
    BY DEF QueueOK
  <2>1. CASE i = Len(queue) + 1
    BY <1>2, <2>1 DEF Events
  <2>2. CASE i \in 1..Len(queue)
    <3>1. queue'[i] = queue[i] /\ queue[i].request \in Requests \union {0}
      BY <1>2, <1>3, <2>2 DEF Events
    <3>2. queue[i].request # 0 => native'[queue[i].request] \in {"running", "ended"}
      BY <1>1, <1>2, <2>2, <3>1 DEF QueueOK
    <3>3. ASSUME queue[i].kind = "terminal"
          PROVE  /\ queue[i].request \in Requests /\ native'[queue[i].request] = "ended"
                 /\ queue[i].request # e.request
      BY <1>1, <1>2, <2>2, <3>1, <3>3, BoundsAssumption DEF QueueOK
    <3>4. ASSUME queue[i].kind = "terminal", NEW j \in DOMAIN queue', j > i
          PROVE  queue'[j].request # queue[i].request
      BY <1>1, <1>2, <2>2, <3>3, <3>4 DEF QueueOK
    <3> QED
      BY <3>1, <3>2, <3>3, <3>4
  <2> QED
    BY <1>2, <2>1, <2>2
<1>5. \A r : Queued(r)' <=> Queued(r) \/ e.request = r
  BY <1>2 DEF Queued
<1> QED
  BY <1>2, <1>4, <1>5

\* The callback takes the first event.
LEMMA Taken ==
    ASSUME RoutingInv, queue # <<>>, queue' = Tail(queue), native' = native
    PROVE  /\ queue' \in Seq(Events) /\ QueueOK' /\ Head(queue) \in Events
           /\ \A r : Queued(r)' => Queued(r)
           /\ Queued(Head(queue).request)
           /\ Head(queue).request # 0 => native[Head(queue).request] \in {"running", "ended"}
           /\ Head(queue).kind = "terminal" =>
                 /\ Head(queue).request \in Requests /\ native[Head(queue).request] = "ended"
                 /\ \A r : r = Head(queue).request => ~Queued(r)'
<1>1. queue \in Seq(Events) /\ QueueOK
  BY DEF RoutingInv, RustTypeOK, Events
<1>2. /\ queue' \in Seq(Events) /\ Head(queue) \in Events /\ Head(queue) = queue[1]
      /\ Len(queue) \in Nat /\ Len(queue) > 0
      /\ DOMAIN queue' = 1..(Len(queue) - 1) /\ DOMAIN queue = 1..Len(queue)
      /\ \A i \in 1..(Len(queue) - 1) : queue'[i] = queue[i + 1]
  BY <1>1, TailIs
<1>3. \A i \in DOMAIN queue' : i + 1 \in DOMAIN queue /\ queue'[i] = queue[i + 1]
  BY <1>2
<1>4. QueueOK'
  BY <1>1, <1>2, <1>3 DEF QueueOK
<1>5. \A r : Queued(r)' => Queued(r)
  BY <1>3 DEF Queued
<1>6. 1 \in DOMAIN queue /\ \A i \in DOMAIN queue' : i + 1 > 1
  BY <1>2
<1>7. Queued(Head(queue).request)
  BY <1>2, <1>6 DEF Queued
<1>8. /\ Head(queue).request # 0 => native[Head(queue).request] \in {"running", "ended"}
      /\ Head(queue).kind = "terminal" =>
            Head(queue).request \in Requests /\ native[Head(queue).request] = "ended"
  BY <1>1, <1>2, <1>6 DEF QueueOK
<1>9. ASSUME Head(queue).kind = "terminal", NEW r, r = Head(queue).request
      PROVE  ~Queued(r)'
  <2> SUFFICES ASSUME NEW i \in DOMAIN queue', queue'[i].request = r
               PROVE  FALSE
    BY DEF Queued
  <2>1. i + 1 \in DOMAIN queue /\ i + 1 > 1 /\ queue[i + 1].request = queue[1].request
    BY <1>2, <1>3, <1>6, <1>9
  <2>2. \A j \in DOMAIN queue : j > 1 => queue[j].request # queue[1].request
    BY <1>1, <1>2, <1>6, <1>9 DEF QueueOK
  <2> QED
    BY <2>1, <2>2
<1> QED
  BY <1>2, <1>4, <1>5, <1>7, <1>8, <1>9
-----------------------------------------------------------------------------
(* Types *)

NativeType ==
    /\ native \in [Requests -> {"new", "running", "ended", "over"}]
    /\ said \in 0..MaxSaid /\ withdrawn \subseteq Requests
QueueType ==
    queue \in Seq([kind : {"queued", "token", "metrics", "terminal"},
                   request : Requests \union {0}])
CallbackType ==
    callback \in [step : {"idle", "overflow", "wake", "forget"},
                  event : [kind : {"none", "queued", "token", "metrics", "terminal"},
                           request : Requests \union {0}]]
RegistryType ==
    registry \in [Requests -> [route : {"absent", "unregistered", "sender", "native",
                                        "overflow", "delivered"},
                               state : BOOLEAN, done : BOOLEAN, failed : BOOLEAN,
                               cancel : BOOLEAN]]
StateType == state \in [Requests -> [done : BOOLEAN, failed : BOOLEAN, cancel : BOOLEAN]]
TerminalsType == terminals \in [Requests -> Seq({"native", "overflow", "refused"})]
CancelType == pending \in Seq(Requests) /\ wake \in {"empty", "token", "last", "closed"}
WorkerType == worker \in [at : {"recv", "pop", "cancel", "exited"}, handle : Requests \union {0}]
OwnerType ==
    /\ owner \in [at : {"idle", "registering", "cancel", "drop", "unloading", "joining",
                        "closed"}, handle : Requests \union {0}]
    /\ streams \subseteq Requests
HistoryType ==
    /\ regular \in 0..RegularCapacity /\ lost \subseteq Requests
    /\ calls \in [Requests -> Nat] /\ violations \subseteq {"registry", "wake", "telemetry"}

LEMMA TypeParts ==
    /\ RustTypeOK <=> /\ NativeType /\ QueueType /\ CallbackType /\ RegistryType /\ StateType
                      /\ TerminalsType /\ CancelType /\ WorkerType /\ OwnerType /\ HistoryType
    /\ RustTypeOK' <=> /\ NativeType' /\ QueueType' /\ CallbackType' /\ RegistryType' /\ StateType'
                       /\ TerminalsType' /\ CancelType' /\ WorkerType' /\ OwnerType' /\ HistoryType'
BY DEF RustTypeOK, NativeType, QueueType, CallbackType, RegistryType, StateType, TerminalsType,
   CancelType, WorkerType, OwnerType, HistoryType

Routes == {"absent", "unregistered", "sender", "native", "overflow", "delivered"}
EntryRecord == [route : Routes, state : BOOLEAN, done : BOOLEAN, failed : BOOLEAN, cancel : BOOLEAN]
StateRecord == [done : BOOLEAN, failed : BOOLEAN, cancel : BOOLEAN]

\* The fields of an entry after the updates the actions make.
LEMMA EntryRouted ==
    ASSUME NEW e \in EntryRecord, NEW k \in Routes, NEW x, x = [e EXCEPT !.route = k]
    PROVE  /\ x \in EntryRecord /\ x.route = k /\ x.state = e.state /\ x.done = e.done
           /\ x.failed = e.failed /\ x.cancel = e.cancel
BY DEF EntryRecord

LEMMA EntryDone ==
    ASSUME NEW e \in EntryRecord, NEW x, x = [e EXCEPT !.done = TRUE]
    PROVE  /\ x \in EntryRecord /\ x.route = e.route /\ x.state = e.state /\ x.done
           /\ x.failed = e.failed /\ x.cancel = e.cancel
BY DEF EntryRecord

LEMMA EntryHeld ==
    ASSUME NEW e \in EntryRecord, NEW x, x = [e EXCEPT !.state = TRUE]
    PROVE  /\ x \in EntryRecord /\ x.route = e.route /\ x.state /\ x.done = e.done
           /\ x.failed = e.failed /\ x.cancel = e.cancel
BY DEF EntryRecord

LEMMA EntryFailed ==
    ASSUME NEW e \in EntryRecord, NEW x, x = [e EXCEPT !.failed = TRUE]
    PROVE  /\ x \in EntryRecord /\ x.route = e.route /\ x.state = e.state /\ x.done = e.done
           /\ x.failed /\ x.cancel = e.cancel
BY DEF EntryRecord

LEMMA EntryClaimed ==
    ASSUME NEW e \in EntryRecord, NEW x, x = [e EXCEPT !.cancel = TRUE]
    PROVE  /\ x \in EntryRecord /\ x.route = e.route /\ x.state = e.state /\ x.done = e.done
           /\ x.failed = e.failed /\ x.cancel
BY DEF EntryRecord

LEMMA RecordDone ==
    ASSUME NEW y \in StateRecord, NEW z, z = [y EXCEPT !.done = TRUE]
    PROVE  /\ z \in StateRecord
           /\ z.done /\ z.failed = y.failed /\ z.cancel = y.cancel
BY DEF StateRecord

LEMMA StateDone ==
    ASSUME NEW r \in Requests, NEW f \in [Requests -> StateRecord],
           NEW g, g = [f EXCEPT ![r].done = TRUE]
    PROVE  /\ g \in [Requests -> StateRecord]
           /\ g[r].done /\ g[r].failed = f[r].failed /\ g[r].cancel = f[r].cancel
           /\ \A s \in Requests : s # r => g[s] = f[s]
<1>1. PICK x : x = [f[r] EXCEPT !.done = TRUE]
  OBVIOUS
<1>2. f[r] \in StateRecord
  OBVIOUS
<1>3. x \in StateRecord /\ x.done /\ x.failed = f[r].failed /\ x.cancel = f[r].cancel
  BY <1>1, <1>2, RecordDone
<1>4. g = [f EXCEPT ![r] = x]
  BY <1>1
<1> QED
  BY <1>3, <1>4

LEMMA RecordFailed ==
    ASSUME NEW y \in StateRecord, NEW z, z = [y EXCEPT !.failed = TRUE]
    PROVE  /\ z \in StateRecord
           /\ z.done = y.done /\ z.failed /\ z.cancel = y.cancel
BY DEF StateRecord

LEMMA StateFailed ==
    ASSUME NEW r \in Requests, NEW f \in [Requests -> StateRecord],
           NEW g, g = [f EXCEPT ![r].failed = TRUE]
    PROVE  /\ g \in [Requests -> StateRecord]
           /\ g[r].done = f[r].done /\ g[r].failed /\ g[r].cancel = f[r].cancel
           /\ \A s \in Requests : s # r => g[s] = f[s]
<1>1. PICK x : x = [f[r] EXCEPT !.failed = TRUE]
  OBVIOUS
<1>2. f[r] \in StateRecord
  OBVIOUS
<1>3. x \in StateRecord /\ x.done = f[r].done /\ x.failed /\ x.cancel = f[r].cancel
  BY <1>1, <1>2, RecordFailed
<1>4. g = [f EXCEPT ![r] = x]
  BY <1>1
<1> QED
  BY <1>3, <1>4

LEMMA RecordClaimed ==
    ASSUME NEW y \in StateRecord, NEW z, z = [y EXCEPT !.cancel = TRUE]
    PROVE  /\ z \in StateRecord
           /\ z.done = y.done /\ z.failed = y.failed /\ z.cancel
BY DEF StateRecord

LEMMA StateClaimed ==
    ASSUME NEW r \in Requests, NEW f \in [Requests -> StateRecord],
           NEW g, g = [f EXCEPT ![r].cancel = TRUE]
    PROVE  /\ g \in [Requests -> StateRecord]
           /\ g[r].done = f[r].done /\ g[r].failed = f[r].failed /\ g[r].cancel
           /\ \A s \in Requests : s # r => g[s] = f[s]
<1>1. PICK x : x = [f[r] EXCEPT !.cancel = TRUE]
  OBVIOUS
<1>2. f[r] \in StateRecord
  OBVIOUS
<1>3. x \in StateRecord /\ x.done = f[r].done /\ x.failed = f[r].failed /\ x.cancel
  BY <1>1, <1>2, RecordClaimed
<1>4. g = [f EXCEPT ![r] = x]
  BY <1>1
<1> QED
  BY <1>3, <1>4

LEMMA RecordCancel ==
    ASSUME NEW b \in BOOLEAN, NEW y \in StateRecord, NEW z, z = [y EXCEPT !.cancel = b]
    PROVE  /\ z \in StateRecord
           /\ z.done = y.done /\ z.failed = y.failed /\ z.cancel = b
BY DEF StateRecord

LEMMA StateCancel ==
    ASSUME NEW r \in Requests, NEW b \in BOOLEAN, NEW f \in [Requests -> StateRecord],
           NEW g, g = [f EXCEPT ![r].cancel = b]
    PROVE  /\ g \in [Requests -> StateRecord]
           /\ g[r].done = f[r].done /\ g[r].failed = f[r].failed /\ g[r].cancel = b
           /\ \A s \in Requests : s # r => g[s] = f[s]
<1>1. PICK x : x = [f[r] EXCEPT !.cancel = b]
  OBVIOUS
<1>2. f[r] \in StateRecord
  OBVIOUS
<1>3. x \in StateRecord /\ x.done = f[r].done /\ x.failed = f[r].failed /\ x.cancel = b
  BY <1>1, <1>2, RecordCancel
<1>4. g = [f EXCEPT ![r] = x]
  BY <1>1
<1> QED
  BY <1>3, <1>4

\* The states after the overflow of a request that asks for its cancel, or not.
Overflowed(f, r, c) == [f EXCEPT ![r].failed = TRUE, ![r].cancel = f[r].cancel \/ c]

LEMMA StateOverflowed ==
    ASSUME NEW r \in Requests, NEW f \in [Requests -> StateRecord], NEW c \in BOOLEAN,
           NEW h, h = Overflowed(f, r, c)
    PROVE  /\ h \in [Requests -> StateRecord]
           /\ h[r].done = f[r].done /\ (h[r].cancel <=> f[r].cancel \/ c)
           /\ \A s \in Requests : s # r => h[s] = f[s]
<1>1. f[r] \in StateRecord
  OBVIOUS
<1>2. f[r].cancel \in BOOLEAN
  BY <1>1 DEF StateRecord
<1>3. PICK b \in BOOLEAN : b = (f[r].cancel \/ c)
  BY <1>2
<1>4. PICK x : x = [f[r] EXCEPT !.failed = TRUE]
  OBVIOUS
<1>5. x \in StateRecord /\ x.done = f[r].done
  BY <1>1, <1>4, RecordFailed
<1>6. PICK y : y = [x EXCEPT !.cancel = b]
  OBVIOUS
<1>7. y \in StateRecord /\ y.done = x.done /\ y.cancel = b
  BY <1>5, <1>6, RecordCancel
<1>8. h = [f EXCEPT ![r] = y]
  BY <1>3, <1>4, <1>6 DEF Overflowed
<1>9. h \in [Requests -> StateRecord] /\ h[r] = y
  BY <1>7, <1>8
<1>10. \A s \in Requests : s # r => h[s] = f[s]
  BY <1>8
<1> QED
  BY <1>3, <1>5, <1>7, <1>9, <1>10

\* The type of a variable a step does not assign to.
LEMMA TypesUntouched ==
    /\ NativeType /\ native' = native /\ said' = said /\ withdrawn' = withdrawn => NativeType'
    /\ QueueType /\ queue' = queue => QueueType'
    /\ CallbackType /\ callback' = callback => CallbackType'
    /\ RegistryType /\ registry' = registry => RegistryType'
    /\ StateType /\ state' = state => StateType'
    /\ TerminalsType /\ terminals' = terminals => TerminalsType'
    /\ CancelType /\ pending' = pending /\ wake' = wake => CancelType'
    /\ WorkerType /\ worker' = worker => WorkerType'
    /\ OwnerType /\ owner' = owner /\ streams' = streams => OwnerType'
    /\ HistoryType /\ regular' = regular /\ lost' = lost /\ calls' = calls
       /\ violations' = violations => HistoryType'
BY DEF NativeType, QueueType, CallbackType, RegistryType, StateType, TerminalsType,
   CancelType, WorkerType, OwnerType, HistoryType

\* The actions that leave the registry alone keep every variable in its set.
LEMMA QuietTypes ==
    ASSUME RustTypeOK,
           \/ \E r \in Requests : Generate(r) \/ End(r) \/ Submit(r)
           \/ \E r \in Requests, then \in {"cancel", "drop"} : Claim(r, then)
           \/ Telemetry \/ Forget \/ TakeRegular \/ Wake \/ Worker \/ OwnerCancel
           \/ Consume \/ Unload \/ Close \/ Destroy \/ UNCHANGED vars
    PROVE  RustTypeOK'
<1> USE BoundsAssumption, TypesUntouched, TypeParts
<1> USE DEF nativeVars, routing, cancelling, history
<1>1. ASSUME NEW r \in Requests, Generate(r) PROVE RustTypeOK'
  BY <1>1 DEF Generate, Say, NativeType, QueueType, Event
<1>2. CASE Telemetry
  BY <1>2 DEF Telemetry, Say, NativeType, QueueType, Event
<1>3. ASSUME NEW r \in Requests, End(r) PROVE RustTypeOK'
  BY <1>3 DEF End, NativeType, QueueType, Event
<1>4. CASE Forget
  <2>1. CancelType'
    BY <1>4, RemoveAtIs DEF Forget, Withdraw, CancelType
  <2>2. NativeType' /\ CallbackType'
    BY <1>4 DEF Forget, NativeType, CallbackType, Idle, At, NoEvent, Event
  <2> QED
    BY <1>4, <2>1, <2>2 DEF Forget
<1>5. CASE TakeRegular
  <2>1. QueueType' /\ Head(queue) \in [kind : {"queued", "token", "metrics", "terminal"},
                                       request : Requests \union {0}]
    BY <1>5, TailIs DEF TakeRegular, QueueType
  <2>2. CallbackType'
    BY <1>5, <2>1 DEF TakeRegular, CallbackType, Idle, At, NoEvent, Event
  <2>3. HistoryType'
    BY <1>5, <2>1 DEF TakeRegular, HistoryType
  <2> QED
    BY <1>5, <2>1, <2>2, <2>3 DEF TakeRegular
<1>6. CASE Wake
  BY <1>6 DEF Wake, CallbackType, CancelType, HistoryType, Idle, At, NoEvent, Event
<1>7. CASE Receive
  BY <1>7 DEF Receive, CancelType, WorkerType, Doing
<1>8. CASE Pop
  BY <1>8 DEF Pop, CancelType, WorkerType, Doing
<1>9. ASSUME NEW r, NativeCancel(r), HistoryType, regular' = regular, lost' = lost, violations' = violations
      PROVE HistoryType'
  <2>1. calls \in [Requests -> Nat] /\ calls' = [calls EXCEPT ![r] = calls[r] + 1]
    BY <1>9 DEF NativeCancel, HistoryType
  <2>2. ASSUME NEW s \in Requests PROVE calls'[s] \in Nat
    BY <2>1
  <2>3. calls' \in [Requests -> Nat]
    BY <2>1, <2>2
  <2> QED
    BY <1>9, <2>3 DEF HistoryType
<1>10. CASE WorkerCancel
  <2>1. HistoryType'
    BY <1>9, <1>10 DEF WorkerCancel
  <2> QED
    BY <1>10, <2>1 DEF WorkerCancel, NativeCancel, NativeType, WorkerType, Doing, Running
<1>11. CASE WorkerExit \/ Consume
  BY <1>11 DEF WorkerExit, Consume, WorkerType, HistoryType, Doing
<1>12. ASSUME NEW r \in Requests, Submit(r) PROVE RustTypeOK'
  BY <1>12 DEF Submit, NativeType, QueueType, OwnerType, Doing, Event
<1>13. CASE OwnerCancel
  <2>1. HistoryType'
    BY <1>9, <1>13 DEF OwnerCancel
  <2> QED
    BY <1>13, <2>1 DEF OwnerCancel, NativeCancel, NativeType, OwnerType, Doing, Running
<1>14. CASE Unload \/ Close \/ Destroy
  BY <1>14 DEF Unload, Close, Destroy, NativeType, OwnerType, CancelType, Doing, Running
<1>15. ASSUME NEW r \in Requests, NEW then \in {"cancel", "drop"}, Claim(r, then)
       PROVE RustTypeOK'
  <2>1. StateType'
    <3>1. state' = state \/ state' = [state EXCEPT ![r].cancel = TRUE]
      BY <1>15 DEF Claim
    <3>2. state \in [Requests -> StateRecord]
      BY DEF StateType, StateRecord
    <3>3. [state EXCEPT ![r].cancel = TRUE] \in [Requests -> StateRecord]
      BY <3>2, StateClaimed
    <3> QED
      BY <3>1, <3>2, <3>3 DEF StateType, StateRecord
  <2>2. OwnerType'
    BY <1>15 DEF Claim, OwnerType, Doing
  <2> QED
    BY <1>15, <2>1, <2>2 DEF Claim
<1>16. CASE UNCHANGED vars
  BY <1>16 DEF vars
<1> QED
  BY <1>1, <1>2, <1>3, <1>4, <1>5, <1>6, <1>7, <1>8, <1>10, <1>11, <1>12, <1>13, <1>14, <1>15,
     <1>16 DEF Worker

-----------------------------------------------------------------------------
(* How a step keeps the invariant *)

\* A step keeps it when it does for its own request.
LEMMA Closed ==
    ASSUME RoutingInv, RustTypeOK', QueueOK', ThreadsOK', PendingOK', CountOK',
           violations' \subseteq {"telemetry"},
           NEW own, \A r \in Requests : r # own => SameRequest(r),
           own \in Requests => EntryOK(own)' /\ CancelOK(own)' /\ EndOK(own)'
    PROVE  RoutingInv'
<1>1. ASSUME NEW r \in Requests PROVE EntryOK(r)' /\ CancelOK(r)' /\ EndOK(r)'
  <2>1. CASE r = own
    BY <2>1
  <2>2. CASE r # own
    BY <2>2, Unaffected DEF RoutingInv
  <2> QED
    BY <2>1, <2>2
<1> QED
  BY <1>1 DEF RoutingInv

LEMMA QueueSame ==
    ASSUME QueueOK, queue' = queue, native' = native
    PROVE  QueueOK' /\ \A r : Queued(r)' <=> Queued(r)
BY DEF QueueOK, Queued

LEMMA PendingSame ==
    ASSUME pending' = pending
    PROVE  (PendingOK => PendingOK') /\ \A r : InPending(r)' <=> InPending(r)
BY DEF PendingOK, InPending

\* No step but a submission makes the native side owe more.
LEMMA FewerOwed ==
    ASSUME CountOK, Owed' \subseteq Owed
    PROVE  CountOK'
<1> DEFINE after == Owed'
<1>1. IsFiniteSet(Owed) /\ Cardinality(Owed) \in Nat
  BY FS_CardinalityType DEF CountOK
<1>2. IsFiniteSet(after) /\ Cardinality(after) <= Cardinality(Owed) /\ Cardinality(after) \in Nat
  BY <1>1, FS_Subset, FS_CardinalityType
<1> QED
  BY <1>1, <1>2, BoundsAssumption DEF CountOK

LEMMA OwedSame ==
    ASSUME CountOK, native' = native, owner' = owner \/ owner'.at # "registering"
    PROVE  CountOK' /\ Outstanding' = Outstanding
<1>1. Outstanding' = Outstanding
  BY DEF Outstanding
<1>2. Registering' \subseteq Registering
  BY DEF Registering, Doing
<1> QED
  BY <1>1, <1>2, FewerOwed DEF Owed

\* A thread is where its record says.
LEMMA ThreadIs ==
    ASSUME RustTypeOK
    PROVE  /\ owner = Doing(owner.at, owner.handle) /\ worker = Doing(worker.at, worker.handle)
           /\ \A r : OwnerAsks(r) <=> owner.at \in {"cancel", "drop"} /\ owner.handle = r
           /\ \A r : WorkerAsks(r) <=> worker.at = "cancel" /\ worker.handle = r
BY DEF RustTypeOK, Doing, OwnerAsks, WorkerAsks

LEMMA RegistryHasRoom ==
    ASSUME OwedFit, RoutingInv
    PROVE  /\ Entries \subseteq Owed
           /\ \A r \in Owed : ~RegistryFull(r)
<1>1. Entries \subseteq Owed
  <2> SUFFICES ASSUME NEW r \in Requests, registry[r].route # "absent"
               PROVE  r \in Outstanding \/ r \in Registering
    BY DEF Entries, Owed
  <2>1. native[r] \in {"new", "running", "ended", "over"} /\ EntryOK(r)
    BY DEF RoutingInv, RustTypeOK
  <2> QED
    BY <2>1 DEF EntryOK, Absent, Outstanding, Registering, Known
<1>2. ASSUME NEW r \in Owed, registry[r] = Absent
      PROVE  ~(Cardinality(Entries) >= MaxOutstanding)
  <2>1. IsFiniteSet(Owed) /\ Cardinality(Owed) <= MaxOutstanding /\ Cardinality(Owed) \in Nat
    BY FS_CardinalityType DEF RoutingInv, CountOK, OwedFit
  <2>2. Entries \subseteq Owed \ {r}
    BY <1>1, <1>2 DEF Entries, Absent
  <2>3. IsFiniteSet(Owed \ {r}) /\ Cardinality(Owed \ {r}) = Cardinality(Owed) - 1
    BY <2>1, FS_RemoveElement
  <2>4. Cardinality(Entries) <= Cardinality(Owed \ {r}) /\ Cardinality(Entries) \in Nat
    BY <2>2, <2>3, FS_Subset, FS_CardinalityType
  <2> QED
    BY <2>1, <2>3, <2>4, BoundsAssumption
<1> QED
  BY <1>1, <1>2 DEF RegistryFull

-----------------------------------------------------------------------------
(* The native side *)

LEMMA KeptByToken ==
    ASSUME RoutingInv, NEW e \in Events, Say(e),
           \/ e.request \in Requests /\ native[e.request] = "running" /\ e.kind = "token"
           \/ e.request = 0 /\ e.kind = "metrics"
    PROVE  RoutingInv'
<1> USE DEF nativeVars, routing, cancelling, history
<1>1. RustTypeOK /\ CountOK /\ ThreadsOK /\ PendingOK /\ QueueOK /\ violations \subseteq {"telemetry"}
  BY DEF RoutingInv
<1>2. /\ queue' = Append(queue, e) /\ native' = native /\ owner' = owner /\ pending' = pending
      /\ UNCHANGED <<registry, state, terminals, calls, streams, callback, worker, wake, lost,
                     violations>>
  BY DEF Say
<1>3. QueueOK' /\ \A r : Queued(r)' <=> Queued(r) \/ e.request = r
  BY <1>2, Admitted
<1>4. RustTypeOK'
  BY <1>1, <1>2, BoundsAssumption, TypesUntouched, TypeParts, AppendIs
     DEF Say, NativeType, QueueType, Events
<1>5. CountOK' /\ Outstanding' = Outstanding
  BY <1>1, <1>2, OwedSame
<1>6. ThreadsOK'
  <2>1. ASSUME NEW r \in Requests, Ending(r)' PROVE native'[r] = "ended" /\ ~Queued(r)'
    <3>1. native[r] = "ended" /\ ~Queued(r)
      BY <1>1, <1>2, <2>1 DEF ThreadsOK, Ending
    <3>2. e.request # r
      BY <3>1, BoundsAssumption
    <3> QED
      BY <1>2, <1>3, <3>1, <3>2
  <2> QED
    BY <1>1, <1>2, <1>5, <2>1 DEF ThreadsOK
<1>7. ASSUME NEW r \in Requests PROVE SameRequest(r)
  BY <1>2, <1>3, BoundsAssumption
     DEF SameRequest, Known, Speaks, Overflowing, Ending, InPending, WorkerAsks, OwnerAsks
<1> QED
  BY <1>1, <1>2, <1>3, <1>4, <1>5, <1>6, <1>7, PendingSame, Closed, BoundsAssumption

LEMMA KeptBySpeaking ==
    ASSUME RoutingInv, Telemetry \/ \E r \in Requests : Generate(r)
    PROVE  RoutingInv'
<1>1. CASE Telemetry
  BY <1>1, KeptByToken DEF Telemetry, Event, Events
<1>2. ASSUME NEW r \in Requests, Generate(r) PROVE RoutingInv'
  BY <1>2, KeptByToken DEF Generate, Event, Events
<1> QED
  BY <1>1, <1>2

LEMMA KeptByEnd ==
    ASSUME RoutingInv, NEW r \in Requests, End(r)
    PROVE  RoutingInv'
<1> USE DEF nativeVars, routing, cancelling, history
<1>1. /\ RustTypeOK /\ CountOK /\ ThreadsOK /\ PendingOK /\ violations \subseteq {"telemetry"}
      /\ EntryOK(r) /\ CancelOK(r) /\ EndOK(r)
  BY DEF RoutingInv
<1>2. /\ native[r] = "running" /\ native' = [native EXCEPT ![r] = "ended"]
      /\ queue' = Append(queue, Event("terminal", r)) /\ owner' = owner /\ pending' = pending
      /\ UNCHANGED <<registry, state, terminals, calls, streams, callback, worker, wake, lost,
                     violations>>
  BY DEF End
<1>3. native'[r] = "ended" /\ \A s \in Requests : s # r => native'[s] = native[s]
  BY <1>1, <1>2 DEF RustTypeOK
<1>4. QueueOK' /\ \A s : Queued(s)' <=> Queued(s) \/ s = r
  BY <1>2, <1>3, Admitted, BoundsAssumption DEF Event, Events
<1>5. RustTypeOK'
  BY <1>1, QuietTypes
<1>6. Outstanding' = Outstanding /\ Registering' = Registering
  BY <1>2, <1>3 DEF Outstanding, Registering
<1>7. CountOK'
  BY <1>1, <1>6, FewerOwed DEF Owed
<1>8. ThreadsOK'
  BY <1>1, <1>2, <1>3, <1>4, <1>6 DEF ThreadsOK, Ending
<1>9. ASSUME NEW s \in Requests, s # r PROVE SameRequest(s)
  BY <1>2, <1>3, <1>4, <1>9
     DEF SameRequest, Known, Speaks, Overflowing, Ending, InPending, WorkerAsks, OwnerAsks
<1>10. /\ Known(r)' <=> Known(r)
       /\ Speaks(r) /\ ~Ending(r)' /\ native[r] # "new"
  BY <1>1, <1>2, <1>3 DEF Known, Speaks, Ending, ThreadsOK
<1>11. EntryOK(r)'
  BY <1>1, <1>2, <1>3, <1>10 DEF EntryOK
<1>12. CancelOK(r)'
  BY <1>1, <1>2, <1>3, <1>10, PendingSame DEF CancelOK, WorkerAsks, OwnerAsks
<1>13. EndOK(r)'
  BY <1>1, <1>2, <1>3, <1>10 DEF EndOK, Overflowing
<1> QED
  BY <1>1, <1>2, <1>4, <1>5, <1>7, <1>8, <1>9, <1>11, <1>12, <1>13, PendingSame, Closed

\* Only an idle owner submits, and the native side has a permit for the request.
LEMMA KeptBySubmit ==
    ASSUME RoutingInv, NEW r \in Requests, Submit(r)
    PROVE  RoutingInv'
<1> USE DEF nativeVars, routing, cancelling, history
<1>1. /\ RustTypeOK /\ CountOK /\ ThreadsOK /\ PendingOK /\ violations \subseteq {"telemetry"}
      /\ EntryOK(r) /\ CancelOK(r) /\ EndOK(r)
  BY DEF RoutingInv
<1>2. /\ native[r] = "new" /\ native' = [native EXCEPT ![r] = "running"]
      /\ queue' = Append(queue, Event("queued", r)) /\ pending' = pending
      /\ owner.at = "idle" /\ owner' = Doing("registering", r)
      /\ Cardinality(Outstanding) < Permits
      /\ UNCHANGED <<registry, state, terminals, calls, streams, callback, worker, wake, lost,
                     violations>>
  BY DEF Submit
<1>3. native'[r] = "running" /\ \A s \in Requests : s # r => native'[s] = native[s]
  BY <1>1, <1>2 DEF RustTypeOK
<1>4. QueueOK' /\ \A s : Queued(s)' <=> Queued(s) \/ s = r
  BY <1>2, <1>3, Admitted, BoundsAssumption DEF Event, Events
<1>5. RustTypeOK'
  BY <1>1, QuietTypes
<1>6. Owed = Outstanding /\ Owed' \subseteq Outstanding \union {r}
  BY <1>2, <1>3 DEF Owed, Outstanding, Registering, Doing
<1>7. CountOK'
  <2> DEFINE before == Outstanding
             after == Owed'
  <2>1. IsFiniteSet(before) /\ Cardinality(before) \in Nat
    BY <1>1, <1>6, FS_CardinalityType DEF CountOK
  <2>2. r \notin before
    BY <1>2 DEF Outstanding
  <2>3. IsFiniteSet(before \union {r}) /\ Cardinality(before \union {r}) = Cardinality(before) + 1
    BY <2>1, <2>2, FS_AddElement
  <2>4. /\ IsFiniteSet(after) /\ Cardinality(after) <= Cardinality(before \union {r})
        /\ Cardinality(after) \in Nat
    BY <1>6, <2>3, FS_Subset, FS_CardinalityType
  <2>5. Cardinality(before) < Permits
    BY <1>2
  <2> QED
    BY <2>1, <2>3, <2>4, <2>5, BoundsAssumption DEF CountOK
<1>8. ~Ending(r) /\ ~Overflowing(r) /\ ~OwnerAsks(r) /\ wake \notin {"last", "closed"}
  BY <1>1, <1>2 DEF ThreadsOK, Ending, Overflowing, OwnerAsks, Doing
<1>9. ThreadsOK'
  <2>1. ASSUME NEW s \in Requests, Ending(s)' PROVE native'[s] = "ended" /\ ~Queued(s)'
    BY <1>1, <1>2, <1>3, <1>4, <1>8, <2>1 DEF ThreadsOK, Ending
  <2>2. callback.step # "idle" => /\ callback.event.request \in Requests
                                  /\ native'[callback.event.request] \in {"running", "ended"}
    BY <1>1, <1>2, <1>3 DEF ThreadsOK
  <2> QED
    BY <1>1, <1>2, <1>3, <1>8, <2>1, <2>2 DEF ThreadsOK, Doing
<1>10. ASSUME NEW s \in Requests, s # r PROVE SameRequest(s)
  BY <1>2, <1>3, <1>4, <1>10
     DEF SameRequest, Known, Speaks, Overflowing, Ending, InPending, WorkerAsks, OwnerAsks, Doing
<1>11. /\ ~Known(r) /\ ~Known(r)' /\ ~Ending(r)' /\ ~Overflowing(r)' /\ ~OwnerAsks(r)'
       /\ WorkerAsks(r)' = WorkerAsks(r) /\ registry[r] = Absent
  BY <1>1, <1>2, <1>8 DEF Known, Ending, Overflowing, OwnerAsks, WorkerAsks, Doing, EntryOK
<1>12. EntryOK(r)'
  BY <1>1, <1>2, <1>3, <1>11 DEF EntryOK, Absent
<1>13. CancelOK(r)'
  BY <1>1, <1>2, <1>3, <1>8, <1>11, PendingSame DEF CancelOK, Absent
<1>14. EndOK(r)'
  BY <1>1, <1>2, <1>3, <1>8, <1>11 DEF EndOK, Absent
<1> QED
  BY <1>1, <1>2, <1>4, <1>5, <1>7, <1>9, <1>10, <1>12, <1>13, <1>14, PendingSame, Closed

-----------------------------------------------------------------------------
(* The cancellation worker, the consumer and the steps of the owner *)

\* A step that leaves the native side, the queue and the entries alone.
LEMMA KeptByQuiet ==
    ASSUME RoutingInv, Receive \/ WorkerExit \/ Consume \/ Unload \/ Close \/ Destroy
                       \/ UNCHANGED vars
    PROVE  RoutingInv'
<1> USE DEF nativeVars, routing, cancelling, history
<1>1. RustTypeOK /\ CountOK /\ ThreadsOK /\ PendingOK /\ QueueOK /\ violations \subseteq {"telemetry"}
  BY DEF RoutingInv
<1>2. /\ UNCHANGED <<native, queue, registry, state, terminals, calls, streams, callback, pending,
                     lost, violations>>
      /\ worker' = worker \/ worker'.at \in {"pop", "exited"}
      /\ owner' = owner \/ (owner.at \in {"idle", "unloading", "joining"}
                             /\ owner'.at \in {"unloading", "joining", "closed"})
  BY DEF Receive, WorkerExit, Consume, Unload, Close, Destroy, vars, Doing
<1>3. RustTypeOK'
  BY <1>1, QuietTypes DEF Worker
<1>4. QueueOK' /\ PendingOK' /\ CountOK' /\ Outstanding' = Outstanding
      /\ \A r : (Queued(r)' <=> Queued(r)) /\ (InPending(r)' <=> InPending(r))
  BY <1>1, <1>2, QueueSame, PendingSame, OwedSame
<1>5. ThreadsOK'
  <2>1. /\ callback'.step # "idle" => /\ callback'.event.request \in Requests
                                      /\ native'[callback'.event.request] \in {"running", "ended"}
        /\ \A r \in Requests : Ending(r)' => native'[r] = "ended" /\ ~Queued(r)'
    BY <1>1, <1>2, <1>4 DEF ThreadsOK, Ending
  <2>2. /\ owner'.at = "registering" => owner'.handle \in Requests /\ native'[owner'.handle] # "new"
        /\ owner'.at \in {"cancel", "drop"} => owner'.handle \in streams'
        /\ worker'.at = "cancel" => worker'.handle \in Requests
    BY <1>1, <1>2 DEF ThreadsOK
  <2>3. /\ wake' \in {"last", "closed"} => owner'.at \in {"joining", "closed"}
        /\ owner'.at \in {"joining", "closed"} => Outstanding' = {}
    BY <1>1, <1>2, <1>4 DEF ThreadsOK, Receive, WorkerExit, Consume, Unload, Close, Destroy, vars,
       Doing
  <2> QED
    BY <2>1, <2>2, <2>3 DEF ThreadsOK
<1>6. ASSUME NEW r \in Requests PROVE SameRequest(r)
  BY <1>2, <1>4 DEF SameRequest, Known, Speaks, Overflowing, Ending, WorkerAsks, OwnerAsks, Doing
<1> QED
  BY <1>1, <1>2, <1>3, <1>4, <1>5, <1>6, Closed, BoundsAssumption
LEMMA KeptByPop ==
    ASSUME RoutingInv, Pop
    PROVE  RoutingInv'
<1> USE DEF nativeVars, routing, cancelling, history
<1>1. RustTypeOK /\ CountOK /\ ThreadsOK /\ PendingOK /\ QueueOK /\ violations \subseteq {"telemetry"}
  BY DEF RoutingInv
<1>2. /\ UNCHANGED <<native, queue, registry, state, terminals, calls, streams, callback, owner,
                     lost, violations, wake>>
      /\ worker.at = "pop"
  BY DEF Pop
<1>3. RustTypeOK'
  BY <1>1, QuietTypes DEF Worker
<1>4. QueueOK' /\ CountOK' /\ Outstanding' = Outstanding /\ \A r : Queued(r)' <=> Queued(r)
  BY <1>1, <1>2, QueueSame, OwedSame
<1>5. CASE pending = <<>>
  <2>1. pending' = pending /\ worker' = Doing("recv", 0)
    BY <1>5 DEF Pop
  <2>2. ThreadsOK'
    BY <1>1, <1>2, <1>4, <2>1 DEF ThreadsOK, Ending, Doing
  <2>3. ASSUME NEW r \in Requests PROVE SameRequest(r)
    BY <1>2, <1>4, <2>1, PendingSame
       DEF SameRequest, Known, Speaks, Overflowing, Ending, WorkerAsks, OwnerAsks, Doing
  <2> QED
    BY <1>1, <1>2, <1>3, <1>4, <2>1, <2>2, <2>3, PendingSame, Closed, BoundsAssumption
<1>6. CASE pending # <<>>
  <2>1. PICK r \in Requests : r = Head(pending)
    BY <1>1, <1>6, TailIs DEF RustTypeOK
  <2>2. pending' = Tail(pending) /\ worker' = Doing("cancel", r)
    BY <1>6, <2>1 DEF Pop
  <2>3. /\ r = pending[1] /\ Len(pending) \in Nat /\ Len(pending) > 0
        /\ DOMAIN pending = 1..Len(pending) /\ DOMAIN pending' = 1..(Len(pending) - 1)
        /\ \A i \in 1..(Len(pending) - 1) : pending'[i] = pending[i + 1]
    BY <1>1, <1>6, <2>1, <2>2, TailIs DEF RustTypeOK
  <2>4. \A i \in DOMAIN pending' : /\ i + 1 \in DOMAIN pending /\ pending'[i] = pending[i + 1]
                                   /\ i + 1 # 1 /\ i \in Nat
    BY <2>3
  <2>5. 1 \in DOMAIN pending
    BY <2>3
  <2>6. /\ InPending(r) /\ ~InPending(r)' /\ \A s : InPending(s)' => InPending(s)
    BY <1>1, <2>3, <2>4, <2>5 DEF InPending, PendingOK
  <2>7. PendingOK'
    <3> SUFFICES ASSUME NEW i \in DOMAIN pending', NEW j \in DOMAIN pending',
                        pending'[i] = pending'[j]
                 PROVE  i = j
      BY DEF PendingOK
    <3>1. i + 1 = j + 1
      BY <1>1, <2>4 DEF PendingOK
    <3> QED
      BY <2>4, <3>1
  <2>8. ThreadsOK'
    BY <1>1, <1>2, <1>4, <2>2 DEF ThreadsOK, Ending, Doing
  <2>9. ASSUME NEW s \in Requests, s # r PROVE SameRequest(s)
    BY <1>2, <1>4, <2>2, <2>6, <2>9
       DEF SameRequest, Known, Speaks, Overflowing, Ending, WorkerAsks, OwnerAsks, Doing
  <2>10. EntryOK(r) /\ CancelOK(r) /\ EndOK(r)
    BY DEF RoutingInv
  <2>11. /\ Known(r)' = Known(r) /\ Speaks(r)' = Speaks(r) /\ Ending(r)' = Ending(r)
         /\ Overflowing(r)' = Overflowing(r) /\ OwnerAsks(r)' = OwnerAsks(r)
    BY <1>2, <1>4 DEF Known, Speaks, Overflowing, Ending, OwnerAsks, Doing
  <2>12. EntryOK(r)' /\ EndOK(r)'
    BY <1>2, <2>10, <2>11 DEF EntryOK, EndOK
  <2>13. CancelOK(r)'
    BY <1>2, <2>6, <2>10, <2>11 DEF CancelOK
  <2> QED
    BY <1>1, <1>2, <1>3, <1>4, <2>7, <2>8, <2>9, <2>12, <2>13, Closed
<1> QED
  BY <1>5, <1>6

\* The native cancel, by the worker or by the owner, which then asks no more.
LEMMA KeptByCancel ==
    ASSUME RoutingInv, WorkerCancel \/ OwnerCancel
    PROVE  RoutingInv'
<1> USE DEF nativeVars, routing, cancelling, history
<1>1. RustTypeOK /\ CountOK /\ ThreadsOK /\ PendingOK /\ QueueOK /\ violations \subseteq {"telemetry"}
  BY DEF RoutingInv
<1>2. PICK r \in Requests :
         /\ \/ WorkerAsks(r) /\ worker' = Doing("pop", 0) /\ owner' = owner /\ streams' = streams
            \/ /\ OwnerAsks(r) /\ owner' = Doing("idle", 0) /\ worker' = worker
               /\ streams' \subseteq streams
         /\ calls' = [calls EXCEPT ![r] = calls[r] + 1]
  <2>1. CASE WorkerCancel
    BY <1>1, <2>1, ThreadIs DEF WorkerCancel, NativeCancel, ThreadsOK
  <2>2. CASE OwnerCancel
    <3>1. owner.handle \in Requests
      BY <1>1, <2>2 DEF OwnerCancel, ThreadsOK, RustTypeOK
    <3> QED
      BY <1>1, <2>2, <3>1, ThreadIs DEF OwnerCancel, NativeCancel
  <2> QED
    BY <2>1, <2>2
<1>3. UNCHANGED <<native, queue, registry, state, terminals, callback, lost, violations, wake, pending>>
  BY DEF WorkerCancel, OwnerCancel
<1>4. RustTypeOK'
  BY <1>1, QuietTypes DEF Worker
<1>5. QueueOK' /\ CountOK' /\ Outstanding' = Outstanding /\ \A s : Queued(s)' <=> Queued(s)
  BY <1>1, <1>2, <1>3, QueueSame, OwedSame DEF Doing
<1>6. ThreadsOK'
  BY <1>1, <1>2, <1>3, <1>5 DEF ThreadsOK, Ending, Doing, OwnerAsks
<1>7. \A s : Known(s)' <=> Known(s)
  BY <1>2, <1>3 DEF Known, Doing, OwnerAsks
<1>8. ASSUME NEW s \in Requests, s # r PROVE SameRequest(s)
  <2>1. calls'[s] = calls[s]
    BY <1>1, <1>2, <1>8 DEF RustTypeOK
  <2>2. (WorkerAsks(s)' => WorkerAsks(s)) /\ (OwnerAsks(s)' => OwnerAsks(s))
    BY <1>2 DEF WorkerAsks, OwnerAsks, Doing
  <2> QED
    BY <1>2, <1>3, <1>5, <1>7, <2>1, <2>2, PendingSame
       DEF SameRequest, Speaks, Overflowing, Ending
<1>9. EntryOK(r) /\ CancelOK(r) /\ EndOK(r)
  BY DEF RoutingInv
<1>10. /\ Speaks(r)' <=> Speaks(r)
       /\ Ending(r)' <=> Ending(r)
       /\ Overflowing(r)' <=> Overflowing(r)
       /\ InPending(r)' <=> InPending(r)
  BY <1>3, <1>5, PendingSame DEF Speaks, Ending, Overflowing
<1>11. EntryOK(r)' /\ EndOK(r)'
  BY <1>2, <1>3, <1>7, <1>9, <1>10 DEF EntryOK, EndOK
<1>12. CancelOK(r)'
  <2>1. ~InPending(r) /\ calls[r] = 0 /\ (Known(r) => state[r].cancel) /\ (~Known(r) => registry[r].cancel)
    BY <1>2, <1>9 DEF CancelOK
  <2>2. ~WorkerAsks(r)' /\ ~OwnerAsks(r)'
    <3>1. ~(WorkerAsks(r) /\ OwnerAsks(r))
      BY <1>9 DEF CancelOK
    <3> QED
      BY <1>2, <3>1 DEF WorkerAsks, OwnerAsks, Doing
  <2>3. calls'[r] = 1
    BY <1>1, <1>2, <2>1 DEF RustTypeOK
  <2> QED
    BY <1>3, <1>7, <1>10, <2>1, <2>2, <2>3 DEF CancelOK
<1> QED
  BY <1>1, <1>2, <1>3, <1>4, <1>5, <1>6, <1>8, <1>11, <1>12, PendingSame, Closed

\* The claim of a stream is taken before anybody else has asked.
LEMMA KeptByClaim ==
    ASSUME RoutingInv, NEW r \in Requests, NEW then \in {"cancel", "drop"}, Claim(r, then)
    PROVE  RoutingInv'
<1> USE DEF nativeVars, routing, cancelling, history
<1>1. RustTypeOK /\ CountOK /\ ThreadsOK /\ PendingOK /\ QueueOK /\ violations \subseteq {"telemetry"}
  BY DEF RoutingInv
<1>2. EntryOK(r) /\ CancelOK(r) /\ EndOK(r)
  BY DEF RoutingInv
<1>3. /\ UNCHANGED <<native, queue, registry, terminals, callback, lost, violations, wake, pending,
                     calls, worker>>
      /\ owner.at = "idle" /\ r \in streams
  BY DEF Claim
<1>4. RustTypeOK'
  BY <1>1, QuietTypes
<1>5. CASE state[r].done \/ state[r].cancel
  <2>1. state' = state /\ owner' = owner /\ streams' = streams \ {r}
    BY <1>5 DEF Claim
  <2>2. QueueOK' /\ CountOK' /\ Outstanding' = Outstanding /\ \A s : Queued(s)' <=> Queued(s)
    BY <1>1, <1>3, <2>1, QueueSame, OwedSame
  <2>3. ThreadsOK'
    BY <1>1, <1>3, <2>1, <2>2 DEF ThreadsOK, Ending
  <2>4. ASSUME NEW s \in Requests PROVE SameRequest(s)
    BY <1>3, <2>1, <2>2, PendingSame
       DEF SameRequest, Known, Speaks, Overflowing, Ending, WorkerAsks, OwnerAsks
  <2> QED
    BY <1>1, <1>3, <1>4, <2>2, <2>3, <2>4, PendingSame, Closed, BoundsAssumption
<1>6. CASE ~(state[r].done \/ state[r].cancel)
  <2>1. state' = [state EXCEPT ![r].cancel = TRUE] /\ owner' = Doing(then, r) /\ streams' = streams
    BY <1>6 DEF Claim
  <2>2. QueueOK' /\ CountOK' /\ Outstanding' = Outstanding /\ \A s : Queued(s)' <=> Queued(s)
    BY <1>1, <1>3, <2>1, QueueSame, OwedSame DEF Doing
  <2>3. ThreadsOK'
    BY <1>1, <1>3, <2>1, <2>2 DEF ThreadsOK, Ending, Doing
  <2>4. /\ state'[r].done = state[r].done /\ state'[r].cancel
        /\ \A s \in Requests : s # r => state'[s] = state[s]
    <3>1. state \in [Requests -> StateRecord]
      BY <1>1 DEF RustTypeOK, StateRecord
    <3>2. PICK g : g = [state EXCEPT ![r].cancel = TRUE]
      OBVIOUS
    <3>3. /\ g[r].done = state[r].done /\ g[r].cancel
          /\ \A s \in Requests : s # r => g[s] = state[s]
      BY <3>1, <3>2, StateClaimed
    <3> QED
      BY <2>1, <3>2, <3>3
  <2>5. \A s : (Known(s)' <=> Known(s)) /\ (OwnerAsks(s)' <=> s = r) /\ ~OwnerAsks(s)
    BY <1>3, <2>1 DEF Known, Doing, OwnerAsks
  <2>6. ASSUME NEW s \in Requests, s # r PROVE SameRequest(s)
    BY <1>3, <2>1, <2>2, <2>4, <2>5, <2>6, PendingSame
       DEF SameRequest, Speaks, Overflowing, Ending, WorkerAsks
  <2>7. Known(r)
    BY <1>2, <1>3 DEF EntryOK
  <2>8. /\ Speaks(r)' <=> Speaks(r)
        /\ Ending(r)' <=> Ending(r)
        /\ Overflowing(r)' <=> Overflowing(r)
        /\ InPending(r)' <=> InPending(r)
        /\ WorkerAsks(r)' <=> WorkerAsks(r)
    BY <1>3, <2>2, PendingSame DEF Speaks, Ending, Overflowing, WorkerAsks
  <2>9. EntryOK(r)' /\ EndOK(r)'
    BY <1>2, <1>3, <2>1, <2>4, <2>5, <2>7, <2>8 DEF EntryOK, EndOK
  <2>10. CancelOK(r)'
    <3>1. ~InPending(r) /\ ~WorkerAsks(r) /\ ~(calls[r] > 0) /\ calls[r] <= 1
      BY <1>2, <1>6, <2>7 DEF CancelOK
    <3>2. calls[r] = 0
      BY <1>1, <3>1 DEF RustTypeOK
    <3> QED
      BY <1>3, <2>4, <2>5, <2>7, <2>8, <3>1, <3>2 DEF CancelOK
  <2> QED
    BY <1>1, <1>3, <1>4, <2>2, <2>3, <2>6, <2>9, <2>10, PendingSame, Closed
<1> QED
  BY <1>5, <1>6

-----------------------------------------------------------------------------
(* The callback *)

LEMMA KeptByWake ==
    ASSUME RoutingInv, Wake
    PROVE  RoutingInv'
<1> USE DEF nativeVars, routing, cancelling, history
<1>1. RustTypeOK /\ CountOK /\ ThreadsOK /\ PendingOK /\ QueueOK /\ violations \subseteq {"telemetry"}
  BY DEF RoutingInv
<1>2. /\ UNCHANGED <<native, queue, registry, state, terminals, calls, streams, owner, worker, lost,
                     pending>>
      /\ callback.step = "wake" /\ callback' = Idle
  BY DEF Wake
<1>3. wake \in {"empty", "token"}
  <2>1. Outstanding # {}
    BY <1>1, <1>2 DEF ThreadsOK, Outstanding
  <2> QED
    BY <1>1, <2>1 DEF ThreadsOK, RustTypeOK
<1>4. wake' = "token" /\ violations' = violations
  BY <1>3 DEF Wake
<1>5. QueueOK' /\ CountOK' /\ Outstanding' = Outstanding /\ \A s : Queued(s)' <=> Queued(s)
  BY <1>1, <1>2, QueueSame, OwedSame
<1>6. ThreadsOK'
  BY <1>1, <1>2, <1>4, <1>5 DEF ThreadsOK, Ending, Idle, At
<1>7. ASSUME NEW s \in Requests PROVE SameRequest(s)
  BY <1>2, <1>5, PendingSame
     DEF SameRequest, Known, Speaks, Overflowing, Ending, WorkerAsks, OwnerAsks, Idle, At
<1> QED
  BY <1>1, <1>2, <1>4, <1>5, <1>6, <1>7, QuietTypes, PendingSame, Closed, BoundsAssumption

\* A request that is over is nowhere any more.
LEMMA KeptByForget ==
    ASSUME RoutingInv, Forget
    PROVE  RoutingInv'
<1> USE DEF nativeVars, routing, cancelling, history
<1>1. RustTypeOK /\ CountOK /\ ThreadsOK /\ PendingOK /\ QueueOK /\ violations \subseteq {"telemetry"}
  BY DEF RoutingInv
<1>2. PICK r \in Requests : r = callback.event.request
  BY <1>1 DEF Forget, ThreadsOK
<1>3. /\ UNCHANGED <<queue, registry, state, terminals, calls, streams, owner, worker, lost, wake,
                     violations>>
      /\ callback' = Idle /\ Withdraw(r) /\ native' = [native EXCEPT ![r] = "over"]
      /\ Ending(r)
  BY <1>2 DEF Forget, Ending
<1>4. /\ native[r] = "ended" /\ ~Queued(r) /\ native'[r] = "over"
      /\ \A s \in Requests : s # r => native'[s] = native[s]
  BY <1>1, <1>3 DEF ThreadsOK, RustTypeOK
<1>5. RustTypeOK'
  BY <1>1, QuietTypes
<1>6. \A s : Queued(s)' <=> Queued(s)
  BY <1>3 DEF Queued
<1>7. QueueOK'
  BY <1>1, <1>3, <1>4, BoundsAssumption DEF QueueOK, Queued, RustTypeOK
<1>8. /\ PendingOK' /\ ~InPending(r)' /\ \A s : InPending(s)' => InPending(s)
  <2>1. CASE \A i \in DOMAIN pending : pending[i] # r
    BY <1>1, <1>3, <2>1, PendingSame DEF Withdraw, InPending
  <2>2. CASE ~\A i \in DOMAIN pending : pending[i] # r
    <3>1. PICK n \in DOMAIN pending : pending[n] = r /\ pending' = RemoveAt(pending, n)
      BY <1>3, <2>2 DEF Withdraw
    <3>2. pending \in Seq(Requests) /\ n \in 1..Len(pending)
      <4>1. pending \in Seq(Requests)
        BY <1>1 DEF RustTypeOK
      <4>2. DOMAIN pending = 1..Len(pending)
        BY <4>1
      <4> QED
        BY <3>1, <4>1, <4>2
    <3>3. /\ n \in 1..Len(pending) /\ DOMAIN pending = 1..Len(pending) /\ Len(pending) \in Nat
          /\ DOMAIN pending' = 1..(Len(pending) - 1)
          /\ \A i \in 1..(Len(pending) - 1) :
                pending'[i] = IF i < n THEN pending[i] ELSE pending[i + 1]
      BY <3>2, <3>1, RemoveAtIs
    <3> DEFINE from(i) == IF i < n THEN i ELSE i + 1
    <3>4. ASSUME NEW i \in DOMAIN pending'
          PROVE  /\ from(i) \in DOMAIN pending /\ from(i) # n /\ pending'[i] = pending[from(i)]
                 /\ i \in Nat
      BY <3>3
    <3>5. ASSUME NEW i \in DOMAIN pending', NEW j \in DOMAIN pending', from(i) = from(j)
          PROVE  i = j
      BY <3>3, <3>5
    <3> HIDE DEF from
    <3>6. ~InPending(r)'
      BY <1>1, <3>1, <3>4 DEF InPending, PendingOK
    <3>7. \A s : InPending(s)' => InPending(s)
      BY <3>4 DEF InPending
    <3>8. PendingOK'
      BY <1>1, <3>4, <3>5 DEF PendingOK
    <3> QED
      BY <3>6, <3>7, <3>8
  <2> QED
    BY <2>1, <2>2
<1>9. Outstanding' \subseteq Outstanding /\ Registering' = Registering
  BY <1>3, <1>4 DEF Outstanding, Registering
<1>10. CountOK'
  BY <1>1, <1>9, FewerOwed DEF Owed
<1>11. ThreadsOK'
  <2>1. owner'.at = "registering" => owner'.handle \in Requests /\ native'[owner'.handle] # "new"
    BY <1>1, <1>3, <1>4 DEF ThreadsOK
  <2>2. owner'.at \in {"joining", "closed"} => Outstanding' = {}
    BY <1>1, <1>3, <1>9 DEF ThreadsOK
  <2> QED
    BY <1>1, <1>3, <2>1, <2>2 DEF ThreadsOK, Ending, Idle, At
<1>12. ASSUME NEW s \in Requests, s # r PROVE SameRequest(s)
  BY <1>3, <1>4, <1>6, <1>8, <1>12
     DEF SameRequest, Known, Speaks, Overflowing, Ending, WorkerAsks, OwnerAsks, Idle, At
<1>13. EntryOK(r) /\ CancelOK(r) /\ EndOK(r)
  BY DEF RoutingInv
<1>14. /\ Known(r)' <=> Known(r)
       /\ ~Speaks(r) /\ ~Speaks(r)' /\ ~Overflowing(r) /\ ~Overflowing(r)' /\ ~Ending(r)'
       /\ WorkerAsks(r)' <=> WorkerAsks(r)
       /\ OwnerAsks(r)' <=> OwnerAsks(r)
  BY <1>3, <1>4, <1>6 DEF Known, Speaks, Overflowing, Ending, WorkerAsks, OwnerAsks, Idle, At
<1>15. EntryOK(r)'
  BY <1>3, <1>4, <1>13, <1>14 DEF EntryOK
<1>16. CancelOK(r)'
  BY <1>3, <1>8, <1>13, <1>14 DEF CancelOK
<1>17. EndOK(r)'
  BY <1>3, <1>4, <1>13, <1>14 DEF EndOK
<1> QED
  BY <1>1, <1>3, <1>5, <1>7, <1>8, <1>10, <1>11, <1>12, <1>15, <1>16, <1>17, Closed

LEMMA KeptByTakeRegular ==
    ASSUME RoutingInv, TakeRegular
    PROVE  RoutingInv'
<1> USE DEF nativeVars, routing, cancelling, history
<1>1. RustTypeOK /\ CountOK /\ ThreadsOK /\ PendingOK /\ QueueOK /\ violations \subseteq {"telemetry"}
  BY DEF RoutingInv
<1>0. PICK r : r = Head(queue).request
  OBVIOUS
<1>2. /\ UNCHANGED <<native, registry, state, terminals, calls, streams, owner, worker, wake, pending>>
      /\ queue # <<>> /\ queue' = Tail(queue) /\ callback = Idle
      /\ callback' \in {Idle, At("overflow", Head(queue))}
      /\ r = 0 => callback' = Idle /\ lost' = lost
      /\ lost' = lost \/ (r # 0 /\ lost' = lost \union {r}
                          /\ (registry[r].failed \/ callback' = At("overflow", Head(queue))))
      /\ violations' \subseteq violations \union {"telemetry"}
  BY <1>0 DEF TakeRegular
<1>3. /\ QueueOK' /\ r \in Requests \union {0}
      /\ \A s : Queued(s)' => Queued(s)
      /\ Queued(r)
      /\ r # 0 => native[r] \in {"running", "ended"}
  BY <1>0, <1>2, Taken DEF Events
<1>4. RustTypeOK' /\ CountOK' /\ Outstanding' = Outstanding
  BY <1>1, <1>2, QuietTypes, OwedSame
<1>5. At("overflow", Head(queue)).step = "overflow" /\ At("overflow", Head(queue)).event.request = r
  BY <1>0 DEF At
<1>6. ThreadsOK'
  <2>1. callback'.step # "idle" => /\ callback'.event.request \in Requests
                                  /\ native'[callback'.event.request] \in {"running", "ended"}
    BY <1>2, <1>3, <1>5 DEF Idle, At
  <2>2. \A s : ~Ending(s)'
    BY <1>2, <1>5 DEF Ending, Idle, At
  <2> QED
    BY <1>1, <1>2, <1>4, <2>1, <2>2 DEF ThreadsOK
<1>7. \A s : /\ ~Overflowing(s) /\ ~Ending(s) /\ ~Ending(s)'
             /\ Overflowing(s)' => s = r
  BY <1>2, <1>5 DEF Overflowing, Ending, Idle, At
<1>8. ASSUME NEW s \in Requests, s # r PROVE SameRequest(s)
  BY <1>2, <1>3, <1>7, <1>8, PendingSame
     DEF SameRequest, Known, Speaks, WorkerAsks, OwnerAsks
<1>9. ASSUME r \in Requests PROVE EntryOK(r)' /\ CancelOK(r)' /\ EndOK(r)'
  <2>1. EntryOK(r) /\ CancelOK(r) /\ EndOK(r)
    BY <1>9 DEF RoutingInv
  <2>2. /\ Known(r)' <=> Known(r)
        /\ WorkerAsks(r)' <=> WorkerAsks(r)
        /\ OwnerAsks(r)' <=> OwnerAsks(r)
        /\ InPending(r)' <=> InPending(r)
    BY <1>2, PendingSame DEF Known, WorkerAsks, OwnerAsks
  <2>3. Speaks(r)
    BY <1>3 DEF Speaks
  <2>4. EntryOK(r)'
    BY <1>2, <1>7, <2>1, <2>2, <2>3 DEF EntryOK
  <2>5. CancelOK(r)'
    BY <1>2, <2>1, <2>2 DEF CancelOK
  <2>6. r \in lost' => Overflowing(r)' \/ registry[r].failed \/ r \in lost
    BY <1>2, <1>5 DEF Overflowing
  <2>7. registry[r].route # "native" /\ terminals[r] # <<"native">>
    BY <2>1, <2>3 DEF EntryOK, EndOK
  <2>8. EndOK(r)'
    BY <1>2, <1>7, <2>1, <2>2, <2>6, <2>7 DEF EndOK
  <2> QED
    BY <2>4, <2>5, <2>8
<1> QED
  BY <1>1, <1>2, <1>3, <1>4, <1>6, <1>8, <1>9, PendingSame, Closed

-----------------------------------------------------------------------------
(* The steps that change an entry *)

\* A request without an entry gets one that says nothing yet.
LEMMA EntryIs ==
    ASSUME RustTypeOK, NEW r \in Requests, EntryOK(r)
    PROVE  /\ Entry(r) \in EntryRecord /\ Absent \in EntryRecord
           /\ Entry(r).route = IF registry[r] = Absent THEN "unregistered" ELSE registry[r].route
           /\ Entry(r).route \in Routes \ {"absent"}
           /\ Entry(r).state = registry[r].state /\ Entry(r).done = registry[r].done
           /\ Entry(r).failed = registry[r].failed /\ Entry(r).cancel = registry[r].cancel
<1>1. registry[r] \in EntryRecord /\ Absent \in EntryRecord
  BY DEF RustTypeOK, EntryRecord, Routes, Absent
<1>2. /\ Fresh \in EntryRecord /\ Fresh.route = "unregistered" /\ Fresh.state = Absent.state
      /\ Fresh.done = Absent.done /\ Fresh.failed = Absent.failed /\ Fresh.cancel = Absent.cancel
  BY <1>1, EntryRouted DEF Fresh, Routes
<1>3. registry[r].route = "absent" => registry[r] = Absent
  BY DEF EntryOK
<1> QED
  BY <1>1, <1>2, <1>3 DEF Entry, EntryRecord, Routes

LEMMA RouteIs ==
    ASSUME NEW e \in EntryRecord, NEW kind \in {"native", "overflow"}, e.route # "absent"
    PROVE  /\ RouteAfter(e, kind) \in Routes
           /\ e.route \in {"sender", "delivered"} => RouteAfter(e, kind) = "delivered"
           /\ e.route = "unregistered" => RouteAfter(e, kind) = kind
           /\ e.route \in {"native", "overflow"} => RouteAfter(e, kind) = e.route
           /\ SentNow(e, kind) \in Seq({"native", "overflow", "refused"})
           /\ e.route = "sender" => SentNow(e, kind) = <<kind>>
           /\ e.route # "sender" => SentNow(e, kind) = <<>>
<1>1. e.route \in Routes
  BY DEF EntryRecord
<1>2. /\ RouteAfter(e, kind) \in Routes
      /\ e.route \in {"sender", "delivered"} => RouteAfter(e, kind) = "delivered"
      /\ e.route = "unregistered" => RouteAfter(e, kind) = kind
      /\ e.route \in {"native", "overflow"} => RouteAfter(e, kind) = e.route
  BY <1>1 DEF RouteAfter, Routes
<1>3. /\ SentNow(e, kind) = IF e.route = "sender" THEN <<kind>> ELSE <<>>
      /\ <<kind>> \in Seq({"native", "overflow", "refused"})
      /\ <<>> \in Seq({"native", "overflow", "refused"})
  BY DEF SentNow
<1>4. /\ e.route = "sender" => SentNow(e, kind) = <<kind>>
      /\ e.route # "sender" => SentNow(e, kind) = <<>>
  BY <1>3
<1>5. SentNow(e, kind) \in Seq({"native", "overflow", "refused"})
  BY <1>3, <1>4
<1> QED
  BY <1>2, <1>4, <1>5

\* What the terminal event of a request does to its entry and its stream.
LEMMA TakeTerminalIs ==
    ASSUME OwedFit, RoutingInv, TakeTerminal, NEW r, r = Head(queue).request
    PROVE  /\ r \in Requests /\ native[r] = "ended" /\ QueueOK' /\ Queued(r) /\ ~Queued(r)'
           /\ \A s : Queued(s)' => Queued(s)
           /\ RustTypeOK' /\ violations' = violations
           /\ \A s \in Requests : s # r => /\ registry'[s] = registry[s] /\ state'[s] = state[s]
                                          /\ terminals'[s] = terminals[s]
           /\ registry[r].state => registry'[r] = Absent /\ state'[r].done
           /\ ~registry[r].state =>
                 /\ registry'[r].done /\ ~registry'[r].state
                 /\ registry'[r].route = IF Entry(r).failed THEN Entry(r).route
                                         ELSE RouteAfter(Entry(r), "native")
                 /\ state'[r] = state[r]
           /\ ~registry[r].state => registry'[r].failed = registry[r].failed
           /\ ~registry[r].state => registry'[r].cancel = registry[r].cancel
           /\ state'[r].cancel = state[r].cancel
           /\ terminals'[r] = IF registry[r].failed \/ Entry(r).route # "sender" THEN terminals[r]
                              ELSE terminals[r] \o <<"native">>
<1> USE DEF nativeVars, routing, cancelling, history
<1>1. queue # <<>> /\ queue' = Tail(queue) /\ native' = native /\ Head(queue).kind = "terminal"
  BY DEF TakeTerminal
<1>2. /\ r \in Requests /\ native[r] = "ended" /\ QueueOK' /\ Queued(r) /\ ~Queued(r)'
      /\ queue' \in Seq(Events) /\ \A s : Queued(s)' => Queued(s)
  <2>1. /\ QueueOK' /\ queue' \in Seq(Events) /\ \A s : Queued(s)' => Queued(s)
        /\ r \in Requests /\ native[r] = "ended" /\ ~Queued(r)'
    BY <1>1, Taken
  <2>2. Queued(Head(queue).request)
    BY <1>1, Taken
  <2> QED
    BY <2>1, <2>2
<1>3. ~RegistryFull(r)
  BY <1>2, RegistryHasRoom DEF Owed, Outstanding
<1>4. RustTypeOK /\ EntryOK(r)
  BY <1>2 DEF RoutingInv
<1> DEFINE e == Entry(r)
           routed == [e EXCEPT !.route = RouteAfter(e, "native")]
           now == IF e.failed THEN e ELSE routed
           done == [now EXCEPT !.done = TRUE]
           next == IF e.state THEN Absent ELSE done
<1>5. /\ e \in EntryRecord /\ Absent \in EntryRecord /\ e.route \in Routes \ {"absent"}
      /\ e.state = registry[r].state /\ e.done = registry[r].done
      /\ e.failed = registry[r].failed /\ e.cancel = registry[r].cancel
  BY <1>2, <1>4, EntryIs
<1>6. /\ registry' = [registry EXCEPT ![r] = next]
      /\ state' = IF e.state THEN [state EXCEPT ![r].done = TRUE] ELSE state
      /\ terminals' = IF e.failed THEN terminals
                      ELSE [terminals EXCEPT ![r] = terminals[r] \o SentNow(e, "native")]
      /\ violations' = violations
  BY <1>3 DEF TakeTerminal, NativeTerminal
<1> HIDE DEF e
<1>7. /\ RouteAfter(e, "native") \in Routes /\ SentNow(e, "native") \in Seq({"native", "overflow", "refused"})
      /\ e.route = "sender" => SentNow(e, "native") = <<"native">>
      /\ e.route # "sender" => SentNow(e, "native") = <<>>
  BY <1>5, RouteIs
<1>8. /\ routed \in EntryRecord /\ routed.route = RouteAfter(e, "native")
      /\ routed.state = e.state /\ routed.failed = e.failed /\ routed.cancel = e.cancel
  BY <1>5, <1>7, EntryRouted
<1> HIDE DEF routed
<1>9. /\ now \in EntryRecord /\ now.route = IF e.failed THEN e.route ELSE RouteAfter(e, "native")
      /\ now.state = e.state /\ now.failed = e.failed /\ now.cancel = e.cancel
  BY <1>5, <1>8
<1> HIDE DEF now
<1>10. /\ done \in EntryRecord /\ done.done /\ done.route = now.route /\ done.state = now.state
       /\ done.failed = now.failed /\ done.cancel = now.cancel
  BY <1>9, EntryDone
<1> HIDE DEF done
<1>11. /\ registry \in [Requests -> EntryRecord] /\ state \in [Requests -> StateRecord]
       /\ terminals \in [Requests -> Seq({"native", "overflow", "refused"})]
  BY <1>4 DEF RustTypeOK, EntryRecord, Routes, StateRecord
<1>12. /\ registry' \in [Requests -> EntryRecord] /\ registry'[r] = next
       /\ \A s \in Requests : s # r => registry'[s] = registry[s]
  BY <1>2, <1>5, <1>6, <1>10, <1>11
<1>13. /\ state' \in [Requests -> StateRecord] /\ \A s \in Requests : s # r => state'[s] = state[s]
       /\ state'[r].cancel = state[r].cancel
       /\ IF e.state THEN state'[r].done ELSE state'[r] = state[r]
  <2>1. PICK g : g = [state EXCEPT ![r].done = TRUE]
    OBVIOUS
  <2>2. r \in Requests /\ state \in [Requests -> StateRecord]
    BY <1>2, <1>11
  <2>3. g \in [Requests -> StateRecord]
    BY <2>1, <2>2, StateDone
  <2>4. g[r].done /\ g[r].cancel = state[r].cancel
    BY <2>1, <2>2, StateDone
  <2>5. \A s \in Requests : s # r => g[s] = state[s]
    BY <2>1, <2>2, StateDone
  <2> QED
    BY <1>6, <1>11, <2>1, <2>3, <2>4, <2>5
<1>14. /\ terminals' \in [Requests -> Seq({"native", "overflow", "refused"})]
       /\ \A s \in Requests : s # r => terminals'[s] = terminals[s]
       /\ terminals'[r] = IF e.failed \/ e.route # "sender" THEN terminals[r]
                          ELSE terminals[r] \o <<"native">>
  <2>1. terminals[r] \in Seq({"native", "overflow", "refused"})
    BY <1>2, <1>11
  <2>2. terminals[r] \o SentNow(e, "native") \in Seq({"native", "overflow", "refused"})
    BY <1>7, <2>1, ConcatProperties
  <2>3. e.route # "sender" => terminals[r] \o SentNow(e, "native") = terminals[r]
    BY <1>7, <2>1, ConcatEmptySeq
  <2>4. e.route = "sender" => terminals[r] \o SentNow(e, "native") = terminals[r] \o <<"native">>
    BY <1>7
  <2> QED
    BY <1>2, <1>6, <1>11, <2>2, <2>3, <2>4
<1>15. RustTypeOK'
  <2>0. Head(queue) \in Events
    BY <1>1, Taken
  <2>1. callback'.step = "forget" /\ CallbackType'
    BY <2>0 DEF TakeTerminal, CallbackType, At, Events
  <2>2. QueueType' /\ RegistryType' /\ StateType' /\ TerminalsType'
    BY <1>2, <1>12, <1>13, <1>14 DEF QueueType, RegistryType, StateType, TerminalsType, Events,
       EntryRecord, StateRecord, Routes
  <2>3. /\ UNCHANGED <<native, said, withdrawn, pending, wake, worker, owner, streams, regular, lost,
                       calls>>
        /\ violations' = violations
    BY <1>6 DEF TakeTerminal
  <2> QED
    BY <1>4, <2>1, <2>2, <2>3, TypeParts, TypesUntouched
<1> QED
  BY <1>2, <1>5, <1>6, <1>9, <1>10, <1>12, <1>13, <1>14, <1>15 DEF e

\* The end of a request finds its entry, or leaves one for the registration.
LEMMA KeptByTakeTerminal ==
    ASSUME OwedFit, RoutingInv, TakeTerminal
    PROVE  RoutingInv'
<1> USE DEF nativeVars, cancelling
<1>1. RustTypeOK /\ CountOK /\ ThreadsOK /\ PendingOK /\ QueueOK /\ violations \subseteq {"telemetry"}
  BY DEF RoutingInv
<1>2. PICK r : r = Head(queue).request
  OBVIOUS
<1>3. /\ r \in Requests /\ native[r] = "ended" /\ QueueOK' /\ Queued(r) /\ ~Queued(r)'
      /\ \A s : Queued(s)' => Queued(s)
      /\ RustTypeOK' /\ violations' = violations
      /\ \A s \in Requests : s # r => /\ registry'[s] = registry[s] /\ state'[s] = state[s]
                                     /\ terminals'[s] = terminals[s]
  BY <1>2, TakeTerminalIs
<1>4. /\ registry[r].state => registry'[r] = Absent /\ state'[r].done
      /\ ~registry[r].state =>
            /\ registry'[r].done /\ ~registry'[r].state
            /\ registry'[r].route = IF Entry(r).failed THEN Entry(r).route
                                    ELSE RouteAfter(Entry(r), "native")
            /\ state'[r] = state[r]
            /\ registry'[r].failed = registry[r].failed
            /\ registry'[r].cancel = registry[r].cancel
      /\ state'[r].cancel = state[r].cancel
      /\ terminals'[r] = IF registry[r].failed \/ Entry(r).route # "sender" THEN terminals[r]
                         ELSE terminals[r] \o <<"native">>
  BY <1>2, TakeTerminalIs
<1>5. /\ UNCHANGED <<native, calls, streams, owner, worker, wake, pending, lost>>
      /\ callback = Idle /\ callback'.step = "forget" /\ callback'.event.request = r
  BY <1>2 DEF TakeTerminal, At
<1>6. CountOK' /\ Outstanding' = Outstanding
  BY <1>1, <1>5, OwedSame
<1>7. ThreadsOK'
  BY <1>1, <1>3, <1>5, <1>6 DEF ThreadsOK, Ending
<1>8. \A s : ~Overflowing(s) /\ ~Overflowing(s)' /\ ~Ending(s) /\ (Ending(s)' <=> s = r)
  BY <1>5 DEF Overflowing, Ending, Idle, At
<1>9. ASSUME NEW s \in Requests, s # r PROVE SameRequest(s)
  BY <1>3, <1>5, <1>8, <1>9, PendingSame
     DEF SameRequest, Known, Speaks, WorkerAsks, OwnerAsks
<1>10. EntryOK(r) /\ CancelOK(r) /\ EndOK(r)
  BY <1>3 DEF RoutingInv
<1>11. /\ Known(r)' <=> Known(r)
       /\ WorkerAsks(r)' <=> WorkerAsks(r)
       /\ OwnerAsks(r)' <=> OwnerAsks(r)
       /\ InPending(r)' <=> InPending(r)
       /\ Speaks(r) /\ ~Speaks(r)'
  BY <1>3, <1>5, <1>8, PendingSame DEF Known, WorkerAsks, OwnerAsks, Speaks
<1>12. /\ Entry(r) \in EntryRecord /\ Entry(r).route \in Routes \ {"absent"}
       /\ Entry(r).route = IF registry[r] = Absent THEN "unregistered" ELSE registry[r].route
       /\ Entry(r).failed = registry[r].failed
  BY <1>1, <1>3, <1>10, EntryIs
<1>13. CASE Known(r)
  <2>1. registry[r].state /\ registry[r] # Absent /\ registry[r].route \in {"sender", "delivered"}
    BY <1>10, <1>11, <1>13 DEF EntryOK, EndOK
  <2>2. registry'[r] = Absent /\ state'[r].done
    BY <1>4, <2>1
  <2>3. EntryOK(r)'
    BY <1>3, <1>5, <1>10, <1>11, <1>13, <2>2 DEF EntryOK, Absent
  <2>4. CancelOK(r)'
    BY <1>4, <1>5, <1>10, <1>11, <1>13 DEF CancelOK
  <2>5. \/ terminals'[r] = terminals[r] /\ terminals[r] # <<"native">>
        \/ terminals'[r] = <<"native">> /\ r \notin lost
    <3>1. terminals[r] # <<"native">>
      BY <1>10, <1>11 DEF EndOK
    <3>2. CASE registry[r].failed \/ Entry(r).route # "sender"
      BY <1>4, <3>1, <3>2
    <3>3. CASE ~registry[r].failed /\ Entry(r).route = "sender"
      <4>1. registry[r].route = "sender"
        BY <1>12, <2>1, <3>3
      <4>2. terminals[r] = <<>> /\ r \notin lost
        BY <1>8, <1>10, <1>13, <2>1, <3>3, <4>1 DEF EndOK
      <4>3. terminals'[r] = <<>> \o <<"native">>
        BY <1>4, <3>3, <4>2
      <4> QED
        BY <4>2, <4>3
    <3> QED
      BY <3>2, <3>3
  <2>6. EndOK(r)'
    <3>1. Known(r)' /\ registry'[r].route = "absent" /\ registry'[r] = Absent
      BY <1>11, <1>13, <2>2 DEF Absent
    <3>2. terminals[r] \in {<<>>, <<"native">>, <<"overflow">>}
      BY <1>10 DEF EndOK
    <3>3. /\ terminals'[r] \in {<<>>, <<"native">>, <<"overflow">>}
          /\ terminals'[r] = <<"native">> => r \notin lost'
      BY <1>5, <2>5, <3>2
    <3>4. native'[r] = "ended" /\ ~Speaks(r)'
      BY <1>3, <1>5, <1>11
    <3> QED
      BY <3>1, <3>3, <3>4 DEF EndOK
  <2> QED
    BY <1>1, <1>3, <1>5, <1>6, <1>7, <1>9, <2>3, <2>4, <2>6, PendingSame, Closed
<1>14. CASE ~Known(r)
  <2>1. ~registry[r].state /\ registry[r].route \in {"absent", "unregistered", "native", "overflow"}
    BY <1>10, <1>14 DEF EntryOK, EndOK
  <2>2. registry[r].route # "native"
    BY <1>10, <1>11, <1>14 DEF EntryOK, EndOK
  <2>3. IF registry[r].failed THEN registry'[r].route = "overflow" ELSE registry'[r].route = "native"
    <3>1. CASE registry[r].failed
      <4>1. registry[r].route = "overflow"
        BY <1>10, <1>14, <3>1 DEF EndOK
      <4>2. Entry(r).route = "overflow"
        BY <1>12, <4>1 DEF Absent
      <4> QED
        BY <1>4, <1>12, <2>1, <3>1, <4>2
    <3>2. CASE ~registry[r].failed
      <4>1. registry[r].route \in {"absent", "unregistered"}
        BY <1>10, <1>14, <2>1, <2>2, <3>2 DEF EndOK
      <4>2. Entry(r).route = "unregistered"
        BY <1>10, <1>12, <4>1 DEF EntryOK
      <4> QED
        BY <1>4, <1>12, <2>1, <3>2, <4>2, RouteIs
    <3> QED
      BY <3>1, <3>2
  <2>4. terminals'[r] = terminals[r]
    BY <1>4, <1>12, <2>1
  <2>5. /\ registry'[r].done /\ ~registry'[r].state /\ state'[r] = state[r]
        /\ registry'[r].failed = registry[r].failed /\ registry'[r].cancel = registry[r].cancel
    BY <1>4, <2>1
  <2>6. EntryOK(r)'
    BY <1>3, <1>5, <1>10, <1>11, <1>14, <2>3, <2>5 DEF EntryOK
  <2>7. CancelOK(r)'
    BY <1>5, <1>10, <1>11, <1>14, <2>5 DEF CancelOK
  <2>8. EndOK(r)'
    BY <1>3, <1>5, <1>8, <1>10, <1>11, <1>14, <2>3, <2>4, <2>5 DEF EndOK
  <2> QED
    BY <1>1, <1>3, <1>5, <1>6, <1>7, <1>9, <2>6, <2>7, <2>8, PendingSame, Closed
<1> QED
  BY <1>13, <1>14

\* What an event that found the channel full does to its entry and its stream.
LEMMA OverflowIs ==
    ASSUME RustTypeOK, NEW r \in Requests, EntryOK(r), Overflow, callback.event.request = r,
           ~RegistryFull(r), ~Entry(r).failed
    PROVE  /\ RustTypeOK' /\ violations' = violations
           /\ \A s \in Requests : s # r => /\ registry'[s] = registry[s] /\ state'[s] = state[s]
                                          /\ terminals'[s] = terminals[s]
           /\ registry'[r].failed /\ registry'[r].cancel
           /\ registry'[r].state = registry[r].state /\ registry'[r].done = registry[r].done
           /\ registry'[r].route = RouteAfter(Entry(r), "overflow")
           /\ state'[r].done = state[r].done
           /\ ~registry[r].state => state'[r] = state[r]
           /\ registry[r].state => (state'[r].cancel <=> state[r].cancel \/ Asks(Entry(r), r))
           /\ Entry(r).route # "sender" => terminals'[r] = terminals[r]
           /\ Entry(r).route = "sender" => terminals'[r] = terminals[r] \o <<"overflow">>
           /\ pending' = IF Claims(Entry(r), r) THEN Append(pending, r) ELSE pending
           /\ callback' = IF Claims(Entry(r), r) THEN At("wake", callback.event) ELSE Idle
<1> DEFINE e == Entry(r)
           asks == Asks(e, r)
           claims == Claims(e, r)
           next == [e EXCEPT !.failed = TRUE, !.cancel = TRUE, !.route = RouteAfter(e, "overflow")]
           claimed == [state EXCEPT ![r].failed = TRUE, ![r].cancel = state[r].cancel \/ asks]
<1>1. /\ e \in EntryRecord /\ e.route \in Routes \ {"absent"}
      /\ e.state = registry[r].state /\ e.done = registry[r].done
  BY EntryIs
<1>2. /\ registry' = [registry EXCEPT ![r] = next]
      /\ state' = IF e.state THEN claimed ELSE state
      /\ terminals' = [terminals EXCEPT ![r] = terminals[r] \o SentNow(e, "overflow")]
      /\ pending' = IF claims THEN Append(pending, r) ELSE pending
      /\ callback' = IF claims THEN At("wake", callback.event) ELSE Idle
      /\ violations' = violations
  <2>1. callback.event.request = r /\ ~(RegistryFull(r) \/ e.failed)
    OBVIOUS
  <2>2. registry' = [registry EXCEPT ![r] = next]
    BY <2>1 DEF Overflow
  <2>3. state' = IF e.state THEN claimed ELSE state
    BY <2>1 DEF Overflow
  <2>4. terminals' = [terminals EXCEPT ![r] = terminals[r] \o SentNow(e, "overflow")]
    BY <2>1 DEF Overflow
  <2>5. /\ pending' = IF claims THEN Append(pending, r) ELSE pending
        /\ callback' = IF claims THEN At("wake", callback.event) ELSE Idle
        /\ violations' = violations
    BY <2>1 DEF Overflow
  <2> QED
    BY <2>2, <2>3, <2>4, <2>5
<1>3. asks \in BOOLEAN /\ claims \in BOOLEAN
  BY DEF Asks, Claims
<1> HIDE DEF e, asks, claims
<1>4. /\ RouteAfter(e, "overflow") \in Routes
      /\ SentNow(e, "overflow") \in Seq({"native", "overflow", "refused"})
      /\ e.route = "sender" => SentNow(e, "overflow") = <<"overflow">>
      /\ e.route # "sender" => SentNow(e, "overflow") = <<>>
  BY <1>1, RouteIs
<1>5. /\ next \in EntryRecord /\ next.route = RouteAfter(e, "overflow") /\ next.state = e.state
      /\ next.done = e.done /\ next.failed /\ next.cancel
  <2>1. PICK k \in Routes : k = RouteAfter(e, "overflow")
    BY <1>4
  <2>2. PICK entry \in EntryRecord : entry = e
    BY <1>1
  <2>3. PICK x : x = [entry EXCEPT !.failed = TRUE]
    OBVIOUS
  <2>4. /\ x \in EntryRecord /\ x.state = e.state /\ x.done = e.done /\ x.failed
    BY <2>2, <2>3, EntryFailed
  <2>5. PICK y : y = [x EXCEPT !.cancel = TRUE]
    OBVIOUS
  <2>6. /\ y \in EntryRecord /\ y.state = e.state /\ y.done = e.done /\ y.failed /\ y.cancel
    BY <2>4, <2>5, EntryClaimed
  <2>7. PICK z : z = [y EXCEPT !.route = k]
    OBVIOUS
  <2>8. /\ z \in EntryRecord /\ z.state = e.state /\ z.done = e.done /\ z.failed /\ z.cancel
        /\ z.route = k
    BY <2>6, <2>7, EntryRouted
  <2>9. next = z
    BY <2>1, <2>2, <2>3, <2>5, <2>7
  <2> QED
    BY <2>1, <2>8, <2>9
<1> HIDE DEF next
<1>6. /\ registry \in [Requests -> EntryRecord] /\ state \in [Requests -> StateRecord]
      /\ terminals \in [Requests -> Seq({"native", "overflow", "refused"})]
  BY DEF RustTypeOK, EntryRecord, Routes, StateRecord
<1>7. /\ registry' \in [Requests -> EntryRecord] /\ registry'[r] = next
      /\ \A s \in Requests : s # r => registry'[s] = registry[s]
  BY <1>2, <1>5, <1>6
<1>8. /\ state' \in [Requests -> StateRecord] /\ \A s \in Requests : s # r => state'[s] = state[s]
      /\ state'[r].done = state[r].done
      /\ ~e.state => state'[r] = state[r]
      /\ e.state => (state'[r].cancel <=> state[r].cancel \/ asks)
  <2>1. claimed = Overflowed(state, r, asks)
    BY DEF Overflowed
  <2> HIDE DEF claimed
  <2>2. claimed \in [Requests -> StateRecord]
    BY <1>3, <1>6, <2>1, StateOverflowed
  <2>3. claimed[r].done = state[r].done /\ (claimed[r].cancel <=> state[r].cancel \/ asks)
    BY <1>3, <1>6, <2>1, StateOverflowed
  <2>4. \A s \in Requests : s # r => claimed[s] = state[s]
    BY <1>3, <1>6, <2>1, StateOverflowed
  <2> QED
    BY <1>2, <1>6, <2>2, <2>3, <2>4
<1>9. /\ terminals' \in [Requests -> Seq({"native", "overflow", "refused"})]
      /\ \A s \in Requests : s # r => terminals'[s] = terminals[s]
      /\ e.route # "sender" => terminals'[r] = terminals[r]
      /\ e.route = "sender" => terminals'[r] = terminals[r] \o <<"overflow">>
  <2>1. terminals[r] \in Seq({"native", "overflow", "refused"})
    BY <1>6
  <2>2. terminals[r] \o SentNow(e, "overflow") \in Seq({"native", "overflow", "refused"})
    BY <1>4, <2>1, ConcatProperties
  <2>3. e.route # "sender" => terminals[r] \o SentNow(e, "overflow") = terminals[r]
    BY <1>4, <2>1, ConcatEmptySeq
  <2> QED
    BY <1>2, <1>4, <1>6, <2>2, <2>3
<1>10. RustTypeOK'
  <2>1. CallbackType'
    BY <1>2 DEF CallbackType, At, Idle, NoEvent, Event, RustTypeOK
  <2>2. RegistryType' /\ StateType' /\ TerminalsType'
    BY <1>7, <1>8, <1>9 DEF RegistryType, StateType, TerminalsType, EntryRecord, StateRecord, Routes
  <2>3. /\ UNCHANGED <<native, said, withdrawn, queue, wake, worker, owner, streams, regular, lost,
                       calls>>
        /\ violations' = violations
    BY <1>2 DEF Overflow, nativeVars
  <2>4. CancelType'
    <3>1. pending \in Seq(Requests) /\ wake \in {"empty", "token", "last", "closed"}
      BY DEF RustTypeOK
    <3>2. pending' \in Seq(Requests)
      BY <1>2, <3>1, AppendIs
    <3> QED
      BY <2>3, <3>1, <3>2 DEF CancelType
  <2> QED
    BY <2>1, <2>2, <2>3, <2>4, TypeParts, TypesUntouched
<1> QED
  BY <1>1, <1>2, <1>5, <1>7, <1>8, <1>9, <1>10 DEF e, asks, claims

\* The first overflow of a request fails it and asks for its cancel, unless
\* somebody has asked already.
LEMMA KeptByOverflow ==
    ASSUME OwedFit, RoutingInv, Overflow
    PROVE  RoutingInv'
<1> USE DEF nativeVars, cancelling
<1>1. RustTypeOK /\ CountOK /\ ThreadsOK /\ PendingOK /\ QueueOK /\ violations \subseteq {"telemetry"}
  BY DEF RoutingInv
<1>2. PICK r \in Requests : r = callback.event.request /\ native[r] \in {"running", "ended"}
  BY <1>1 DEF Overflow, ThreadsOK
<1>3. /\ UNCHANGED <<native, queue, calls, streams, owner, worker, wake, lost>>
      /\ callback.step = "overflow" /\ Overflowing(r)
      /\ callback' \in {Idle, At("wake", callback.event)}
  BY <1>2 DEF Overflow, Overflowing
<1>4. ~RegistryFull(r)
  BY <1>2, RegistryHasRoom DEF Owed, Outstanding
<1>5. EntryOK(r) /\ CancelOK(r) /\ EndOK(r)
  BY DEF RoutingInv
<1>6. /\ Entry(r) \in EntryRecord /\ Entry(r).route \in Routes \ {"absent"}
      /\ Entry(r).route = IF registry[r] = Absent THEN "unregistered" ELSE registry[r].route
      /\ Entry(r).state = registry[r].state
      /\ Entry(r).failed = registry[r].failed /\ Entry(r).cancel = registry[r].cancel
  BY <1>1, <1>5, EntryIs
<1>7. QueueOK' /\ CountOK' /\ Outstanding' = Outstanding /\ \A s : Queued(s)' <=> Queued(s)
  BY <1>1, <1>3, QueueSame, OwedSame
<1>8. /\ callback'.step \in {"idle", "wake"}
      /\ callback'.step = "wake" => callback'.event.request = r
  BY <1>2, <1>3 DEF Idle, At
<1>9. ThreadsOK'
  BY <1>1, <1>2, <1>3, <1>7, <1>8 DEF ThreadsOK, Ending
<1>10. \A s : ~Ending(s) /\ ~Ending(s)' /\ ~Overflowing(s)' /\ (Overflowing(s) <=> s = r)
  BY <1>2, <1>3, <1>8 DEF Overflowing, Ending
<1>11. Speaks(r)
  BY <1>3 DEF Speaks
<1>12. /\ Known(r)' <=> Known(r)
       /\ WorkerAsks(r)' <=> WorkerAsks(r)
       /\ OwnerAsks(r)' <=> OwnerAsks(r)
  BY <1>3 DEF Known, WorkerAsks, OwnerAsks
<1>13. CASE Entry(r).failed
  <2>1. UNCHANGED <<registry, state, terminals, pending>> /\ violations' = violations /\ callback' = Idle
    BY <1>2, <1>13 DEF Overflow, routing
  <2>2. RustTypeOK'
    <3>1. CallbackType'
      BY <2>1 DEF CallbackType, Idle, At, NoEvent, Event
    <3>2. UNCHANGED <<native, said, withdrawn, queue, wake, worker, owner, streams, regular, lost, calls>>
      BY DEF Overflow
    <3> QED
      BY <1>1, <2>1, <3>1, <3>2, TypeParts, TypesUntouched
  <2>3. ASSUME NEW s \in Requests, s # r PROVE SameRequest(s)
    BY <1>3, <1>7, <1>10, <2>1, <2>3, PendingSame
       DEF SameRequest, Known, Speaks, WorkerAsks, OwnerAsks
  <2>4. EntryOK(r)'
    BY <1>3, <1>5, <1>10, <1>11, <1>12, <2>1 DEF EntryOK
  <2>5. CancelOK(r)'
    BY <1>3, <1>5, <1>12, <2>1, PendingSame DEF CancelOK
  <2>6. EndOK(r)'
    BY <1>3, <1>5, <1>6, <1>11, <1>12, <1>13, <2>1 DEF EndOK
  <2> QED
    BY <1>1, <1>7, <1>9, <2>1, <2>2, <2>3, <2>4, <2>5, <2>6, PendingSame, Closed
<1>14. CASE ~Entry(r).failed
  <2>1. /\ RustTypeOK' /\ violations' = violations
        /\ \A s \in Requests : s # r => /\ registry'[s] = registry[s] /\ state'[s] = state[s]
                                       /\ terminals'[s] = terminals[s]
    BY <1>1, <1>2, <1>4, <1>5, <1>14, OverflowIs
  <2>2. /\ registry'[r].failed /\ registry'[r].cancel
        /\ registry'[r].state = registry[r].state /\ registry'[r].done = registry[r].done
        /\ registry'[r].route = RouteAfter(Entry(r), "overflow")
        /\ state'[r].done = state[r].done
        /\ ~registry[r].state => state'[r] = state[r]
        /\ registry[r].state => (state'[r].cancel <=> state[r].cancel \/ Asks(Entry(r), r))
    BY <1>1, <1>2, <1>4, <1>5, <1>14, OverflowIs
  <2>3. /\ Entry(r).route # "sender" => terminals'[r] = terminals[r]
        /\ Entry(r).route = "sender" => terminals'[r] = terminals[r] \o <<"overflow">>
        /\ pending' = IF Claims(Entry(r), r) THEN Append(pending, r) ELSE pending
    BY <1>1, <1>2, <1>4, <1>5, <1>14, OverflowIs
  <2>4. Claims(Entry(r), r) => /\ ~registry[r].cancel /\ ~InPending(r) /\ Asks(Entry(r), r)
                               /\ (registry[r].state => ~state[r].cancel)
    BY <1>6 DEF Claims, Asks, InPending
  <2>5. /\ PendingOK'
        /\ \A s : InPending(s)' <=> InPending(s) \/ (s = r /\ Claims(Entry(r), r))
    <3>1. CASE Claims(Entry(r), r)
      <4>1. pending \in Seq(Requests)
        BY <1>1 DEF RustTypeOK
      <4>2. /\ DOMAIN pending' = 1..(Len(pending) + 1) /\ DOMAIN pending = 1..Len(pending)
            /\ Len(pending) \in Nat /\ \A i \in 1..Len(pending) : pending'[i] = pending[i]
            /\ pending'[Len(pending) + 1] = r
        BY <2>3, <3>1, <4>1, AppendIs
      <4>3. \A i \in DOMAIN pending : pending[i] # r
        BY <2>4, <3>1 DEF InPending
      <4>4. PendingOK'
        BY <1>1, <4>2, <4>3 DEF PendingOK
      <4>5. \A s : InPending(s)' <=> InPending(s) \/ s = r
        BY <4>2 DEF InPending
      <4> QED
        BY <3>1, <4>4, <4>5
    <3>2. CASE ~Claims(Entry(r), r)
      BY <1>1, <2>3, <3>2, PendingSame
    <3> QED
      BY <3>1, <3>2
  <2>6. ASSUME NEW s \in Requests, s # r PROVE SameRequest(s)
    BY <1>3, <1>7, <1>10, <2>1, <2>5, <2>6
       DEF SameRequest, Known, Speaks, WorkerAsks, OwnerAsks
  <2>7. ~registry[r].done /\ registry[r].route # "native"
    <3>1. ~registry[r].done
      BY <1>5, <1>11 DEF EntryOK
    <3> QED
      BY <1>5, <1>6, <3>1 DEF EndOK, EntryOK, Absent
  <2>8. IF Known(r) THEN registry'[r].route = "delivered" /\ registry[r].state /\ registry[r] # Absent
                    ELSE registry'[r].route = "overflow" /\ ~registry[r].state
    <3>1. CASE Known(r)
      <4>1. registry[r].state /\ registry[r] # Absent /\ registry[r].route \in {"sender", "delivered"}
        BY <1>5, <1>11, <3>1 DEF EntryOK, EndOK
      <4>2. RouteAfter(Entry(r), "overflow") = "delivered"
        BY <1>6, <4>1, RouteIs
      <4> QED
        BY <2>2, <3>1, <4>1, <4>2
    <3>2. CASE ~Known(r)
      <4>1. ~registry[r].state /\ registry[r].route \in {"absent", "unregistered"}
        BY <1>5, <1>6, <1>14, <2>7, <3>2 DEF EntryOK, EndOK
      <4>2. Entry(r).route = "unregistered"
        BY <1>5, <1>6, <4>1 DEF EntryOK
      <4>3. RouteAfter(Entry(r), "overflow") = "overflow"
        BY <1>6, <4>2, RouteIs
      <4> QED
        BY <2>2, <3>2, <4>1, <4>3
    <3> QED
      BY <3>1, <3>2
  <2>9. registry'[r] # Absent
    BY <2>2 DEF Absent
  <2>10. EntryOK(r)'
    BY <1>2, <1>3, <1>5, <1>10, <1>11, <1>12, <2>2, <2>7, <2>8, <2>9 DEF EntryOK
  <2>11. CancelOK(r)'
    <3>1. Claims(Entry(r), r) => ~WorkerAsks(r) /\ ~OwnerAsks(r) /\ calls[r] = 0
      <4> SUFFICES ASSUME Claims(Entry(r), r) PROVE ~WorkerAsks(r) /\ ~OwnerAsks(r) /\ calls[r] = 0
        OBVIOUS
      <4>1. ~WorkerAsks(r) /\ ~OwnerAsks(r) /\ ~(calls[r] > 0)
        BY <1>5, <2>4, <2>8 DEF CancelOK
      <4> QED
        BY <1>1, <4>1 DEF RustTypeOK
    <3>2. Known(r) /\ (state[r].cancel \/ Claims(Entry(r), r)) => state'[r].cancel
      BY <2>2, <2>4, <2>8
    <3> QED
      BY <1>2, <1>3, <1>5, <1>12, <2>2, <2>5, <3>1, <3>2 DEF CancelOK
  <2>12. IF Known(r) THEN terminals'[r] \in {<<>>, <<"overflow">>} ELSE terminals'[r] = <<>>
    <3>1. terminals[r] \in {<<>>, <<"overflow">>}
      BY <1>5, <1>11 DEF EndOK
    <3>2. CASE Entry(r).route = "sender"
      <4>1. registry[r].route = "sender"
        BY <1>6, <3>2
      <4>2. Known(r) /\ terminals[r] = <<>>
        BY <1>5, <4>1 DEF EndOK
      <4>3. terminals'[r] = <<>> \o <<"overflow">>
        BY <2>3, <3>2, <4>2
      <4> QED
        BY <4>2, <4>3
    <3>3. CASE Entry(r).route # "sender"
      BY <1>5, <2>3, <3>1, <3>3 DEF EndOK
    <3> QED
      BY <3>2, <3>3
  <2>13. EndOK(r)'
    <3>1. terminals'[r] # <<"native">>
      BY <2>12
    <3> QED
      BY <1>12, <2>2, <2>7, <2>8, <2>12, <3>1 DEF EndOK
  <2> QED
    BY <1>1, <1>7, <1>9, <2>1, <2>5, <2>6, <2>10, <2>11, <2>13, Closed
<1> QED
  BY <1>13, <1>14

\* What the registration does to the entry and the stream of the request.
LEMMA RegisterIs ==
    ASSUME RustTypeOK, NEW r \in Requests, EntryOK(r), Register, owner.handle = r, ~RegistryFull(r)
    PROVE  /\ RustTypeOK' /\ violations' = violations
           /\ \A s \in Requests : s # r => /\ registry'[s] = registry[s] /\ state'[s] = state[s]
                                          /\ terminals'[s] = terminals[s]
           /\ registry[r].done => registry'[r] = Absent
           /\ ~registry[r].done => /\ registry'[r].state /\ ~registry'[r].done
                                   /\ registry'[r].failed = registry[r].failed
                                   /\ registry'[r].cancel = registry[r].cancel
                                   /\ registry'[r].route = IF Entry(r).route = "unregistered"
                                                           THEN "sender" ELSE "delivered"
           /\ state'[r].done = registry[r].done /\ state'[r].cancel = registry[r].cancel
           /\ Entry(r).route \in {"native", "overflow"} =>
                 terminals'[r] = Append(terminals[r], Entry(r).route)
           /\ Entry(r).route \notin {"native", "overflow"} => terminals'[r] = terminals[r]
<1> DEFINE e == Entry(r)
           k == IF e.route = "unregistered" THEN "sender" ELSE "delivered"
           held == [e EXCEPT !.state = TRUE, !.route = k]
           next == IF e.done THEN Absent ELSE held
           got == [done |-> e.done, failed |-> e.failed, cancel |-> e.cancel]
           heard == IF e.route \in {"native", "overflow"} THEN Append(terminals[r], e.route)
                    ELSE terminals[r]
<1>1. /\ e \in EntryRecord /\ Absent \in EntryRecord /\ e.done = registry[r].done
      /\ e.failed = registry[r].failed /\ e.cancel = registry[r].cancel
  BY EntryIs
<1>2. /\ registry' = [registry EXCEPT ![r] = next]
      /\ state' = [state EXCEPT ![r] = got]
      /\ violations' = violations
  BY DEF Register, Registered
<1>3. terminals' = [terminals EXCEPT ![r] = heard]
  <2>1. terminals \in [Requests -> Seq({"native", "overflow", "refused"})]
    BY DEF RustTypeOK
  <2>2. terminals' = IF e.route \in {"native", "overflow"}
                     THEN [terminals EXCEPT ![r] = Append(terminals[r], e.route)] ELSE terminals
    BY DEF Register, Registered
  <2> HIDE DEF e
  <2> QED
    BY <2>1, <2>2
<1> HIDE DEF e
<1>4. k \in Routes /\ e.done \in BOOLEAN
  BY <1>1 DEF Routes, EntryRecord
<1> HIDE DEF k
<1>5. PICK x : x = held
  OBVIOUS
<1>6. /\ x \in EntryRecord /\ x.route = k /\ x.state /\ x.done = e.done
      /\ x.failed = e.failed /\ x.cancel = e.cancel
  <2>1. PICK y : y = [e EXCEPT !.state = TRUE]
    OBVIOUS
  <2>2. x = [y EXCEPT !.route = k]
    BY <1>5, <2>1
  <2> HIDE DEF held
  <2>3. /\ y \in EntryRecord /\ y.state /\ y.done = e.done
        /\ y.failed = e.failed /\ y.cancel = e.cancel
    BY <1>1, <2>1, EntryHeld
  <2> QED
    BY <1>4, <2>2, <2>3, EntryRouted
<1> HIDE DEF held
<1>7. next \in EntryRecord /\ next = IF e.done THEN Absent ELSE x
  BY <1>1, <1>5, <1>6
<1> HIDE DEF next
<1>8. /\ registry \in [Requests -> EntryRecord] /\ state \in [Requests -> StateRecord]
      /\ terminals \in [Requests -> Seq({"native", "overflow", "refused"})]
  BY DEF RustTypeOK, EntryRecord, Routes, StateRecord
<1>9. /\ registry' \in [Requests -> EntryRecord] /\ registry'[r] = next
      /\ \A s \in Requests : s # r => registry'[s] = registry[s]
  BY <1>2, <1>7, <1>8
<1>10. got \in StateRecord /\ got.done = e.done /\ got.cancel = e.cancel
  BY <1>1 DEF StateRecord, EntryRecord
<1> HIDE DEF got
<1>11. /\ state' \in [Requests -> StateRecord] /\ state'[r] = got
       /\ \A s \in Requests : s # r => state'[s] = state[s]
  BY <1>2, <1>8, <1>10
<1>12. /\ heard \in Seq({"native", "overflow", "refused"})
       /\ e.route \in {"native", "overflow"} => heard = Append(terminals[r], e.route)
       /\ e.route \notin {"native", "overflow"} => heard = terminals[r]
  BY <1>8, AppendIs
<1> HIDE DEF heard
<1>13. /\ terminals' \in [Requests -> Seq({"native", "overflow", "refused"})]
       /\ terminals'[r] = heard /\ \A s \in Requests : s # r => terminals'[s] = terminals[s]
  BY <1>3, <1>8, <1>12
<1>14. RustTypeOK'
  <2>1. RegistryType' /\ StateType' /\ TerminalsType'
    BY <1>9, <1>11, <1>13 DEF RegistryType, StateType, TerminalsType, EntryRecord, StateRecord, Routes
  <2>2. OwnerType'
    BY DEF Register, OwnerType, Doing, RustTypeOK
  <2>3. /\ UNCHANGED <<native, said, withdrawn, queue, callback, pending, wake, worker, regular, lost,
                       calls>>
        /\ violations' = violations
    BY <1>2 DEF Register, nativeVars, cancelling
  <2> QED
    BY <2>1, <2>2, <2>3, TypeParts, TypesUntouched
<1> QED
  BY <1>1, <1>2, <1>4, <1>6, <1>7, <1>9, <1>10, <1>11, <1>12, <1>13, <1>14 DEF e, k

\* The registration passes on what came before it.
LEMMA KeptByRegister ==
    ASSUME OwedFit, RoutingInv, Register
    PROVE  RoutingInv'
<1> USE DEF nativeVars, cancelling
<1>1. RustTypeOK /\ CountOK /\ ThreadsOK /\ PendingOK /\ QueueOK /\ violations \subseteq {"telemetry"}
  BY DEF RoutingInv
<1>2. PICK r \in Requests : r = owner.handle /\ native[r] # "new"
  BY <1>1 DEF Register, ThreadsOK
<1>3. /\ UNCHANGED <<native, queue, callback, calls, worker, wake, lost, pending>>
      /\ owner.at = "registering" /\ owner = Doing("registering", r) /\ owner' = Doing("idle", 0)
      /\ streams' = streams \union {r}
  BY <1>1, <1>2, ThreadIs DEF Register
<1>4. ~RegistryFull(r)
  BY <1>1, <1>2, <1>3, RegistryHasRoom DEF Owed, Registering
<1>5. EntryOK(r) /\ CancelOK(r) /\ EndOK(r)
  BY DEF RoutingInv
<1>6. /\ RustTypeOK' /\ violations' = violations
      /\ \A s \in Requests : s # r => /\ registry'[s] = registry[s] /\ state'[s] = state[s]
                                     /\ terminals'[s] = terminals[s]
  BY <1>1, <1>2, <1>4, <1>5, RegisterIs
<1>7. /\ registry[r].done => registry'[r] = Absent
      /\ ~registry[r].done => /\ registry'[r].state /\ ~registry'[r].done
                              /\ registry'[r].failed = registry[r].failed
                              /\ registry'[r].cancel = registry[r].cancel
                              /\ registry'[r].route = IF Entry(r).route = "unregistered"
                                                      THEN "sender" ELSE "delivered"
      /\ state'[r].done = registry[r].done /\ state'[r].cancel = registry[r].cancel
      /\ Entry(r).route \in {"native", "overflow"} =>
            terminals'[r] = Append(terminals[r], Entry(r).route)
      /\ Entry(r).route \notin {"native", "overflow"} => terminals'[r] = terminals[r]
  BY <1>1, <1>2, <1>4, <1>5, RegisterIs
<1>8. /\ Entry(r).route \in Routes \ {"absent"}
      /\ Entry(r).route = IF registry[r] = Absent THEN "unregistered" ELSE registry[r].route
  BY <1>1, <1>5, EntryIs
<1>9. QueueOK' /\ CountOK' /\ Outstanding' = Outstanding /\ \A s : Queued(s)' <=> Queued(s)
  BY <1>1, <1>3, QueueSame, OwedSame DEF Doing
<1>10. ThreadsOK'
  BY <1>1, <1>3, <1>9 DEF ThreadsOK, Ending, Doing
<1>11. ASSUME NEW s \in Requests, s # r PROVE SameRequest(s)
  BY <1>3, <1>6, <1>9, <1>11, PendingSame
     DEF SameRequest, Known, Speaks, Overflowing, Ending, WorkerAsks, OwnerAsks, Doing
<1>12. /\ ~Known(r) /\ Known(r)' /\ ~OwnerAsks(r)'
       /\ Speaks(r)' <=> Speaks(r)
       /\ Ending(r)' <=> Ending(r)
       /\ Overflowing(r)' <=> Overflowing(r)
       /\ WorkerAsks(r)' <=> WorkerAsks(r)
       /\ InPending(r)' <=> InPending(r)
  BY <1>2, <1>3, <1>9, PendingSame
     DEF Known, Speaks, Overflowing, Ending, WorkerAsks, OwnerAsks, Doing
<1>13. registry'[r].state => registry'[r] # Absent
  BY DEF Absent
<1>14. EntryOK(r)'
  BY <1>2, <1>3, <1>5, <1>7, <1>12, <1>13 DEF EntryOK, Absent
<1>15. CancelOK(r)'
  BY <1>3, <1>5, <1>7, <1>12 DEF CancelOK
<1>16. EndOK(r)'
  <2>1. /\ terminals[r] = <<>> /\ Entry(r).route \in {"unregistered", "native", "overflow"}
        /\ Entry(r).route = "overflow" <=> registry[r].failed
        /\ Entry(r).route = "native" => registry[r].done /\ registry[r].route = "native"
    BY <1>5, <1>8, <1>12 DEF EndOK, Absent
  <2>2. terminals'[r] = IF Entry(r).route = "unregistered" THEN <<>> ELSE <<Entry(r).route>>
    BY <1>7, <2>1
  <2>3. Entry(r).route = "native" => /\ native'[r] \in {"ended", "over"} /\ ~Speaks(r)'
                                     /\ r \notin lost'
    BY <1>3, <1>5, <1>12, <2>1 DEF EntryOK, EndOK
  <2>4. terminals'[r] = <<"native">> => Entry(r).route = "native"
    BY <2>1, <2>2
  <2>5. r \in lost' => Overflowing(r)' \/ registry[r].failed
    BY <1>3, <1>5, <1>12 DEF EndOK
  <2>6. CASE registry[r].done
    <3>1. registry'[r] = Absent /\ registry'[r].route = "absent"
      BY <1>7, <2>6 DEF Absent
    <3>2. terminals'[r] \in {<<>>, <<"native">>, <<"overflow">>}
      BY <2>1, <2>2
    <3> QED
      BY <1>12, <2>3, <2>4, <3>1, <3>2 DEF EndOK
  <2>7. CASE ~registry[r].done
    <3>1. Entry(r).route \in {"unregistered", "overflow"}
      BY <2>1, <2>7
    <3>2. terminals'[r] \in {<<>>, <<"overflow">>}
      BY <2>2, <3>1
    <3>3. registry'[r].route \in {"sender", "delivered"} /\ registry'[r].failed = registry[r].failed
      BY <1>7, <2>7
    <3>4. registry'[r].route = "sender" => terminals'[r] = <<>> /\ ~registry'[r].failed
      BY <1>7, <2>1, <2>2, <2>7
    <3>5. terminals'[r] # <<"native">>
      BY <2>1, <2>4, <2>7
    <3> QED
      BY <1>12, <2>5, <3>2, <3>3, <3>4, <3>5 DEF EndOK
  <2> QED
    BY <2>6, <2>7
<1> QED
  BY <1>1, <1>3, <1>6, <1>9, <1>10, <1>11, <1>14, <1>15, <1>16, PendingSame, Closed

-----------------------------------------------------------------------------
(* The theorems *)

\* No step breaks the routing.
LEMMA RoutingStep ==
    ASSUME OwedFit, RoutingInv, [Next]_vars
    PROVE  RoutingInv'
<1>1. CASE UNCHANGED vars
  BY <1>1, KeptByQuiet
<1>2. CASE Callback
  BY <1>2, KeptByTakeTerminal, KeptByForget, KeptByTakeRegular, KeptByOverflow, KeptByWake DEF Callback
<1>3. CASE Worker
  BY <1>3, KeptByQuiet, KeptByPop, KeptByCancel DEF Worker
<1>4. CASE Owner
  BY <1>4, KeptByRegister, KeptByCancel, KeptByQuiet DEF Owner
<1>5. CASE Environment
  BY <1>5, KeptBySpeaking, KeptByQuiet, KeptByEnd, KeptBySubmit, KeptByClaim DEF Environment
<1> QED
  BY <1>1, <1>2, <1>3, <1>4, <1>5 DEF Next

\* As long as the native side owes no more ends than the registry has entries,
\* the routing of crates/llm-runtime/src/lib.rs is in order.
THEOREM RoutingAlways == Spec /\ []OwedFit => []RoutingInv
<1>1. OwedFit /\ RoutingInv /\ [Next]_vars => RoutingInv'
  BY RoutingStep
<1> QED
  BY <1>1, RoutingStart, PTL DEF Spec

\* So it always does when it grants no more permits than there are entries.
THEOREM PermitsKeepOwedFit ==
    ASSUME Permits <= MaxOutstanding
    PROVE  Spec => []OwedFit
<1>1. RoutingInv => OwedFit
  BY FS_CardinalityType, BoundsAssumption DEF RoutingInv, CountOK, OwedFit
<1>2. RoutingInv /\ [Next]_vars => RoutingInv'
  BY <1>1, RoutingStep
<1> QED
  BY <1>1, <1>2, RoutingStart, PTL DEF Spec

\* Every variable of the wrapper keeps its type.
THEOREM RustTypesAlways == Spec /\ []OwedFit => []RustTypeOK
<1>1. RoutingInv => RustTypeOK
  BY DEF RoutingInv
<1> QED
  BY <1>1, RoutingAlways, PTL

\* The correlation number is there for every event that reads it.
THEOREM CorrelationAlwaysHeld == Spec /\ []OwedFit => []CorrelationHeld
<1>1. RoutingInv => CorrelationHeld
  <2> SUFFICES ASSUME RoutingInv, NEW r \in Requests, r \in Running \/ Queued(r)
               PROVE  Held(r)
    BY DEF CorrelationHeld, Queued
  <2>1. EntryOK(r) /\ Speaks(r)
    BY DEF RoutingInv, Running, Speaks
  <2>2. native[r] # "new"
    <3>1. r \in Running => native[r] # "new"
      BY DEF Running
    <3>2. Queued(r) => native[r] # "new"
      BY BoundsAssumption DEF RoutingInv, QueueOK, Queued
    <3> QED
      BY <3>1, <3>2
  <2>3. CASE Known(r)
    BY <2>1, <2>3 DEF EntryOK, Held
  <2>4. CASE ~Known(r)
    BY <2>2, <2>4 DEF Known, Held
  <2> QED
    BY <2>3, <2>4
<1> QED
  BY <1>1, RoutingAlways, PTL

\* The registry never refuses, the wake channel is never closed under a claim.
THEOREM NeverViolated == Spec /\ []OwedFit => []NothingViolated
<1>1. OwedFit /\ RoutingInv => NothingViolated
  <2> SUFFICES ASSUME OwedFit, RoutingInv PROVE NothingViolated
    OBVIOUS
  <2>1. Entries \subseteq Outstanding \union Registering
    BY RegistryHasRoom DEF Owed
  <2>2. pending \in Seq(Requests) /\ PendingOK /\ CountOK
    BY DEF RoutingInv, RustTypeOK
  <2>3. DOMAIN pending = 1..Len(pending) /\ Len(pending) \in Nat
    BY <2>2
  <2>4. \A i \in 1..Len(pending) : pending[i] \in Owed
    BY <2>2, <2>3 DEF RoutingInv, CancelOK, InPending, Owed, Outstanding
  <2>5. pending \in Injection(1..Len(pending), Owed)
    <3>1. pending \in [1..Len(pending) -> Owed]
      BY <2>2, <2>3, <2>4
    <3>2. IsInjective(pending)
      BY <2>2, <2>3 DEF IsInjective, PendingOK
    <3> QED
      BY <3>1, <3>2 DEF Injection
  <2> DEFINE n == Len(pending)
  <2>6. n \in Nat /\ Cardinality(Owed) \in Nat /\ Cardinality(Owed) <= MaxOutstanding
    BY <2>2, <2>3, FS_CardinalityType DEF CountOK, OwedFit
  <2>7. Cardinality(1..n) <= Cardinality(Owed)
    BY <2>2, <2>5, FS_Injection DEF CountOK
  <2> HIDE DEF n
  <2>8. Cardinality(1..n) = n
    BY <2>6, FS_Interval
  <2>9. n <= MaxOutstanding
    BY <2>6, <2>7, <2>8, BoundsAssumption
  <2> QED
    BY <2>1, <2>9 DEF NothingViolated, RoutingInv, n
<1> QED
  BY <1>1, RoutingAlways, PTL

\* A stream hears one end, and the native one only when nothing was lost before it.
THEOREM EndAlwaysTrue == Spec /\ []OwedFit => []EndIsTrue
<1>1. RoutingInv => EndIsTrue
  <2> SUFFICES ASSUME RoutingInv, NEW r \in Requests
               PROVE  /\ Len(terminals[r]) <= 1
                      /\ terminals[r] = <<"native">> => r \notin lost
    BY DEF EndIsTrue
  <2>1. EndOK(r)
    BY DEF RoutingInv
  <2>2. terminals[r] \in {<<>>, <<"native">>, <<"overflow">>}
    BY <2>1 DEF EndOK
  <2>3. Len(terminals[r]) <= 1
    <3>1. CASE terminals[r] = <<>>
      BY <3>1
    <3>2. CASE terminals[r] = <<"native">>
      BY <3>2
    <3>3. CASE terminals[r] = <<"overflow">>
      BY <3>3
    <3> QED
      BY <2>2, <3>1, <3>2, <3>3, Zenon
  <2> QED
    BY <2>1, <2>3 DEF EndOK
<1> QED
  BY <1>1, RoutingAlways, PTL

\* The caller, the drop of the stream and the overflow cancel once between them,
\* and none is left out but for a request that is over.
THEOREM AlwaysCancelledOnce == Spec /\ []OwedFit => []CancelledOnce
<1>1. RoutingInv => CancelledOnce
  BY DEF RoutingInv, CancelledOnce, DoneIsOver, EntryOK, CancelOK
<1> QED
  BY <1>1, RoutingAlways, PTL
=============================================================================
