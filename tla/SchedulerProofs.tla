---------------------------- MODULE SchedulerProofs ----------------------------
(***************************************************************************)
(* Proofs about the scheduler, for every number of threads, events and     *)
(* objects, every generation width, every clock and every set of timeouts. *)
(*                                                                         *)
(* The first part is about the waiter lists, the second about the threads: *)
(* the runnable queue agrees with their states, the wait records with the  *)
(* threads that wait, the arrays are large enough, and a wait is completed *)
(* once. SchedulerObjectProofs has the object table.                       *)
(***************************************************************************)
EXTENDS Scheduler, TLAPS, FiniteSetTheorems

\* What the loops in progress may rely on.
LoopTargetIsLive ==
  /\ loop.op \in {"wake", "pollwait"} =>
       loop.event \in Events /\ events[loop.event].live
  /\ loop.op = "pollwait" => ~events[loop.event].signaled

\* An object of type THREAD or EVENT points into the table of its type.
TargetsAreInRange ==
  \A o \in Objects :
    /\ objects[o].type = "THREAD" => objects[o].target \in Threads
    /\ objects[o].type = "EVENT" => objects[o].target \in Events

\* The part of the inductive invariant that speaks of events and wait records.
WaitInv ==
  /\ TypeOK
  /\ TargetsAreInRange
  /\ ListedRecordsAreLinked
  /\ LinkedRecordsAreListed
  /\ LoopTargetIsLive
  /\ NoLostWakeup

-----------------------------------------------------------------------------
(* The tables and the two list operations.                                 *)

LEMMA ConstantFacts ==
  /\ 0 \in Threads /\ 0 \in Objects /\ 0 \in Time /\ 0 \in Generations
  /\ 1 \in Generations /\ Boot \in Threads
  /\ Threads \subseteq Nat /\ Events \subseteq Nat /\ Objects \subseteq Nat
  /\ Records = Threads /\ None \notin Threads /\ None \notin Events
  /\ Time \subseteq Nat /\ Generations \subseteq Nat
  BY BoundsAssumption
     DEF Threads, Objects, Time, Generations, Boot, Events, Records, None

LEMMA NextGenerationType ==
  ASSUME NEW g \in Generations PROVE NextGeneration(g) \in Generations \ {0}
  BY BoundsAssumption DEF Generations, NextGeneration

\* Setting one field of a slot to a value of its type keeps the slot's type.
LEMMA ThreadRecordFields ==
  ASSUME NEW r \in ThreadRecord
  PROVE  /\ \A x \in ThreadStates : [r EXCEPT !.state = x] \in ThreadRecord
         /\ \A x \in BOOLEAN : [r EXCEPT !.queued = x] \in ThreadRecord
         /\ \A x \in 0 .. 1 : [r EXCEPT !.suspend = x] \in ThreadRecord
         /\ \A x \in 0 .. 1 : [r EXCEPT !.pub = x] \in ThreadRecord
         /\ \A x \in 0 .. 1 : [r EXCEPT !.exec = x] \in ThreadRecord
         /\ \A x \in BOOLEAN : [r EXCEPT !.deferred = x] \in ThreadRecord
         /\ \A x \in BOOLEAN : [r EXCEPT !.started = x] \in ThreadRecord
         /\ \A x \in Generations : [r EXCEPT !.generation = x] \in ThreadRecord
         /\ \A x \in Objects : [r EXCEPT !.slot = x] \in ThreadRecord
         /\ \A x \in WaitResults : [r EXCEPT !.result = x] \in ThreadRecord
         /\ \A x \in Records \cup {None} : [r EXCEPT !.wait = x] \in ThreadRecord
  BY DEF ThreadRecord

LEMMA EventRecordFields ==
  ASSUME NEW r \in EventRecord
  PROVE  /\ \A x \in BOOLEAN : [r EXCEPT !.live = x] \in EventRecord
         /\ \A x \in BOOLEAN : [r EXCEPT !.manual = x] \in EventRecord
         /\ \A x \in BOOLEAN : [r EXCEPT !.signaled = x] \in EventRecord
         /\ \A x \in Generations : [r EXCEPT !.generation = x] \in EventRecord
         /\ \A x \in Objects : [r EXCEPT !.slot = x] \in EventRecord
         /\ \A x \in Seq(Records) : [r EXCEPT !.waiters = x] \in EventRecord
  BY DEF EventRecord

LEMMA WaitRecordFields ==
  ASSUME NEW r \in WaitRecord
  PROVE  /\ \A x \in BOOLEAN : [r EXCEPT !.linked = x] \in WaitRecord
         /\ \A x \in Nat : [r EXCEPT !.index = x] \in WaitRecord
         /\ \A x \in Completions : [r EXCEPT !.completion = x] \in WaitRecord
  BY DEF WaitRecord

LEMMA ObjectRecordFields ==
  ASSUME NEW r \in ObjectRecord
  PROVE  /\ \A x \in 0 .. 1 : [r EXCEPT !.pub = x] \in ObjectRecord
         /\ \A x \in BOOLEAN : [r EXCEPT !.closed = x] \in ObjectRecord
         /\ \A x \in Nat : [r EXCEPT !.refs = x] \in ObjectRecord
  BY DEF ObjectRecord

LEMMA LoopRecordFields ==
  ASSUME NEW r \in LoopRecord
  PROVE  /\ \A x \in {"idle", "wake", "poll", "pollwait"} :
              [r EXCEPT !.op = x] \in LoopRecord
         /\ \A x \in Events \cup {None} : [r EXCEPT !.event = x] \in LoopRecord
         /\ \A x \in 0 .. MaxThreads : [r EXCEPT !.index = x] \in LoopRecord
         /\ \A x \in Time : [r EXCEPT !.time = x] \in LoopRecord
  BY DEF LoopRecord

LEMMA EmptySlotTypes ==
  /\ EmptyThread \in ThreadRecord
  /\ BootThread \in ThreadRecord
  /\ EmptyEvent \in EventRecord
  /\ EmptyRecord \in WaitRecord
  /\ Idle \in LoopRecord
  /\ \A g \in Generations : FreeObject(g) \in ObjectRecord
  /\ \A g \in Generations, type \in ObjectTypes, x \in Int :
       NewObject(type, g, x) \in ObjectRecord
  /\ \A g \in Generations, o \in Objects : NewThread(o, g) \in ThreadRecord
<1>1. EmptyThread \in ThreadRecord
  BY ConstantFacts DEF EmptyThread, ThreadRecord, ThreadStates, WaitResults
<1>2. BootThread \in ThreadRecord
  <2>1. [EmptyThread EXCEPT !.state = "RUNNING", !.exec = 1] \in ThreadRecord
    <3>1. 1 \in 0 .. 1 /\ "RUNNING" \in ThreadStates
      BY DEF ThreadStates
    <3>. QED BY <3>1, <1>1, ThreadRecordFields
  <2>. QED
    BY <2>1, ConstantFacts, ThreadRecordFields DEF BootThread
<1>3. EmptyEvent \in EventRecord
  BY ConstantFacts DEF EmptyEvent, EventRecord
<1>4. EmptyRecord \in WaitRecord
  BY ConstantFacts DEF EmptyRecord, WaitRecord, Completions
<1>5. Idle \in LoopRecord
  BY ConstantFacts, BoundsAssumption DEF Idle, LoopRecord
<1>6. \A g \in Generations : FreeObject(g) \in ObjectRecord
  BY DEF FreeObject, ObjectRecord, ObjectTypes, None
<1>7. \A g \in Generations, type \in ObjectTypes, x \in Int :
        NewObject(type, g, x) \in ObjectRecord
  BY DEF NewObject, ObjectRecord, ObjectTypes
<1>8. \A g \in Generations, o \in Objects : NewThread(o, g) \in ThreadRecord
  <2>1. 1 \in 0 .. 1 /\ "CREATED_SUSPENDED" \in ThreadStates
    BY DEF ThreadStates
  <2>2. [EmptyThread EXCEPT !.state = "CREATED_SUSPENDED", !.suspend = 1, !.pub = 1]
          \in ThreadRecord
    BY <2>1, <1>1, ThreadRecordFields
  <2>. QED
    BY <2>1, <2>2, ThreadRecordFields DEF NewThread
<1>. QED
  BY <1>1, <1>2, <1>3, <1>4, <1>5, <1>6, <1>7, <1>8

LEMMA RemoveRunnableType ==
  ASSUME NEW S, NEW q \in Seq(S), NEW t
  PROVE  RemoveRunnable(q, t) \in Seq(S)
  BY DEF RemoveRunnable

\* remove_waiter: everything but entry i stays, entry i is the last one.
LEMMA RemoveWaiterFacts ==
  ASSUME NEW S, NEW w \in Seq(S), NEW i \in 1 .. Len(w)
  PROVE  /\ RemoveWaiter(w, i) \in Seq(S)
         /\ Len(RemoveWaiter(w, i)) = Len(w) - 1
         /\ \A j \in 1 .. (Len(w) - 1) :
              RemoveWaiter(w, i)[j] = IF j = i THEN w[Len(w)] ELSE w[j]
  BY DEF RemoveWaiter

-----------------------------------------------------------------------------
(* Waking one waiter, and registering one.                                 *)

\* complete_waiter keeps the lists and the records in step: the moved entry
\* gets its new position, the removed one is in no list any more.
LEMMA CompleteWaiterKeepsLists ==
  ASSUME TypeOK, ListedRecordsAreLinked, LinkedRecordsAreListed,
         NEW e \in Events, NEW i \in 1 .. Len(events[e].waiters),
         NEW c \in {"OBJECT_0", "TIMEOUT"}, NEW res \in WaitResults,
         NEW sig \in BOOLEAN,
         CompleteWaiter(e, i, c, res),
         events' = WithoutWaiter(e, i, sig)
  PROVE  /\ records' \in [Records -> WaitRecord]
         /\ threads' \in [Threads -> ThreadRecord]
         /\ runq' \in Seq(Threads)
         /\ events' \in [Events -> EventRecord]
         /\ ListedRecordsAreLinked'
         /\ LinkedRecordsAreListed'
<1> DEFINE w == events[e].waiters
           r == w[i]
           last == w[Len(w)]
           t == records[r].thread
<1>1. /\ w \in Seq(Records) /\ Len(w) \in Nat /\ Len(w) \in 1 .. Len(w)
      /\ r \in Records /\ last \in Records
  BY DEF TypeOK, EventRecord
<1>2. /\ records[r].linked /\ records[r].event = e /\ records[r].index = i
      /\ records[last].linked /\ records[last].event = e
      /\ records[last].index = Len(w)
  BY <1>1 DEF ListedRecordsAreLinked
<1>3. t \in Threads
  BY <1>1, <1>2 DEF LinkedRecordsAreListed
<1>4. threads' \in [Threads -> ThreadRecord]
  BY <1>3, ThreadRecordFields DEF CompleteWaiter, TypeOK, ThreadStates
<1>5. runq' \in Seq(Threads)
  BY <1>3 DEF CompleteWaiter, TypeOK
<1>6. records' \in [Records -> WaitRecord]
  <2>1. [records[r] EXCEPT !.linked = FALSE, !.index = 0, !.completion = c]
          \in WaitRecord
    BY <1>1, WaitRecordFields DEF TypeOK, Completions
  <2>2. [records[last] EXCEPT !.index = i] \in WaitRecord
    BY <1>1, WaitRecordFields DEF TypeOK
  <2>. QED
    BY <2>1, <2>2, <1>1 DEF CompleteWaiter, TypeOK
<1>7. /\ RemoveWaiter(w, i) \in Seq(Records)
      /\ Len(RemoveWaiter(w, i)) = Len(w) - 1
      /\ \A j \in 1 .. (Len(w) - 1) :
           RemoveWaiter(w, i)[j] = IF j = i THEN last ELSE w[j]
  BY <1>1, RemoveWaiterFacts
<1>8. events' \in [Events -> EventRecord]
  BY <1>7, EventRecordFields DEF WithoutWaiter, TypeOK
<1>9. /\ events'[e].waiters = RemoveWaiter(w, i)
      /\ \A f \in Events \ {e} : events'[f] = events[f]
      /\ \A f \in Events : events'[f].live = events[f].live
  BY DEF WithoutWaiter, TypeOK, EventRecord
<1>10. /\ ~records'[r].linked
       /\ \A k \in Records \ {r} :
            /\ records'[k].linked = records[k].linked
            /\ records'[k].active = records[k].active
            /\ records'[k].completion = records[k].completion
            /\ records'[k].thread = records[k].thread
            /\ records'[k].event = records[k].event
            /\ records'[k].index = IF k = last THEN i ELSE records[k].index
  <2>1. /\ records'[r] = [records[r] EXCEPT !.linked = FALSE, !.index = 0,
                                           !.completion = c]
        /\ \A k \in Records \ {r} :
             records'[k] = IF k = last THEN [records[k] EXCEPT !.index = i]
                                       ELSE records[k]
    BY <1>1 DEF CompleteWaiter
  <2>2. \A k \in Records : records[k] \in WaitRecord
    BY DEF TypeOK
  <2>3. ~records'[r].linked
    BY <2>1, <2>2, <1>1 DEF WaitRecord
  <2>4. ASSUME NEW k \in Records \ {r}
        PROVE  /\ records'[k].linked = records[k].linked
               /\ records'[k].active = records[k].active
               /\ records'[k].completion = records[k].completion
               /\ records'[k].thread = records[k].thread
               /\ records'[k].event = records[k].event
               /\ records'[k].index = IF k = last THEN i ELSE records[k].index
    <3>1. CASE k = last
      <4>1. records'[k] = [records[k] EXCEPT !.index = i]
        BY <3>1, <2>1
      <4>2. records[k] \in WaitRecord
        BY <2>2
      <4>. QED
        BY <3>1, <4>1, <4>2 DEF WaitRecord
    <3>2. CASE k # last
      BY <3>2, <2>1
    <3>. QED BY <3>1, <3>2
  <2>. QED BY <2>3, <2>4
<1>11. ListedRecordsAreLinked'
  <2> SUFFICES ASSUME NEW f \in Events, NEW j \in 1 .. Len(events'[f].waiters)
               PROVE  /\ records'[events'[f].waiters[j]].linked
                      /\ records'[events'[f].waiters[j]].event = f
                      /\ records'[events'[f].waiters[j]].index = j
    BY DEF ListedRecordsAreLinked
  <2>1. CASE f # e
    <3>1. /\ j \in 1 .. Len(events[f].waiters)
          /\ events'[f].waiters[j] = events[f].waiters[j]
          /\ events[f].waiters[j] \in Records
      BY <2>1, <1>9 DEF TypeOK, EventRecord
    <3>2. /\ records[events[f].waiters[j]].linked
          /\ records[events[f].waiters[j]].event = f
          /\ records[events[f].waiters[j]].index = j
      BY <3>1 DEF ListedRecordsAreLinked
    <3>3. events[f].waiters[j] # r /\ events[f].waiters[j] # last
      BY <3>2, <2>1, <1>2
    <3>4. LET k == events[f].waiters[j] IN
            /\ records'[k].linked = records[k].linked
            /\ records'[k].event = records[k].event
            /\ records'[k].index = records[k].index
      BY <3>1, <3>3, <1>10
    <3>. QED
      BY <3>1, <3>2, <3>4
  <2>2. CASE f = e
    <3>1. /\ j \in 1 .. (Len(w) - 1) /\ j \in 1 .. Len(w)
          /\ events'[f].waiters[j] = IF j = i THEN last ELSE w[j]
      BY <2>2, <1>1, <1>7, <1>9
    <3>2. CASE j = i
      <4>1. last # r
        BY <3>1, <3>2, <1>1, <1>2
      <4>. QED
        BY <4>1, <3>1, <3>2, <2>2, <1>1, <1>2, <1>10
    <3>3. CASE j # i
      <4>1. /\ w[j] \in Records
            /\ records[w[j]].linked /\ records[w[j]].event = e
            /\ records[w[j]].index = j
        BY <3>1, <1>1 DEF ListedRecordsAreLinked
      <4>2. w[j] # r /\ w[j] # last
        BY <4>1, <3>1, <3>3, <1>1, <1>2
      <4>. QED
        BY <4>1, <4>2, <3>1, <3>3, <2>2, <1>10
    <3>. QED BY <3>2, <3>3
  <2>. QED BY <2>1, <2>2
<1>12. LinkedRecordsAreListed'
  <2> SUFFICES ASSUME NEW k \in Records, records'[k].linked
               PROVE  /\ records'[k].active
                      /\ records'[k].completion = "FAILED"
                      /\ records'[k].thread \in Threads
                      /\ records'[k].event \in Events
                      /\ events'[records'[k].event].live
                      /\ records'[k].index
                           \in 1 .. Len(events'[records'[k].event].waiters)
                      /\ events'[records'[k].event].waiters[records'[k].index] = k
    BY DEF LinkedRecordsAreListed
  <2>1. k \in Records \ {r} /\ records[k].linked
    BY <1>10
  <2>2. /\ records[k].active /\ records[k].completion = "FAILED"
        /\ records[k].thread \in Threads
        /\ records[k].event \in Events /\ events[records[k].event].live
        /\ records[k].index \in 1 .. Len(events[records[k].event].waiters)
        /\ events[records[k].event].waiters[records[k].index] = k
    BY <2>1 DEF LinkedRecordsAreListed
  <2>3. CASE records[k].event # e
    <3>1. k # last
      BY <2>3, <1>2
    <3>2. events'[records[k].event] = events[records[k].event]
      BY <2>2, <2>3, <1>9
    <3>3. /\ records'[k].active /\ records'[k].completion = "FAILED"
          /\ records'[k].thread = records[k].thread
          /\ records'[k].event = records[k].event
          /\ records'[k].index = records[k].index
      BY <3>1, <2>1, <2>2, <1>10
    <3>. QED
      BY <3>2, <3>3, <2>2
  <2>4. CASE records[k].event = e /\ k = last
    <3>1. i # Len(w) /\ i \in 1 .. (Len(w) - 1)
      BY <2>1, <2>4, <1>1
    <3>2. /\ Len(events'[e].waiters) = Len(w) - 1
          /\ events'[e].waiters[i] = last
      BY <3>1, <1>7, <1>9
    <3>3. /\ records'[k].index = i /\ records'[k].event = e
          /\ records'[k].active /\ records'[k].completion = "FAILED"
          /\ records'[k].thread \in Threads
      BY <2>1, <2>2, <2>4, <1>10
    <3>4. events'[e].live
      BY <2>2, <2>4, <1>9
    <3>. QED
      BY <3>1, <3>2, <3>3, <3>4, <2>4
  <2>5. CASE records[k].event = e /\ k # last
    <3>1. /\ records[k].index \in 1 .. (Len(w) - 1)
          /\ records[k].index # i
      BY <2>1, <2>2, <2>5, <1>1
    <3>2. /\ Len(events'[e].waiters) = Len(w) - 1
          /\ events'[e].waiters[records[k].index] = k
      <4>1. RemoveWaiter(w, i)[records[k].index] = w[records[k].index]
        BY <3>1, <1>7
      <4>. QED
        BY <4>1, <2>2, <2>5, <1>7, <1>9
    <3>3. /\ records'[k].index = records[k].index /\ records'[k].event = e
          /\ records'[k].active /\ records'[k].completion = "FAILED"
          /\ records'[k].thread \in Threads
      BY <2>1, <2>2, <2>5, <1>10
    <3>4. events'[e].live
      BY <2>2, <2>5, <1>9
    <3>. QED
      BY <3>1, <3>2, <3>3, <3>4
  <2>. QED BY <2>3, <2>4, <2>5
<1>. QED
  BY <1>4, <1>5, <1>6, <1>8, <1>11, <1>12

\* A step that changes no record and no waiter list, and retires no event that
\* has waiters, keeps the lists and the records in step.
LEMMA QuietStepKeepsLists ==
  ASSUME TypeOK, ListedRecordsAreLinked, LinkedRecordsAreListed,
         UNCHANGED records,
         \A f \in Events :
           /\ events'[f].waiters = events[f].waiters
           /\ events[f].live /\ events[f].waiters # <<>> => events'[f].live
  PROVE  ListedRecordsAreLinked' /\ LinkedRecordsAreListed'
<1>1. ListedRecordsAreLinked'
  BY DEF ListedRecordsAreLinked
<1>2. LinkedRecordsAreListed'
  <2> SUFFICES ASSUME NEW k \in Records, records[k].linked
               PROVE  /\ records[k].active
                      /\ records[k].completion = "FAILED"
                      /\ records[k].thread \in Threads
                      /\ records[k].event \in Events
                      /\ events'[records[k].event].live
                      /\ records[k].index
                           \in 1 .. Len(events'[records[k].event].waiters)
                      /\ events'[records[k].event].waiters[records[k].index] = k
    BY DEF LinkedRecordsAreListed
  <2>1. /\ records[k].active /\ records[k].completion = "FAILED"
        /\ records[k].thread \in Threads
        /\ records[k].event \in Events /\ events[records[k].event].live
        /\ records[k].index \in 1 .. Len(events[records[k].event].waiters)
        /\ events[records[k].event].waiters[records[k].index] = k
    BY DEF LinkedRecordsAreListed
  <2>2. events[records[k].event].waiters # <<>>
    BY <2>1 DEF TypeOK, EventRecord
  <2>. QED
    BY <2>1, <2>2
<1>. QED
  BY <1>1, <1>2

\* An event that is not live has no waiters.
LEMMA DeadEventsHaveNoWaiters ==
  ASSUME TypeOK, ListedRecordsAreLinked, LinkedRecordsAreListed,
         NEW e \in Events, ~events[e].live
  PROVE  events[e].waiters = <<>>
<1> SUFFICES ASSUME events[e].waiters # <<>> PROVE FALSE
  OBVIOUS
<1>1. events[e].waiters \in Seq(Records)
  BY DEF TypeOK, EventRecord
<1>2. 1 \in 1 .. Len(events[e].waiters) /\ events[e].waiters[1] \in Records
  BY <1>1
<1>3. records[events[e].waiters[1]].linked /\ records[events[e].waiters[1]].event = e
  BY <1>2 DEF ListedRecordsAreLinked
<1>. QED
  BY <1>2, <1>3 DEF LinkedRecordsAreListed

\* Registering a waiter: a free record goes to the end of the list of a live
\* event, and the thread control blocks and the queue keep their types.
LEMMA BlockOnKeepsLists ==
  ASSUME TypeOK, TargetsAreInRange,
         ListedRecordsAreLinked, LinkedRecordsAreListed,
         NEW e \in Events, events[e].live,
         NEW armed \in BOOLEAN, NEW deadline \in Time,
         BlockOn(e, armed, deadline)
  PROVE  /\ objects' \in [Objects -> ObjectRecord]
         /\ threads' \in [Threads -> ThreadRecord]
         /\ events' \in [Events -> EventRecord]
         /\ records' \in [Records -> WaitRecord]
         /\ runq' \in Seq(Threads)
         /\ current' \in Threads
         /\ activeWaits' \in Nat
         /\ mode' \in {"up", "down", "halted"}
         /\ TargetsAreInRange'
         /\ ListedRecordsAreLinked'
         /\ LinkedRecordsAreListed'
         /\ \A f \in Events :
              /\ events'[f].signaled = events[f].signaled
              /\ events'[f].live = events[f].live
              /\ f # e => events'[f].waiters = events[f].waiters
<1> DEFINE w == events[e].waiters
           o == events[e].slot
           blocked(r) ==
             [threads EXCEPT ![current] =
                [@ EXCEPT !.state = "BLOCKED", !.wait = r, !.result = "NONE"]]
           rec == [active |-> TRUE, linked |-> TRUE, armed |-> armed,
                   deadline |-> deadline, thread |-> current, event |-> e,
                   slot |-> o, generation |-> objects[o].generation,
                   index |-> Len(w) + 1, completion |-> "FAILED"]
<1>1. w \in Seq(Records) /\ Len(w) \in Nat /\ o \in Objects
  BY DEF TypeOK, EventRecord
<1>2. CASE UNCHANGED <<objects, threads, events, records, runq, current,
                       activeWaits>> /\ mode' = "halted"
  <2>1. ListedRecordsAreLinked' /\ LinkedRecordsAreListed'
    BY <1>2, QuietStepKeepsLists
  <2>. QED
    BY <1>2, <2>1 DEF TypeOK, TargetsAreInRange
<1>3. CASE \E r \in Records, t \in Threads :
             /\ IsLowest(FreeRecords, r)
             /\ records' = [records EXCEPT ![r] = rec]
             /\ IsNextRunnable(blocked(r), current, t)
             /\ threads' = Dispatched(blocked(r), t)
             /\ runq' = RemoveRunnable(runq, t)
             /\ current' = t
             /\ events' = [events EXCEPT ![e].waiters = Append(w, r)]
             /\ objects' = [objects EXCEPT ![o].refs = objects[o].refs + 1]
             /\ activeWaits' = activeWaits + 1
             /\ UNCHANGED mode
  <2> PICK r \in Records, t \in Threads :
             /\ IsLowest(FreeRecords, r)
             /\ records' = [records EXCEPT ![r] = rec]
             /\ IsNextRunnable(blocked(r), current, t)
             /\ threads' = Dispatched(blocked(r), t)
             /\ runq' = RemoveRunnable(runq, t)
             /\ current' = t
             /\ events' = [events EXCEPT ![e].waiters = Append(w, r)]
             /\ objects' = [objects EXCEPT ![o].refs = objects[o].refs + 1]
             /\ activeWaits' = activeWaits + 1
             /\ UNCHANGED mode
    BY <1>3
  <2>1. ~records[r].active /\ ~records[r].linked
    BY DEF IsLowest, FreeRecords, LinkedRecordsAreListed
  <2>2. rec \in WaitRecord
    BY <1>1 DEF TypeOK, WaitRecord, Completions, ObjectRecord
  <2>3. records' \in [Records -> WaitRecord]
    BY <2>2 DEF TypeOK
  <2>4. blocked(r) \in [Threads -> ThreadRecord]
    BY ThreadRecordFields DEF TypeOK, ThreadStates, WaitResults
  <2>5. threads' \in [Threads -> ThreadRecord]
    BY <2>4, ThreadRecordFields DEF Dispatched, ThreadStates
  <2>6. Append(w, r) \in Seq(Records) /\ Len(Append(w, r)) = Len(w) + 1
    BY <1>1
  <2>7. events' \in [Events -> EventRecord]
    BY <2>6, EventRecordFields DEF TypeOK
  <2>8. objects' \in [Objects -> ObjectRecord]
    <3>1. objects[o].refs + 1 \in Nat
      BY <1>1 DEF TypeOK, ObjectRecord
    <3>. QED
      BY <3>1, <1>1, ObjectRecordFields DEF TypeOK
  <2>9. TargetsAreInRange'
    BY <1>1 DEF TargetsAreInRange, TypeOK, ObjectRecord
  <2>10. /\ \A f \in Events :
              /\ events'[f].signaled = events[f].signaled
              /\ events'[f].live = events[f].live
              /\ f # e => events'[f].waiters = events[f].waiters
         /\ events'[e].waiters = Append(w, r)
    BY DEF TypeOK, EventRecord
  <2>11. ListedRecordsAreLinked'
    <3> SUFFICES ASSUME NEW f \in Events, NEW j \in 1 .. Len(events'[f].waiters)
                 PROVE  /\ records'[events'[f].waiters[j]].linked
                        /\ records'[events'[f].waiters[j]].event = f
                        /\ records'[events'[f].waiters[j]].index = j
      BY DEF ListedRecordsAreLinked
    <3>1. CASE f = e /\ j = Len(w) + 1
      <4>1. events'[f].waiters[j] = r
        BY <3>1, <2>10, <1>1
      <4>. QED
        BY <4>1, <3>1 DEF TypeOK
    <3>2. CASE ~(f = e /\ j = Len(w) + 1)
      <4>1. /\ j \in 1 .. Len(events[f].waiters)
            /\ events'[f].waiters[j] = events[f].waiters[j]
            /\ events[f].waiters[j] \in Records
        BY <3>2, <2>10, <2>6, <1>1 DEF TypeOK, EventRecord
      <4>2. /\ records[events[f].waiters[j]].linked
            /\ records[events[f].waiters[j]].event = f
            /\ records[events[f].waiters[j]].index = j
        BY <4>1 DEF ListedRecordsAreLinked
      <4>3. events[f].waiters[j] # r
        BY <4>2, <2>1
      <4>. QED
        BY <4>1, <4>2, <4>3 DEF TypeOK
    <3>. QED BY <3>1, <3>2
  <2>12. LinkedRecordsAreListed'
    <3> SUFFICES ASSUME NEW k \in Records, records'[k].linked
                 PROVE  /\ records'[k].active
                        /\ records'[k].completion = "FAILED"
                        /\ records'[k].thread \in Threads
                        /\ records'[k].event \in Events
                        /\ events'[records'[k].event].live
                        /\ records'[k].index
                             \in 1 .. Len(events'[records'[k].event].waiters)
                        /\ events'[records'[k].event].waiters[records'[k].index] = k
      BY DEF LinkedRecordsAreListed
    <3>1. CASE k = r
      <4>1. records'[k] = rec
        BY <3>1 DEF TypeOK
      <4>2. Len(w) + 1 \in 1 .. Len(Append(w, r)) /\ Append(w, r)[Len(w) + 1] = r
        BY <1>1
      <4>. QED
        BY <4>1, <4>2, <3>1, <2>10 DEF TypeOK
    <3>2. CASE k # r
      <4>1. records'[k] = records[k]
        BY <3>2 DEF TypeOK
      <4>2. /\ records[k].active /\ records[k].completion = "FAILED"
            /\ records[k].thread \in Threads
            /\ records[k].event \in Events /\ events[records[k].event].live
            /\ records[k].index \in 1 .. Len(events[records[k].event].waiters)
            /\ events[records[k].event].waiters[records[k].index] = k
        BY <4>1 DEF LinkedRecordsAreListed
      <4>3. /\ records[k].index \in 1 .. Len(events'[records[k].event].waiters)
            /\ events'[records[k].event].waiters[records[k].index] = k
        BY <4>2, <2>10, <2>6, <1>1
      <4>. QED
        BY <4>1, <4>2, <4>3, <2>10
    <3>. QED BY <3>1, <3>2
  <2>13. runq' \in Seq(Threads) /\ activeWaits' \in Nat
    BY RemoveRunnableType DEF TypeOK
  <2>. QED
    BY <2>3, <2>5, <2>7, <2>8, <2>9, <2>10, <2>11, <2>12, <2>13 DEF TypeOK
<1>. QED
  BY <1>2, <1>3 DEF BlockOn

-----------------------------------------------------------------------------
(* Every step preserves WaitInv.                                           *)

LEMMA WaitInvInit == Init => WaitInv
<1> SUFFICES ASSUME Init PROVE WaitInv
  OBVIOUS
<1> USE DEF Init
<1>1. TypeOK
  <2>1. BootObjects \in [Objects -> ObjectRecord]
    <3>1. NewObject("THREAD", 1, Boot) \in ObjectRecord
      <4>1. "THREAD" \in ObjectTypes /\ Boot \in Int /\ 1 \in Generations
        BY ConstantFacts DEF ObjectTypes, Boot
      <4>. QED BY <4>1, EmptySlotTypes
    <3>2. [NewObject("THREAD", 1, Boot) EXCEPT !.pub = 0] \in ObjectRecord
      <4>1. 0 \in 0 .. 1
        OBVIOUS
      <4>. QED
        BY <4>1, <3>1, ObjectRecordFields
    <3>. QED
      BY <3>2, ConstantFacts, EmptySlotTypes DEF BootObjects
  <2>2. /\ BootThreads \in [Threads -> ThreadRecord]
        /\ NoEvents \in [Events -> EventRecord]
        /\ NoRecords \in [Records -> WaitRecord]
    BY EmptySlotTypes DEF BootThreads, NoEvents, NoRecords
  <2>. QED
    BY <2>1, <2>2, ConstantFacts, EmptySlotTypes DEF TypeOK
<1>2. TargetsAreInRange
  BY ConstantFacts DEF TargetsAreInRange, BootObjects, NewObject, FreeObject
<1>3. ListedRecordsAreLinked /\ LinkedRecordsAreListed
  BY DEF ListedRecordsAreLinked, LinkedRecordsAreListed, NoEvents, EmptyEvent,
         NoRecords, EmptyRecord
<1>4. LoopTargetIsLive /\ NoLostWakeup
  BY DEF LoopTargetIsLive, NoLostWakeup, Idle, NoEvents, EmptyEvent
<1>. QED
  BY <1>1, <1>2, <1>3, <1>4 DEF WaitInv

\* A call that touches neither events nor wait records, made outside a loop.
LEMMA CallOutsideWaits ==
  ASSUME WaitInv, loop = Idle, UNCHANGED <<events, records>>,
         loop'.op \in {"idle", "poll"}, TypeOK', TargetsAreInRange'
  PROVE  WaitInv'
<1>1. ListedRecordsAreLinked' /\ LinkedRecordsAreListed'
  BY QuietStepKeepsLists DEF WaitInv
<1>2. LoopTargetIsLive'
  BY DEF LoopTargetIsLive
<1>3. NoLostWakeup'
  BY DEF WaitInv, NoLostWakeup, Idle
<1>. QED
  BY <1>1, <1>2, <1>3 DEF WaitInv

\* An action that only switches threads: Yield and Terminate.
LEMMA WaitInvSwitch ==
  ASSUME WaitInv, Yield \/ Terminate PROVE WaitInv'
<1> USE DEF WaitInv
<1>1. CASE Yield
  <2> DEFINE ts == [threads EXCEPT ![current] =
                      [@ EXCEPT !.state = "RUNNABLE", !.queued = TRUE]]
  <2>1. ts \in [Threads -> ThreadRecord]
    BY ThreadRecordFields DEF TypeOK, ThreadStates
  <2>2. PICK t \in Threads : /\ threads' = Dispatched(ts, t)
                             /\ runq' = RemoveRunnable(Append(runq, current), t)
                             /\ current' = t
    BY <1>1 DEF Yield
  <2>3. threads' \in [Threads -> ThreadRecord]
    BY <2>1, <2>2, ThreadRecordFields DEF Dispatched, ThreadStates
  <2>4. runq' \in Seq(Threads)
    <3>1. Append(runq, current) \in Seq(Threads)
      BY DEF TypeOK
    <3>. QED
      BY <3>1, <2>2, RemoveRunnableType
  <2>5. TypeOK' /\ TargetsAreInRange'
    BY <1>1, <2>2, <2>3, <2>4 DEF Yield, TypeOK, TargetsAreInRange
  <2>. QED
    BY <1>1, <2>5, CallOutsideWaits DEF Yield, Running, Idle
<1>2. CASE Terminate
  <2> DEFINE ts == [threads EXCEPT ![current] =
                 [@ EXCEPT !.state = "TERMINATED", !.deferred = TRUE, !.exec = 0]]
  <2>1. ts \in [Threads -> ThreadRecord]
    <3>1. 0 \in 0 .. 1 /\ "TERMINATED" \in ThreadStates /\ TRUE \in BOOLEAN
      BY DEF ThreadStates
    <3>2. [threads[current] EXCEPT !.state = "TERMINATED", !.deferred = TRUE,
                                   !.exec = 0] \in ThreadRecord
      BY <3>1, ThreadRecordFields DEF TypeOK
    <3>. QED BY <3>2 DEF TypeOK
  <2>2. /\ threads' \in [Threads -> ThreadRecord]
        /\ runq' \in Seq(Threads)
        /\ current' \in Threads
        /\ mode' \in {"up", "down", "halted"}
    <3>1. CASE threads' = ts /\ mode' = "halted" /\ UNCHANGED <<runq, current>>
      BY <3>1, <2>1 DEF TypeOK
    <3>2. CASE \E t \in Threads : /\ threads' = Dispatched(ts, t)
                                  /\ runq' = RemoveRunnable(runq, t)
                                  /\ current' = t
                                  /\ UNCHANGED mode
      <4>1. PICK t \in Threads : /\ threads' = Dispatched(ts, t)
                                 /\ runq' = RemoveRunnable(runq, t)
                                 /\ current' = t
                                 /\ UNCHANGED mode
        BY <3>2
      <4>2. threads' \in [Threads -> ThreadRecord]
        BY <4>1, <2>1, ThreadRecordFields DEF Dispatched, ThreadStates
      <4>. QED
        BY <4>1, <4>2, RemoveRunnableType DEF TypeOK
    <3>. QED
      BY <1>2, <3>1, <3>2 DEF Terminate
  <2>3. TypeOK' /\ TargetsAreInRange'
    BY <1>2, <2>2 DEF Terminate, TypeOK, TargetsAreInRange
  <2>. QED
    BY <1>2, <2>3, CallOutsideWaits DEF Terminate, Running, Idle
<1>. QED
  BY <1>1, <1>2

\* Releasing threads keeps the types of both tables and the object targets.
LEMMA ReleaseTypes ==
  ASSUME NEW os \in [Objects -> ObjectRecord], NEW ts \in [Threads -> ThreadRecord],
         NEW T \in SUBSET Threads,
         \A o \in Objects :
           /\ os[o].type = "THREAD" => os[o].target \in Threads
           /\ os[o].type = "EVENT" => os[o].target \in Events
  PROVE  /\ Released(os, ts, T) \in [Objects -> ObjectRecord]
         /\ Zeroed(ts, T) \in [Threads -> ThreadRecord]
         /\ \A o \in Objects :
              /\ Released(os, ts, T)[o].type = "THREAD" =>
                   Released(os, ts, T)[o].target \in Threads
              /\ Released(os, ts, T)[o].type = "EVENT" =>
                   Released(os, ts, T)[o].target \in Events
<1>1. \A o \in Objects : FreeObject(os[o].generation) \in ObjectRecord
  BY EmptySlotTypes DEF ObjectRecord
<1>2. \A o \in Objects : FreeObject(os[o].generation).type = "FREE"
  BY DEF FreeObject
<1>. QED
  BY <1>1, <1>2, EmptySlotTypes DEF Released, Zeroed

\* Actions on the object and thread tables.
LEMMA WaitInvTables ==
  ASSUME WaitInv,
         \/ \E type \in Singletons : CreateSingleton(type)
         \/ \E allocated \in BOOLEAN : CreateSuspendedThread(allocated)
         \/ \E h \in Handles : ResumeThread(h) \/ CloseHandle(h)
         \/ \E T \in SUBSET Threads : Collect(T)
         \/ \E t \in Threads : DiscardCreatedThread(t)
         \/ Teardown
  PROVE  WaitInv'
<1> USE DEF WaitInv
<1>1. ASSUME NEW type \in Singletons, CreateSingleton(type) PROVE WaitInv'
  <2>1. PICK o \in Objects : objects' = [objects EXCEPT ![o] =
               NewObject(type, NextGeneration(objects[o].generation), None)]
    BY <1>1 DEF CreateSingleton
  <2>2. /\ type \in ObjectTypes \ {"THREAD", "EVENT"} /\ None \in Int
        /\ NextGeneration(objects[o].generation) \in Generations
    BY BoundsAssumption, NextGenerationType DEF ObjectTypes, None, TypeOK, ObjectRecord
  <2>3. /\ NewObject(type, NextGeneration(objects[o].generation), None) \in ObjectRecord
        /\ NewObject(type, NextGeneration(objects[o].generation), None).type = type
    BY <2>2, EmptySlotTypes DEF NewObject
  <2>4. TypeOK' /\ TargetsAreInRange'
    BY <1>1, <2>1, <2>2, <2>3 DEF CreateSingleton, TypeOK, TargetsAreInRange
  <2>. QED
    BY <1>1, <2>4, CallOutsideWaits DEF CreateSingleton, Running, Idle
<1>2. ASSUME NEW ok \in BOOLEAN, CreateSuspendedThread(ok) PROVE WaitInv'
  <2>1. PICK t \in Threads, o \in Objects :
          LET g == NextGeneration(objects[o].generation) IN
            /\ objects' = [objects EXCEPT ![o] =
                 IF ok THEN NewObject("THREAD", g, t) ELSE FreeObject(g)]
            /\ threads' = [threads EXCEPT ![t] =
                 IF ok THEN NewThread(o, g) ELSE EmptyThread]
    BY <1>2 DEF CreateSuspendedThread
  <2> DEFINE g == NextGeneration(objects[o].generation)
  <2>2. g \in Generations
    BY NextGenerationType DEF TypeOK, ObjectRecord
  <2>3. /\ NewObject("THREAD", g, t) \in ObjectRecord
        /\ FreeObject(g) \in ObjectRecord
        /\ NewThread(o, g) \in ThreadRecord
        /\ EmptyThread \in ThreadRecord
    <3>1. "THREAD" \in ObjectTypes /\ t \in Int
      BY ConstantFacts DEF ObjectTypes
    <3>. QED
      BY <2>2, <3>1, EmptySlotTypes
  <2>4. /\ NewObject("THREAD", g, t).type = "THREAD"
        /\ NewObject("THREAD", g, t).target = t
        /\ FreeObject(g).type = "FREE"
    BY DEF NewObject, FreeObject
  <2>5. /\ objects' \in [Objects -> ObjectRecord]
        /\ threads' \in [Threads -> ThreadRecord]
        /\ TargetsAreInRange'
    BY <2>1, <2>3, <2>4 DEF TypeOK, TargetsAreInRange
  <2>6. TypeOK'
    BY <1>2, <2>5 DEF CreateSuspendedThread, TypeOK
  <2>. QED
    BY <1>2, <2>5, <2>6, CallOutsideWaits DEF CreateSuspendedThread, Running, Idle
<1>3. ASSUME NEW h \in Handles, ResumeThread(h) PROVE WaitInv'
  <2>1. Target(h) \in Threads
    BY <1>3 DEF ResumeThread, Resolves, Target, TargetsAreInRange, Handles
  <2>2. threads' \in [Threads -> ThreadRecord]
    <3>1. 0 \in 0 .. 1 /\ "RUNNABLE" \in ThreadStates /\ TRUE \in BOOLEAN
      BY DEF ThreadStates
    <3>. QED
      BY <1>3, <2>1, <3>1, ThreadRecordFields DEF ResumeThread, TypeOK
  <2>3. runq' \in Seq(Threads)
    <3>1. runq' = Append(runq, Target(h))
      BY <1>3 DEF ResumeThread
    <3>. QED BY <2>1, <3>1 DEF TypeOK
  <2>4. /\ UNCHANGED <<objects, events, records, current, activeWaits, now, loop, mode>>
        /\ Running
    BY <1>3 DEF ResumeThread
  <2>5. TypeOK' /\ TargetsAreInRange'
    BY <2>2, <2>3, <2>4 DEF TypeOK, TargetsAreInRange
  <2>. QED
    BY <2>4, <2>5, CallOutsideWaits DEF Running, Idle
<1>4. ASSUME NEW h \in Handles, CloseHandle(h) PROVE WaitInv'
  <2> DEFINE os == [objects EXCEPT ![h.slot] =
                      [@ EXCEPT !.pub = objects[h.slot].pub - 1, !.closed = TRUE]]
             t == Target(h)
             ts == [threads EXCEPT ![t].pub =
                      IF threads[t].pub # 0 THEN threads[t].pub - 1 ELSE 0]
             T == {u \in {t} : Reclaimable(ts, u)}
  <2>1. h.slot \in Objects
    BY DEF Handles
  <2>2. /\ os \in [Objects -> ObjectRecord]
        /\ \A o \in Objects : os[o].type = objects[o].type
                              /\ os[o].target = objects[o].target
    <3>1. objects[h.slot].pub - 1 \in 0 .. 1 /\ TRUE \in BOOLEAN
      <4>1. objects[h.slot].pub \in 0 .. 1
        BY <2>1 DEF TypeOK, ObjectRecord
      <4>2. objects[h.slot].pub # 0
        BY <1>4 DEF CloseHandle
      <4>. QED BY <4>1, <4>2
    <3>2. os \in [Objects -> ObjectRecord]
      BY <2>1, <3>1, ObjectRecordFields DEF TypeOK
    <3>3. \A o \in Objects : os[o].type = objects[o].type
                             /\ os[o].target = objects[o].target
      BY <2>1 DEF TypeOK, ObjectRecord
    <3>. QED BY <3>2, <3>3
  <2>3. \A o \in Objects :
           /\ os[o].type = "THREAD" => os[o].target \in Threads
           /\ os[o].type = "EVENT" => os[o].target \in Events
    BY <2>2 DEF TargetsAreInRange
  <2>4. CASE h.type = "EVENT"
    <3>1. objects' = os /\ UNCHANGED threads
      BY <1>4, <2>4 DEF CloseHandle
    <3>2. TypeOK' /\ TargetsAreInRange'
      BY <1>4, <2>2, <2>3, <3>1 DEF CloseHandle, TypeOK, TargetsAreInRange
    <3>. QED
      BY <1>4, <3>2, CallOutsideWaits DEF CloseHandle, Running, Idle
  <2>5. CASE h.type # "EVENT"
    <3>1. objects' = Released(os, ts, T) /\ threads' = Zeroed(ts, T)
      BY <1>4, <2>5 DEF CloseHandle
    <3>2. t \in Threads
      BY <1>4, <2>1, <2>5 DEF CloseHandle, Resolves, Target, TargetsAreInRange
    <3>3. ts \in [Threads -> ThreadRecord]
      <4>1. (IF threads[t].pub # 0 THEN threads[t].pub - 1 ELSE 0) \in 0 .. 1
        BY <3>2 DEF TypeOK, ThreadRecord
      <4>. QED
        BY <4>1, <3>2, ThreadRecordFields DEF TypeOK
    <3>4. T \in SUBSET Threads
      BY <3>2
    <3> HIDE DEF os, ts, T
    <3>5. /\ objects' \in [Objects -> ObjectRecord]
          /\ threads' \in [Threads -> ThreadRecord]
          /\ TargetsAreInRange'
      BY <2>2, <2>3, <3>1, <3>3, <3>4, ReleaseTypes DEF TargetsAreInRange
    <3>6. TypeOK'
      BY <1>4, <3>5 DEF CloseHandle, TypeOK
    <3>. QED
      BY <1>4, <3>5, <3>6, CallOutsideWaits DEF CloseHandle, Running, Idle
  <2>. QED BY <2>4, <2>5
<1>5. ASSUME NEW T \in SUBSET Threads, Collect(T) PROVE WaitInv'
  <2>1. /\ objects' \in [Objects -> ObjectRecord]
        /\ threads' \in [Threads -> ThreadRecord]
        /\ TargetsAreInRange'
    BY <1>5, ReleaseTypes DEF Collect, TypeOK, TargetsAreInRange
  <2>2. TypeOK'
    BY <1>5, <2>1 DEF Collect, TypeOK
  <2>. QED
    BY <1>5, <2>1, <2>2, CallOutsideWaits DEF Collect, Running, Idle
<1>6. ASSUME NEW t \in Threads, DiscardCreatedThread(t) PROVE WaitInv'
  <2> DEFINE ts == [threads EXCEPT ![t] =
                 [@ EXCEPT !.state = "TERMINATED", !.exec = 0, !.queued = FALSE]]
             T == {u \in {t} : Reclaimable(ts, u)}
  <2>1. ts \in [Threads -> ThreadRecord]
    <3>1. 0 \in 0 .. 1 /\ "TERMINATED" \in ThreadStates /\ FALSE \in BOOLEAN
      BY DEF ThreadStates
    <3>. QED
      BY <3>1, ThreadRecordFields DEF TypeOK
  <2>2. objects' = Released(objects, ts, T) /\ threads' = Zeroed(ts, T)
    BY <1>6 DEF DiscardCreatedThread
  <2>3. T \in SUBSET Threads
    OBVIOUS
  <2> HIDE DEF ts, T
  <2>4. /\ objects' \in [Objects -> ObjectRecord]
        /\ threads' \in [Threads -> ThreadRecord]
        /\ TargetsAreInRange'
    BY <2>1, <2>2, <2>3, ReleaseTypes DEF TypeOK, TargetsAreInRange
  <2>5. runq' \in Seq(Threads)
    BY <1>6, RemoveRunnableType DEF DiscardCreatedThread, TypeOK
  <2>6. TypeOK'
    BY <1>6, <2>4, <2>5 DEF DiscardCreatedThread, TypeOK
  <2>. QED
    BY <1>6, <2>4, <2>6, CallOutsideWaits DEF DiscardCreatedThread, Running, Idle
<1>7. ASSUME Teardown PROVE WaitInv'
  <2> DEFINE T == {t \in Threads : Reclaimable(threads, t)} \cup {Boot}
             R == Released(objects, threads, T)
  <2>1. T \in SUBSET Threads
    BY ConstantFacts
  <2>2. /\ threads' = Zeroed(threads, T)
        /\ objects' = [o \in Objects |->
             IF objects[o].type = "STREAM" THEN FreeObject(objects[o].generation)
             ELSE R[o]]
    BY <1>7 DEF Teardown
  <2>3. \A o \in Objects : /\ FreeObject(objects[o].generation) \in ObjectRecord
                           /\ FreeObject(objects[o].generation).type = "FREE"
    BY EmptySlotTypes DEF FreeObject, TypeOK, ObjectRecord
  <2> HIDE DEF T
  <2>4. /\ R \in [Objects -> ObjectRecord]
        /\ threads' \in [Threads -> ThreadRecord]
        /\ \A o \in Objects :
             /\ R[o].type = "THREAD" => R[o].target \in Threads
             /\ R[o].type = "EVENT" => R[o].target \in Events
    BY <2>1, <2>2, ReleaseTypes DEF TypeOK, TargetsAreInRange
  <2> HIDE DEF R
  <2>5. objects' \in [Objects -> ObjectRecord] /\ TargetsAreInRange'
    BY <2>2, <2>3, <2>4 DEF TargetsAreInRange
  <2>6. TypeOK'
    BY <1>7, <2>4, <2>5 DEF Teardown, TypeOK
  <2>. QED
    BY <1>7, <2>5, <2>6, CallOutsideWaits DEF Teardown, Running, Idle
<1>. QED
  BY <1>1, <1>2, <1>3, <1>4, <1>5, <1>6, <1>7

\* Event and record actions share what is left of WaitInv': the objects and
\* threads keep their types, and the loop is idle before and after.
LEMMA WaitInvEvents ==
  ASSUME WaitInv,
         \/ \E manual, signaled \in BOOLEAN : CreateEvent(manual, signaled)
         \/ \E h \in Handles : TryDestroyEvent(h) \/ ResetEvent(h) \/ WaitSignaled(h)
  PROVE  WaitInv'
<1> USE DEF WaitInv
<1>1. ASSUME NEW m \in BOOLEAN, NEW sg \in BOOLEAN, CreateEvent(m, sg) PROVE WaitInv'
  <2>1. PICK e \in Events, o \in Objects :
          /\ IsLowest(FreeEvents, e)
          /\ LET g == NextGeneration(objects[o].generation) IN
               /\ objects' = [objects EXCEPT ![o] = NewObject("EVENT", g, e)]
               /\ events' = [events EXCEPT ![e] =
                    [EmptyEvent EXCEPT !.live = TRUE, !.manual = m,
                       !.signaled = sg, !.generation = g, !.slot = o]]
    BY <1>1 DEF CreateEvent
  <2> DEFINE g == NextGeneration(objects[o].generation)
             ev == [EmptyEvent EXCEPT !.live = TRUE, !.manual = m,
                       !.signaled = sg, !.generation = g, !.slot = o]
  <2>2. g \in Generations
    BY NextGenerationType DEF TypeOK, ObjectRecord
  <2>3. ev \in EventRecord
    BY <2>2, EmptySlotTypes, EventRecordFields
  <2>4. /\ NewObject("EVENT", g, e) \in ObjectRecord
        /\ NewObject("EVENT", g, e).type = "EVENT"
        /\ NewObject("EVENT", g, e).target = e
    <3>1. "EVENT" \in ObjectTypes /\ e \in Int
      BY ConstantFacts DEF ObjectTypes
    <3>. QED
      BY <3>1, <2>2, EmptySlotTypes DEF NewObject
  <2>5. ev.waiters = <<>> /\ ev.live
    BY DEF EmptyEvent
  <2>6. ~events[e].live /\ events[e].waiters = <<>>
    BY <2>1, DeadEventsHaveNoWaiters DEF IsLowest, FreeEvents
  <2> HIDE DEF ev, g
  <2>7. /\ objects' = [objects EXCEPT ![o] = NewObject("EVENT", g, e)]
        /\ events' = [events EXCEPT ![e] = ev]
        /\ UNCHANGED <<threads, records, runq, current, activeWaits, now, loop, mode>>
        /\ Running
    BY <1>1, <2>1 DEF CreateEvent, ev, g
  <2>8. TypeOK'
    BY <2>3, <2>4, <2>7 DEF TypeOK
  <2>9. TargetsAreInRange'
    BY <2>4, <2>7 DEF TypeOK, TargetsAreInRange
  <2>10. \A f \in Events : /\ events'[f].waiters = events[f].waiters
                           /\ events[f].live => events'[f].live
    BY <2>5, <2>6, <2>7 DEF TypeOK
  <2>11. ListedRecordsAreLinked' /\ LinkedRecordsAreListed'
    BY <2>7, <2>10, QuietStepKeepsLists
  <2>12. LoopTargetIsLive'
    BY <2>7 DEF LoopTargetIsLive, Running, Idle
  <2>13. NoLostWakeup'
    <3> SUFFICES ASSUME NEW f \in Events, events'[f].signaled,
                        events'[f].waiters # <<>>
                 PROVE  FALSE
      BY DEF NoLostWakeup
    <3>1. f # e
      BY <2>6, <2>10
    <3>2. events'[f] = events[f]
      BY <3>1, <2>7 DEF TypeOK
    <3>. QED
      BY <3>2, <2>7 DEF NoLostWakeup, Running, Idle
  <2>. QED BY <2>8, <2>9, <2>11, <2>12, <2>13
<1>2. ASSUME NEW h \in Handles, TryDestroyEvent(h) PROVE WaitInv'
  <2> DEFINE e == Target(h)
  <2>1. /\ h.slot \in Objects /\ e \in Events /\ events[e].waiters = <<>>
        /\ events' = [events EXCEPT ![e].live = FALSE]
        /\ objects' = [objects EXCEPT ![h.slot] =
                         FreeObject(objects[h.slot].generation)]
        /\ UNCHANGED <<threads, records, runq, current, activeWaits, now, loop, mode>>
        /\ Running
    BY <1>2 DEF TryDestroyEvent, Resolves, Target, TargetsAreInRange, Handles
  <2>2. /\ FreeObject(objects[h.slot].generation) \in ObjectRecord
        /\ FreeObject(objects[h.slot].generation).type = "FREE"
    BY <2>1, EmptySlotTypes DEF TypeOK, ObjectRecord, FreeObject
  <2> HIDE DEF e
  <2>3. TypeOK'
    BY <2>1, <2>2, EventRecordFields DEF TypeOK
  <2>4. TargetsAreInRange'
    BY <2>1, <2>2 DEF TypeOK, TargetsAreInRange
  <2>5. \A f \in Events : /\ events'[f].waiters = events[f].waiters
                          /\ events'[f].signaled = events[f].signaled
                          /\ events[f].live /\ events[f].waiters # <<>> =>
                               events'[f].live
    BY <2>1 DEF TypeOK, EventRecord
  <2>6. ListedRecordsAreLinked' /\ LinkedRecordsAreListed'
    BY <2>1, <2>5, QuietStepKeepsLists
  <2>7. LoopTargetIsLive' /\ NoLostWakeup'
    BY <2>1, <2>5 DEF LoopTargetIsLive, NoLostWakeup, Running, Idle
  <2>. QED BY <2>3, <2>4, <2>6, <2>7
<1>3. ASSUME NEW h \in Handles, ResetEvent(h) \/ WaitSignaled(h) PROVE WaitInv'
  <2> DEFINE e == Target(h)
  <2>1. PICK b \in BOOLEAN :
          /\ e \in Events /\ (b => events[e].signaled)
          /\ events' = [events EXCEPT ![e].signaled = b]
          /\ UNCHANGED <<objects, threads, records, runq, current, activeWaits,
                         now, loop, mode>>
          /\ Running
    <3>1. Target(h) \in Events
      BY <1>3 DEF ResetEvent, WaitSignaled, LiveEvent, OpenEvent, Resolves, Target,
                  TargetsAreInRange, Handles
    <3>2. events[Target(h)].manual \in BOOLEAN
      BY <3>1 DEF TypeOK, EventRecord
    <3>. QED
      BY <1>3, <3>1, <3>2 DEF ResetEvent, WaitSignaled
  <2> HIDE DEF e
  <2>2. TypeOK' /\ TargetsAreInRange'
    BY <2>1, EventRecordFields DEF TypeOK, TargetsAreInRange
  <2>3. \A f \in Events : /\ events'[f].waiters = events[f].waiters
                          /\ events'[f].live = events[f].live
                          /\ events'[f].signaled => events[f].signaled
    BY <2>1 DEF TypeOK, EventRecord
  <2>4. ListedRecordsAreLinked' /\ LinkedRecordsAreListed'
    BY <2>1, <2>3, QuietStepKeepsLists
  <2>5. LoopTargetIsLive' /\ NoLostWakeup'
    BY <2>1, <2>3 DEF LoopTargetIsLive, NoLostWakeup, Running, Idle
  <2>. QED BY <2>2, <2>4, <2>5
<1>. QED
  BY <1>1, <1>2, <1>3

\* Waking a waiter of event e inside or outside a loop.
LEMMA WakeKeepsWaitInv ==
  ASSUME WaitInv,
         NEW e \in Events, NEW i \in 1 .. Len(events[e].waiters),
         NEW c \in {"OBJECT_0", "TIMEOUT"}, NEW res \in WaitResults,
         NEW sig \in BOOLEAN, sig => events[e].signaled,
         CompleteWaiter(e, i, c, res),
         events' = WithoutWaiter(e, i, sig),
         loop' \in LoopRecord, loop'.op = loop.op, loop'.event = loop.event,
         UNCHANGED <<objects, current, activeWaits, now, mode>>
  PROVE  WaitInv'
<1> USE DEF WaitInv
<1>1. /\ records' \in [Records -> WaitRecord]
      /\ threads' \in [Threads -> ThreadRecord]
      /\ runq' \in Seq(Threads)
      /\ events' \in [Events -> EventRecord]
      /\ ListedRecordsAreLinked'
      /\ LinkedRecordsAreListed'
  BY CompleteWaiterKeepsLists
<1>2. TypeOK' /\ TargetsAreInRange'
  BY <1>1 DEF TypeOK, TargetsAreInRange
<1>3. /\ \A f \in Events \ {e} : events'[f] = events[f]
      /\ events'[e].live = events[e].live
      /\ events'[e].signaled = sig
  BY DEF WithoutWaiter, TypeOK, EventRecord
<1>4. events[e].waiters # <<>>
  BY DEF TypeOK, EventRecord
<1>5. LoopTargetIsLive'
  BY <1>3 DEF LoopTargetIsLive
<1>6. NoLostWakeup'
  BY <1>3, <1>4 DEF NoLostWakeup
<1>. QED BY <1>1, <1>2, <1>5, <1>6

LEMMA WaitInvSignals ==
  ASSUME WaitInv, (\E h \in Handles : SignalEvent(h) \/ SetEvent(h)) \/ WakeNext
  PROVE  WaitInv'
<1> USE DEF WaitInv
<1>1. ASSUME NEW h \in Handles, SignalEvent(h) PROVE WaitInv'
  <2> DEFINE e == Target(h)
  <2>1. e \in Events /\ events[e].live
    BY <1>1 DEF SignalEvent, LiveEvent, Resolves, Target, TargetsAreInRange, Handles
  <2>2. CASE /\ ~events[e].manual
             /\ events[e].waiters # <<>>
             /\ CompleteWaiter(e, 1, "OBJECT_0", "SIGNALED")
             /\ events' = WithoutWaiter(e, 1, FALSE)
             /\ UNCHANGED loop
    <3>1. 1 \in 1 .. Len(events[e].waiters)
      BY <2>1, <2>2 DEF TypeOK, EventRecord
    <3>2. "SIGNALED" \in WaitResults /\ FALSE \in BOOLEAN
      BY DEF WaitResults
    <3>3. loop' \in LoopRecord /\ loop'.op = loop.op /\ loop'.event = loop.event
      BY <2>2 DEF TypeOK
    <3>4. UNCHANGED <<objects, current, activeWaits, now, mode>>
      BY <1>1 DEF SignalEvent
    <3> HIDE DEF e
    <3>. QED
      BY <2>1, <2>2, <3>1, <3>2, <3>3, <3>4, WakeKeepsWaitInv
  <2>3. CASE /\ events' = [events EXCEPT ![e].signaled = TRUE]
             /\ \/ loop' = [Idle EXCEPT !.op = "wake", !.event = e]
                \/ events[e].waiters = <<>> /\ UNCHANGED loop
             /\ UNCHANGED <<threads, records, runq>>
    <3>1. Running /\ UNCHANGED <<objects, current, activeWaits, now, mode>>
      BY <1>1 DEF SignalEvent
    <3> HIDE DEF e
    <3>2. loop' \in LoopRecord
      <4>1. e \in Events \cup {None}
        BY <2>1
      <4>2. [Idle EXCEPT !.op = "wake", !.event = e] \in LoopRecord
        BY <4>1, EmptySlotTypes DEF Idle, LoopRecord
      <4>. QED
        BY <4>2, <2>3 DEF TypeOK
    <3>3. TypeOK' /\ TargetsAreInRange'
      BY <2>1, <2>3, <3>1, <3>2, EventRecordFields DEF TypeOK, TargetsAreInRange
    <3>4. \A f \in Events : /\ events'[f].waiters = events[f].waiters
                            /\ events'[f].live = events[f].live
                            /\ f # e => events'[f].signaled = events[f].signaled
      BY <2>1, <2>3 DEF TypeOK, EventRecord
    <3>5. ListedRecordsAreLinked' /\ LinkedRecordsAreListed'
      BY <2>3, <3>4, QuietStepKeepsLists
    <3>6. CASE loop' = [Idle EXCEPT !.op = "wake", !.event = e]
      <4>1. loop'.op = "wake" /\ loop'.event = e
        BY <3>6 DEF Idle
      <4>2. LoopTargetIsLive'
        BY <4>1, <2>1, <3>4 DEF LoopTargetIsLive
      <4>3. loop.op = "idle"
        BY <3>1 DEF Running, Idle
      <4>4. NoLostWakeup'
        BY <4>1, <4>3, <3>4 DEF NoLostWakeup
      <4>. QED BY <3>3, <3>5, <4>2, <4>4
    <3>7. CASE events[e].waiters = <<>> /\ UNCHANGED loop
      <4>1. loop.op = "idle"
        BY <3>1 DEF Running, Idle
      <4>2. LoopTargetIsLive'
        BY <4>1, <3>7 DEF LoopTargetIsLive
      <4>3. NoLostWakeup'
        BY <4>1, <3>7, <3>4 DEF NoLostWakeup
      <4>. QED BY <3>3, <3>5, <4>2, <4>3
    <3>. QED BY <2>3, <3>6, <3>7
  <2>. QED
    BY <1>1, <2>2, <2>3 DEF SignalEvent
<1>2. ASSUME WakeNext PROVE WaitInv'
  <2> DEFINE e == loop.event
  <2>1. loop.op = "wake" /\ e \in Events /\ events[e].live
    BY <1>2 DEF WakeNext, LoopTargetIsLive
  <2>2. CASE /\ events[e].waiters # <<>>
             /\ CompleteWaiter(e, 1, "OBJECT_0", "SIGNALED")
             /\ events' = WithoutWaiter(e, 1, events[e].signaled)
             /\ UNCHANGED loop
    <3>1. 1 \in 1 .. Len(events[e].waiters) /\ events[e].signaled \in BOOLEAN
      BY <2>1, <2>2 DEF TypeOK, EventRecord
    <3>2. "SIGNALED" \in WaitResults
      BY DEF WaitResults
    <3>3. loop' \in LoopRecord /\ loop'.op = loop.op /\ loop'.event = loop.event
      BY <2>2 DEF TypeOK
    <3>4. UNCHANGED <<objects, current, activeWaits, now, mode>>
      BY <1>2 DEF WakeNext
    <3> HIDE DEF e
    <3>. QED
      BY <2>1, <2>2, <3>1, <3>2, <3>3, <3>4, WakeKeepsWaitInv
  <2>3. CASE /\ events[e].waiters = <<>>
             /\ loop' = Idle
             /\ UNCHANGED <<events, threads, records, runq>>
    <3>1. UNCHANGED <<objects, current, activeWaits, now, mode>>
      BY <1>2 DEF WakeNext
    <3>2. TypeOK' /\ TargetsAreInRange'
      BY <2>3, <3>1, EmptySlotTypes DEF TypeOK, TargetsAreInRange
    <3>3. ListedRecordsAreLinked' /\ LinkedRecordsAreListed'
      BY <2>3, QuietStepKeepsLists
    <3>4. LoopTargetIsLive' /\ NoLostWakeup'
      BY <2>1, <2>3 DEF LoopTargetIsLive, NoLostWakeup, Idle
    <3>. QED BY <3>2, <3>3, <3>4
  <2>. QED
    BY <1>2, <2>2, <2>3 DEF WakeNext
<1>. QED
  BY <1>1, <1>2 DEF SetEvent

LEMMA WaitInvWaits ==
  ASSUME WaitInv,
         \/ \E h \in Handles : WaitInfinite(h)
         \/ \E h \in Handles, ms \in Timeouts : WaitFinite(h, ms)
         \/ PollTimeouts \/ ServiceNext \/ ServiceDone \/ FinishWait \/ Tick
         \/ Initialize
  PROVE  WaitInv'
<1> USE DEF WaitInv
\* Blocking on e; the loop is idle afterwards and was not a wake loop.
<1>1. ASSUME NEW e \in Events, events[e].live, ~events[e].signaled,
             NEW armed \in BOOLEAN, NEW d \in Time,
             BlockOn(e, armed, d), loop' = Idle, UNCHANGED now,
             loop.op # "wake"
      PROVE  WaitInv'
  <2>1. /\ objects' \in [Objects -> ObjectRecord]
        /\ threads' \in [Threads -> ThreadRecord]
        /\ events' \in [Events -> EventRecord]
        /\ records' \in [Records -> WaitRecord]
        /\ runq' \in Seq(Threads)
        /\ current' \in Threads
        /\ activeWaits' \in Nat
        /\ mode' \in {"up", "down", "halted"}
        /\ TargetsAreInRange'
        /\ ListedRecordsAreLinked'
        /\ LinkedRecordsAreListed'
        /\ \A f \in Events :
             /\ events'[f].signaled = events[f].signaled
             /\ events'[f].live = events[f].live
             /\ f # e => events'[f].waiters = events[f].waiters
    BY <1>1, BlockOnKeepsLists
  <2>2. TypeOK'
    BY <1>1, <2>1, EmptySlotTypes DEF TypeOK
  <2>3. LoopTargetIsLive'
    BY <1>1 DEF LoopTargetIsLive, Idle
  <2>4. NoLostWakeup'
    BY <1>1, <2>1 DEF NoLostWakeup
  <2>. QED BY <2>1, <2>2, <2>3, <2>4
<1>2. ASSUME NEW h \in Handles, WaitInfinite(h) PROVE WaitInv'
  <2>1. /\ Target(h) \in Events /\ events[Target(h)].live
        /\ ~events[Target(h)].signaled
        /\ loop' = Idle /\ UNCHANGED now /\ loop.op # "wake"
    BY <1>2 DEF WaitInfinite, OpenEvent, Resolves, Target, TargetsAreInRange, Handles,
                Running, Idle
  <2>2. BlockOn(Target(h), FALSE, 0)
    BY <1>2 DEF WaitInfinite
  <2>. QED
    BY <1>1, <2>1, <2>2, ConstantFacts
<1>3. ASSUME NEW h \in Handles, NEW ms \in Timeouts, WaitFinite(h, ms) PROVE WaitInv'
  <2>1. /\ Target(h) \in Events /\ events[Target(h)].live
        /\ ~events[Target(h)].signaled /\ Running
        /\ now' \in now .. ClockMax
        /\ loop' = [op |-> "pollwait", event |-> Target(h), index |-> 0,
                    time |-> now',
                    deadline |-> IF now > ClockMax - ms THEN ClockMax ELSE now + ms]
        /\ UNCHANGED <<objects, threads, events, records, runq, current,
                       activeWaits, mode>>
    BY <1>3 DEF WaitFinite, OpenEvent, Resolves, Target, TargetsAreInRange, Handles
  <2>2. /\ now \in Nat /\ now <= ClockMax /\ ms \in Nat /\ ClockMax \in Nat
        /\ MaxThreads \in Nat
    BY BoundsAssumption DEF TypeOK, Time
  <2>3. /\ now' \in Time
        /\ (IF now > ClockMax - ms THEN ClockMax ELSE now + ms) \in Time
        /\ 0 \in 0 .. MaxThreads
    BY <2>1, <2>2 DEF Time
  <2>4. loop' \in LoopRecord
    BY <2>1, <2>3 DEF LoopRecord
  <2>5. TypeOK' /\ TargetsAreInRange'
    BY <2>1, <2>3, <2>4 DEF TypeOK, TargetsAreInRange
  <2>6. ListedRecordsAreLinked' /\ LinkedRecordsAreListed'
    BY <2>1, QuietStepKeepsLists
  <2>7. LoopTargetIsLive' /\ NoLostWakeup'
    BY <2>1 DEF LoopTargetIsLive, NoLostWakeup, Running, Idle
  <2>. QED BY <2>5, <2>6, <2>7
<1>4. ASSUME PollTimeouts PROVE WaitInv'
  <2>1. loop' \in LoopRecord /\ loop'.op = "poll"
    <3>1. "poll" \in {"idle", "wake", "poll", "pollwait"} /\ now \in Time
      BY DEF TypeOK
    <3>2. loop' \in LoopRecord
      BY <1>4, <3>1, EmptySlotTypes, LoopRecordFields DEF PollTimeouts
    <3>3. loop'.op = "poll"
      BY <1>4 DEF PollTimeouts, Idle
    <3>. QED BY <3>2, <3>3
  <2>2. TypeOK' /\ TargetsAreInRange'
    BY <1>4, <2>1 DEF PollTimeouts, TypeOK, TargetsAreInRange
  <2>. QED
    BY <1>4, <2>1, <2>2, CallOutsideWaits DEF PollTimeouts, Running
<1>5. ASSUME ServiceNext PROVE WaitInv'
  <2> DEFINE r == records[loop.index]
  <2>1. /\ loop' = [loop EXCEPT !.index = loop.index + 1]
        /\ UNCHANGED <<objects, current, activeWaits, now, mode>>
        /\ loop.op \in {"poll", "pollwait"} /\ loop.index < MaxThreads
    BY <1>5 DEF ServiceNext
  <2>2. loop.index \in Nat /\ MaxThreads \in Nat
    BY BoundsAssumption DEF TypeOK, LoopRecord
  <2>3. loop.index + 1 \in 0 .. MaxThreads /\ loop.index \in Records
    BY <2>1, <2>2 DEF Records
  <2>4. loop' \in LoopRecord
    BY <2>1, <2>3, LoopRecordFields DEF TypeOK
  <2>5. loop'.op = loop.op /\ loop'.event = loop.event
    BY <2>1 DEF TypeOK, LoopRecord
  <2>6. CASE UNCHANGED <<threads, events, records, runq>>
    <3>1. TypeOK' /\ TargetsAreInRange'
      BY <2>1, <2>4, <2>6 DEF TypeOK, TargetsAreInRange
    <3>2. ListedRecordsAreLinked' /\ LinkedRecordsAreListed'
      BY <2>6, QuietStepKeepsLists
    <3>3. LoopTargetIsLive' /\ NoLostWakeup'
      BY <2>5, <2>6 DEF LoopTargetIsLive, NoLostWakeup
    <3>. QED BY <3>1, <3>2, <3>3
  <2>7. CASE /\ r.linked
             /\ CompleteWaiter(r.event, r.index, "TIMEOUT", "TIMED_OUT")
             /\ events' = WithoutWaiter(r.event, r.index, events[r.event].signaled)
    <3>1. r.event \in Events /\ r.index \in 1 .. Len(events[r.event].waiters)
      BY <2>3, <2>7 DEF LinkedRecordsAreListed
    <3>2. events[r.event].signaled \in BOOLEAN /\ "TIMED_OUT" \in WaitResults
      BY <3>1 DEF TypeOK, EventRecord, WaitResults
    <3> HIDE DEF r
    <3>. QED
      BY <2>1, <2>4, <2>5, <2>7, <3>1, <3>2, WakeKeepsWaitInv
  <2>. QED
    BY <1>5, <2>6, <2>7 DEF ServiceNext, Expired
<1>6. ASSUME ServiceDone PROVE WaitInv'
  <2>1. loop.op \in {"poll", "pollwait"} /\ loop' = Idle /\ UNCHANGED now
    BY <1>6 DEF ServiceDone
  <2>2. CASE loop.op = "pollwait"
    <3>1. loop.event \in Events /\ events[loop.event].live
          /\ ~events[loop.event].signaled /\ loop.deadline \in Time
      BY <2>2 DEF LoopTargetIsLive, TypeOK, LoopRecord
    <3>2. BlockOn(loop.event, TRUE, loop.deadline)
      BY <1>6, <2>2 DEF ServiceDone
    <3>. QED
      BY <1>1, <2>1, <2>2, <3>1, <3>2
  <2>3. CASE loop.op = "poll"
    <3>1. UNCHANGED <<objects, threads, events, records, runq, current,
                      activeWaits, mode>>
      BY <1>6, <2>3 DEF ServiceDone
    <3>2. TypeOK' /\ TargetsAreInRange'
      BY <2>1, <3>1, EmptySlotTypes DEF TypeOK, TargetsAreInRange
    <3>3. ListedRecordsAreLinked' /\ LinkedRecordsAreListed'
      BY <3>1, QuietStepKeepsLists
    <3>4. LoopTargetIsLive' /\ NoLostWakeup'
      BY <2>1, <2>3, <3>1 DEF LoopTargetIsLive, NoLostWakeup, Idle
    <3>. QED BY <3>2, <3>3, <3>4
  <2>. QED BY <2>1, <2>2, <2>3
<1>7. ASSUME FinishWait PROVE WaitInv'
  <2> DEFINE r == threads[current].wait
             o == records[r].slot
  <2>1. /\ r \in Records /\ o \in Objects /\ ~records[r].linked
        /\ UNCHANGED <<events, runq, current, now, loop, mode>> /\ loop = Idle
    <3>1. r \in Records
      BY <1>7 DEF FinishWait, TypeOK, ThreadRecord
    <3>2. records[r].completion # "FAILED"
      BY <1>7 DEF FinishWait, WaitIsComplete
    <3>3. ~records[r].linked
      BY <3>1, <3>2 DEF LinkedRecordsAreListed
    <3>. QED
      BY <1>7, <3>1, <3>3 DEF FinishWait, TypeOK, WaitRecord
  <2>2. threads' \in [Threads -> ThreadRecord]
    <3>1. None \in Records \cup {None} /\ "NONE" \in WaitResults
      BY DEF WaitResults
    <3>2. [threads[current] EXCEPT !.wait = None, !.result = "NONE"] \in ThreadRecord
      BY <3>1, ThreadRecordFields DEF TypeOK
    <3>. QED
      BY <1>7, <3>2 DEF FinishWait, TypeOK
  <2>3. /\ records' = [records EXCEPT ![r] = EmptyRecord]
        /\ objects' = [objects EXCEPT ![o].refs =
                         IF objects[o].refs # 0 THEN objects[o].refs - 1 ELSE 0]
        /\ activeWaits' \in Nat
    BY <1>7 DEF FinishWait, TypeOK
  <2> HIDE DEF r, o
  <2>4. records' \in [Records -> WaitRecord]
    BY <2>1, <2>3, EmptySlotTypes DEF TypeOK
  <2>5. objects' \in [Objects -> ObjectRecord]
    <3>1. (IF objects[o].refs # 0 THEN objects[o].refs - 1 ELSE 0) \in Nat
      BY <2>1 DEF TypeOK, ObjectRecord
    <3>. QED
      BY <2>1, <2>3, <3>1, ObjectRecordFields DEF TypeOK
  <2>6. TypeOK'
    BY <2>1, <2>2, <2>3, <2>4, <2>5 DEF TypeOK
  <2>7. TargetsAreInRange'
    BY <2>1, <2>3 DEF TargetsAreInRange, TypeOK, ObjectRecord
  <2>8. /\ ~EmptyRecord.linked
        /\ \A k \in Records : k # r => records'[k] = records[k]
        /\ records'[r] = EmptyRecord
    BY <2>1, <2>3 DEF EmptyRecord, TypeOK
  <2>9. ListedRecordsAreLinked'
    <3> SUFFICES ASSUME NEW f \in Events, NEW j \in 1 .. Len(events[f].waiters)
                 PROVE  /\ records'[events[f].waiters[j]].linked
                        /\ records'[events[f].waiters[j]].event = f
                        /\ records'[events[f].waiters[j]].index = j
      BY <2>1 DEF ListedRecordsAreLinked
    <3>1. /\ events[f].waiters[j] \in Records
          /\ records[events[f].waiters[j]].linked
          /\ records[events[f].waiters[j]].event = f
          /\ records[events[f].waiters[j]].index = j
      BY DEF ListedRecordsAreLinked, TypeOK, EventRecord
    <3>. QED
      BY <3>1, <2>1, <2>8
  <2>10. LinkedRecordsAreListed'
    BY <2>1, <2>8 DEF LinkedRecordsAreListed
  <2>11. LoopTargetIsLive' /\ NoLostWakeup'
    BY <2>1 DEF LoopTargetIsLive, NoLostWakeup
  <2>. QED BY <2>6, <2>7, <2>9, <2>10, <2>11
<1>8. ASSUME Tick PROVE WaitInv'
  <2>1. /\ now' = now + 1 /\ now < ClockMax
        /\ UNCHANGED <<objects, threads, events, records, runq, current,
                       activeWaits, loop, mode>>
    BY <1>8 DEF Tick
  <2>2. now' \in Time
    BY <2>1, BoundsAssumption DEF TypeOK, Time
  <2>3. TypeOK' /\ TargetsAreInRange'
    BY <2>1, <2>2 DEF TypeOK, TargetsAreInRange
  <2>4. ListedRecordsAreLinked' /\ LinkedRecordsAreListed'
    BY <2>1, QuietStepKeepsLists
  <2>5. LoopTargetIsLive' /\ NoLostWakeup'
    BY <2>1 DEF LoopTargetIsLive, NoLostWakeup
  <2>. QED BY <2>3, <2>4, <2>5
<1>9. ASSUME Initialize PROVE WaitInv'
  <2>1. /\ objects' = BootObjects /\ threads' = BootThreads
        /\ events' = NoEvents /\ records' = NoRecords
        /\ runq' = <<>> /\ current' = Boot /\ activeWaits' = 0
        /\ loop' = Idle /\ mode' = "up" /\ now' = now
    BY <1>9 DEF Initialize
  <2>2. BootObjects \in [Objects -> ObjectRecord]
    <3>1. "THREAD" \in ObjectTypes /\ Boot \in Int /\ 1 \in Generations /\ 0 \in 0 .. 1
      BY ConstantFacts DEF ObjectTypes, Boot
    <3>2. NewObject("THREAD", 1, Boot) \in ObjectRecord
      BY <3>1, EmptySlotTypes
    <3>3. [NewObject("THREAD", 1, Boot) EXCEPT !.pub = 0] \in ObjectRecord
      BY <3>1, <3>2, ObjectRecordFields
    <3>. QED
      BY <3>3, ConstantFacts, EmptySlotTypes DEF BootObjects
  <2>3. /\ BootThreads \in [Threads -> ThreadRecord]
        /\ NoEvents \in [Events -> EventRecord]
        /\ NoRecords \in [Records -> WaitRecord]
    BY EmptySlotTypes DEF BootThreads, NoEvents, NoRecords
  <2>4. TypeOK'
    BY <2>1, <2>2, <2>3, ConstantFacts, EmptySlotTypes DEF TypeOK
  <2>5. TargetsAreInRange'
    BY <2>1, ConstantFacts DEF TargetsAreInRange, BootObjects, NewObject, FreeObject
  <2>6. ListedRecordsAreLinked' /\ LinkedRecordsAreListed'
    BY <2>1 DEF ListedRecordsAreLinked, LinkedRecordsAreListed, NoEvents, EmptyEvent,
                NoRecords, EmptyRecord
  <2>7. LoopTargetIsLive' /\ NoLostWakeup'
    BY <2>1 DEF LoopTargetIsLive, NoLostWakeup, Idle, NoEvents, EmptyEvent
  <2>. QED BY <2>4, <2>5, <2>6, <2>7
<1>. QED
  BY <1>2, <1>3, <1>4, <1>5, <1>6, <1>7, <1>8, <1>9

\* Every step of the scheduler, and every stuttering step, keeps WaitInv.
LEMMA WaitInvStep == WaitInv /\ [Next]_vars => WaitInv'
<1> SUFFICES ASSUME WaitInv, [Next]_vars PROVE WaitInv'
  OBVIOUS
<1>1. CASE UNCHANGED vars
  <2>1. UNCHANGED <<objects, threads, events, records, runq, current, activeWaits,
                    now, loop, mode>>
    BY <1>1 DEF vars
  <2>2. TypeOK' /\ TargetsAreInRange'
    BY <2>1 DEF WaitInv, TypeOK, TargetsAreInRange
  <2>3. ListedRecordsAreLinked' /\ LinkedRecordsAreListed'
    BY <2>1, QuietStepKeepsLists DEF WaitInv
  <2>4. LoopTargetIsLive' /\ NoLostWakeup'
    BY <2>1 DEF WaitInv, LoopTargetIsLive, NoLostWakeup
  <2>. QED BY <2>2, <2>3, <2>4 DEF WaitInv
<1>2. ASSUME NEW h \in Handles, HandleCall(h) PROVE WaitInv'
  <2>1. CASE ResumeThread(h) \/ CloseHandle(h)
    BY <2>1, WaitInvTables
  <2>2. CASE TryDestroyEvent(h) \/ ResetEvent(h) \/ WaitSignaled(h)
    BY <2>2, WaitInvEvents
  <2>3. CASE SignalEvent(h) \/ SetEvent(h)
    BY <2>3, WaitInvSignals
  <2>4. CASE WaitInfinite(h) \/ \E milliseconds \in Timeouts : WaitFinite(h, milliseconds)
    BY <2>4, WaitInvWaits
  <2>. QED
    BY <1>2, <2>1, <2>2, <2>3, <2>4 DEF HandleCall
<1>3. CASE \E manual, signaled \in BOOLEAN : CreateEvent(manual, signaled)
  BY <1>3, WaitInvEvents
<1>4. CASE \/ \E type \in Singletons : CreateSingleton(type)
           \/ \E allocated \in BOOLEAN : CreateSuspendedThread(allocated)
           \/ \E T \in SUBSET Threads : Collect(T)
           \/ \E t \in Threads : DiscardCreatedThread(t)
           \/ Teardown
  BY <1>4, WaitInvTables
<1>5. CASE WakeNext
  BY <1>5, WaitInvSignals
<1>6. CASE PollTimeouts \/ ServiceNext \/ ServiceDone \/ FinishWait \/ Tick \/ Initialize
  BY <1>6, WaitInvWaits
<1>7. CASE Yield \/ Terminate
  BY <1>7, WaitInvSwitch
<1>. QED
  BY <1>1, <1>2, <1>3, <1>4, <1>5, <1>6, <1>7 DEF Next

LEMMA WaitInvHolds == Spec => []WaitInv
  BY WaitInvInit, WaitInvStep, PTL DEF Spec

-----------------------------------------------------------------------------
(* The theorems.                                                           *)

\* The variables keep their types for any number of threads, events, objects
\* and generations: in particular the suspend and handle counts the code
\* decrements never leave 0 .. 1, and the index into the waiter list that
\* complete_waiter is given always lies inside the list.
THEOREM TypeCorrect == Spec => []TypeOK
<1>1. WaitInv => TypeOK
  BY DEF WaitInv
<1>. QED
  BY <1>1, WaitInvHolds, PTL

\* No wake-up is lost, for any number of threads and events: a signaled event
\* keeps a waiter only while gxos_scheduler_signal_event is waking its list.
THEOREM NoWakeupIsLost == Spec => []NoLostWakeup
<1>1. WaitInv => NoLostWakeup
  BY DEF WaitInv
<1>. QED
  BY <1>1, WaitInvHolds, PTL

\* The waiter lists and the wait records agree, for any number of threads and
\* events: add_waiter and the swap with the last entry in remove_waiter leave
\* every listed record linked at its own index, and list every linked record.
THEOREM WaiterListsAreConsistent ==
  Spec => [](ListedRecordsAreLinked /\ LinkedRecordsAreListed)
<1>1. WaitInv => ListedRecordsAreLinked /\ LinkedRecordsAreListed
  BY DEF WaitInv
<1>. QED
  BY <1>1, WaitInvHolds, PTL

-----------------------------------------------------------------------------
(* Threads: the runnable queue and the wait records.                       *)

\* The queue q and the thread table ts tell the same story.
QueueMatches(q, ts) ==
  /\ \A i, j \in 1 .. Len(q) : q[i] = q[j] => i = j
  /\ \A t \in Threads :
       /\ ts[t].queued <=> \E i \in 1 .. Len(q) : q[i] = t
       /\ ts[t].queued <=> ts[t].state = "RUNNABLE"

\* The slot `current' names is never in the queue, not even after ud2.
CurrentIsNotReady ==
  threads[current].state \in {"RUNNING", "TERMINATED", "FREE"}

\* A thread inside a wait has been dispatched and has not ended.
WaitersHaveRun ==
  \A t \in Threads :
    /\ threads[t].state = "RUNNING" => threads[t].started \/ t = Boot
    /\ threads[t].wait # None =>
         /\ threads[t].state \in {"RUNNABLE", "RUNNING", "BLOCKED"}
         /\ threads[t].started \/ t = Boot

\* A loop runs while the scheduler is up, on behalf of a thread that is inside
\* no wait, with a reading of the clock that is not ahead of it.
LoopsRunForTheCaller ==
  /\ loop # Idle => mode = "up" /\ threads[current].wait = None
  /\ loop.op \in {"poll", "pollwait"} => loop.time <= now

\* gxos_scheduler_teardown leaves no thread.
TornDownIsEmpty == mode = "down" => \A t \in Threads : threads[t].state = "FREE"

\* The part of the inductive invariant that speaks of threads.
QueueInv ==
  /\ RunQueueMatchesStates
  /\ RecordsMatchThreads
  /\ CurrentIsNotReady
  /\ WaitersHaveRun
  /\ LoopsRunForTheCaller
  /\ TornDownIsEmpty

-----------------------------------------------------------------------------
(* The runnable queue.                                                     *)

\* remove_runnable on a queue without duplicates: exactly t is gone.
LEMMA RemoveRunnableFacts ==
  ASSUME NEW q \in Seq(Threads), NEW t,
         \A i, j \in 1 .. Len(q) : q[i] = q[j] => i = j
  PROVE  LET d == RemoveRunnable(q, t) IN
           /\ d \in Seq(Threads)
           /\ \A i, j \in 1 .. Len(d) : d[i] = d[j] => i = j
           /\ \A u : (\E i \in 1 .. Len(d) : d[i] = u) <=>
                     u # t /\ \E i \in 1 .. Len(q) : q[i] = u
<1> DEFINE n == Len(q)
           d == RemoveRunnable(q, t)
<1>1. n \in Nat
  OBVIOUS
<1>2. d \in Seq(Threads)
  BY RemoveRunnableType
<1>3. CASE ~ \E i \in 1 .. n : q[i] = t
  <2>1. d = q
    BY <1>3 DEF RemoveRunnable
  <2>. QED BY <2>1, <1>2, <1>3
<1>4. CASE \E i \in 1 .. n : q[i] = t
  <2>1. PICK p \in 1 .. n : q[p] = t
    BY <1>4
  <2>2. \A j \in 1 .. (n - 1) : (\E i \in 1 .. j : q[i] = t) <=> j >= p
    BY <2>1, <1>1
  <2>3. d = [j \in 1 .. (n - 1) |->
               IF \E i \in 1 .. j : q[i] = t THEN q[j + 1] ELSE q[j]]
    BY <1>4 DEF RemoveRunnable
  <2>4. /\ Len(d) = n - 1
        /\ \A j \in 1 .. (n - 1) : d[j] = q[IF j >= p THEN j + 1 ELSE j]
    BY <2>1, <2>2, <2>3, <1>1
  <2> HIDE DEF d
  <2>5. \A i, j \in 1 .. Len(d) : d[i] = d[j] => i = j
    BY <2>4, <1>1
  <2>6. ASSUME NEW u
        PROVE  (\E i \in 1 .. Len(d) : d[i] = u) <=>
               u # t /\ \E i \in 1 .. n : q[i] = u
    <3>1. ASSUME NEW i \in 1 .. Len(d), d[i] = u
          PROVE  u # t /\ \E k \in 1 .. n : q[k] = u
      <4> DEFINE k == IF i >= p THEN i + 1 ELSE i
      <4>1. k \in 1 .. n /\ k # p /\ q[k] = u
        BY <3>1, <2>4, <1>1
      <4>. QED BY <4>1, <2>1
    <3>2. ASSUME u # t, NEW k \in 1 .. n, q[k] = u
          PROVE  \E i \in 1 .. Len(d) : d[i] = u
      <4> DEFINE i == IF k > p THEN k - 1 ELSE k
      <4>1. k # p
        BY <3>2, <2>1
      <4>2. i \in 1 .. Len(d) /\ d[i] = q[k]
        BY <4>1, <2>4, <1>1
      <4>. QED BY <4>2, <3>2
    <3>. QED BY <3>1, <3>2
  <2>. QED BY <1>2, <2>5, <2>6 DEF d
<1>. QED BY <1>3, <1>4

\* enqueue_runnable of a thread that is not in the queue.
LEMMA EnqueueFacts ==
  ASSUME NEW q \in Seq(Threads), NEW t \in Threads,
         \A i, j \in 1 .. Len(q) : q[i] = q[j] => i = j,
         \A i \in 1 .. Len(q) : q[i] # t
  PROVE  LET d == Append(q, t) IN
           /\ d \in Seq(Threads)
           /\ \A i, j \in 1 .. Len(d) : d[i] = d[j] => i = j
           /\ \A u : (\E i \in 1 .. Len(d) : d[i] = u) <=>
                     u = t \/ \E i \in 1 .. Len(q) : q[i] = u
<1> DEFINE d == Append(q, t)
<1>1. /\ d \in Seq(Threads) /\ Len(q) \in Nat /\ Len(d) = Len(q) + 1
      /\ d[Len(q) + 1] = t
      /\ \A i \in 1 .. Len(q) : d[i] = q[i]
  OBVIOUS
<1> HIDE DEF d
<1>2. \A i, j \in 1 .. Len(d) : d[i] = d[j] => i = j
  BY <1>1
<1>3. ASSUME NEW u
      PROVE  (\E i \in 1 .. Len(d) : d[i] = u) <=>
             u = t \/ \E i \in 1 .. Len(q) : q[i] = u
  <2>1. ASSUME NEW i \in 1 .. Len(d), d[i] = u
        PROVE  u = t \/ \E k \in 1 .. Len(q) : q[k] = u
    BY <2>1, <1>1
  <2>2. ASSUME u = t PROVE \E i \in 1 .. Len(d) : d[i] = u
    <3>1. Len(q) + 1 \in 1 .. Len(d)
      BY <1>1
    <3>. QED BY <3>1, <2>2, <1>1
  <2>3. ASSUME NEW k \in 1 .. Len(q), q[k] = u
        PROVE  \E i \in 1 .. Len(d) : d[i] = u
    <3>1. k \in 1 .. Len(d) /\ d[k] = u
      BY <2>3, <1>1
    <3>. QED BY <3>1
  <2>. QED BY <2>1, <2>2, <2>3
<1>. QED BY <1>1, <1>2, <1>3 DEF d

\* choose_next on a table in which no thread runs: the picked thread leaves
\* the queue and is the one that runs.
LEMMA DispatchFacts ==
  ASSUME NEW ts \in [Threads -> ThreadRecord], NEW q \in Seq(Threads),
         QueueMatches(q, ts), NEW c, NEW t \in Threads, IsNextRunnable(ts, c, t),
         \A u \in Threads : ts[u].state # "RUNNING"
  PROVE  /\ QueueMatches(RemoveRunnable(q, t), Dispatched(ts, t))
         /\ \A u \in Threads : Dispatched(ts, t)[u].state = "RUNNING" <=> u = t
         /\ \A u \in Threads \ {t} : Dispatched(ts, t)[u] = ts[u]
         /\ Dispatched(ts, t)[t].wait = ts[t].wait
         /\ Dispatched(ts, t)[t].started = (t # Boot)
         /\ ts[t].state = "RUNNABLE"
<1> DEFINE d == Dispatched(ts, t)
           r == RemoveRunnable(q, t)
<1>1. ts[t].state = "RUNNABLE" /\ ts[t].queued
  BY DEF IsNextRunnable, Ready
<1>2. /\ \A u \in Threads \ {t} : d[u] = ts[u]
      /\ d[t].state = "RUNNING" /\ d[t].queued = FALSE
      /\ d[t].wait = ts[t].wait /\ d[t].started = (t # Boot)
  BY DEF Dispatched, ThreadRecord
<1>3. /\ \A i, j \in 1 .. Len(r) : r[i] = r[j] => i = j
      /\ \A u : (\E i \in 1 .. Len(r) : r[i] = u) <=>
                u # t /\ \E i \in 1 .. Len(q) : q[i] = u
  BY RemoveRunnableFacts DEF QueueMatches
<1> HIDE DEF d, r
<1>4. QueueMatches(r, d)
  <2>1. ASSUME NEW u \in Threads
        PROVE  /\ d[u].queued <=> \E i \in 1 .. Len(r) : r[i] = u
               /\ d[u].queued <=> d[u].state = "RUNNABLE"
    BY <1>2, <1>3, SMTT(30) DEF QueueMatches
  <2>. QED BY <2>1, <1>3 DEF QueueMatches
<1>. QED
  BY <1>1, <1>2, <1>4 DEF d, r

\* The same records, and no thread enters or leaves a wait.
LEMMA RecordsStayMatched ==
  ASSUME RecordsMatchThreads, UNCHANGED records,
         \A u \in Threads :
           /\ threads'[u].wait = threads[u].wait
           /\ threads'[u].state = "BLOCKED" <=> threads[u].state = "BLOCKED"
  PROVE  RecordsMatchThreads'
  BY DEF RecordsMatchThreads

\* A step that leaves the queue alone and changes only the control blocks of
\* threads that neither run nor wait to run.
LEMMA QuietStepKeepsQueue ==
  ASSUME TypeOK, QueueInv, UNCHANGED <<records, runq, current>>,
         mode' = mode \/ mode' = "halted",
         \A u \in Threads :
           \/ threads'[u] = threads[u]
           \/ /\ u # current
              /\ threads[u].state \in {"FREE", "CREATED_SUSPENDED", "TERMINATED"}
              /\ threads'[u].state \in {"FREE", "CREATED_SUSPENDED", "TERMINATED"}
              /\ threads'[u].queued = FALSE
              /\ threads'[u].wait = None
           \/ /\ threads'[u].state = threads[u].state
              /\ threads'[u].queued = threads[u].queued
              /\ threads'[u].wait = threads[u].wait
              /\ threads'[u].started = threads[u].started,
         LoopsRunForTheCaller',
         mode = "down" => UNCHANGED threads
  PROVE  QueueInv'
<1> USE DEF QueueInv
<1>1. \A u \in Threads : threads'[u].wait = threads[u].wait
  BY DEF WaitersHaveRun
<1>2. RecordsMatchThreads'
  BY <1>1, RecordsStayMatched
<1>3. \A u \in Threads : threads[u].queued \in BOOLEAN
  BY DEF TypeOK, ThreadRecord
<1>4. RunQueueMatchesStates'
  BY <1>3 DEF RunQueueMatchesStates
<1>5. CurrentIsNotReady'
  BY DEF CurrentIsNotReady, TypeOK
<1>6. WaitersHaveRun'
  BY <1>1 DEF WaitersHaveRun
<1>7. TornDownIsEmpty'
  BY DEF TornDownIsEmpty
<1>. QED BY <1>2, <1>4, <1>5, <1>6, <1>7

\* complete_waiter makes the waiting thread runnable: it was BLOCKED, so it is
\* in the queue once, and the record it waits on is linked no more.
LEMMA WakeKeepsQueue ==
  ASSUME WaitInv, QueueInv,
         NEW e \in Events, NEW i \in 1 .. Len(events[e].waiters),
         NEW c, NEW res, CompleteWaiter(e, i, c, res),
         UNCHANGED <<current, mode>>, LoopsRunForTheCaller'
  PROVE  QueueInv'
<1> DEFINE w == events[e].waiters
           r == w[i]
           last == w[Len(w)]
           t == records[r].thread
<1>1. /\ r \in Records /\ last \in Records
      /\ records[r].linked /\ records[r].active /\ t \in Threads
  <2>1. w \in Seq(Records) /\ Len(w) \in 1 .. Len(w)
    BY DEF WaitInv, TypeOK, EventRecord
  <2>2. r \in Records /\ last \in Records
    BY <2>1
  <2>3. records[r].linked
    BY DEF WaitInv, ListedRecordsAreLinked
  <2>. QED
    BY <2>2, <2>3 DEF WaitInv, LinkedRecordsAreListed
<1>2. threads[t].wait = r /\ threads[t].state = "BLOCKED"
  <2>1. threads[t].wait = r
    BY <1>1 DEF QueueInv, RecordsMatchThreads
  <2>2. r # None
    BY <1>1, ConstantFacts
  <2>. QED
    BY <1>1, <2>1, <2>2 DEF QueueInv, RecordsMatchThreads
<1>3. t # current /\ \A k \in 1 .. Len(runq) : runq[k] # t
  BY <1>1, <1>2 DEF QueueInv, CurrentIsNotReady, RunQueueMatchesStates
<1>4. /\ \A u \in Threads \ {t} : threads'[u] = threads[u]
      /\ threads'[t].state = "RUNNABLE" /\ threads'[t].queued = TRUE
      /\ threads'[t].wait = r /\ threads'[t].started = threads[t].started
      /\ runq' = Append(runq, t)
  BY <1>1, <1>2, ZenonT(30) DEF CompleteWaiter, WaitInv, TypeOK, ThreadRecord
<1>5. \A k \in Records :
        /\ records'[k].active = records[k].active
        /\ records'[k].thread = records[k].thread
        /\ records'[k].linked <=> records[k].linked /\ k # r
  <2>1. \A k \in Records : records[k] \in WaitRecord
    BY DEF WaitInv, TypeOK
  <2>2. /\ records'[r] = [records[r] EXCEPT !.linked = FALSE, !.index = 0,
                                           !.completion = c]
        /\ \A k \in Records \ {r} :
             records'[k] = IF k = last THEN [records[k] EXCEPT !.index = i]
                                       ELSE records[k]
    BY <1>1 DEF CompleteWaiter
  <2> HIDE DEF r, last
  <2>3. ASSUME NEW k \in Records
        PROVE  /\ records'[k].active = records[k].active
               /\ records'[k].thread = records[k].thread
               /\ records'[k].linked <=> records[k].linked /\ k # r
    <3>1. CASE k = r
      <4>1. records'[k] = [records[k] EXCEPT !.linked = FALSE, !.index = 0,
                                             !.completion = c]
        BY <3>1, <2>2
      <4>2. records[k] \in WaitRecord
        BY <2>1
      <4>3. ~records'[k].linked /\ records'[k].active = records[k].active
            /\ records'[k].thread = records[k].thread
        BY <4>1, <4>2 DEF WaitRecord
      <4>. QED BY <4>3, <3>1
    <3>2. CASE k # r /\ k = last
      BY <3>2, <2>1, <2>2 DEF WaitRecord
    <3>3. CASE k # r /\ k # last
      BY <3>3, <2>1, <2>2 DEF WaitRecord
    <3>. QED BY <3>1, <3>2, <3>3
  <2>. QED BY <2>3
<1> HIDE DEF r, t, last, w
<1>6. RunQueueMatchesStates'
  <2> DEFINE d == Append(runq, t)
  <2>1. /\ \A j, k \in 1 .. Len(d) : d[j] = d[k] => j = k
        /\ \A u : (\E k \in 1 .. Len(d) : d[k] = u) <=>
                  u = t \/ \E k \in 1 .. Len(runq) : runq[k] = u
    <3>1. /\ runq \in Seq(Threads)
          /\ \A j, k \in 1 .. Len(runq) : runq[j] = runq[k] => j = k
      BY DEF WaitInv, TypeOK, QueueInv, RunQueueMatchesStates
    <3>. QED BY <3>1, <1>1, <1>3, EnqueueFacts
  <2> HIDE DEF d
  <2>2. runq' = d
    BY <1>4 DEF d
  <2>3. ASSUME NEW u \in Threads
        PROVE  /\ threads'[u].queued <=> \E k \in 1 .. Len(d) : d[k] = u
               /\ threads'[u].queued <=> threads'[u].state = "RUNNABLE"
               /\ mode' = "up" => (threads'[u].state = "RUNNING" <=> u = current')
    <3>1. CASE u = t
      <4>1. threads'[u].queued /\ threads'[u].state = "RUNNABLE"
        BY <3>1, <1>4
      <4>2. \E k \in 1 .. Len(d) : d[k] = u
        BY <3>1, <2>1
      <4>. QED BY <4>1, <4>2, <3>1, <1>3
    <3>2. CASE u # t
      <4>1. threads'[u] = threads[u]
        BY <3>2, <1>4
      <4>2. (\E k \in 1 .. Len(d) : d[k] = u) <=>
            (\E k \in 1 .. Len(runq) : runq[k] = u)
        BY <3>2, <2>1
      <4>. QED BY <4>1, <4>2 DEF QueueInv, RunQueueMatchesStates
    <3>. QED BY <3>1, <3>2
  <2>. QED
    BY <2>1, <2>2, <2>3 DEF RunQueueMatchesStates
<1>7. RecordsMatchThreads'
  <2>1. \A u \in Threads : threads'[u].wait = threads[u].wait
    BY <1>2, <1>4
  <2>2. \A k \in Records : records'[k].active =>
          records'[k].thread \in Threads /\ threads'[records'[k].thread].wait = k
    BY <2>1, <1>5 DEF QueueInv, RecordsMatchThreads
  <2>3. \A u \in Threads : threads[u].wait \in Records \cup {None}
    BY DEF WaitInv, TypeOK, ThreadRecord
  <2>4. \A u \in Threads : threads'[u].wait # None =>
          records'[threads'[u].wait].active /\ records'[threads'[u].wait].thread = u
    BY <2>1, <2>3, <1>5 DEF QueueInv, RecordsMatchThreads
  <2>5. ASSUME NEW u \in Threads
        PROVE  threads'[u].state = "BLOCKED" <=>
                 threads'[u].wait # None /\ records'[threads'[u].wait].linked
    <3>1. CASE u = t
      BY <3>1, <1>1, <1>4, <1>5
    <3>2. CASE u # t
      <4>1. threads[u].wait # None => threads[u].wait # r
        BY <3>2, <1>1 DEF QueueInv, RecordsMatchThreads, t
      <4>2. threads'[u].state = "BLOCKED" <=>
              threads'[u].wait # None /\ records'[threads'[u].wait].linked
        <5>1. threads'[u] = threads[u]
          BY <3>2, <1>4
        <5>2. threads[u].wait # None =>
                (records'[threads[u].wait].linked <=> records[threads[u].wait].linked)
          BY <4>1, <2>3, <1>5
        <5>. QED BY <5>1, <5>2 DEF QueueInv, RecordsMatchThreads
      <4>. QED BY <4>2
    <3>. QED BY <3>1, <3>2
  <2>. QED
    BY <2>2, <2>4, <2>5 DEF RecordsMatchThreads
<1>8. CurrentIsNotReady'
  BY <1>3, <1>4 DEF QueueInv, CurrentIsNotReady, WaitInv, TypeOK
<1>9. WaitersHaveRun'
  BY <1>2, <1>4, ConstantFacts DEF QueueInv, WaitersHaveRun
<1>10. TornDownIsEmpty'
  BY <1>1, <1>2 DEF QueueInv, TornDownIsEmpty
<1>. QED
  BY <1>6, <1>7, <1>8, <1>9, <1>10 DEF QueueInv

\* Giving up the CPU: when the thread that ran is no longer RUNNING and stands
\* in the queue exactly if it is ready, the switch keeps the invariant.
LEMMA SwitchKeepsQueue ==
  ASSUME WaitInv, QueueInv, mode = "up", mode' = "up",
         NEW ts \in [Threads -> ThreadRecord], NEW q \in Seq(Threads),
         QueueMatches(q, ts),
         \A u \in Threads \ {current} : ts[u] = threads[u],
         ts[current].state # "RUNNING",
         ts[current].started = threads[current].started,
         ts[current].wait # None =>
           ts[current].state \in {"RUNNABLE", "BLOCKED"},
         NEW t \in Threads, IsNextRunnable(ts, current, t),
         threads' = Dispatched(ts, t), runq' = RemoveRunnable(q, t), current' = t
  PROVE  /\ RunQueueMatchesStates' /\ CurrentIsNotReady' /\ WaitersHaveRun'
         /\ \A u \in Threads : /\ threads'[u].wait = ts[u].wait
                               /\ threads'[u].state = "BLOCKED" <=>
                                    ts[u].state = "BLOCKED"
<1>1. threads[current].state = "RUNNING"
      /\ \A u \in Threads \ {current} : threads[u].state # "RUNNING"
  BY DEF QueueInv, RunQueueMatchesStates, WaitInv, TypeOK
<1>2. \A u \in Threads : ts[u].state # "RUNNING"
  BY <1>1
<1>3. /\ QueueMatches(RemoveRunnable(q, t), Dispatched(ts, t))
      /\ \A u \in Threads : Dispatched(ts, t)[u].state = "RUNNING" <=> u = t
      /\ \A u \in Threads \ {t} : Dispatched(ts, t)[u] = ts[u]
      /\ Dispatched(ts, t)[t].wait = ts[t].wait
      /\ Dispatched(ts, t)[t].started = (t # Boot)
      /\ ts[t].state = "RUNNABLE"
  BY <1>2, DispatchFacts
<1>4. RunQueueMatchesStates'
  BY <1>3 DEF RunQueueMatchesStates, QueueMatches
<1>5. CurrentIsNotReady'
  BY <1>3 DEF CurrentIsNotReady
<1>6. WaitersHaveRun'
  <2> SUFFICES ASSUME NEW u \in Threads
               PROVE  /\ threads'[u].state = "RUNNING" => threads'[u].started \/ u = Boot
                      /\ threads'[u].wait # None =>
                           /\ threads'[u].state \in {"RUNNABLE", "RUNNING", "BLOCKED"}
                           /\ threads'[u].started \/ u = Boot
    BY DEF WaitersHaveRun
  <2>1. CASE u = t
    BY <2>1, <1>3
  <2>2. CASE u # t /\ u = current
    BY <2>2, <1>1, <1>3 DEF QueueInv, WaitersHaveRun
  <2>3. CASE u # t /\ u # current
    BY <2>3, <1>3 DEF QueueInv, WaitersHaveRun
  <2>. QED BY <2>1, <2>2, <2>3
<1>. QED
  BY <1>3, <1>4, <1>5, <1>6

\* Blocking gives the caller a free record and the CPU to the next thread, or
\* halts with everything as it was.
LEMMA BlockKeepsQueue ==
  ASSUME WaitInv, QueueInv, mode = "up", threads[current].wait = None,
         NEW e \in Events, NEW armed \in BOOLEAN, NEW deadline \in Time,
         BlockOn(e, armed, deadline), loop' = Idle
  PROVE  QueueInv'
<1> DEFINE w == events[e].waiters
           o == events[e].slot
           blocked(r) ==
             [threads EXCEPT ![current] =
                [@ EXCEPT !.state = "BLOCKED", !.wait = r, !.result = "NONE"]]
           rec == [active |-> TRUE, linked |-> TRUE, armed |-> armed,
                   deadline |-> deadline, thread |-> current, event |-> e,
                   slot |-> o, generation |-> objects[o].generation,
                   index |-> Len(w) + 1, completion |-> "FAILED"]
<1>1. LoopsRunForTheCaller'
  BY DEF LoopsRunForTheCaller, Idle
<1>2. CASE UNCHANGED <<threads, records, runq, current>> /\ mode' = "halted"
  BY <1>1, <1>2, QuietStepKeepsQueue DEF WaitInv
<1>3. CASE \E r \in Records, t \in Threads :
             /\ IsLowest(FreeRecords, r)
             /\ records' = [records EXCEPT ![r] = rec]
             /\ IsNextRunnable(blocked(r), current, t)
             /\ threads' = Dispatched(blocked(r), t)
             /\ runq' = RemoveRunnable(runq, t)
             /\ current' = t
             /\ UNCHANGED mode
  <2>0. PICK r \in Records, t \in Threads :
             /\ IsLowest(FreeRecords, r)
             /\ records' = [records EXCEPT ![r] = rec]
             /\ IsNextRunnable(blocked(r), current, t)
             /\ threads' = Dispatched(blocked(r), t)
             /\ runq' = RemoveRunnable(runq, t)
             /\ current' = t
             /\ UNCHANGED mode
    BY <1>3
  <2> DEFINE ts == blocked(r)
  <2>1. ~records[r].active
    BY <2>0 DEF IsLowest, FreeRecords
  <2>2. /\ records'[r].active /\ records'[r].linked /\ records'[r].thread = current
        /\ \A k \in Records \ {r} : records'[k] = records[k]
    BY <2>0 DEF WaitInv, TypeOK
  <2>3. /\ ts \in [Threads -> ThreadRecord] /\ current \in Threads
        /\ runq \in Seq(Threads)
    BY ThreadRecordFields DEF WaitInv, TypeOK, ThreadStates, WaitResults
  <2>4. /\ \A u \in Threads \ {current} : ts[u] = threads[u]
        /\ ts[current].state = "BLOCKED" /\ ts[current].wait = r
        /\ ts[current].queued = threads[current].queued
        /\ ts[current].started = threads[current].started
    BY <2>3 DEF WaitInv, TypeOK, ThreadRecord
  <2>5. /\ IsNextRunnable(ts, current, t)
        /\ threads' = Dispatched(ts, t)
        /\ runq' = RemoveRunnable(runq, t) /\ current' = t /\ mode' = "up"
    BY <2>0
  <2> HIDE DEF ts
  <2>6. threads[current].state = "RUNNING"
    BY <2>3 DEF QueueInv, RunQueueMatchesStates
  <2>7. QueueMatches(runq, ts)
    <3>1. ASSUME NEW u \in Threads
          PROVE  /\ ts[u].queued <=> \E i \in 1 .. Len(runq) : runq[i] = u
                 /\ ts[u].queued <=> ts[u].state = "RUNNABLE"
      BY <2>4, <2>6 DEF QueueInv, RunQueueMatchesStates
    <3>. QED
      BY <3>1 DEF QueueMatches, QueueInv, RunQueueMatchesStates
  <2>8. /\ RunQueueMatchesStates' /\ CurrentIsNotReady' /\ WaitersHaveRun'
        /\ \A u \in Threads : /\ threads'[u].wait = ts[u].wait
                              /\ threads'[u].state = "BLOCKED" <=>
                                   ts[u].state = "BLOCKED"
    BY <2>3, <2>4, <2>5, <2>7, SwitchKeepsQueue
  <2>9. RecordsMatchThreads'
    <3>1. ASSUME NEW k \in Records, records'[k].active
          PROVE  records'[k].thread \in Threads /\ threads'[records'[k].thread].wait = k
      <4>1. CASE k = r
        BY <4>1, <2>2, <2>3, <2>4, <2>8
      <4>2. CASE k # r
        <5>1. records'[k] = records[k]
          BY <4>2, <2>2
        <5>2. /\ records[k].thread \in Threads
              /\ threads[records[k].thread].wait = k
          BY <5>1, <3>1 DEF QueueInv, RecordsMatchThreads
        <5>3. records[k].thread # current
          BY <5>2, ConstantFacts
        <5>. QED BY <5>1, <5>2, <5>3, <2>4, <2>8
      <4>. QED BY <4>1, <4>2
    <3>2. ASSUME NEW u \in Threads \ {current}
          PROVE  /\ threads'[u].wait = threads[u].wait
                 /\ threads'[u].state = "BLOCKED" <=> threads[u].state = "BLOCKED"
                 /\ threads[u].wait # None =>
                      records'[threads[u].wait] = records[threads[u].wait]
      <4>1. threads[u].wait \in Records \cup {None}
        BY DEF WaitInv, TypeOK, ThreadRecord
      <4>2. threads[u].wait # None => threads[u].wait # r
        BY <2>1 DEF QueueInv, RecordsMatchThreads
      <4>. QED BY <4>1, <4>2, <2>2, <2>4, <2>8
    <3>3. ASSUME NEW u \in Threads
          PROVE  /\ threads'[u].wait # None =>
                      /\ records'[threads'[u].wait].active
                      /\ records'[threads'[u].wait].thread = u
                 /\ threads'[u].state = "BLOCKED" <=>
                      threads'[u].wait # None /\ records'[threads'[u].wait].linked
      <4>1. CASE u = current
        BY <4>1, <2>2, <2>4, <2>8, ConstantFacts
      <4>2. CASE u # current
        BY <4>2, <3>2 DEF QueueInv, RecordsMatchThreads
      <4>. QED BY <4>1, <4>2
    <3>. QED BY <3>1, <3>3 DEF RecordsMatchThreads
  <2>10. TornDownIsEmpty'
    BY <2>5 DEF TornDownIsEmpty
  <2>. QED
    BY <1>1, <2>8, <2>9, <2>10 DEF QueueInv
<1>. QED
  BY <1>2, <1>3 DEF BlockOn

\* A completed wait gives its record back.
LEMMA FinishKeepsQueue ==
  ASSUME WaitInv, QueueInv, FinishWait PROVE QueueInv'
<1> DEFINE r == threads[current].wait
<1>1. /\ r \in Records /\ current \in Threads /\ r # None
      /\ records[r].active /\ records[r].thread = current
      /\ UNCHANGED <<runq, current, now, loop, mode>>
      /\ loop = Idle /\ mode = "up"
      /\ records[r].completion # "FAILED"
  BY DEF FinishWait, WaitIsComplete, WaitInv, TypeOK, ThreadRecord
<1>2. /\ \A u \in Threads \ {current} : threads'[u] = threads[u]
      /\ threads'[current].wait = None
      /\ threads'[current].state = threads[current].state
      /\ threads'[current].queued = threads[current].queued
      /\ threads'[current].started = threads[current].started
  BY <1>1 DEF FinishWait, WaitInv, TypeOK, ThreadRecord
<1>3. /\ \A k \in Records \ {r} : records'[k] = records[k]
      /\ ~records'[r].active /\ ~records'[r].linked
  BY <1>1 DEF FinishWait, WaitInv, TypeOK, EmptyRecord
<1> HIDE DEF r
<1>4. ~records[r].linked
  BY <1>1 DEF WaitInv, LinkedRecordsAreListed
<1>5. RunQueueMatchesStates'
  BY <1>1, <1>2 DEF QueueInv, RunQueueMatchesStates
<1>6. CurrentIsNotReady' /\ WaitersHaveRun' /\ TornDownIsEmpty'
  BY <1>1, <1>2 DEF QueueInv, CurrentIsNotReady, WaitersHaveRun, TornDownIsEmpty
<1>7. LoopsRunForTheCaller'
  BY <1>1 DEF LoopsRunForTheCaller, Idle
<1>8. RecordsMatchThreads'
  <2>1. ASSUME NEW k \in Records, records'[k].active
        PROVE  records'[k].thread \in Threads /\ threads'[records'[k].thread].wait = k
    <3>1. k # r /\ records'[k] = records[k]
      BY <2>1, <1>3
    <3>2. records[k].thread \in Threads /\ threads[records[k].thread].wait = k
      BY <2>1, <3>1 DEF QueueInv, RecordsMatchThreads
    <3>3. records[k].thread # current
      BY <3>1, <3>2 DEF r
    <3>. QED BY <3>1, <3>2, <3>3, <1>2
  <2>2. ASSUME NEW u \in Threads
        PROVE  /\ threads'[u].wait # None =>
                    /\ records'[threads'[u].wait].active
                    /\ records'[threads'[u].wait].thread = u
               /\ threads'[u].state = "BLOCKED" <=>
                    threads'[u].wait # None /\ records'[threads'[u].wait].linked
    <3>1. CASE u = current
      <4>1. threads[current].state # "BLOCKED"
        BY <1>1, <1>4 DEF QueueInv, RecordsMatchThreads, r
      <4>. QED BY <4>1, <3>1, <1>2
    <3>2. CASE u # current
      <4>1. threads[u].wait \in Records \cup {None}
        BY DEF WaitInv, TypeOK, ThreadRecord
      <4>2. threads[u].wait # None => threads[u].wait # r
        BY <3>2, <1>1 DEF QueueInv, RecordsMatchThreads
      <4>3. /\ threads'[u] = threads[u]
            /\ threads[u].wait # None =>
                 records'[threads[u].wait] = records[threads[u].wait]
        BY <4>1, <4>2, <3>2, <1>2, <1>3
      <4>. QED BY <4>3 DEF QueueInv, RecordsMatchThreads
    <3>. QED BY <3>1, <3>2
  <2>. QED BY <2>1, <2>2 DEF RecordsMatchThreads
<1>. QED
  BY <1>5, <1>6, <1>7, <1>8 DEF QueueInv

-----------------------------------------------------------------------------
(* Every step preserves QueueInv.                                          *)

\* What gxos_scheduler_initialize leaves behind.
LEMMA BootKeepsQueue ==
  /\ QueueMatches(<<>>, BootThreads)
  /\ \A t \in Threads :
       /\ BootThreads[t].state = "RUNNING" <=> t = Boot
       /\ BootThreads[t].state \in {"RUNNING", "FREE"}
       /\ BootThreads[t].wait = None
  /\ \A r \in Records : ~NoRecords[r].active
<1>1. \A t \in Threads :
        /\ BootThreads[t].state = IF t = Boot THEN "RUNNING" ELSE "FREE"
        /\ BootThreads[t].wait = None
        /\ BootThreads[t].queued = FALSE
  BY DEF BootThreads, BootThread, EmptyThread
<1>2. \A r \in Records : ~NoRecords[r].active
  BY DEF NoRecords, EmptyRecord
<1>3. QueueMatches(<<>>, BootThreads)
  BY <1>1 DEF QueueMatches
<1>. QED BY <1>1, <1>2, <1>3

LEMMA QueueInvInit == Init => QueueInv
<1> SUFFICES ASSUME Init PROVE QueueInv
  OBVIOUS
<1>1. /\ threads = BootThreads /\ records = NoRecords /\ runq = <<>>
      /\ current = Boot /\ loop = Idle /\ mode = "up"
  BY DEF Init
<1>. QED
  BY <1>1, BootKeepsQueue, ConstantFacts
     DEF QueueInv, QueueMatches, RunQueueMatchesStates, RecordsMatchThreads,
         CurrentIsNotReady, WaitersHaveRun, LoopsRunForTheCaller, TornDownIsEmpty, Idle

LEMMA QueueInvSwitch ==
  ASSUME WaitInv, QueueInv, Yield \/ Terminate PROVE QueueInv'
<1>0. /\ mode = "up" /\ loop = Idle /\ loop' = Idle /\ threads[current].wait = None
      /\ threads[current].state = "RUNNING" /\ UNCHANGED records
      /\ current \in Threads /\ runq \in Seq(Threads)
      /\ ~threads[current].queued
      /\ \A i \in 1 .. Len(runq) : runq[i] # current
  BY DEF Yield, Terminate, Running, WaitInv, TypeOK, QueueInv, RunQueueMatchesStates
<1>1. LoopsRunForTheCaller'
  BY <1>0 DEF LoopsRunForTheCaller, Idle
<1>2. CASE Yield
  <2> DEFINE ts == [threads EXCEPT ![current] =
                      [@ EXCEPT !.state = "RUNNABLE", !.queued = TRUE]]
             q == Append(runq, current)
  <2>1. ts \in [Threads -> ThreadRecord]
    BY ThreadRecordFields DEF WaitInv, TypeOK, ThreadStates
  <2>2. /\ \A u \in Threads \ {current} : ts[u] = threads[u]
        /\ ts[current].state = "RUNNABLE" /\ ts[current].queued = TRUE
        /\ ts[current].wait = None
        /\ ts[current].started = threads[current].started
    BY <1>0 DEF WaitInv, TypeOK, ThreadRecord
  <2>3. PICK t \in Threads :
          /\ IsNextRunnable(ts, current, t)
          /\ threads' = Dispatched(ts, t)
          /\ runq' = RemoveRunnable(q, t)
          /\ current' = t
    BY <1>2 DEF Yield
  <2>4. /\ q \in Seq(Threads)
        /\ \A i, j \in 1 .. Len(q) : q[i] = q[j] => i = j
        /\ \A u : (\E i \in 1 .. Len(q) : q[i] = u) <=>
                  u = current \/ \E i \in 1 .. Len(runq) : runq[i] = u
    <3>1. \A i, j \in 1 .. Len(runq) : runq[i] = runq[j] => i = j
      BY DEF QueueInv, RunQueueMatchesStates
    <3>. QED BY <3>1, <1>0, EnqueueFacts
  <2>5. mode' = "up"
    BY <1>0, <1>2 DEF Yield
  <2> HIDE DEF ts, q
  <2>6. QueueMatches(q, ts)
    <3>1. ASSUME NEW u \in Threads
          PROVE  /\ ts[u].queued <=> \E i \in 1 .. Len(q) : q[i] = u
                 /\ ts[u].queued <=> ts[u].state = "RUNNABLE"
      <4>1. CASE u = current
        <5>1. \E i \in 1 .. Len(q) : q[i] = u
          BY <4>1, <2>4
        <5>. QED BY <5>1, <4>1, <2>2
      <4>2. CASE u # current
        <5>1. (\E i \in 1 .. Len(q) : q[i] = u) <=>
              (\E i \in 1 .. Len(runq) : runq[i] = u)
          BY <4>2, <2>4
        <5>. QED BY <5>1, <4>2, <2>2 DEF QueueInv, RunQueueMatchesStates
      <4>. QED BY <4>1, <4>2
    <3>. QED BY <3>1, <2>4 DEF QueueMatches
  <2>7. /\ RunQueueMatchesStates' /\ CurrentIsNotReady' /\ WaitersHaveRun'
        /\ \A u \in Threads : /\ threads'[u].wait = ts[u].wait
                              /\ threads'[u].state = "BLOCKED" <=>
                                   ts[u].state = "BLOCKED"
    BY <1>0, <2>1, <2>2, <2>3, <2>4, <2>5, <2>6, SwitchKeepsQueue
  <2>8. RecordsMatchThreads'
    BY <1>0, <2>2, <2>7, RecordsStayMatched DEF QueueInv
  <2>9. TornDownIsEmpty'
    BY <2>5 DEF TornDownIsEmpty
  <2>. QED BY <1>1, <2>7, <2>8, <2>9 DEF QueueInv
<1>3. CASE Terminate
  <2> DEFINE ts == [threads EXCEPT ![current] =
                 [@ EXCEPT !.state = "TERMINATED", !.deferred = TRUE, !.exec = 0]]
  <2>1. ts \in [Threads -> ThreadRecord]
    <3>1. 0 \in 0 .. 1 /\ "TERMINATED" \in ThreadStates /\ TRUE \in BOOLEAN
      BY DEF ThreadStates
    <3>2. [threads[current] EXCEPT !.state = "TERMINATED", !.deferred = TRUE,
                                   !.exec = 0] \in ThreadRecord
      BY <3>1, ThreadRecordFields DEF WaitInv, TypeOK
    <3>. QED BY <3>2 DEF WaitInv, TypeOK
  <2>2. /\ \A u \in Threads \ {current} : ts[u] = threads[u]
        /\ ts[current].state = "TERMINATED"
        /\ ts[current].queued = threads[current].queued
        /\ ts[current].wait = None
        /\ ts[current].started = threads[current].started
    BY <1>0 DEF WaitInv, TypeOK, ThreadRecord
  <2>3. \/ threads' = ts /\ mode' = "halted" /\ UNCHANGED <<runq, current>>
        \/ \E t \in Threads :
             /\ IsNextRunnable(ts, current, t)
             /\ threads' = Dispatched(ts, t)
             /\ runq' = RemoveRunnable(runq, t)
             /\ current' = t
             /\ mode' = "up"
    BY <1>0, <1>3 DEF Terminate
  <2> HIDE DEF ts
  <2>4. QueueMatches(runq, ts)
    <3>1. ASSUME NEW u \in Threads
          PROVE  /\ ts[u].queued <=> \E i \in 1 .. Len(runq) : runq[i] = u
                 /\ ts[u].queued <=> ts[u].state = "RUNNABLE"
      BY <1>0, <2>2 DEF QueueInv, RunQueueMatchesStates
    <3>. QED BY <3>1 DEF QueueMatches, QueueInv, RunQueueMatchesStates
  <2>5. CASE threads' = ts /\ mode' = "halted" /\ UNCHANGED <<runq, current>>
    <3>1. RunQueueMatchesStates'
      BY <2>4, <2>5 DEF QueueMatches, RunQueueMatchesStates
    <3>2. RecordsMatchThreads'
      BY <1>0, <2>2, <2>5, RecordsStayMatched DEF QueueInv
    <3>3. CurrentIsNotReady' /\ TornDownIsEmpty'
      BY <2>2, <2>5 DEF CurrentIsNotReady, TornDownIsEmpty
    <3>4. WaitersHaveRun'
      BY <2>2, <2>5 DEF QueueInv, WaitersHaveRun
    <3>. QED BY <1>1, <3>1, <3>2, <3>3, <3>4 DEF QueueInv
  <2>6. CASE \E t \in Threads :
               /\ IsNextRunnable(ts, current, t)
               /\ threads' = Dispatched(ts, t)
               /\ runq' = RemoveRunnable(runq, t)
               /\ current' = t
               /\ mode' = "up"
    <3>1. /\ RunQueueMatchesStates' /\ CurrentIsNotReady' /\ WaitersHaveRun'
          /\ \A u \in Threads : /\ threads'[u].wait = ts[u].wait
                                /\ threads'[u].state = "BLOCKED" <=>
                                     ts[u].state = "BLOCKED"
      BY <1>0, <2>1, <2>2, <2>4, <2>6, SwitchKeepsQueue
    <3>2. RecordsMatchThreads'
      BY <1>0, <2>2, <3>1, RecordsStayMatched DEF QueueInv
    <3>3. TornDownIsEmpty'
      BY <2>6 DEF TornDownIsEmpty
    <3>. QED BY <1>1, <3>1, <3>2, <3>3 DEF QueueInv
  <2>. QED BY <2>3, <2>5, <2>6
<1>. QED BY <1>2, <1>3

\* The thread that makes a call is RUNNING and in no queue.
LEMMA CallerRuns ==
  ASSUME WaitInv, QueueInv, Running
  PROVE  /\ current \in Threads /\ threads[current].state = "RUNNING"
         /\ \A t \in Threads \ {current} : threads[t].state # "RUNNING"
  BY DEF Running, WaitInv, TypeOK, QueueInv, RunQueueMatchesStates

\* Calls that create, resume, close, collect or discard threads.
LEMMA QueueInvTables ==
  ASSUME WaitInv, QueueInv,
         \/ \E allocated \in BOOLEAN : CreateSuspendedThread(allocated)
         \/ \E h \in Handles : ResumeThread(h) \/ CloseHandle(h)
         \/ \E T \in SUBSET Threads : Collect(T)
         \/ \E t \in Threads : DiscardCreatedThread(t)
  PROVE  QueueInv'
<1>0. /\ Running /\ mode = "up" /\ loop = Idle /\ mode' = "up" /\ loop' = Idle
      /\ UNCHANGED <<records, current>>
  BY DEF CreateSuspendedThread, ResumeThread, CloseHandle, Collect,
         DiscardCreatedThread, Running
<1>1. /\ LoopsRunForTheCaller' /\ TornDownIsEmpty'
      /\ current \in Threads /\ threads[current].state = "RUNNING" /\ TypeOK
  BY <1>0, CallerRuns DEF LoopsRunForTheCaller, Idle, TornDownIsEmpty, WaitInv
<1>2. ASSUME NEW ok \in BOOLEAN, CreateSuspendedThread(ok) PROVE QueueInv'
  <2>1. PICK t \in Threads, o \in Objects :
          /\ IsLowest(FreeThreads, t)
          /\ LET g == NextGeneration(objects[o].generation) IN
               threads' = [threads EXCEPT ![t] =
                             IF ok THEN NewThread(o, g) ELSE EmptyThread]
    BY <1>2 DEF CreateSuspendedThread
  <2>2. threads[t].state = "FREE" /\ t # current
    BY <2>1, <1>1 DEF IsLowest, FreeThreads
  <2>3. \A u \in Threads \ {t} : threads'[u] = threads[u]
    BY <2>1, <1>1 DEF TypeOK
  <2>4. /\ threads'[t].state \in {"FREE", "CREATED_SUSPENDED"}
        /\ threads'[t].queued = FALSE /\ threads'[t].wait = None
    BY <2>1, <1>1 DEF TypeOK, NewThread, EmptyThread
  <2>5. UNCHANGED runq
    BY <1>2 DEF CreateSuspendedThread
  <2>. QED
    BY <1>0, <1>1, <2>2, <2>3, <2>4, <2>5, QuietStepKeepsQueue
<1>3. ASSUME NEW h \in Handles, ResumeThread(h) PROVE QueueInv'
  <2> DEFINE t == Target(h)
  <2>1. /\ t \in Threads /\ threads[t].state = "CREATED_SUSPENDED"
        /\ threads' = [threads EXCEPT ![t] =
             [@ EXCEPT !.state = "RUNNABLE", !.suspend = 0, !.queued = TRUE]]
        /\ runq' = Append(runq, t)
    BY <1>3 DEF ResumeThread, Resolves, Target, WaitInv, TargetsAreInRange, Handles
  <2> HIDE DEF t
  <2>2. /\ \A u \in Threads \ {t} : threads'[u] = threads[u]
        /\ threads'[t].state = "RUNNABLE" /\ threads'[t].queued = TRUE
        /\ threads'[t].wait = threads[t].wait
        /\ threads'[t].started = threads[t].started
    BY <2>1, <1>1 DEF TypeOK, ThreadRecord
  <2>3. t # current /\ \A i \in 1 .. Len(runq) : runq[i] # t
    BY <2>1, <1>1 DEF QueueInv, RunQueueMatchesStates
  <2> DEFINE q == Append(runq, t)
  <2>4. /\ \A i, j \in 1 .. Len(q) : q[i] = q[j] => i = j
        /\ \A u : (\E i \in 1 .. Len(q) : q[i] = u) <=>
                  u = t \/ \E i \in 1 .. Len(runq) : runq[i] = u
    <3>1. runq \in Seq(Threads)
          /\ \A i, j \in 1 .. Len(runq) : runq[i] = runq[j] => i = j
      BY <1>1 DEF TypeOK, QueueInv, RunQueueMatchesStates
    <3>. QED BY <3>1, <2>1, <2>3, EnqueueFacts
  <2>5. runq' = q
    BY <2>1
  <2> HIDE DEF q
  <2>6. ASSUME NEW u \in Threads
        PROVE  /\ threads'[u].queued <=> \E i \in 1 .. Len(q) : q[i] = u
               /\ threads'[u].queued <=> threads'[u].state = "RUNNABLE"
               /\ threads'[u].state = "RUNNING" <=> u = current
    <3>1. CASE u = t
      <4>1. \E i \in 1 .. Len(q) : q[i] = u
        BY <3>1, <2>4
      <4>. QED BY <4>1, <3>1, <2>2, <2>3
    <3>2. CASE u # t
      <4>1. (\E i \in 1 .. Len(q) : q[i] = u) <=>
            (\E i \in 1 .. Len(runq) : runq[i] = u)
        BY <3>2, <2>4
      <4>. QED BY <4>1, <3>2, <2>2, <1>0 DEF QueueInv, RunQueueMatchesStates
    <3>. QED BY <3>1, <3>2
  <2>7. RunQueueMatchesStates'
    BY <2>4, <2>5, <2>6, <1>0 DEF RunQueueMatchesStates
  <2>8. RecordsMatchThreads'
    BY <2>1, <2>2, <1>0, RecordsStayMatched DEF QueueInv
  <2>9. CurrentIsNotReady' /\ WaitersHaveRun'
    BY <2>1, <2>2, <2>3, <1>0, <1>1 DEF QueueInv, CurrentIsNotReady, WaitersHaveRun
  <2>. QED BY <1>1, <2>7, <2>8, <2>9 DEF QueueInv
<1>4. ASSUME NEW h \in Handles, CloseHandle(h) PROVE QueueInv'
  <2>1. CASE UNCHANGED threads
    BY <1>0, <1>1, <1>4, <2>1, QuietStepKeepsQueue DEF CloseHandle
  <2>2. CASE h.type = "THREAD"
    <3> DEFINE t == Target(h)
               ts == [threads EXCEPT ![t].pub =
                        IF threads[t].pub # 0 THEN threads[t].pub - 1 ELSE 0]
               T == {u \in {t} : Reclaimable(ts, u)}
    <3>1. t \in Threads
      BY <1>4, <2>2 DEF CloseHandle, Resolves, Target, WaitInv, TargetsAreInRange, Handles
    <3>2. threads' = Zeroed(ts, T)
      BY <1>4, <2>2 DEF CloseHandle
    <3>3. /\ \A u \in Threads \ {t} : ts[u] = threads[u]
          /\ ts[t].state = threads[t].state /\ ts[t].queued = threads[t].queued
          /\ ts[t].wait = threads[t].wait /\ ts[t].started = threads[t].started
      BY <3>1, <1>1 DEF TypeOK, ThreadRecord
    <3>4. \A u \in T : u # current /\ u = t /\ ts[u].state = "TERMINATED"
      BY DEF Reclaimable
    <3> HIDE DEF ts, T
    <3>5. \A u \in Threads : threads'[u] = IF u \in T THEN EmptyThread ELSE ts[u]
      BY <3>2 DEF Zeroed
    <3>6. /\ EmptyThread.state = "FREE" /\ EmptyThread.queued = FALSE
          /\ EmptyThread.wait = None
      BY DEF EmptyThread
    <3>7. UNCHANGED runq
      BY <1>4 DEF CloseHandle
    <3>. QED
      BY <1>0, <1>1, <3>1, <3>3, <3>4, <3>5, <3>6, <3>7, QuietStepKeepsQueue
  <2>. QED BY <1>4, <2>1, <2>2 DEF CloseHandle
<1>5. ASSUME NEW T \in SUBSET Threads, Collect(T) PROVE QueueInv'
  <2>1. /\ \A u \in Threads : threads'[u] = IF u \in T THEN EmptyThread ELSE threads[u]
        /\ UNCHANGED runq
    BY <1>5 DEF Collect, Zeroed
  <2>2. \A u \in T : u # current /\ threads[u].state = "TERMINATED"
    BY <1>5 DEF Collect, Reclaimable
  <2>3. /\ EmptyThread.state = "FREE" /\ EmptyThread.queued = FALSE
        /\ EmptyThread.wait = None
    BY DEF EmptyThread
  <2>. QED
    BY <1>0, <1>1, <2>1, <2>2, <2>3, QuietStepKeepsQueue
<1>6. ASSUME NEW t \in Threads, DiscardCreatedThread(t) PROVE QueueInv'
  <2> DEFINE ts == [threads EXCEPT ![t] =
                 [@ EXCEPT !.state = "TERMINATED", !.exec = 0, !.queued = FALSE]]
             T == {u \in {t} : Reclaimable(ts, u)}
  <2>1. /\ t # Boot /\ ~threads[t].started
        /\ threads[t].state \in {"CREATED_SUSPENDED", "RUNNABLE"}
        /\ runq' = IF threads[t].queued THEN RemoveRunnable(runq, t) ELSE runq
        /\ threads' = Zeroed(ts, T)
    BY <1>6 DEF DiscardCreatedThread
  <2>2. t # current /\ threads[t].wait = None
    BY <2>1, <1>1 DEF QueueInv, WaitersHaveRun
  <2>3. /\ ts[t].state = "TERMINATED" /\ ts[t].queued = FALSE
        /\ ts[t].wait = None
        /\ \A u \in Threads \ {t} : ts[u] = threads[u]
    BY <2>2, <1>1 DEF TypeOK, ThreadRecord
  <2>4. T \subseteq {t}
    OBVIOUS
  <2> HIDE DEF ts, T
  <2>5. \A u \in Threads : threads'[u] = IF u \in T THEN EmptyThread ELSE ts[u]
    BY <2>1 DEF Zeroed
  <2>6. /\ EmptyThread.state = "FREE" /\ EmptyThread.queued = FALSE
        /\ EmptyThread.wait = None
    BY DEF EmptyThread
  <2>7. /\ \A u \in Threads \ {t} : threads'[u] = threads[u]
        /\ threads'[t].state \in {"FREE", "TERMINATED"}
        /\ threads'[t].queued = FALSE /\ threads'[t].wait = None
    BY <2>3, <2>4, <2>5, <2>6
  <2>8. CASE threads[t].state = "CREATED_SUSPENDED"
    <3>1. UNCHANGED runq
      BY <2>1, <2>8 DEF QueueInv, RunQueueMatchesStates
    <3>. QED
      BY <1>0, <1>1, <2>2, <2>7, <2>8, <3>1, QuietStepKeepsQueue
  <2>9. CASE threads[t].state = "RUNNABLE"
    <3> DEFINE q == RemoveRunnable(runq, t)
    <3>1. runq' = q
      BY <2>1, <2>9 DEF QueueInv, RunQueueMatchesStates
    <3>2. /\ \A i, j \in 1 .. Len(q) : q[i] = q[j] => i = j
          /\ \A u : (\E i \in 1 .. Len(q) : q[i] = u) <=>
                    u # t /\ \E i \in 1 .. Len(runq) : runq[i] = u
      <4>1. runq \in Seq(Threads)
            /\ \A i, j \in 1 .. Len(runq) : runq[i] = runq[j] => i = j
        BY <1>1 DEF TypeOK, QueueInv, RunQueueMatchesStates
      <4>. QED BY <4>1, RemoveRunnableFacts
    <3> HIDE DEF q
    <3>3. ASSUME NEW u \in Threads
          PROVE  /\ threads'[u].queued <=> \E i \in 1 .. Len(q) : q[i] = u
                 /\ threads'[u].queued <=> threads'[u].state = "RUNNABLE"
                 /\ threads'[u].state = "RUNNING" <=> u = current
      <4>1. CASE u = t
        BY <4>1, <3>2, <2>2, <2>7
      <4>2. CASE u # t
        <5>1. (\E i \in 1 .. Len(q) : q[i] = u) <=>
              (\E i \in 1 .. Len(runq) : runq[i] = u)
          BY <4>2, <3>2
        <5>. QED BY <5>1, <4>2, <2>7, <1>0 DEF QueueInv, RunQueueMatchesStates
      <4>. QED BY <4>1, <4>2
    <3>4. RunQueueMatchesStates'
      BY <3>1, <3>2, <3>3, <1>0 DEF RunQueueMatchesStates
    <3>5. RecordsMatchThreads'
      BY <2>2, <2>7, <2>9, <1>0, RecordsStayMatched DEF QueueInv
    <3>6. CurrentIsNotReady' /\ WaitersHaveRun'
      BY <2>2, <2>7, <1>0, <1>1 DEF QueueInv, CurrentIsNotReady, WaitersHaveRun
    <3>. QED BY <1>1, <3>4, <3>5, <3>6 DEF QueueInv
  <2>. QED BY <2>1, <2>8, <2>9
<1>. QED BY <1>2, <1>3, <1>4, <1>5, <1>6

\* The steps that wake threads, block one, or release a wait record.
LEMMA QueueInvWaits ==
  ASSUME WaitInv, QueueInv,
         \/ \E h \in Handles : SignalEvent(h) \/ SetEvent(h) \/ WaitInfinite(h)
         \/ WakeNext \/ ServiceNext \/ ServiceDone
  PROVE  QueueInv'
<1> USE DEF WaitInv
\* A step of a loop, or of a call, that leaves the threads alone.
<1>1. ASSUME UNCHANGED <<threads, records, runq, current, mode>>,
             LoopsRunForTheCaller'
      PROVE  QueueInv'
  BY <1>1, QuietStepKeepsQueue
<1>2. ASSUME NEW h \in Handles, SignalEvent(h) PROVE QueueInv'
  <2> DEFINE e == Target(h)
  <2>1. e \in Events /\ Running /\ UNCHANGED <<current, mode, now>>
    BY <1>2 DEF SignalEvent, LiveEvent, Resolves, Target, TargetsAreInRange, Handles
  <2>2. CASE /\ events[e].waiters # <<>>
             /\ CompleteWaiter(e, 1, "OBJECT_0", "SIGNALED")
             /\ UNCHANGED loop
    <3>1. 1 \in 1 .. Len(events[e].waiters)
      BY <2>1, <2>2 DEF TypeOK, EventRecord
    <3>2. LoopsRunForTheCaller'
      BY <2>1, <2>2 DEF Running, LoopsRunForTheCaller, Idle
    <3> HIDE DEF e
    <3>. QED BY <2>1, <2>2, <3>1, <3>2, WakeKeepsQueue
  <2>3. CASE /\ UNCHANGED <<threads, records, runq>>
             /\ \/ loop' = [Idle EXCEPT !.op = "wake", !.event = e]
                \/ UNCHANGED loop
    <3>1. loop'.op \in {"wake", "idle"}
      <4>1. CASE loop' = [Idle EXCEPT !.op = "wake", !.event = e]
        BY <4>1 DEF Idle
      <4>2. CASE UNCHANGED loop
        BY <4>2, <2>1 DEF Running, Idle
      <4>. QED BY <4>1, <4>2, <2>3
    <3>2. LoopsRunForTheCaller'
      BY <2>1, <2>3, <3>1 DEF Running, LoopsRunForTheCaller
    <3>. QED BY <1>1, <2>1, <2>3, <3>2
  <2>. QED BY <1>2, <2>2, <2>3 DEF SignalEvent
<1>3. ASSUME WakeNext PROVE QueueInv'
  <2> DEFINE e == loop.event
  <2>1. /\ e \in Events /\ loop.op = "wake" /\ loop # Idle
        /\ UNCHANGED <<current, mode, now>>
    BY <1>3 DEF WakeNext, LoopTargetIsLive, Idle
  <2>2. CASE /\ events[e].waiters # <<>>
             /\ CompleteWaiter(e, 1, "OBJECT_0", "SIGNALED")
             /\ UNCHANGED loop
    <3>1. 1 \in 1 .. Len(events[e].waiters)
      BY <2>1, <2>2 DEF TypeOK, EventRecord
    <3>2. LoopsRunForTheCaller'
      <4>1. threads'[current].wait = threads[current].wait
        <5> DEFINE t == records[events[e].waiters[1]].thread
        <5>1. events[e].waiters[1] \in Records /\ records[events[e].waiters[1]].linked
          <6>1. events[e].waiters \in Seq(Records)
            BY <2>1 DEF TypeOK, EventRecord
          <6>2. events[e].waiters[1] \in Records
            BY <6>1, <3>1
          <6>. QED BY <6>2, <2>1, <3>1 DEF ListedRecordsAreLinked
        <5>2. t \in Threads
          BY <5>1 DEF LinkedRecordsAreListed
        <5>. QED
          BY <5>2, <2>2 DEF CompleteWaiter, TypeOK, ThreadRecord
      <4>. QED
        BY <4>1, <2>1, <2>2 DEF QueueInv, LoopsRunForTheCaller
    <3> HIDE DEF e
    <3>. QED BY <2>1, <2>2, <3>1, <3>2, WakeKeepsQueue
  <2>3. CASE loop' = Idle /\ UNCHANGED <<threads, records, runq>>
    <3>1. LoopsRunForTheCaller'
      BY <2>3 DEF LoopsRunForTheCaller, Idle
    <3>. QED BY <1>1, <2>1, <2>3, <3>1
  <2>. QED BY <1>3, <2>2, <2>3 DEF WakeNext
<1>4. ASSUME ServiceNext PROVE QueueInv'
  <2> DEFINE r == records[loop.index]
  <2>1. /\ loop' = [loop EXCEPT !.index = loop.index + 1]
        /\ UNCHANGED <<current, now, mode>>
        /\ loop.op \in {"poll", "pollwait"} /\ loop.index < MaxThreads
    BY <1>4 DEF ServiceNext
  <2>2. loop.index \in Records /\ loop # Idle
    <3>1. loop.index \in Nat /\ MaxThreads \in Nat
      BY BoundsAssumption DEF TypeOK, LoopRecord
    <3>. QED BY <3>1, <2>1 DEF Records, Idle
  <2>3. loop'.op = loop.op /\ loop'.time = loop.time
    BY <2>1 DEF TypeOK, LoopRecord
  <2>4. CASE UNCHANGED <<threads, records, runq>>
    <3>1. LoopsRunForTheCaller'
      BY <2>1, <2>2, <2>3, <2>4 DEF QueueInv, LoopsRunForTheCaller
    <3>. QED BY <1>1, <2>1, <2>4, <3>1
  <2>5. CASE /\ r.linked
             /\ CompleteWaiter(r.event, r.index, "TIMEOUT", "TIMED_OUT")
    <3> DEFINE e == r.event
               i == r.index
    <3>1. e \in Events /\ i \in 1 .. Len(events[e].waiters)
          /\ events[e].waiters[i] = loop.index /\ r.thread \in Threads
      BY <2>2, <2>5 DEF LinkedRecordsAreListed
    <3>2. threads'[current].wait = threads[current].wait
      BY <2>5, <3>1 DEF CompleteWaiter, TypeOK, ThreadRecord
    <3>3. LoopsRunForTheCaller'
      BY <2>1, <2>2, <2>3, <3>2 DEF QueueInv, LoopsRunForTheCaller
    <3>4. CompleteWaiter(e, i, "TIMEOUT", "TIMED_OUT")
      BY <2>5
    <3> HIDE DEF e, i
    <3>. QED BY <2>1, <3>1, <3>3, <3>4, WakeKeepsQueue
  <2>. QED BY <1>4, <2>4, <2>5 DEF ServiceNext, Expired
<1>5. ASSUME NEW h \in Handles, WaitInfinite(h) PROVE QueueInv'
  <2>1. /\ Target(h) \in Events /\ mode = "up" /\ threads[current].wait = None
        /\ loop' = Idle /\ BlockOn(Target(h), FALSE, 0)
    BY <1>5 DEF WaitInfinite, OpenEvent, Resolves, Target, TargetsAreInRange, Handles,
                Running
  <2>. QED BY <2>1, ConstantFacts, BlockKeepsQueue
<1>6. ASSUME ServiceDone PROVE QueueInv'
  <2>1. loop.op \in {"poll", "pollwait"} /\ loop' = Idle /\ loop # Idle
    BY <1>6 DEF ServiceDone, Idle
  <2>2. CASE loop.op = "pollwait"
    <3>1. /\ loop.event \in Events /\ loop.deadline \in Time
          /\ mode = "up" /\ threads[current].wait = None
      BY <2>1, <2>2 DEF LoopTargetIsLive, TypeOK, LoopRecord, QueueInv,
                        LoopsRunForTheCaller
    <3>2. BlockOn(loop.event, TRUE, loop.deadline)
      BY <1>6, <2>2 DEF ServiceDone
    <3>. QED BY <2>1, <3>1, <3>2, BlockKeepsQueue
  <2>3. CASE loop.op = "poll"
    <3>1. UNCHANGED <<threads, records, runq, current, mode>>
      BY <1>6, <2>3 DEF ServiceDone
    <3>2. LoopsRunForTheCaller'
      BY <2>1 DEF LoopsRunForTheCaller, Idle
    <3>. QED BY <1>1, <3>1, <3>2
  <2>. QED BY <2>1, <2>2, <2>3
<1>. QED BY <1>2, <1>3, <1>4, <1>5, <1>6 DEF SetEvent

\* The end of a scheduler and its next beginning.
LEMMA QueueInvRestart ==
  ASSUME WaitInv, QueueInv, Teardown \/ Initialize PROVE QueueInv'
<1>1. CASE Teardown
  <2> DEFINE T == {t \in Threads : Reclaimable(threads, t)}
  <2>1. /\ Running /\ current = Boot /\ threads[Boot].state = "RUNNING"
        /\ {Boot} \cup {t \in Threads : threads[t].state # "FREE"} \subseteq T \cup {Boot}
        /\ threads' = Zeroed(threads, T \cup {Boot})
        /\ mode' = "down" /\ UNCHANGED <<records, runq, current, loop>>
    BY <1>1 DEF Teardown
  <2>2. ASSUME NEW t \in Threads
        PROVE  threads[t].state \in {"RUNNING", "TERMINATED", "FREE"}
               /\ threads[t].wait = None /\ ~threads[t].queued
    <3>1. CASE t = Boot
      BY <3>1, <2>1 DEF Running, QueueInv, RunQueueMatchesStates
    <3>2. CASE t # Boot
      <4>1. threads[t].state \in {"TERMINATED", "FREE"}
        BY <3>2, <2>1 DEF Reclaimable
      <4>. QED BY <4>1 DEF QueueInv, WaitersHaveRun, RunQueueMatchesStates
    <3>. QED BY <3>1, <3>2
  <2>3. ASSUME NEW t \in Threads
        PROVE  /\ threads'[t].state = "FREE" /\ threads'[t].wait = None
               /\ threads'[t].queued = FALSE
    <3>1. /\ EmptyThread.state = "FREE" /\ EmptyThread.queued = FALSE
          /\ EmptyThread.wait = None
      BY DEF EmptyThread
    <3>2. CASE t \in T \cup {Boot}
      BY <3>1, <3>2, <2>1 DEF Zeroed
    <3>3. CASE t \notin T \cup {Boot}
      <4>1. threads[t].state = "FREE"
        BY <2>1, <3>3
      <4>2. threads'[t] = threads[t]
        BY <2>1, <3>3 DEF Zeroed
      <4>3. threads[t].queued \in BOOLEAN
        BY DEF WaitInv, TypeOK, ThreadRecord
      <4>. QED BY <4>1, <4>2, <4>3, <2>2
    <3>. QED BY <3>2, <3>3
  <2> HIDE DEF T
  <2>4. \A i \in 1 .. Len(runq) : FALSE
    <3>1. \A i \in 1 .. Len(runq) : runq[i] \in Threads
      BY DEF WaitInv, TypeOK
    <3>. QED BY <3>1, <2>2 DEF QueueInv, RunQueueMatchesStates
  <2>5. \A r \in Records : ~records[r].active
    <3>1. \A r \in Records : r # None
      BY ConstantFacts
    <3>. QED BY <3>1, <2>2 DEF QueueInv, RecordsMatchThreads
  <2>6. RunQueueMatchesStates'
    BY <2>1, <2>3, <2>4 DEF RunQueueMatchesStates
  <2>7. RecordsMatchThreads'
    BY <2>1, <2>3, <2>5 DEF RecordsMatchThreads
  <2>8. /\ CurrentIsNotReady' /\ WaitersHaveRun' /\ TornDownIsEmpty'
        /\ LoopsRunForTheCaller'
    BY <2>1, <2>3, ConstantFacts
       DEF CurrentIsNotReady, WaitersHaveRun, TornDownIsEmpty, LoopsRunForTheCaller,
           Running, Idle
  <2>. QED BY <2>6, <2>7, <2>8 DEF QueueInv
<1>2. CASE Initialize
  <2>1. /\ threads' = BootThreads /\ records' = NoRecords /\ runq' = <<>>
        /\ current' = Boot /\ loop' = Idle /\ mode' = "up"
    BY <1>2 DEF Initialize
  <2>. QED
    BY <2>1, BootKeepsQueue, ConstantFacts
       DEF QueueInv, QueueMatches, RunQueueMatchesStates, RecordsMatchThreads,
           CurrentIsNotReady, WaitersHaveRun, LoopsRunForTheCaller, TornDownIsEmpty,
           Idle
<1>. QED BY <1>1, <1>2

LEMMA QueueInvStep == WaitInv /\ QueueInv /\ [Next]_vars => QueueInv'
<1> SUFFICES ASSUME WaitInv, QueueInv, [Next]_vars PROVE QueueInv'
  OBVIOUS
\* The steps that change no thread, record or queue.
<1>1. ASSUME UNCHANGED <<threads, records, runq, current, mode, loop>>, now' >= now
      PROVE  QueueInv'
  <2>1. LoopsRunForTheCaller'
    <3>1. /\ now \in Int
          /\ loop.op \in {"poll", "pollwait"} => loop.time \in Int
          /\ now' \in Int
      BY WaitInvStep DEF WaitInv, TypeOK, LoopRecord, Time
    <3>. QED
      BY <1>1, <3>1 DEF QueueInv, LoopsRunForTheCaller
  <2>. QED BY <1>1, <2>1, QuietStepKeepsQueue DEF WaitInv
<1>2. now \in Int
  BY DEF WaitInv, TypeOK, Time
<1>3. CASE UNCHANGED vars
  <2>1. UNCHANGED <<threads, records, runq, current, mode, loop>> /\ now' = now
    BY <1>3 DEF vars
  <2>2. now' >= now
    BY <2>1, <1>2
  <2>. QED BY <1>1, <2>1, <2>2
<1>4. CASE \/ \E manual, signaled \in BOOLEAN : CreateEvent(manual, signaled)
           \/ \E type \in Singletons : CreateSingleton(type)
           \/ \E h \in Handles : TryDestroyEvent(h) \/ ResetEvent(h) \/ WaitSignaled(h)
  <2>1. UNCHANGED <<threads, records, runq, current, mode, loop>> /\ now' = now
    BY <1>4 DEF CreateEvent, CreateSingleton, TryDestroyEvent, ResetEvent, WaitSignaled
  <2>2. now' >= now
    BY <2>1, <1>2
  <2>. QED BY <1>1, <2>1, <2>2
<1>5. CASE \E h \in Handles, ms \in Timeouts : WaitFinite(h, ms)
  <2>1. /\ UNCHANGED <<threads, records, runq, current, mode>> /\ Running
        /\ now' \in now .. ClockMax /\ loop'.time = now'
    BY <1>5 DEF WaitFinite
  <2>2. LoopsRunForTheCaller'
    <3>1. ClockMax \in Int
      BY BoundsAssumption
    <3>. QED BY <1>2, <2>1, <3>1 DEF LoopsRunForTheCaller, Running
  <2>. QED BY <2>1, <2>2, QuietStepKeepsQueue DEF WaitInv
<1>6. CASE PollTimeouts
  <2>1. /\ UNCHANGED <<threads, records, runq, current, mode, now>> /\ Running
        /\ loop'.time = now
    BY <1>6 DEF PollTimeouts, Idle
  <2>2. LoopsRunForTheCaller'
    BY <1>2, <2>1 DEF LoopsRunForTheCaller, Running
  <2>. QED BY <2>1, <2>2, QuietStepKeepsQueue DEF WaitInv
<1>7. CASE Tick
  <2>1. UNCHANGED <<threads, records, runq, current, mode, loop>> /\ now' = now + 1
    BY <1>7 DEF Tick
  <2>2. now' >= now
    BY <2>1, <1>2
  <2>. QED BY <1>1, <2>1, <2>2
<1>8. CASE \/ \E allocated \in BOOLEAN : CreateSuspendedThread(allocated)
           \/ \E h \in Handles : ResumeThread(h) \/ CloseHandle(h)
           \/ \E T \in SUBSET Threads : Collect(T)
           \/ \E t \in Threads : DiscardCreatedThread(t)
  BY <1>8, QueueInvTables
<1>9. CASE \/ \E h \in Handles : SignalEvent(h) \/ SetEvent(h) \/ WaitInfinite(h)
           \/ WakeNext \/ ServiceNext \/ ServiceDone
  BY <1>9, QueueInvWaits
<1>10. CASE FinishWait
  BY <1>10, FinishKeepsQueue
<1>11. CASE Yield \/ Terminate
  BY <1>11, QueueInvSwitch
<1>12. CASE Teardown \/ Initialize
  BY <1>12, QueueInvRestart
<1>. QED
  BY <1>3, <1>4, <1>5, <1>6, <1>7, <1>8, <1>9, <1>10, <1>11, <1>12
     DEF Next, HandleCall

LEMMA QueueInvHolds == Spec => []QueueInv
<1>1. Init => WaitInv /\ QueueInv
  BY WaitInvInit, QueueInvInit
<1>2. WaitInv /\ QueueInv /\ [Next]_vars => (WaitInv /\ QueueInv)'
  BY WaitInvStep, QueueInvStep
<1>. QED
  BY <1>1, <1>2, PTL DEF Spec

-----------------------------------------------------------------------------
(* The fixed arrays.                                                       *)

\* No more than MaxThreads - 1 things belong to different threads other than
\* the one that runs.
LEMMA OthersAreFewer ==
  ASSUME NEW n \in Nat, NEW f \in [1 .. n -> Threads], NEW c \in Threads,
         \A i \in 1 .. n : f[i] # c,
         \A i, j \in 1 .. n : f[i] = f[j] => i = j
  PROVE  n < MaxThreads
<1> DEFINE Others == Threads \ {c}
<1>1. MaxThreads \in Nat /\ MaxThreads >= 1
  BY BoundsAssumption
<1>2. IsFiniteSet(Threads) /\ Cardinality(Threads) = MaxThreads
  <2>1. /\ IsFiniteSet(0 .. (MaxThreads - 1))
        /\ Cardinality(0 .. (MaxThreads - 1)) =
             IF 0 > MaxThreads - 1 THEN 0 ELSE (MaxThreads - 1) - 0 + 1
    BY <1>1, FS_Interval
  <2>. QED BY <2>1, <1>1 DEF Threads
<1>3. IsFiniteSet(Others) /\ Cardinality(Others) = MaxThreads - 1
  BY <1>2, FS_RemoveElement
<1>4. IsFiniteSet(1 .. n) /\ Cardinality(1 .. n) = n
  <2>1. /\ IsFiniteSet(1 .. n)
        /\ Cardinality(1 .. n) = IF 1 > n THEN 0 ELSE n - 1 + 1
    BY FS_Interval
  <2>. QED BY <2>1
<1>5. f \in [1 .. n -> Others]
  OBVIOUS
<1>6. ~(Cardinality(Others) < Cardinality(1 .. n))
  <2> SUFFICES ASSUME Cardinality(Others) < Cardinality(1 .. n) PROVE FALSE
    OBVIOUS
  <2>1. \E x, y \in 1 .. n : x # y /\ f[x] = f[y]
    <3> HIDE DEF Others
    <3>. QED BY <1>3, <1>4, <1>5, FS_PigeonHole
  <2>. QED BY <2>1
<1> HIDE DEF Others
<1>. QED BY <1>1, <1>3, <1>4, <1>6

\* A record of a waiter list belongs to a thread other than the caller.
LEMMA ListsAreShort ==
  ASSUME WaitInv, QueueInv, threads[current].wait = None, NEW e \in Events
  PROVE  Len(events[e].waiters) < MaxThreads
<1> DEFINE w == events[e].waiters
           f == [i \in 1 .. Len(w) |-> records[w[i]].thread]
<1>1. w \in Seq(Records) /\ Len(w) \in Nat /\ current \in Threads
  BY DEF WaitInv, TypeOK, EventRecord
<1>2. ASSUME NEW i \in 1 .. Len(w)
      PROVE  /\ w[i] \in Records /\ records[w[i]].index = i
             /\ records[w[i]].thread \in Threads
             /\ threads[records[w[i]].thread].wait = w[i]
             /\ records[w[i]].thread # current
  <2>1. w[i] \in Records /\ records[w[i]].linked /\ records[w[i]].index = i
    BY <1>1 DEF WaitInv, ListedRecordsAreLinked
  <2>2. records[w[i]].active
    BY <2>1 DEF WaitInv, LinkedRecordsAreListed
  <2>3. /\ records[w[i]].thread \in Threads
        /\ threads[records[w[i]].thread].wait = w[i]
    BY <2>1, <2>2 DEF QueueInv, RecordsMatchThreads
  <2>. QED BY <2>1, <2>3, ConstantFacts
<1>3. f \in [1 .. Len(w) -> Threads] /\ \A i \in 1 .. Len(w) : f[i] # current
  BY <1>2
<1>4. \A i, j \in 1 .. Len(w) : f[i] = f[j] => i = j
  <2> SUFFICES ASSUME NEW i \in 1 .. Len(w), NEW j \in 1 .. Len(w),
                      records[w[i]].thread = records[w[j]].thread
               PROVE  i = j
    OBVIOUS
  <2>1. w[i] = w[j]
    BY <1>2
  <2>. QED BY <2>1, <1>2
<1> HIDE DEF f, w
<1>5. Len(w) < MaxThreads
  BY <1>1, <1>3, <1>4, OthersAreFewer
<1>. QED BY <1>5 DEF w

LEMMA CapacityFacts ==
  ASSUME WaitInv, QueueInv PROVE CapacitySuffices
<1>1. ASSUME Running PROVE FreeRecords # {}
  <2> SUFFICES ASSUME FreeRecords = {} PROVE FALSE
    OBVIOUS
  <2> DEFINE f == [i \in 1 .. MaxThreads |-> records[i - 1].thread]
  <2>1. MaxThreads \in Nat /\ current \in Threads
    BY BoundsAssumption DEF WaitInv, TypeOK
  <2>2. ASSUME NEW i \in 1 .. MaxThreads
        PROVE  /\ i - 1 \in Records /\ records[i - 1].thread \in Threads
               /\ threads[records[i - 1].thread].wait = i - 1
               /\ records[i - 1].thread # current
    <3>1. i - 1 \in Records
      BY <2>1 DEF Records
    <3>2. records[i - 1].active
      BY <3>1 DEF FreeRecords
    <3>3. /\ records[i - 1].thread \in Threads
          /\ threads[records[i - 1].thread].wait = i - 1
      BY <3>1, <3>2 DEF QueueInv, RecordsMatchThreads
    <3>. QED BY <1>1, <3>1, <3>3, ConstantFacts DEF Running
  <2>3. f \in [1 .. MaxThreads -> Threads] /\ \A i \in 1 .. MaxThreads : f[i] # current
    BY <2>2
  <2>4. \A i, j \in 1 .. MaxThreads : f[i] = f[j] => i = j
    <3> SUFFICES ASSUME NEW i \in 1 .. MaxThreads, NEW j \in 1 .. MaxThreads,
                        records[i - 1].thread = records[j - 1].thread
                 PROVE  i = j
      OBVIOUS
    <3>1. i - 1 = j - 1
      BY <2>2
    <3>. QED BY <3>1, <2>1
  <2> HIDE DEF f
  <2>5. MaxThreads < MaxThreads
    BY <2>1, <2>3, <2>4, OthersAreFewer
  <2>. QED BY <2>1, <2>5
<1>2. ASSUME Running PROVE \A e \in Events : Len(events[e].waiters) < MaxThreads
  BY <1>2, ListsAreShort DEF Running
<1>3. Len(runq) < MaxThreads
  <2>1. runq \in Seq(Threads) /\ Len(runq) \in Nat /\ current \in Threads
    BY DEF WaitInv, TypeOK
  <2>2. runq \in [1 .. Len(runq) -> Threads]
    BY <2>1
  <2>3. \A i \in 1 .. Len(runq) : runq[i] # current
    BY <2>1 DEF QueueInv, RunQueueMatchesStates, CurrentIsNotReady
  <2>4. \A i, j \in 1 .. Len(runq) : runq[i] = runq[j] => i = j
    BY DEF QueueInv, RunQueueMatchesStates
  <2>. QED BY <2>1, <2>2, <2>3, <2>4, OthersAreFewer
<1>. QED BY <1>1, <1>2, <1>3 DEF CapacitySuffices

-----------------------------------------------------------------------------
(* A wait is completed once.                                               *)

\* complete_waiter gives a result to a record that has none, and to no other.
LEMMA CompletionFacts ==
  ASSUME WaitInv, NEW e \in Events, NEW i \in 1 .. Len(events[e].waiters),
         NEW c \in Completions, NEW res, CompleteWaiter(e, i, c, res)
  PROVE  LET r == events[e].waiters[i] IN
           /\ r \in Records /\ records[r].completion = "FAILED"
           /\ records'[r].completion = c
           /\ \A k \in Records \ {r} : records'[k].completion = records[k].completion
<1> DEFINE w == events[e].waiters
           r == w[i]
           last == w[Len(w)]
<1>1. w \in Seq(Records) /\ r \in Records
  BY DEF WaitInv, TypeOK, EventRecord
<1>2. records[r].linked
  BY DEF WaitInv, ListedRecordsAreLinked
<1>3. records[r].completion = "FAILED"
  BY <1>1, <1>2 DEF WaitInv, LinkedRecordsAreListed
<1>4. /\ records'[r] = [records[r] EXCEPT !.linked = FALSE, !.index = 0,
                                         !.completion = c]
      /\ \A k \in Records \ {r} :
           records'[k] = IF k = last THEN [records[k] EXCEPT !.index = i]
                                     ELSE records[k]
  BY <1>1 DEF CompleteWaiter
<1>5. \A k \in Records : records[k] \in WaitRecord
  BY DEF WaitInv, TypeOK
<1> HIDE DEF r, last
<1>6. records'[r].completion = c
  BY <1>1, <1>4, <1>5 DEF WaitRecord
<1>7. ASSUME NEW k \in Records \ {r}
      PROVE  records'[k].completion = records[k].completion
  <2>1. CASE k = last
    <3>1. records'[k] = [records[k] EXCEPT !.index = i]
      BY <2>1, <1>4
    <3>2. records[k] \in WaitRecord
      BY <1>5
    <3>. QED BY <3>1, <3>2 DEF WaitRecord
  <2>2. CASE k # last
    BY <2>2, <1>4
  <2>. QED BY <2>1, <2>2
<1>. QED
  BY <1>1, <1>3, <1>6, <1>7 DEF r

LEMMA CompletionStep ==
  ASSUME WaitInv, QueueInv, [Next]_vars, NEW r \in Records
  PROVE  /\ records[r].active /\ records[r].completion # "FAILED" =>
              \/ records'[r].completion = records[r].completion
              \/ ~records'[r].active /\ records[r].thread = current
         /\ records[r].completion # "TIMEOUT" /\ records'[r].completion = "TIMEOUT" =>
              records[r].armed /\ records[r].deadline <= now
<1> DEFINE P ==
     /\ records[r].active /\ records[r].completion # "FAILED" =>
          \/ records'[r].completion = records[r].completion
          \/ ~records'[r].active /\ records[r].thread = current
     /\ records[r].completion # "TIMEOUT" /\ records'[r].completion = "TIMEOUT" =>
          records[r].armed /\ records[r].deadline <= now
<1>1. CASE records'[r].completion = records[r].completion
  BY <1>1
<1>2. ASSUME NEW e \in Events, events[e].waiters # <<>>,
             CompleteWaiter(e, 1, "OBJECT_0", "SIGNALED")
      PROVE  P
  <2>1. 1 \in 1 .. Len(events[e].waiters) /\ "OBJECT_0" \in Completions
    BY <1>2 DEF WaitInv, TypeOK, EventRecord, Completions
  <2>. QED
    BY <1>2, <2>1, CompletionFacts
<1>3. ASSUME NEW e \in Events, NEW armed, NEW deadline, BlockOn(e, armed, deadline)
      PROVE  P
  <2> DEFINE x == [active |-> TRUE, linked |-> TRUE, armed |-> armed,
                   deadline |-> deadline, thread |-> current, event |-> e,
                   slot |-> events[e].slot,
                   generation |-> objects[events[e].slot].generation,
                   index |-> Len(events[e].waiters) + 1, completion |-> "FAILED"]
  <2>1. x.completion = "FAILED"
    OBVIOUS
  <2>2. UNCHANGED records \/ \E k \in Records :
          IsLowest(FreeRecords, k) /\ records' = [records EXCEPT ![k] = x]
    BY <1>3 DEF BlockOn
  <2> HIDE DEF x
  <2>3. CASE UNCHANGED records
    BY <2>3
  <2>4. CASE \E k \in Records :
               IsLowest(FreeRecords, k) /\ records' = [records EXCEPT ![k] = x]
    <3>1. PICK k \in Records :
               IsLowest(FreeRecords, k) /\ records' = [records EXCEPT ![k] = x]
      BY <2>4
    <3>2. ~records[k].active
      BY <3>1 DEF IsLowest, FreeRecords
    <3>3. records'[r] = IF k = r THEN x ELSE records[r]
      BY <3>1 DEF WaitInv, TypeOK
    <3>. QED BY <2>1, <3>2, <3>3
  <2>. QED BY <2>2, <2>3, <2>4
<1>4. CASE \E h \in Handles : SignalEvent(h) \/ SetEvent(h)
  <2>1. PICK h \in Handles : SignalEvent(h)
    BY <1>4 DEF SetEvent
  <2>2. Target(h) \in Events
    BY <2>1 DEF SignalEvent, LiveEvent, Resolves, Target, WaitInv, TargetsAreInRange,
                Handles
  <2>. QED BY <1>1, <1>2, <2>1, <2>2 DEF SignalEvent
<1>5. CASE WakeNext
  BY <1>1, <1>2, <1>5 DEF WakeNext, WaitInv, LoopTargetIsLive
<1>6. CASE ServiceNext
  <2> DEFINE k == loop.index
  <2>1. CASE UNCHANGED records
    BY <2>1
  <2>2. CASE /\ Expired(records[k])
             /\ CompleteWaiter(records[k].event, records[k].index, "TIMEOUT", "TIMED_OUT")
    <3>1. k \in Records /\ loop.op \in {"poll", "pollwait"}
      <4>1. loop.index \in Nat /\ MaxThreads \in Nat /\ loop.index < MaxThreads
        BY <1>6, BoundsAssumption DEF ServiceNext, WaitInv, TypeOK, LoopRecord
      <4>. QED BY <4>1, <1>6 DEF Records, ServiceNext
    <3>2. /\ records[k].event \in Events
          /\ records[k].index \in 1 .. Len(events[records[k].event].waiters)
          /\ events[records[k].event].waiters[records[k].index] = k
      BY <3>1, <2>2 DEF Expired, WaitInv, LinkedRecordsAreListed
    <3>3. "TIMEOUT" \in Completions
      BY DEF Completions
    <3>4. /\ records[k].completion = "FAILED"
          /\ r # k => records'[r].completion = records[r].completion
      BY <2>2, <3>2, <3>3, CompletionFacts
    <3>5. records[k].armed /\ records[k].deadline <= now
      <4>1. /\ loop.time <= now /\ records[k].deadline <= loop.time
            /\ records[k].armed
        BY <3>1, <2>2 DEF Expired, QueueInv, LoopsRunForTheCaller
      <4>2. records[k].deadline \in Int /\ loop.time \in Int /\ now \in Int
        BY <3>1 DEF WaitInv, TypeOK, WaitRecord, LoopRecord, Time
      <4>. QED BY <4>1, <4>2
    <3>. QED BY <3>4, <3>5
  <2>. QED BY <1>6, <2>1, <2>2 DEF ServiceNext
<1>7. CASE \E h \in Handles : WaitInfinite(h)
  <2>1. PICK h \in Handles : WaitInfinite(h)
    BY <1>7
  <2>2. Target(h) \in Events /\ BlockOn(Target(h), FALSE, 0)
    BY <2>1 DEF WaitInfinite, OpenEvent, Resolves, Target, WaitInv, TargetsAreInRange,
                Handles
  <2>. QED BY <2>2, <1>3
<1>8. CASE ServiceDone
  <2>1. \/ UNCHANGED records
        \/ loop.op = "pollwait" /\ BlockOn(loop.event, TRUE, loop.deadline)
    BY <1>8 DEF ServiceDone
  <2>. QED BY <2>1, <1>1, <1>3 DEF WaitInv, LoopTargetIsLive
<1>9. CASE FinishWait
  <2>1. /\ threads[current].wait \in Records
        /\ records[threads[current].wait].thread = current
        /\ records' = [records EXCEPT ![threads[current].wait] = EmptyRecord]
    BY <1>9 DEF FinishWait, WaitIsComplete, WaitInv, TypeOK, ThreadRecord
  <2>2. ~EmptyRecord.active /\ EmptyRecord.completion = "FAILED"
    BY DEF EmptyRecord
  <2>3. records'[r] = IF r = threads[current].wait THEN EmptyRecord ELSE records[r]
    BY <2>1 DEF WaitInv, TypeOK
  <2>. QED BY <2>1, <2>2, <2>3
<1>10. CASE Initialize
  <2>1. records'[r].completion = "FAILED"
    BY <1>10 DEF Initialize, NoRecords, EmptyRecord
  <2>2. ~records[r].active
    <3>1. \A t \in Threads : threads[t].wait = None
      BY <1>10 DEF Initialize, QueueInv, TornDownIsEmpty, WaitersHaveRun
    <3>. QED BY <3>1, ConstantFacts DEF QueueInv, RecordsMatchThreads
  <2>. QED BY <2>1, <2>2
<1>11. UNCHANGED records => P
  BY <1>1
<1>12. CASE UNCHANGED vars
  BY <1>12, <1>11 DEF vars
<1>13. CASE \/ \E manual, signaled \in BOOLEAN : CreateEvent(manual, signaled)
            \/ \E type \in Singletons : CreateSingleton(type)
            \/ \E allocated \in BOOLEAN : CreateSuspendedThread(allocated)
            \/ \E h \in Handles : \/ ResumeThread(h) \/ CloseHandle(h)
                                  \/ TryDestroyEvent(h) \/ ResetEvent(h)
                                  \/ WaitSignaled(h)
                                  \/ \E milliseconds \in Timeouts :
                                       WaitFinite(h, milliseconds)
            \/ \E T \in SUBSET Threads : Collect(T)
            \/ \E t \in Threads : DiscardCreatedThread(t)
            \/ PollTimeouts \/ Yield \/ Terminate \/ Tick \/ Teardown
  <2>1. UNCHANGED records
    BY <1>13 DEF CreateEvent, CreateSingleton, CreateSuspendedThread, ResumeThread,
         CloseHandle, TryDestroyEvent, ResetEvent, WaitSignaled, WaitFinite, Collect,
         DiscardCreatedThread, PollTimeouts, Yield, Terminate, Tick, Teardown
  <2>. QED BY <2>1, <1>11
<1>. QED
  BY <1>4, <1>5, <1>6, <1>7, <1>8, <1>9, <1>10, <1>12, <1>13 DEF Next, HandleCall

-----------------------------------------------------------------------------
(* The theorems.                                                           *)

\* The run queue, the queued flags and the thread states agree, for any number
\* of threads and however wake-ups, timeouts, yields and discards interleave:
\* enqueue_runnable never enters a thread twice and choose_next leaves exactly
\* one thread RUNNING.
THEOREM RunQueueIsConsistent == Spec => []RunQueueMatchesStates
<1>1. QueueInv => RunQueueMatchesStates
  BY DEF QueueInv
<1>. QED BY <1>1, QueueInvHolds, PTL

\* A thread is BLOCKED exactly while its record stands in the waiter list of
\* the event it names, and record and thread name each other: no wait is
\* forgotten by complete_waiter, release_wait_record or a reclaimed thread.
THEOREM WaitersAreAccountedFor == Spec => []WaitersMatchRecords
<1>1. WaitInv /\ QueueInv => WaitersMatchRecords
  BY DEF WaitInv, QueueInv, WaitersMatchRecords
<1>. QED BY <1>1, WaitInvHolds, QueueInvHolds, PTL

\* MaxThreads wait records, waiter places and queue places are enough for
\* MaxThreads threads: the exhaustion paths of prepare_wait_record and
\* enqueue_runnable are never taken by a running thread.
THEOREM ArraysAreLargeEnough == Spec => []CapacitySuffices
<1>1. WaitInv /\ QueueInv => CapacitySuffices
  BY CapacityFacts
<1>. QED BY <1>1, WaitInvHolds, QueueInvHolds, PTL

\* A wait gets one result, keeps it until its own thread takes it, and times
\* out only when it has a deadline and the clock has reached it.
THEOREM WaitsAreCompletedOnce == Spec => WaitsCompleteOnce
<1>1. WaitInv /\ QueueInv /\ [Next]_vars =>
        [\A r \in Records :
           /\ records[r].active /\ records[r].completion # "FAILED" =>
                \/ records'[r].completion = records[r].completion
                \/ ~records'[r].active /\ records[r].thread = current
           /\ records[r].completion # "TIMEOUT" /\ records'[r].completion = "TIMEOUT" =>
                records[r].armed /\ records[r].deadline <= now]_vars
  BY CompletionStep
<1>. QED
  BY <1>1, WaitInvHolds, QueueInvHolds, PTL DEF Spec, WaitsCompleteOnce
===============================================================================
