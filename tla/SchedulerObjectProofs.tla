------------------------- MODULE SchedulerObjectProofs -------------------------
(***************************************************************************)
(* Proofs about the object table of the scheduler: which thread or event a *)
(* handle leads to, what keeps an event alive, when a control block may be *)
(* reclaimed, and why a stale handle stays stale; and, from these, that    *)
(* the scheduler implements the contract of events and waits: the initial  *)
(* states map to those of EventWaits, every step to a step or a stutter.   *)
(***************************************************************************)
EXTENDS SchedulerRefinement, SchedulerProofs

\* The object table os, the threads ts and the events es agree.
HandleTables(os, ts, es) ==
  /\ \A o \in Objects :
       /\ os[o].type = "THREAD" =>
            /\ os[o].target \in Threads
            /\ ts[os[o].target].state # "FREE"
            /\ ts[os[o].target].slot = o
       /\ os[o].type = "EVENT" =>
            /\ os[o].target \in Events
            /\ es[os[o].target].live
            /\ es[os[o].target].slot = o
  /\ \A t \in Threads : ts[t].state # "FREE" =>
       /\ os[ts[t].slot].type = "THREAD"
       /\ os[ts[t].slot].target = t
       /\ os[ts[t].slot].generation = ts[t].generation
       /\ os[ts[t].slot].pub = ts[t].pub
  /\ \A e \in Events : es[e].live =>
       /\ os[es[e].slot].type = "EVENT"
       /\ os[es[e].slot].target = e
       /\ os[es[e].slot].generation = es[e].generation

\* The part of the inductive invariant that speaks of objects.
ObjectInv ==
  /\ HandlesNameTheirTargets
  /\ PinsKeepEvents
  /\ WaitTargetStaysOpen

LEMMA HandlesAreTables ==
  HandlesNameTheirTargets <=> (mode = "up" => HandleTables(objects, threads, events))
  BY DEF HandlesNameTheirTargets, HandleTables

-----------------------------------------------------------------------------
(* Steps that keep the tables in agreement.                                *)

\* No thread, event or object changes its slot, generation or handle count,
\* and none of them appears or disappears.
LEMMA SameTables ==
  ASSUME NEW os, NEW ts, NEW es, NEW os2, NEW ts2, NEW es2,
         ts \in [Threads -> ThreadRecord], es \in [Events -> EventRecord],
         HandleTables(os, ts, es),
         \A o \in Objects : /\ os2[o].type = os[o].type
                            /\ os2[o].target = os[o].target
                            /\ os2[o].generation = os[o].generation
                            /\ os2[o].pub = os[o].pub,
         \A t \in Threads : /\ ts2[t].slot = ts[t].slot
                            /\ ts2[t].generation = ts[t].generation
                            /\ ts2[t].pub = ts[t].pub
                            /\ ts2[t].state = "FREE" <=> ts[t].state = "FREE",
         \A e \in Events : /\ es2[e].live <=> es[e].live
                           /\ es2[e].slot = es[e].slot
                           /\ es2[e].generation = es[e].generation
  PROVE  HandleTables(os2, ts2, es2)
<1>1. /\ \A t \in Threads : ts[t].slot \in Objects
      /\ \A e \in Events : es[e].slot \in Objects
  BY DEF ThreadRecord, EventRecord
<1>2. ASSUME NEW o \in Objects
      PROVE  /\ os2[o].type = "THREAD" =>
                  /\ os2[o].target \in Threads
                  /\ ts2[os2[o].target].state # "FREE"
                  /\ ts2[os2[o].target].slot = o
             /\ os2[o].type = "EVENT" =>
                  /\ os2[o].target \in Events
                  /\ es2[os2[o].target].live
                  /\ es2[os2[o].target].slot = o
  BY DEF HandleTables
<1>3. ASSUME NEW t \in Threads, ts2[t].state # "FREE"
      PROVE  /\ os2[ts2[t].slot].type = "THREAD"
             /\ os2[ts2[t].slot].target = t
             /\ os2[ts2[t].slot].generation = ts2[t].generation
             /\ os2[ts2[t].slot].pub = ts2[t].pub
  BY <1>1, <1>3 DEF HandleTables
<1>4. ASSUME NEW e \in Events, es2[e].live
      PROVE  /\ os2[es2[e].slot].type = "EVENT"
             /\ os2[es2[e].slot].target = e
             /\ os2[es2[e].slot].generation = es2[e].generation
  BY <1>1, <1>4 DEF HandleTables
<1>. QED BY <1>2, <1>3, <1>4 DEF HandleTables

\* maybe_reclaim_thread frees exactly the objects of the threads it zeroes.
LEMMA ReleaseKeepsTables ==
  ASSUME NEW os, NEW ts \in [Threads -> ThreadRecord],
         NEW es \in [Events -> EventRecord], NEW T \in SUBSET Threads,
         HandleTables(os, ts, es), \A t \in T : ts[t].state # "FREE"
  PROVE  /\ HandleTables(Released(os, ts, T), Zeroed(ts, T), es)
         /\ \A o \in Objects :
              \/ Released(os, ts, T)[o] = os[o]
              \/ os[o].type = "THREAD" /\ Released(os, ts, T)[o].type = "FREE"
<1> DEFINE os2 == Released(os, ts, T)
           ts2 == Zeroed(ts, T)
<1>1. /\ \A t \in Threads : ts[t].slot \in Objects
      /\ \A e \in Events : es[e].slot \in Objects
  BY DEF ThreadRecord, EventRecord
<1>2. \A o \in Objects :
        \/ /\ \E t \in T : ts[t].slot = o
           /\ os2[o].type = "FREE"
        \/ /\ ~ \E t \in T : ts[t].slot = o
           /\ os2[o] = os[o]
  BY DEF Released, FreeObject
<1>3. \A t \in Threads : \/ t \in T /\ ts2[t].state = "FREE"
                         \/ t \notin T /\ ts2[t] = ts[t]
  BY DEF Zeroed, EmptyThread
<1> HIDE DEF os2, ts2
<1>4. \A o \in Objects : (\E t \in T : ts[t].slot = o) => os[o].type = "THREAD"
  BY DEF HandleTables
<1>5. ASSUME NEW o \in Objects, os2[o].type = "THREAD"
      PROVE  /\ os2[o].target \in Threads
             /\ ts2[os2[o].target].state # "FREE"
             /\ ts2[os2[o].target].slot = o
  <2>1. os2[o] = os[o] /\ ~ \E t \in T : ts[t].slot = o
    BY <1>2, <1>5
  <2>2. os[o].target \in Threads /\ ts[os[o].target].state # "FREE"
        /\ ts[os[o].target].slot = o
    BY <2>1, <1>5 DEF HandleTables
  <2>3. os[o].target \notin T
    BY <2>1, <2>2
  <2>. QED BY <2>1, <2>2, <2>3, <1>3
<1>6. ASSUME NEW o \in Objects, os2[o].type = "EVENT"
      PROVE  /\ os2[o].target \in Events
             /\ es[os2[o].target].live
             /\ es[os2[o].target].slot = o
  <2>1. os2[o] = os[o]
    BY <1>2, <1>6
  <2>. QED BY <2>1, <1>6 DEF HandleTables
<1>7. ASSUME NEW t \in Threads, ts2[t].state # "FREE"
      PROVE  /\ os2[ts2[t].slot].type = "THREAD"
             /\ os2[ts2[t].slot].target = t
             /\ os2[ts2[t].slot].generation = ts2[t].generation
             /\ os2[ts2[t].slot].pub = ts2[t].pub
  <2>1. t \notin T /\ ts2[t] = ts[t]
    BY <1>3, <1>7
  <2>2. os[ts[t].slot].target = t
    BY <2>1, <1>7 DEF HandleTables
  <2>3. ~ \E u \in T : ts[u].slot = ts[t].slot
    BY <2>1, <2>2 DEF HandleTables
  <2>4. os2[ts[t].slot] = os[ts[t].slot]
    BY <2>3, <1>1, <1>2
  <2>. QED BY <2>1, <2>4, <1>7 DEF HandleTables
<1>8. ASSUME NEW e \in Events, es[e].live
      PROVE  /\ os2[es[e].slot].type = "EVENT"
             /\ os2[es[e].slot].target = e
             /\ os2[es[e].slot].generation = es[e].generation
  <2>1. os[es[e].slot].type = "EVENT" /\ es[e].slot \in Objects
    BY <1>1, <1>8 DEF HandleTables
  <2>2. os2[es[e].slot] = os[es[e].slot]
    BY <2>1, <1>2, <1>4
  <2>. QED BY <2>2, <1>8 DEF HandleTables
<1>9. HandleTables(os2, ts2, es)
  BY <1>5, <1>6, <1>7, <1>8 DEF HandleTables
<1>. QED
  BY <1>2, <1>4, <1>9 DEF os2, ts2

-----------------------------------------------------------------------------
(* Steps that keep the reference counts.                                   *)

LEMMA RecordSetsAreFinite ==
  ASSUME NEW S \in SUBSET Records
  PROVE  IsFiniteSet(S) /\ Cardinality(S) \in Nat
<1>1. IsFiniteSet(Records)
  <2>1. 0 \in Int /\ MaxThreads - 1 \in Int
    BY BoundsAssumption
  <2>. QED BY <2>1, FS_Interval DEF Records
<1>. QED BY <1>1, FS_Subset, FS_CardinalityType

\* No wait begins or ends, no event a wait names is freed, and an object that
\* becomes an event starts with one reference.
LEMMA PinsStay ==
  ASSUME PinsKeepEvents, UNCHANGED activeWaits,
         \A r \in Records : /\ records'[r].active <=> records[r].active
                            /\ records'[r].slot = records[r].slot
                            /\ records'[r].event = records[r].event
                            /\ records'[r].generation = records[r].generation,
         \A o \in Objects : objects'[o].type = "EVENT" =>
           \/ objects[o].type = "EVENT" /\ objects'[o].refs = objects[o].refs
           \/ objects[o].type # "EVENT" /\ objects'[o].refs = 1,
         \A r \in Records : records[r].active =>
           LET o == records[r].slot IN
             /\ objects'[o].type = objects[o].type
             /\ objects'[o].target = objects[o].target
             /\ objects'[o].generation = objects[o].generation
             /\ events'[records[r].event].live
  PROVE  PinsKeepEvents'
<1>1. \A o : Pins(o)' = Pins(o)
  BY DEF Pins
<1>2. {r \in Records : records'[r].active} = {r \in Records : records[r].active}
  OBVIOUS
<1>3. ASSUME NEW o \in Objects, objects'[o].type = "EVENT"
      PROVE  objects'[o].refs = 1 + Cardinality(Pins(o)')
  <2>1. CASE objects[o].type = "EVENT" /\ objects'[o].refs = objects[o].refs
    BY <2>1, <1>1 DEF PinsKeepEvents
  <2>2. CASE objects[o].type # "EVENT" /\ objects'[o].refs = 1
    <3>1. Pins(o) = {}
      BY <2>2 DEF Pins, PinsKeepEvents
    <3>2. Cardinality(Pins(o)') = 0
      BY <3>1, <1>1, FS_EmptySet
    <3>. QED BY <3>2, <2>2
  <2>. QED BY <1>3, <2>1, <2>2
<1>4. activeWaits' = Cardinality({r \in Records : records'[r].active})
  BY <1>2 DEF PinsKeepEvents
<1>5. ASSUME NEW r \in Records, records'[r].active
      PROVE  /\ objects'[records'[r].slot].type = "EVENT"
             /\ objects'[records'[r].slot].target = records'[r].event
             /\ objects'[records'[r].slot].generation = records'[r].generation
             /\ events'[records'[r].event].live
  BY <1>5 DEF PinsKeepEvents
<1>. QED BY <1>3, <1>4, <1>5 DEF PinsKeepEvents

\* The wait records of an event whose object has one reference are all free.
LEMMA OneReferenceMeansNoWait ==
  ASSUME WaitInv, ObjectInv, mode = "up",
         NEW o \in Objects, objects[o].type = "EVENT", objects[o].refs <= 1
  PROVE  \A r \in Records : records[r].active =>
           records[r].slot # o /\ records[r].event # objects[o].target
<1>1. Pins(o) \in SUBSET Records
  BY DEF Pins
<1>2. IsFiniteSet(Pins(o)) /\ Cardinality(Pins(o)) \in Nat
  BY <1>1, RecordSetsAreFinite
<1>3. objects[o].refs = 1 + Cardinality(Pins(o))
  BY DEF ObjectInv, PinsKeepEvents
<1>4. Cardinality(Pins(o)) = 0
  BY <1>2, <1>3
<1>5. Pins(o) = {}
  BY <1>2, <1>4, FS_EmptySet
<1> SUFFICES ASSUME NEW r \in Records, records[r].active
             PROVE  records[r].slot # o /\ records[r].event # objects[o].target
  OBVIOUS
<1>6. records[r].slot # o
  BY <1>5 DEF Pins
<1>7. /\ records[r].slot \in Objects
      /\ objects[records[r].slot].type = "EVENT"
      /\ objects[records[r].slot].target = records[r].event
  BY DEF WaitInv, TypeOK, WaitRecord, ObjectInv, PinsKeepEvents
<1>8. HandleTables(objects, threads, events)
  BY HandlesAreTables DEF ObjectInv
<1>9. /\ events[records[r].event].slot = records[r].slot
      /\ events[objects[o].target].slot = o
  BY <1>7, <1>8 DEF HandleTables
<1>. QED BY <1>6, <1>9

\* A wait that begins takes a reference to the event.
LEMMA BlockKeepsObjects ==
  ASSUME WaitInv, QueueInv, ObjectInv, mode = "up", threads[current].wait = None,
         NEW e \in Events, events[e].live,
         NEW armed \in BOOLEAN, NEW deadline \in Time,
         BlockOn(e, armed, deadline), loop' = Idle
  PROVE  ObjectInv'
<1> DEFINE w == events[e].waiters
           o == events[e].slot
           blocked(r) ==
             [threads EXCEPT ![current] =
                [@ EXCEPT !.state = "BLOCKED", !.wait = r, !.result = "NONE"]]
           rec == [active |-> TRUE, linked |-> TRUE, armed |-> armed,
                   deadline |-> deadline, thread |-> current, event |-> e,
                   slot |-> o, generation |-> objects[o].generation,
                   index |-> Len(w) + 1, completion |-> "FAILED"]
<1>1. WaitTargetStaysOpen'
  BY DEF WaitTargetStaysOpen, Idle
<1>2. CASE UNCHANGED <<objects, threads, events, records, activeWaits>>
           /\ mode' = "halted"
  <2>1. HandlesNameTheirTargets'
    BY <1>2 DEF HandlesNameTheirTargets
  <2>2. PinsKeepEvents'
    BY <1>2, PinsStay DEF ObjectInv, PinsKeepEvents
  <2>. QED BY <1>1, <2>1, <2>2 DEF ObjectInv
<1>3. CASE \E r \in Records, t \in Threads :
             /\ IsLowest(FreeRecords, r)
             /\ records' = [records EXCEPT ![r] = rec]
             /\ IsNextRunnable(blocked(r), current, t)
             /\ threads' = Dispatched(blocked(r), t)
             /\ events' = [events EXCEPT ![e].waiters = Append(w, r)]
             /\ objects' = [objects EXCEPT ![o].refs = objects[o].refs + 1]
             /\ activeWaits' = activeWaits + 1
             /\ UNCHANGED mode
  <2>0. PICK r \in Records, t \in Threads :
             /\ IsLowest(FreeRecords, r)
             /\ records' = [records EXCEPT ![r] = rec]
             /\ IsNextRunnable(blocked(r), current, t)
             /\ threads' = Dispatched(blocked(r), t)
             /\ events' = [events EXCEPT ![e].waiters = Append(w, r)]
             /\ objects' = [objects EXCEPT ![o].refs = objects[o].refs + 1]
             /\ activeWaits' = activeWaits + 1
             /\ UNCHANGED mode
    BY <1>3
  <2> DEFINE ts == blocked(r)
  <2>1. ~records[r].active
    BY <2>0 DEF IsLowest, FreeRecords
  <2>2. o \in Objects /\ current \in Threads /\ TypeOK
    BY DEF WaitInv, TypeOK, EventRecord
  <2>3. /\ records'[r].active /\ records'[r].slot = o /\ records'[r].event = e
        /\ records'[r].generation = objects[o].generation
        /\ \A k \in Records \ {r} : records'[k] = records[k]
    BY <2>0, <2>2 DEF TypeOK
  <2>4. \A x \in Objects :
          /\ objects'[x].type = objects[x].type
          /\ objects'[x].target = objects[x].target
          /\ objects'[x].generation = objects[x].generation
          /\ objects'[x].pub = objects[x].pub
          /\ objects'[x].refs = IF x = o THEN objects[x].refs + 1 ELSE objects[x].refs
    BY <2>0, <2>2 DEF TypeOK, ObjectRecord
  <2>5. \A f \in Events : /\ events'[f].live <=> events[f].live
                          /\ events'[f].slot = events[f].slot
                          /\ events'[f].generation = events[f].generation
    BY <2>0, <2>2 DEF TypeOK, EventRecord
  <2>6. \A u \in Threads : /\ threads'[u].slot = threads[u].slot
                           /\ threads'[u].generation = threads[u].generation
                           /\ threads'[u].pub = threads[u].pub
                           /\ threads'[u].state = "FREE" <=> threads[u].state = "FREE"
    <3>1. /\ ts \in [Threads -> ThreadRecord]
          /\ threads[current].state = "RUNNING"
      BY <2>2, ThreadRecordFields
         DEF TypeOK, ThreadStates, WaitResults, QueueInv, RunQueueMatchesStates
    <3>2. /\ \A u \in Threads : /\ ts[u].slot = threads[u].slot
                                /\ ts[u].generation = threads[u].generation
                                /\ ts[u].pub = threads[u].pub
          /\ \A u \in Threads \ {current} : ts[u].state = threads[u].state
          /\ ts[current].state = "BLOCKED"
      BY <2>2 DEF TypeOK, ThreadRecord
    <3>3. IsNextRunnable(ts, current, t) /\ threads' = Dispatched(ts, t)
      BY <2>0
    <3> HIDE DEF ts
    <3>4. ts[t].state = "RUNNABLE"
      BY <3>3 DEF IsNextRunnable, Ready
    <3>5. /\ \A u \in Threads : /\ threads'[u].slot = ts[u].slot
                                /\ threads'[u].generation = ts[u].generation
                                /\ threads'[u].pub = ts[u].pub
          /\ \A u \in Threads \ {t} : threads'[u].state = ts[u].state
          /\ threads'[t].state = "RUNNING"
      BY <3>1, <3>3 DEF Dispatched, ThreadRecord
    <3>. QED BY <3>1, <3>2, <3>4, <3>5
  <2>7. HandleTables(objects, threads, events)
    BY HandlesAreTables DEF ObjectInv
  <2>8. HandlesNameTheirTargets'
    <3>1. HandleTables(objects', threads', events')
      BY <2>2, <2>4, <2>5, <2>6, <2>7, SameTables DEF TypeOK
    <3>. QED BY <3>1 DEF HandlesNameTheirTargets, HandleTables
  <2>9. objects[o].type = "EVENT" /\ objects[o].target = e
    BY <2>7 DEF HandleTables
  <2>10. ASSUME NEW x \in Objects, objects'[x].type = "EVENT"
         PROVE  objects'[x].refs = 1 + Cardinality(Pins(x)')
    <3>1. objects[x].refs = 1 + Cardinality(Pins(x))
      BY <2>10, <2>4 DEF ObjectInv, PinsKeepEvents
    <3>2. Pins(x) \in SUBSET Records /\ r \notin Pins(x)
      BY <2>1 DEF Pins
    <3>3. IsFiniteSet(Pins(x)) /\ Cardinality(Pins(x)) \in Nat
      BY <3>2, RecordSetsAreFinite
    <3>4. CASE x = o
      <4>1. Pins(x)' = Pins(x) \cup {r}
        BY <3>4, <2>3 DEF Pins
      <4>2. Cardinality(Pins(x)') = Cardinality(Pins(x)) + 1
        BY <4>1, <3>2, <3>3, FS_AddElement
      <4>. QED BY <4>2, <3>1, <3>3, <3>4, <2>4
    <3>5. CASE x # o
      <4>1. Pins(x)' = Pins(x)
        BY <3>5, <2>1, <2>3 DEF Pins
      <4>. QED BY <4>1, <3>1, <3>5, <2>4
    <3>. QED BY <3>4, <3>5
  <2>11. activeWaits' = Cardinality({k \in Records : records'[k].active})
    <3> DEFINE A == {k \in Records : records[k].active}
    <3>1. {k \in Records : records'[k].active} = A \cup {r}
      BY <2>3
    <3>2. A \in SUBSET Records /\ r \notin A
      BY <2>1
    <3>3. activeWaits = Cardinality(A)
      BY DEF ObjectInv, PinsKeepEvents
    <3> HIDE DEF A
    <3>4. IsFiniteSet(A)
      BY <3>2, RecordSetsAreFinite
    <3>5. Cardinality(A \cup {r}) = Cardinality(A) + 1
      BY <3>2, <3>4, FS_AddElement
    <3>. QED BY <3>1, <3>3, <3>5, <2>0
  <2>12. ASSUME NEW k \in Records, records'[k].active
         PROVE  /\ objects'[records'[k].slot].type = "EVENT"
                /\ objects'[records'[k].slot].target = records'[k].event
                /\ objects'[records'[k].slot].generation = records'[k].generation
                /\ events'[records'[k].event].live
    <3>1. CASE k = r
      BY <3>1, <2>2, <2>3, <2>4, <2>5, <2>9
    <3>2. CASE k # r
      <4>1. records'[k] = records[k] /\ records[k].active /\ records[k].slot \in Objects
        BY <3>2, <2>2, <2>3, <2>12 DEF TypeOK, WaitRecord
      <4>2. /\ objects[records[k].slot].type = "EVENT"
            /\ objects[records[k].slot].target = records[k].event
            /\ objects[records[k].slot].generation = records[k].generation
            /\ events[records[k].event].live
        BY <4>1 DEF ObjectInv, PinsKeepEvents
      <4>3. records[k].event \in Events
        BY <4>1, <4>2 DEF WaitInv, TargetsAreInRange
      <4>. QED BY <4>1, <4>2, <4>3, <2>4, <2>5
    <3>. QED BY <3>1, <3>2
  <2>13. PinsKeepEvents'
    BY <2>10, <2>11, <2>12 DEF PinsKeepEvents
  <2>. QED BY <1>1, <2>8, <2>13 DEF ObjectInv
<1>. QED
  BY <1>2, <1>3 DEF BlockOn

\* A wait that is over gives its reference back.
LEMMA FinishKeepsObjects ==
  ASSUME WaitInv, QueueInv, ObjectInv, FinishWait PROVE ObjectInv'
<1> DEFINE r == threads[current].wait
           o == records[r].slot
<1>1. /\ r \in Records /\ current \in Threads /\ records[r].active /\ o \in Objects
      /\ UNCHANGED <<events, loop, mode>> /\ loop = Idle /\ mode = "up" /\ TypeOK
      /\ activeWaits' = IF activeWaits # 0 THEN activeWaits - 1 ELSE 0
  BY DEF FinishWait, WaitIsComplete, WaitInv, TypeOK, ThreadRecord, WaitRecord
<1>2. /\ \A k \in Records \ {r} : records'[k] = records[k]
      /\ ~records'[r].active
  BY <1>1 DEF FinishWait, TypeOK, EmptyRecord
<1>3. \A x \in Objects :
        /\ objects'[x].type = objects[x].type
        /\ objects'[x].target = objects[x].target
        /\ objects'[x].generation = objects[x].generation
        /\ objects'[x].pub = objects[x].pub
        /\ objects'[x].refs = IF x = o
             THEN (IF objects[x].refs # 0 THEN objects[x].refs - 1 ELSE 0)
             ELSE objects[x].refs
  BY <1>1 DEF FinishWait, TypeOK, ObjectRecord
<1>4. \A u \in Threads : /\ threads'[u].slot = threads[u].slot
                         /\ threads'[u].generation = threads[u].generation
                         /\ threads'[u].pub = threads[u].pub
                         /\ threads'[u].state = threads[u].state
  BY <1>1 DEF FinishWait, TypeOK, ThreadRecord
<1> HIDE DEF r, o
<1>5. HandlesNameTheirTargets'
  <2>1. HandleTables(objects, threads, events)
    BY <1>1, HandlesAreTables DEF ObjectInv
  <2>2. HandleTables(objects', threads', events')
    BY <1>1, <1>3, <1>4, <2>1, SameTables DEF TypeOK
  <2>. QED BY <2>2 DEF HandlesNameTheirTargets, HandleTables
<1>6. ASSUME NEW x \in Objects, objects'[x].type = "EVENT"
      PROVE  objects'[x].refs = 1 + Cardinality(Pins(x)')
  <2>1. objects[x].refs = 1 + Cardinality(Pins(x))
    BY <1>6, <1>3 DEF ObjectInv, PinsKeepEvents
  <2>2. Pins(x) \in SUBSET Records
    BY DEF Pins
  <2>3. IsFiniteSet(Pins(x)) /\ Cardinality(Pins(x)) \in Nat
    BY <2>2, RecordSetsAreFinite
  <2>4. CASE x = o
    <3>1. Pins(x)' = Pins(x) \ {r} /\ r \in Pins(x)
      BY <2>4, <1>1, <1>2 DEF Pins, o
    <3>2. Cardinality(Pins(x)') = Cardinality(Pins(x)) - 1
      BY <3>1, <2>3, FS_RemoveElement
    <3>. QED BY <3>2, <2>1, <2>3, <2>4, <1>3
  <2>5. CASE x # o
    <3>1. Pins(x)' = Pins(x)
      BY <2>5, <1>1, <1>2 DEF Pins, o
    <3>. QED BY <3>1, <2>1, <2>5, <1>3
  <2>. QED BY <2>4, <2>5
<1>7. activeWaits' = Cardinality({k \in Records : records'[k].active})
  <2> DEFINE A == {k \in Records : records[k].active}
  <2>1. {k \in Records : records'[k].active} = A \ {r}
    BY <1>2
  <2>2. A \in SUBSET Records /\ r \in A
    BY <1>1
  <2>3. activeWaits = Cardinality(A)
    BY DEF ObjectInv, PinsKeepEvents
  <2> HIDE DEF A
  <2>4. IsFiniteSet(A) /\ Cardinality(A) \in Nat
    BY <2>2, RecordSetsAreFinite
  <2>5. Cardinality(A \ {r}) = Cardinality(A) - 1 /\ Cardinality(A) # 0
    BY <2>2, <2>4, FS_RemoveElement, FS_EmptySet
  <2>. QED BY <2>1, <2>3, <2>5, <1>1
<1>8. ASSUME NEW k \in Records, records'[k].active
      PROVE  /\ objects'[records'[k].slot].type = "EVENT"
             /\ objects'[records'[k].slot].target = records'[k].event
             /\ objects'[records'[k].slot].generation = records'[k].generation
             /\ events'[records'[k].event].live
  <2>1. records'[k] = records[k] /\ records[k].slot \in Objects
    BY <1>1, <1>2, <1>8 DEF TypeOK, WaitRecord
  <2>. QED BY <2>1, <1>1, <1>3, <1>8 DEF ObjectInv, PinsKeepEvents
<1>9. PinsKeepEvents'
  BY <1>6, <1>7, <1>8 DEF PinsKeepEvents
<1>10. WaitTargetStaysOpen'
  BY <1>1 DEF WaitTargetStaysOpen, Idle
<1>. QED BY <1>5, <1>9, <1>10 DEF ObjectInv

\* A step on records, threads and events that leaves the objects alone and
\* neither begins nor ends a wait, a thread or an event.
LEMMA QuietStepKeepsObjects ==
  ASSUME WaitInv, ObjectInv, UNCHANGED <<objects, activeWaits>>,
         mode' = mode \/ mode' = "halted",
         \A r \in Records : /\ records'[r].active <=> records[r].active
                            /\ records'[r].slot = records[r].slot
                            /\ records'[r].event = records[r].event
                            /\ records'[r].generation = records[r].generation,
         \A t \in Threads : /\ threads'[t].slot = threads[t].slot
                            /\ threads'[t].generation = threads[t].generation
                            /\ threads'[t].pub = threads[t].pub
                            /\ threads'[t].state = "FREE" <=> threads[t].state = "FREE",
         \A e \in Events : /\ events'[e].live <=> events[e].live
                           /\ events'[e].slot = events[e].slot
                           /\ events'[e].generation = events[e].generation,
         WaitTargetStaysOpen'
  PROVE  ObjectInv'
<1>1. HandlesNameTheirTargets'
  <2>1. CASE mode' # "up"
    BY <2>1 DEF HandlesNameTheirTargets
  <2>2. CASE mode' = "up"
    <3>1. HandleTables(objects, threads, events)
      BY <2>2, HandlesAreTables DEF ObjectInv
    <3>2. HandleTables(objects', threads', events')
      BY <3>1, SameTables DEF WaitInv, TypeOK
    <3>. QED BY <3>2 DEF HandlesNameTheirTargets, HandleTables
  <2>. QED BY <2>1, <2>2
<1>2. \A r \in Records : records[r].active => events'[records[r].event].live
  <2> SUFFICES ASSUME NEW r \in Records, records[r].active
               PROVE  events'[records[r].event].live
    OBVIOUS
  <2>1. /\ objects[records[r].slot].type = "EVENT"
        /\ objects[records[r].slot].target = records[r].event
        /\ events[records[r].event].live
    BY DEF ObjectInv, PinsKeepEvents
  <2>2. records[r].event \in Events
    BY <2>1 DEF WaitInv, TypeOK, WaitRecord, TargetsAreInRange
  <2>. QED BY <2>1, <2>2
<1>3. PinsKeepEvents'
  BY <1>2, PinsStay DEF ObjectInv
<1>. QED BY <1>1, <1>3 DEF ObjectInv

\* Waking a waiter.
LEMMA WakeKeepsObjects ==
  ASSUME WaitInv, QueueInv, ObjectInv,
         NEW e \in Events, NEW i \in 1 .. Len(events[e].waiters),
         NEW c \in Completions, NEW res, NEW sig \in BOOLEAN,
         sig => events[e].signaled,
         CompleteWaiter(e, i, c, res), events' = WithoutWaiter(e, i, sig),
         loop'.op = loop.op, loop'.event = loop.event,
         UNCHANGED <<objects, activeWaits, mode>>
  PROVE  ObjectInv'
<1> DEFINE w == events[e].waiters
           r == w[i]
           last == w[Len(w)]
           t == records[r].thread
<1>1. /\ r \in Records /\ t \in Threads /\ records[r].active /\ records[r].linked
      /\ TypeOK
  <2>1. w \in Seq(Records) /\ r \in Records
    BY DEF WaitInv, TypeOK, EventRecord
  <2>2. records[r].linked
    BY DEF WaitInv, ListedRecordsAreLinked
  <2>. QED BY <2>1, <2>2 DEF WaitInv, LinkedRecordsAreListed
<1>2. threads[t].state = "BLOCKED"
  <2>1. threads[t].wait = r
    BY <1>1 DEF QueueInv, RecordsMatchThreads
  <2>. QED BY <2>1, <1>1, ConstantFacts DEF QueueInv, RecordsMatchThreads
<1>3. \A u \in Threads : /\ threads'[u].slot = threads[u].slot
                         /\ threads'[u].generation = threads[u].generation
                         /\ threads'[u].pub = threads[u].pub
                         /\ threads'[u].state = "FREE" <=> threads[u].state = "FREE"
  <2>1. /\ \A u \in Threads \ {t} : threads'[u] = threads[u]
        /\ threads'[t].slot = threads[t].slot
        /\ threads'[t].generation = threads[t].generation
        /\ threads'[t].pub = threads[t].pub
        /\ threads'[t].state = "RUNNABLE"
    BY <1>1 DEF CompleteWaiter, TypeOK, ThreadRecord
  <2>. QED BY <2>1, <1>2
<1>4. \A k \in Records :
        /\ records'[k].active <=> records[k].active
        /\ records'[k].slot = records[k].slot
        /\ records'[k].event = records[k].event
        /\ records'[k].generation = records[k].generation
  <2>1. /\ records'[r] = [records[r] EXCEPT !.linked = FALSE, !.index = 0,
                                           !.completion = c]
        /\ \A k \in Records \ {r} :
             records'[k] = IF k = last THEN [records[k] EXCEPT !.index = i]
                                       ELSE records[k]
    BY <1>1 DEF CompleteWaiter
  <2> HIDE DEF r, last
  <2> SUFFICES ASSUME NEW k \in Records
               PROVE  /\ records'[k].active <=> records[k].active
                      /\ records'[k].slot = records[k].slot
                      /\ records'[k].event = records[k].event
                      /\ records'[k].generation = records[k].generation
    OBVIOUS
  <2>2. records[k] \in WaitRecord
    BY <1>1 DEF TypeOK
  <2>3. CASE k = r
    <3>1. records'[k] = [records[k] EXCEPT !.linked = FALSE, !.index = 0,
                                           !.completion = c]
      BY <2>1, <2>3
    <3>. QED BY <3>1, <2>2 DEF WaitRecord
  <2>4. CASE k # r /\ k = last
    <3>1. records'[k] = [records[k] EXCEPT !.index = i]
      BY <2>1, <2>4
    <3>. QED BY <3>1, <2>2 DEF WaitRecord
  <2>5. CASE k # r /\ k # last
    BY <2>1, <2>5
  <2>. QED BY <2>3, <2>4, <2>5
<1>5. \A f \in Events : /\ events'[f].live <=> events[f].live
                        /\ events'[f].slot = events[f].slot
                        /\ events'[f].generation = events[f].generation
                        /\ events'[f].signaled => events[f].signaled
  BY <1>1 DEF WithoutWaiter, TypeOK, EventRecord
<1>6. WaitTargetStaysOpen'
  BY <1>5 DEF WaitTargetStaysOpen, ObjectInv, WaitInv, LoopTargetIsLive
<1> HIDE DEF r, last, t, w
<1>. QED
  BY <1>3, <1>4, <1>5, <1>6, QuietStepKeepsObjects

-----------------------------------------------------------------------------
(* Every step preserves ObjectInv.                                         *)

\* Reclaiming threads releases thread objects only.
LEMMA ReleaseKeepsObjects ==
  ASSUME WaitInv, ObjectInv, loop' = Idle, UNCHANGED <<events, records, activeWaits>>,
         NEW os, NEW ts \in [Threads -> ThreadRecord], NEW T \in SUBSET Threads,
         HandleTables(os, ts, events), \A t \in T : ts[t].state # "FREE",
         \A o \in Objects : /\ os[o].type = objects[o].type
                            /\ os[o].target = objects[o].target
                            /\ os[o].generation = objects[o].generation
                            /\ os[o].refs = objects[o].refs,
         objects' = Released(os, ts, T), threads' = Zeroed(ts, T)
  PROVE  ObjectInv'
<1>1. /\ HandleTables(objects', threads', events)
      /\ \A o \in Objects :
           \/ objects'[o] = os[o]
           \/ os[o].type = "THREAD" /\ objects'[o].type = "FREE"
  BY ReleaseKeepsTables DEF WaitInv, TypeOK
<1>2. HandlesNameTheirTargets'
  BY <1>1 DEF HandlesNameTheirTargets, HandleTables
<1>3. ASSUME NEW r \in Records, records[r].active
      PROVE  LET o == records[r].slot IN
               /\ objects'[o].type = objects[o].type
               /\ objects'[o].target = objects[o].target
               /\ objects'[o].generation = objects[o].generation
               /\ events'[records[r].event].live
  <2>1. records[r].slot \in Objects
    BY DEF WaitInv, TypeOK, WaitRecord
  <2>2. objects[records[r].slot].type = "EVENT" /\ events[records[r].event].live
    BY <1>3 DEF ObjectInv, PinsKeepEvents
  <2>. QED BY <1>1, <2>1, <2>2
<1>4. \A o \in Objects : objects'[o].type = "EVENT" =>
        objects[o].type = "EVENT" /\ objects'[o].refs = objects[o].refs
  BY <1>1
<1>5. PinsKeepEvents'
  BY <1>3, <1>4, PinsStay DEF ObjectInv
<1>6. WaitTargetStaysOpen'
  BY DEF WaitTargetStaysOpen, Idle
<1>. QED BY <1>2, <1>5, <1>6 DEF ObjectInv

LEMMA ObjectInvTables ==
  ASSUME WaitInv, QueueInv, ObjectInv,
         \/ \E h \in Handles : ResumeThread(h) \/ CloseHandle(h)
         \/ \E T \in SUBSET Threads : Collect(T)
         \/ \E t \in Threads : DiscardCreatedThread(t)
  PROVE  ObjectInv'
<1>0. /\ Running /\ mode = "up" /\ mode' = "up" /\ loop' = Idle /\ TypeOK
      /\ UNCHANGED <<events, records, activeWaits>>
  BY DEF ResumeThread, CloseHandle, Collect, DiscardCreatedThread, Running, WaitInv
<1>1. /\ HandleTables(objects, threads, events) /\ WaitTargetStaysOpen'
      /\ objects \in [Objects -> ObjectRecord]
      /\ threads \in [Threads -> ThreadRecord]
  BY <1>0, HandlesAreTables DEF ObjectInv, WaitTargetStaysOpen, Idle, TypeOK
<1>2. ASSUME NEW h \in Handles, ResumeThread(h) PROVE ObjectInv'
  <2> DEFINE t == Target(h)
  <2>1. /\ t \in Threads /\ threads[t].state = "CREATED_SUSPENDED"
        /\ threads' = [threads EXCEPT ![t] =
             [@ EXCEPT !.state = "RUNNABLE", !.suspend = 0, !.queued = TRUE]]
        /\ UNCHANGED objects
    BY <1>2 DEF ResumeThread, Resolves, Target, WaitInv, TargetsAreInRange, Handles
  <2> HIDE DEF t
  <2>2. \A u \in Threads : /\ threads'[u].slot = threads[u].slot
                           /\ threads'[u].generation = threads[u].generation
                           /\ threads'[u].pub = threads[u].pub
                           /\ threads'[u].state = "FREE" <=> threads[u].state = "FREE"
    BY <2>1, <1>1 DEF ThreadRecord
  <2>. QED
    BY <1>0, <1>1, <2>1, <2>2, QuietStepKeepsObjects
<1>3. ASSUME NEW h \in Handles, CloseHandle(h) PROVE ObjectInv'
  <2> DEFINE os == [objects EXCEPT ![h.slot] =
                      [@ EXCEPT !.pub = objects[h.slot].pub - 1, !.closed = TRUE]]
             t == Target(h)
             ts == [threads EXCEPT ![t].pub =
                      IF threads[t].pub # 0 THEN threads[t].pub - 1 ELSE 0]
             T == {u \in {t} : Reclaimable(ts, u)}
  <2>1. /\ h.slot \in Objects /\ objects[h.slot].type = h.type
        /\ h.type \in {"THREAD", "EVENT"}
        /\ objects[h.slot].pub # 0 /\ objects[h.slot].pub \in 0 .. 1
    BY <1>3, <1>1 DEF CloseHandle, Resolves, Handles, ObjectRecord
  <2>2. \A o \in Objects : /\ os[o].type = objects[o].type
                           /\ os[o].target = objects[o].target
                           /\ os[o].generation = objects[o].generation
                           /\ os[o].refs = objects[o].refs
                           /\ os[o].pub = IF o = h.slot THEN objects[o].pub - 1
                                                        ELSE objects[o].pub
    BY <2>1, <1>1 DEF ObjectRecord
  <2>3. CASE h.type = "EVENT"
    <3>1. objects' = os /\ UNCHANGED threads
      BY <1>3, <2>3 DEF CloseHandle
    <3> HIDE DEF os
    <3>2. HandleTables(os, threads, events)
      <4>1. \A u \in Threads : threads[u].state # "FREE" =>
              threads[u].slot \in Objects /\ threads[u].slot # h.slot
        BY <2>1, <2>3, <1>1 DEF HandleTables, ThreadRecord
      <4>2. \A e \in Events : events[e].slot \in Objects
        BY <1>0 DEF TypeOK, EventRecord
      <4>. QED BY <4>1, <4>2, <2>2, <1>1 DEF HandleTables
    <3>3. HandlesNameTheirTargets'
      BY <3>1, <3>2, <1>0 DEF HandlesNameTheirTargets, HandleTables
    <3>4. ASSUME NEW r \in Records, records[r].active
          PROVE  events[records[r].event].live /\ records[r].slot \in Objects
      BY <3>4, <1>0 DEF ObjectInv, PinsKeepEvents, TypeOK, WaitRecord
    <3>5. PinsKeepEvents'
      BY <1>0, <2>2, <3>1, <3>4, PinsStay DEF ObjectInv
    <3>. QED BY <1>1, <3>3, <3>5 DEF ObjectInv
  <2>4. CASE h.type = "THREAD"
    <3>1. objects' = Released(os, ts, T) /\ threads' = Zeroed(ts, T)
      BY <1>3, <2>4 DEF CloseHandle
    <3>2. /\ t \in Threads /\ threads[t].state # "FREE" /\ threads[t].slot = h.slot
          /\ objects[h.slot].pub = threads[t].pub
      BY <2>1, <2>4, <1>1 DEF HandleTables, Target
    <3>3. ts \in [Threads -> ThreadRecord]
      <4>1. (IF threads[t].pub # 0 THEN threads[t].pub - 1 ELSE 0) \in 0 .. 1
        BY <2>1, <3>2
      <4>. QED BY <4>1, <3>2, <1>1, ThreadRecordFields
    <3>4. \A u \in Threads :
            /\ ts[u].slot = threads[u].slot
            /\ ts[u].generation = threads[u].generation
            /\ ts[u].state = threads[u].state
            /\ ts[u].pub = IF u = t THEN threads[u].pub - 1 ELSE threads[u].pub
      BY <2>1, <3>2, <1>1 DEF ThreadRecord
    <3>5. T \in SUBSET Threads /\ \A u \in T : ts[u].state # "FREE"
      BY <3>2 DEF Reclaimable
    <3> HIDE DEF os, ts, T, t
    <3>6. HandleTables(os, ts, events)
      <4>1. ASSUME NEW u \in Threads, ts[u].state # "FREE"
            PROVE  /\ os[ts[u].slot].type = "THREAD"
                   /\ os[ts[u].slot].target = u
                   /\ os[ts[u].slot].generation = ts[u].generation
                   /\ os[ts[u].slot].pub = ts[u].pub
        <5>1. /\ threads[u].slot \in Objects
              /\ objects[threads[u].slot].type = "THREAD"
              /\ objects[threads[u].slot].target = u
              /\ objects[threads[u].slot].generation = threads[u].generation
              /\ objects[threads[u].slot].pub = threads[u].pub
          BY <4>1, <3>4, <1>1 DEF HandleTables, ThreadRecord
        <5>2. threads[u].slot = h.slot <=> u = t
          BY <5>1, <3>2, <1>1 DEF HandleTables
        <5>. QED BY <5>1, <5>2, <3>4, <2>2
      <4>2. \A o \in Objects :
             /\ os[o].type = "THREAD" =>
                  /\ os[o].target \in Threads
                  /\ ts[os[o].target].state # "FREE"
                  /\ ts[os[o].target].slot = o
             /\ os[o].type = "EVENT" =>
                  /\ os[o].target \in Events
                  /\ events[os[o].target].live
                  /\ events[os[o].target].slot = o
        BY <2>2, <3>4, <1>1 DEF HandleTables
      <4>3. \A e \in Events : events[e].slot \in Objects
        BY <1>0 DEF TypeOK, EventRecord
      <4>4. \A e \in Events : events[e].live =>
             /\ os[events[e].slot].type = "EVENT"
             /\ os[events[e].slot].target = e
             /\ os[events[e].slot].generation = events[e].generation
        BY <4>3, <2>2, <1>1 DEF HandleTables
      <4>. QED BY <4>1, <4>2, <4>4 DEF HandleTables
    <3>. QED
      BY <1>0, <2>2, <3>1, <3>3, <3>5, <3>6, ReleaseKeepsObjects
  <2>. QED BY <2>1, <2>3, <2>4
<1>4. ASSUME NEW T \in SUBSET Threads, Collect(T) PROVE ObjectInv'
  <2>1. /\ objects' = Released(objects, threads, T)
        /\ threads' = Zeroed(threads, T)
        /\ \A t \in T : threads[t].state # "FREE"
    BY <1>4 DEF Collect, Reclaimable
  <2>. QED
    BY <1>0, <1>1, <2>1, ReleaseKeepsObjects
<1>5. ASSUME NEW t \in Threads, DiscardCreatedThread(t) PROVE ObjectInv'
  <2> DEFINE ts == [threads EXCEPT ![t] =
                 [@ EXCEPT !.state = "TERMINATED", !.exec = 0, !.queued = FALSE]]
             T == {u \in {t} : Reclaimable(ts, u)}
  <2>1. /\ objects' = Released(objects, ts, T) /\ threads' = Zeroed(ts, T)
        /\ threads[t].state # "FREE"
    BY <1>5 DEF DiscardCreatedThread
  <2>2. ts \in [Threads -> ThreadRecord]
    <3>1. 0 \in 0 .. 1 /\ "TERMINATED" \in ThreadStates /\ FALSE \in BOOLEAN
      BY DEF ThreadStates
    <3>. QED BY <3>1, <1>1, ThreadRecordFields
  <2>3. \A u \in Threads : /\ ts[u].slot = threads[u].slot
                           /\ ts[u].generation = threads[u].generation
                           /\ ts[u].pub = threads[u].pub
                           /\ ts[u].state = "FREE" <=> threads[u].state = "FREE"
    BY <2>1, <1>1 DEF ThreadRecord
  <2>4. T \in SUBSET Threads /\ \A u \in T : ts[u].state # "FREE"
    BY DEF Reclaimable
  <2> HIDE DEF ts, T
  <2>5. HandleTables(objects, ts, events)
    BY <1>0, <1>1, <2>3, SameTables DEF TypeOK
  <2>. QED
    BY <1>0, <2>1, <2>2, <2>4, <2>5, ReleaseKeepsObjects
<1>. QED BY <1>2, <1>3, <1>4, <1>5

\* No record is active and no object is an event: at boot, and after teardown.
LEMMA NoWaitsKeepPins ==
  ASSUME \A r \in Records : ~records'[r].active, activeWaits' = 0,
         \A o \in Objects : objects'[o].type # "EVENT"
  PROVE  PinsKeepEvents'
<1>1. {r \in Records : records'[r].active} = {}
  OBVIOUS
<1>2. activeWaits' = Cardinality({r \in Records : records'[r].active})
  BY <1>1, FS_EmptySet
<1>. QED BY <1>2 DEF PinsKeepEvents

\* What gxos_scheduler_initialize leaves behind.
LEMMA BootTables ==
  /\ HandleTables(BootObjects, BootThreads, NoEvents)
  /\ \A o \in Objects : BootObjects[o].type # "EVENT"
<1>1. \A o \in Objects : /\ BootObjects[o].type = IF o = 0 THEN "THREAD" ELSE "FREE"
                         /\ o = 0 => /\ BootObjects[o].target = Boot
                                     /\ BootObjects[o].generation = 1
                                     /\ BootObjects[o].pub = 0
  BY DEF BootObjects, NewObject, FreeObject
<1>2. \A t \in Threads : /\ BootThreads[t].state = IF t = Boot THEN "RUNNING" ELSE "FREE"
                         /\ t = Boot => /\ BootThreads[t].slot = 0
                                        /\ BootThreads[t].generation = 1
                                        /\ BootThreads[t].pub = 0
  BY DEF BootThreads, BootThread, EmptyThread
<1>3. \A e \in Events : ~NoEvents[e].live
  BY DEF NoEvents, EmptyEvent
<1>. QED BY <1>1, <1>2, <1>3, ConstantFacts DEF HandleTables

LEMMA ObjectInvInit == Init => ObjectInv
<1> SUFFICES ASSUME Init PROVE ObjectInv
  OBVIOUS
<1>1. HandlesNameTheirTargets
  BY BootTables, HandlesAreTables DEF Init
<1>2. \A r \in Records : ~records[r].active
  BY DEF Init, NoRecords, EmptyRecord
<1>3. {r \in Records : records[r].active} = {}
  BY <1>2
<1>4. activeWaits = Cardinality({r \in Records : records[r].active})
  BY <1>3, FS_EmptySet DEF Init
<1>5. PinsKeepEvents
  BY <1>2, <1>4, BootTables DEF PinsKeepEvents, Init
<1>6. WaitTargetStaysOpen
  BY DEF Init, WaitTargetStaysOpen, Idle
<1>. QED BY <1>1, <1>5, <1>6 DEF ObjectInv

\* A free object slot becomes an object of its type, and the slot of the
\* thread or event it stands for, free before, names it.
LEMMA CreateKeepsTables ==
  ASSUME NEW os, NEW ts \in [Threads -> ThreadRecord],
         NEW es \in [Events -> EventRecord], NEW os2, NEW ts2, NEW es2,
         HandleTables(os, ts, es), NEW o \in Objects, os[o].type = "FREE",
         \A x \in Objects \ {o} : os2[x] = os[x],
         \/ /\ os2[o].type \notin {"THREAD", "EVENT"} /\ ts2 = ts /\ es2 = es
         \/ \E t \in Threads :
              /\ os2[o].type = "THREAD" /\ os2[o].target = t /\ es2 = es
              /\ ts[t].state = "FREE" /\ ts2[t].state # "FREE" /\ ts2[t].slot = o
              /\ ts2[t].generation = os2[o].generation /\ ts2[t].pub = os2[o].pub
              /\ \A u \in Threads \ {t} : ts2[u] = ts[u]
         \/ \E e \in Events :
              /\ os2[o].type = "EVENT" /\ os2[o].target = e /\ ts2 = ts
              /\ ~es[e].live /\ es2[e].live /\ es2[e].slot = o
              /\ es2[e].generation = os2[o].generation
              /\ \A f \in Events \ {e} : es2[f] = es[f]
  PROVE  HandleTables(os2, ts2, es2)
<1>1. /\ \A t \in Threads : ts[t].slot \in Objects
      /\ \A e \in Events : es[e].slot \in Objects
  BY DEF ThreadRecord, EventRecord
<1>2. /\ \A t \in Threads : ts[t].state # "FREE" => ts[t].slot # o
      /\ \A e \in Events : es[e].live => es[e].slot # o
  BY DEF HandleTables
<1>3. CASE os2[o].type \notin {"THREAD", "EVENT"} /\ ts2 = ts /\ es2 = es
  BY <1>1, <1>2, <1>3 DEF HandleTables
<1>4. CASE \E t \in Threads :
              /\ os2[o].type = "THREAD" /\ os2[o].target = t /\ es2 = es
              /\ ts[t].state = "FREE" /\ ts2[t].state # "FREE" /\ ts2[t].slot = o
              /\ ts2[t].generation = os2[o].generation /\ ts2[t].pub = os2[o].pub
              /\ \A u \in Threads \ {t} : ts2[u] = ts[u]
  <2>1. PICK t \in Threads :
              /\ os2[o].type = "THREAD" /\ os2[o].target = t /\ es2 = es
              /\ ts[t].state = "FREE" /\ ts2[t].state # "FREE" /\ ts2[t].slot = o
              /\ ts2[t].generation = os2[o].generation /\ ts2[t].pub = os2[o].pub
              /\ \A u \in Threads \ {t} : ts2[u] = ts[u]
    BY <1>4
  <2>2. ASSUME NEW x \in Objects \ {o}, os[x].type = "THREAD"
        PROVE  os[x].target \in Threads \ {t}
    BY <2>1, <2>2 DEF HandleTables
  <2>3. \A x \in Objects :
         /\ os2[x].type = "THREAD" =>
              /\ os2[x].target \in Threads
              /\ ts2[os2[x].target].state # "FREE"
              /\ ts2[os2[x].target].slot = x
         /\ os2[x].type = "EVENT" =>
              /\ os2[x].target \in Events
              /\ es2[os2[x].target].live
              /\ es2[os2[x].target].slot = x
    BY <2>1, <2>2 DEF HandleTables
  <2>4. \A u \in Threads : ts2[u].state # "FREE" =>
         /\ os2[ts2[u].slot].type = "THREAD"
         /\ os2[ts2[u].slot].target = u
         /\ os2[ts2[u].slot].generation = ts2[u].generation
         /\ os2[ts2[u].slot].pub = ts2[u].pub
    BY <1>1, <1>2, <2>1 DEF HandleTables
  <2>5. \A e \in Events : es2[e].live =>
         /\ os2[es2[e].slot].type = "EVENT"
         /\ os2[es2[e].slot].target = e
         /\ os2[es2[e].slot].generation = es2[e].generation
    BY <1>1, <1>2, <2>1 DEF HandleTables
  <2>. QED BY <2>3, <2>4, <2>5 DEF HandleTables
<1>5. CASE \E e \in Events :
              /\ os2[o].type = "EVENT" /\ os2[o].target = e /\ ts2 = ts
              /\ ~es[e].live /\ es2[e].live /\ es2[e].slot = o
              /\ es2[e].generation = os2[o].generation
              /\ \A f \in Events \ {e} : es2[f] = es[f]
  <2>1. PICK e \in Events :
              /\ os2[o].type = "EVENT" /\ os2[o].target = e /\ ts2 = ts
              /\ ~es[e].live /\ es2[e].live /\ es2[e].slot = o
              /\ es2[e].generation = os2[o].generation
              /\ \A f \in Events \ {e} : es2[f] = es[f]
    BY <1>5
  <2>2. ASSUME NEW x \in Objects \ {o}, os[x].type = "EVENT"
        PROVE  os[x].target \in Events \ {e}
    BY <2>1, <2>2 DEF HandleTables
  <2>3. \A x \in Objects :
         /\ os2[x].type = "THREAD" =>
              /\ os2[x].target \in Threads
              /\ ts2[os2[x].target].state # "FREE"
              /\ ts2[os2[x].target].slot = x
         /\ os2[x].type = "EVENT" =>
              /\ os2[x].target \in Events
              /\ es2[os2[x].target].live
              /\ es2[os2[x].target].slot = x
    BY <2>1, <2>2 DEF HandleTables
  <2>4. \A u \in Threads : ts2[u].state # "FREE" =>
         /\ os2[ts2[u].slot].type = "THREAD"
         /\ os2[ts2[u].slot].target = u
         /\ os2[ts2[u].slot].generation = ts2[u].generation
         /\ os2[ts2[u].slot].pub = ts2[u].pub
    BY <1>1, <1>2, <2>1 DEF HandleTables
  <2>5. \A f \in Events : es2[f].live =>
         /\ os2[es2[f].slot].type = "EVENT"
         /\ os2[es2[f].slot].target = f
         /\ os2[es2[f].slot].generation = es2[f].generation
    BY <1>1, <1>2, <2>1 DEF HandleTables
  <2>. QED BY <2>3, <2>4, <2>5 DEF HandleTables
<1>. QED BY <1>3, <1>4, <1>5

\* What a new object has in common with the one a creation adds.
LEMMA CreateKeepsObjects ==
  ASSUME WaitInv, ObjectInv, mode = "up", mode' = "up", loop' = Idle,
         UNCHANGED <<records, activeWaits>>,
         NEW o \in Objects, objects[o].type = "FREE",
         \A x \in Objects \ {o} : objects'[x] = objects[x],
         objects'[o].refs = 1 \/ objects'[o].type # "EVENT",
         \A e \in Events : events[e].live => events'[e].live,
         HandleTables(objects', threads', events')
  PROVE  ObjectInv'
<1>1. HandlesNameTheirTargets'
  BY DEF HandlesNameTheirTargets, HandleTables
<1>2. ASSUME NEW r \in Records, records[r].active
      PROVE  LET x == records[r].slot IN
               /\ objects'[x].type = objects[x].type
               /\ objects'[x].target = objects[x].target
               /\ objects'[x].generation = objects[x].generation
               /\ events'[records[r].event].live
  <2>1. /\ records[r].slot \in Objects /\ objects[records[r].slot].type = "EVENT"
        /\ objects[records[r].slot].target = records[r].event
        /\ events[records[r].event].live
    BY <1>2 DEF WaitInv, TypeOK, WaitRecord, ObjectInv, PinsKeepEvents
  <2>2. records[r].event \in Events
    BY <2>1 DEF WaitInv, TargetsAreInRange
  <2>3. objects'[records[r].slot] = objects[records[r].slot]
    BY <2>1
  <2>. QED BY <2>1, <2>2, <2>3
<1>3. \A x \in Objects : objects'[x].type = "EVENT" =>
        \/ objects[x].type = "EVENT" /\ objects'[x].refs = objects[x].refs
        \/ objects[x].type # "EVENT" /\ objects'[x].refs = 1
  OBVIOUS
<1>4. PinsKeepEvents'
  BY <1>2, <1>3, PinsStay DEF ObjectInv
<1>5. WaitTargetStaysOpen'
  BY DEF WaitTargetStaysOpen, Idle
<1>. QED BY <1>1, <1>4, <1>5 DEF ObjectInv

LEMMA ObjectInvCreates ==
  ASSUME WaitInv, QueueInv, ObjectInv,
         \/ \E manual, signaled \in BOOLEAN : CreateEvent(manual, signaled)
         \/ \E type \in Singletons : CreateSingleton(type)
         \/ \E allocated \in BOOLEAN : CreateSuspendedThread(allocated)
  PROVE  ObjectInv'
<1>0. /\ mode = "up" /\ mode' = "up" /\ loop' = Idle /\ TypeOK
      /\ UNCHANGED <<records, activeWaits>>
  BY DEF CreateEvent, CreateSingleton, CreateSuspendedThread, Running, WaitInv
<1>1. /\ HandleTables(objects, threads, events)
      /\ objects \in [Objects -> ObjectRecord]
      /\ threads \in [Threads -> ThreadRecord]
      /\ events \in [Events -> EventRecord]
  BY <1>0, HandlesAreTables DEF ObjectInv, TypeOK
<1>2. ASSUME NEW manual \in BOOLEAN, NEW signaled \in BOOLEAN,
             CreateEvent(manual, signaled)
      PROVE  ObjectInv'
  <2>0. PICK e \in Events, o \in Objects :
          /\ IsLowest(FreeEvents, e) /\ IsLowest(FreeObjects, o)
          /\ LET g == NextGeneration(objects[o].generation) IN
               /\ objects' = [objects EXCEPT ![o] = NewObject("EVENT", g, e)]
               /\ events' = [events EXCEPT ![e] =
                    [EmptyEvent EXCEPT !.live = TRUE, !.manual = manual,
                       !.signaled = signaled, !.generation = g, !.slot = o]]
    BY <1>2 DEF CreateEvent
  <2>1. objects[o].type = "FREE" /\ ~events[e].live /\ UNCHANGED threads
    BY <1>2, <2>0 DEF IsLowest, FreeObjects, FreeEvents, CreateEvent
  <2>2. /\ \A x \in Objects \ {o} : objects'[x] = objects[x]
        /\ objects'[o].type = "EVENT" /\ objects'[o].target = e
        /\ objects'[o].refs = 1
        /\ objects'[o].generation = NextGeneration(objects[o].generation)
    BY <2>0, <1>1 DEF NewObject
  <2>3. /\ \A f \in Events \ {e} : events'[f] = events[f]
        /\ events'[e].live /\ events'[e].slot = o
        /\ events'[e].generation = NextGeneration(objects[o].generation)
    BY <2>0, <1>1 DEF EmptyEvent
  <2>4. HandleTables(objects', threads', events')
    BY <1>1, <2>1, <2>2, <2>3, CreateKeepsTables
  <2>5. \A f \in Events : events[f].live => events'[f].live
    BY <2>3
  <2>. QED
    BY <1>0, <2>1, <2>2, <2>4, <2>5, CreateKeepsObjects
<1>3. ASSUME NEW type \in Singletons, CreateSingleton(type) PROVE ObjectInv'
  <2>0. PICK o \in Objects :
          /\ IsLowest(FreeObjects, o)
          /\ objects' = [objects EXCEPT ![o] =
               NewObject(type, NextGeneration(objects[o].generation), None)]
    BY <1>3 DEF CreateSingleton
  <2>1. objects[o].type = "FREE" /\ UNCHANGED <<threads, events>>
    BY <1>3, <2>0 DEF IsLowest, FreeObjects, CreateSingleton
  <2>2. type \notin {"THREAD", "EVENT"}
    BY BoundsAssumption
  <2>3. /\ \A x \in Objects \ {o} : objects'[x] = objects[x]
        /\ objects'[o].type = type /\ objects'[o].refs = 1
    BY <2>0, <1>1 DEF NewObject
  <2>4. HandleTables(objects', threads', events')
    BY <1>1, <2>1, <2>2, <2>3, CreateKeepsTables
  <2>. QED
    BY <1>0, <2>1, <2>3, <2>4, CreateKeepsObjects
<1>4. ASSUME NEW allocated \in BOOLEAN, CreateSuspendedThread(allocated)
      PROVE  ObjectInv'
  <2>0. PICK t \in Threads, o \in Objects :
          /\ IsLowest(FreeThreads, t) /\ IsLowest(FreeObjects, o)
          /\ LET g == NextGeneration(objects[o].generation) IN
               /\ objects' = [objects EXCEPT ![o] =
                    IF allocated THEN NewObject("THREAD", g, t) ELSE FreeObject(g)]
               /\ threads' = [threads EXCEPT ![t] =
                    IF allocated THEN NewThread(o, g) ELSE EmptyThread]
    BY <1>4 DEF CreateSuspendedThread
  <2>1. objects[o].type = "FREE" /\ threads[t].state = "FREE" /\ UNCHANGED events
    BY <1>4, <2>0 DEF IsLowest, FreeObjects, FreeThreads, CreateSuspendedThread
  <2>2. /\ \A x \in Objects \ {o} : objects'[x] = objects[x]
        /\ \A u \in Threads \ {t} : threads'[u] = threads[u]
    BY <2>0, <1>1
  <2>3. CASE allocated
    <3>1. /\ objects'[o].type = "THREAD" /\ objects'[o].target = t
          /\ objects'[o].generation = NextGeneration(objects[o].generation)
          /\ objects'[o].pub = 1
      BY <2>0, <2>3, <1>1 DEF NewObject
    <3>2. /\ threads'[t].state # "FREE" /\ threads'[t].slot = o
          /\ threads'[t].generation = NextGeneration(objects[o].generation)
          /\ threads'[t].pub = 1
      BY <2>0, <2>3, <1>1 DEF NewThread, EmptyThread
    <3>3. HandleTables(objects', threads', events')
      BY <1>1, <2>1, <2>2, <3>1, <3>2, CreateKeepsTables
    <3>. QED
      BY <1>0, <2>1, <2>2, <3>1, <3>3, CreateKeepsObjects
  <2>4. CASE ~allocated
    <3>1. objects'[o].type = "FREE"
      BY <2>0, <2>4, <1>1 DEF FreeObject
    <3>2. threads'[t].state = "FREE"
      BY <2>0, <2>4, <1>1 DEF EmptyThread
    <3>3. HandleTables(objects', threads, events')
      BY <1>1, <2>1, <2>2, <3>1, CreateKeepsTables
    <3>4. HandleTables(objects', threads', events')
      <4>1. \A u \in Threads : threads[u].state # "FREE" \/ threads'[u].state # "FREE"
                                 => threads'[u] = threads[u]
        BY <2>1, <2>2, <3>2
      <4>. QED BY <3>3, <4>1 DEF HandleTables
    <3>. QED
      BY <1>0, <2>1, <2>2, <3>1, <3>4, CreateKeepsObjects
  <2>. QED BY <2>3, <2>4
<1>. QED BY <1>2, <1>3, <1>4

\* gxos_scheduler_try_destroy_event frees an event no wait names.
LEMMA ObjectInvDestroy ==
  ASSUME WaitInv, QueueInv, ObjectInv, NEW h \in Handles, TryDestroyEvent(h)
  PROVE  ObjectInv'
<1> DEFINE e == Target(h)
           o == h.slot
<1>1. /\ mode = "up" /\ mode' = "up" /\ loop' = Idle /\ TypeOK
      /\ UNCHANGED <<threads, records, activeWaits>>
      /\ o \in Objects /\ objects[o].type = "EVENT" /\ objects[o].refs <= 1
      /\ objects[o].target = e
  BY DEF TryDestroyEvent, Running, WaitInv, Resolves, Target, Handles
<1>2. HandleTables(objects, threads, events)
  BY <1>1, HandlesAreTables DEF ObjectInv
<1>3. e \in Events /\ events[e].live /\ events[e].slot = o
  BY <1>1, <1>2 DEF HandleTables
<1>4. /\ \A x \in Objects \ {o} : objects'[x] = objects[x]
      /\ objects'[o].type = "FREE"
  BY <1>1 DEF TryDestroyEvent, TypeOK, FreeObject
<1>5. /\ \A f \in Events \ {e} : events'[f] = events[f]
      /\ ~events'[e].live
  BY <1>1, <1>3 DEF TryDestroyEvent, TypeOK, EventRecord
<1>6. \A r \in Records : records[r].active =>
        records[r].slot # o /\ records[r].event # e
  BY <1>1, OneReferenceMeansNoWait
<1>7. /\ \A t \in Threads : threads[t].slot \in Objects
      /\ \A f \in Events : events[f].slot \in Objects
  BY <1>1 DEF TypeOK, ThreadRecord, EventRecord
<1> HIDE DEF e, o
<1>8. HandleTables(objects', threads', events')
  <2>1. \A x \in Objects \ {o} : objects[x].type = "EVENT" => objects[x].target # e
    BY <1>2, <1>3 DEF HandleTables
  <2>2. \A t \in Threads : threads[t].state # "FREE" => threads[t].slot # o
    BY <1>1, <1>2 DEF HandleTables
  <2>3. \A f \in Events \ {e} : events[f].live => events[f].slot # o
    BY <1>1, <1>2 DEF HandleTables
  <2>4. \A x \in Objects :
         /\ objects'[x].type = "THREAD" =>
              /\ objects'[x].target \in Threads
              /\ threads'[objects'[x].target].state # "FREE"
              /\ threads'[objects'[x].target].slot = x
         /\ objects'[x].type = "EVENT" =>
              /\ objects'[x].target \in Events
              /\ events'[objects'[x].target].live
              /\ events'[objects'[x].target].slot = x
    BY <2>1, <1>1, <1>2, <1>4, <1>5 DEF HandleTables
  <2>5. \A u \in Threads : threads'[u].state # "FREE" =>
         /\ objects'[threads'[u].slot].type = "THREAD"
         /\ objects'[threads'[u].slot].target = u
         /\ objects'[threads'[u].slot].generation = threads'[u].generation
         /\ objects'[threads'[u].slot].pub = threads'[u].pub
    BY <2>2, <1>1, <1>2, <1>4, <1>7 DEF HandleTables
  <2>6. \A f \in Events : events'[f].live =>
         /\ objects'[events'[f].slot].type = "EVENT"
         /\ objects'[events'[f].slot].target = f
         /\ objects'[events'[f].slot].generation = events'[f].generation
    BY <2>3, <1>2, <1>4, <1>5, <1>7 DEF HandleTables
  <2>. QED BY <2>4, <2>5, <2>6 DEF HandleTables
<1>9. HandlesNameTheirTargets'
  BY <1>8 DEF HandlesNameTheirTargets, HandleTables
<1>10. ASSUME NEW r \in Records, records[r].active
       PROVE  LET x == records[r].slot IN
                /\ objects'[x].type = objects[x].type
                /\ objects'[x].target = objects[x].target
                /\ objects'[x].generation = objects[x].generation
                /\ events'[records[r].event].live
  <2>1. /\ records[r].slot \in Objects \ {o}
        /\ objects[records[r].slot].type = "EVENT"
        /\ objects[records[r].slot].target = records[r].event
        /\ events[records[r].event].live
    BY <1>1, <1>6, <1>10 DEF TypeOK, WaitRecord, ObjectInv, PinsKeepEvents
  <2>2. records[r].event \in Events \ {e}
    BY <2>1, <1>6, <1>10 DEF WaitInv, TargetsAreInRange
  <2>. QED BY <2>1, <2>2, <1>4, <1>5
<1>11. \A x \in Objects : objects'[x].type = "EVENT" =>
         objects[x].type = "EVENT" /\ objects'[x].refs = objects[x].refs
  BY <1>4
<1>12. PinsKeepEvents'
  BY <1>1, <1>10, <1>11, PinsStay DEF ObjectInv
<1>13. WaitTargetStaysOpen'
  BY <1>1 DEF WaitTargetStaysOpen, Idle
<1>. QED BY <1>9, <1>12, <1>13 DEF ObjectInv

\* Steps that change an event's signal, read the clock or switch threads.
LEMMA ObjectInvQuiet ==
  ASSUME WaitInv, QueueInv, ObjectInv,
         \/ UNCHANGED vars
         \/ \E h \in Handles : \/ ResetEvent(h) \/ WaitSignaled(h)
                               \/ \E ms \in Timeouts : WaitFinite(h, ms)
         \/ PollTimeouts \/ Tick \/ Yield \/ Terminate
  PROVE  ObjectInv'
<1>0. TypeOK /\ UNCHANGED <<objects, records, activeWaits>>
      /\ (mode' = mode \/ mode' = "halted")
  BY DEF vars, ResetEvent, WaitSignaled, WaitFinite, PollTimeouts, Tick, Yield,
         Terminate, WaitInv
<1>1. ASSUME UNCHANGED threads,
             \A e \in Events : /\ events'[e].live <=> events[e].live
                               /\ events'[e].slot = events[e].slot
                               /\ events'[e].generation = events[e].generation,
             WaitTargetStaysOpen'
      PROVE  ObjectInv'
  BY <1>0, <1>1, QuietStepKeepsObjects
<1>2. CASE UNCHANGED vars
  <2>1. WaitTargetStaysOpen'
    BY <1>2 DEF vars, ObjectInv, WaitTargetStaysOpen
  <2>. QED BY <1>1, <1>2, <2>1 DEF vars
<1>3. CASE Tick
  <2>1. WaitTargetStaysOpen'
    BY <1>3 DEF Tick, ObjectInv, WaitTargetStaysOpen
  <2>. QED BY <1>1, <1>3, <2>1 DEF Tick
<1>4. CASE PollTimeouts
  <2>1. WaitTargetStaysOpen'
    BY <1>4 DEF PollTimeouts, Idle, WaitTargetStaysOpen
  <2>. QED BY <1>1, <1>4, <2>1 DEF PollTimeouts
<1>5. ASSUME NEW h \in Handles, ResetEvent(h) \/ WaitSignaled(h) PROVE ObjectInv'
  <2>1. Target(h) \in Events /\ loop' = Idle /\ UNCHANGED threads
        /\ \E s \in BOOLEAN : events' = [events EXCEPT ![Target(h)].signaled = s]
    <3>1. Target(h) \in Events /\ loop' = Idle /\ UNCHANGED threads
      BY <1>5 DEF ResetEvent, WaitSignaled, OpenEvent, LiveEvent, Resolves, Target,
                  WaitInv, TargetsAreInRange, Handles, Running
    <3>2. events[Target(h)].manual \in BOOLEAN
      BY <3>1, <1>0 DEF TypeOK, EventRecord
    <3>. QED BY <3>1, <3>2, <1>5 DEF ResetEvent, WaitSignaled
  <2>2. \A e \in Events : /\ events'[e].live <=> events[e].live
                          /\ events'[e].slot = events[e].slot
                          /\ events'[e].generation = events[e].generation
    BY <2>1, <1>0 DEF TypeOK, EventRecord
  <2>3. WaitTargetStaysOpen'
    BY <2>1 DEF Idle, WaitTargetStaysOpen
  <2>. QED BY <1>1, <2>1, <2>2, <2>3
<1>6. ASSUME NEW h \in Handles, NEW ms \in Timeouts, WaitFinite(h, ms)
      PROVE  ObjectInv'
  <2>1. /\ loop'.event = Target(h) /\ UNCHANGED <<threads, events, objects>>
        /\ OpenEvent(h) /\ ~events[Target(h)].signaled
    BY <1>6 DEF WaitFinite
  <2>2. WaitTargetStaysOpen'
    BY <2>1 DEF OpenEvent, Resolves, WaitTargetStaysOpen
  <2>. QED BY <1>1, <2>1, <2>2
<1>7. CASE Yield \/ Terminate
  <2>1. loop' = Idle /\ UNCHANGED events /\ current \in Threads
        /\ threads[current].state = "RUNNING"
    BY <1>7, <1>0 DEF Yield, Terminate, Running, TypeOK
  <2>2. WaitTargetStaysOpen'
    BY <2>1 DEF Idle, WaitTargetStaysOpen
  <2> DEFINE yielded == [threads EXCEPT ![current] =
                           [@ EXCEPT !.state = "RUNNABLE", !.queued = TRUE]]
             ended == [threads EXCEPT ![current] =
                        [@ EXCEPT !.state = "TERMINATED", !.deferred = TRUE, !.exec = 0]]
  <2>3. PICK ts \in {yielded, ended} :
          \/ threads' = ts
          \/ \E t \in Threads : t \in Ready(ts) /\ threads' = Dispatched(ts, t)
    BY <1>7 DEF Yield, Terminate, IsNextRunnable
  <2>4. \A u \in Threads : /\ ts[u].slot = threads[u].slot
                           /\ ts[u].generation = threads[u].generation
                           /\ ts[u].pub = threads[u].pub
                           /\ ts[u].state = "FREE" <=> threads[u].state = "FREE"
    <3>1. \A u \in Threads : /\ yielded[u].slot = threads[u].slot
                             /\ yielded[u].generation = threads[u].generation
                             /\ yielded[u].pub = threads[u].pub
                             /\ yielded[u].state = "FREE" <=> threads[u].state = "FREE"
      BY <2>1, <1>0 DEF TypeOK, ThreadRecord
    <3>2. \A u \in Threads : /\ ended[u].slot = threads[u].slot
                             /\ ended[u].generation = threads[u].generation
                             /\ ended[u].pub = threads[u].pub
                             /\ ended[u].state = "FREE" <=> threads[u].state = "FREE"
      BY <2>1, <1>0 DEF TypeOK, ThreadRecord
    <3>. QED BY <2>3, <3>1, <3>2, ZenonT(30)
  <2>5. ts \in [Threads -> ThreadRecord]
    <3>1. /\ 0 \in 0 .. 1 /\ {"TERMINATED", "RUNNABLE"} \subseteq ThreadStates
          /\ TRUE \in BOOLEAN /\ threads \in [Threads -> ThreadRecord]
      BY <1>0 DEF ThreadStates, TypeOK
    <3>2. yielded \in [Threads -> ThreadRecord]
      BY <3>1, <2>1, ThreadRecordFields
    <3>3. ended \in [Threads -> ThreadRecord]
      BY <3>1, <2>1, ThreadRecordFields
    <3>. QED BY <2>3, <3>2, <3>3
  <2> HIDE DEF yielded, ended
  <2>6. \A u \in Threads : /\ threads'[u].slot = ts[u].slot
                           /\ threads'[u].generation = ts[u].generation
                           /\ threads'[u].pub = ts[u].pub
                           /\ threads'[u].state = "FREE" <=> ts[u].state = "FREE"
    <3>1. CASE threads' = ts
      BY <3>1
    <3>2. CASE \E t \in Threads : t \in Ready(ts) /\ threads' = Dispatched(ts, t)
      <4>1. PICK t \in Threads : t \in Ready(ts) /\ threads' = Dispatched(ts, t)
        BY <3>2
      <4>2. ts[t].state = "RUNNABLE"
        BY <4>1 DEF Ready
      <4>. QED BY <4>1, <4>2, <2>5 DEF Dispatched, ThreadRecord
    <3>. QED BY <2>3, <3>1, <3>2
  <2>7. \A u \in Threads : /\ threads'[u].slot = threads[u].slot
                           /\ threads'[u].generation = threads[u].generation
                           /\ threads'[u].pub = threads[u].pub
                           /\ threads'[u].state = "FREE" <=> threads[u].state = "FREE"
    BY <2>4, <2>6
  <2>. QED
    BY <1>0, <2>1, <2>2, <2>7, QuietStepKeepsObjects
<1>. QED BY <1>2, <1>3, <1>4, <1>5, <1>6, <1>7

\* Signals, timeouts and waits.
LEMMA ObjectInvWaits ==
  ASSUME WaitInv, QueueInv, ObjectInv,
         \/ \E h \in Handles : SignalEvent(h) \/ SetEvent(h) \/ WaitInfinite(h)
         \/ WakeNext \/ ServiceNext \/ ServiceDone
  PROVE  ObjectInv'
<1>0. TypeOK
  BY DEF WaitInv
<1>1. ASSUME UNCHANGED <<threads, objects, records, activeWaits, mode>>,
             \A e \in Events : /\ events'[e].live <=> events[e].live
                               /\ events'[e].slot = events[e].slot
                               /\ events'[e].generation = events[e].generation,
             WaitTargetStaysOpen'
      PROVE  ObjectInv'
  BY <1>1, QuietStepKeepsObjects
<1>2. ASSUME NEW h \in Handles, SignalEvent(h) PROVE ObjectInv'
  <2> DEFINE e == Target(h)
  <2>1. e \in Events /\ loop = Idle /\ UNCHANGED <<objects, activeWaits, mode>>
    BY <1>2 DEF SignalEvent, LiveEvent, Resolves, Target, WaitInv, TargetsAreInRange,
                Handles, Running
  <2>2. CASE /\ events[e].waiters # <<>>
             /\ CompleteWaiter(e, 1, "OBJECT_0", "SIGNALED")
             /\ events' = WithoutWaiter(e, 1, FALSE)
             /\ UNCHANGED loop
    <3>1. 1 \in 1 .. Len(events[e].waiters) /\ "OBJECT_0" \in Completions
      BY <2>1, <2>2, <1>0 DEF TypeOK, EventRecord, Completions
    <3> HIDE DEF e
    <3>. QED BY <2>1, <2>2, <3>1, WakeKeepsObjects
  <2>3. CASE /\ UNCHANGED <<threads, records>>
             /\ events' = [events EXCEPT ![e].signaled = TRUE]
             /\ \/ loop' = [Idle EXCEPT !.op = "wake", !.event = e]
                \/ UNCHANGED loop
    <3>1. loop'.op # "pollwait"
      <4>1. CASE loop' = [Idle EXCEPT !.op = "wake", !.event = e]
        BY <4>1 DEF Idle
      <4>2. CASE UNCHANGED loop
        BY <4>2, <2>1 DEF Idle
      <4>. QED BY <4>1, <4>2, <2>3
    <3>2. WaitTargetStaysOpen'
      BY <3>1 DEF WaitTargetStaysOpen
    <3>3. \A f \in Events : /\ events'[f].live <=> events[f].live
                            /\ events'[f].slot = events[f].slot
                            /\ events'[f].generation = events[f].generation
      BY <2>1, <2>3, <1>0 DEF TypeOK, EventRecord
    <3>. QED BY <1>1, <2>1, <2>3, <3>2, <3>3
  <2>. QED BY <1>2, <2>2, <2>3 DEF SignalEvent
<1>3. ASSUME WakeNext PROVE ObjectInv'
  <2> DEFINE e == loop.event
  <2>1. e \in Events /\ UNCHANGED <<objects, activeWaits, mode>>
    BY <1>3 DEF WakeNext, WaitInv, LoopTargetIsLive
  <2>2. CASE /\ events[e].waiters # <<>>
             /\ CompleteWaiter(e, 1, "OBJECT_0", "SIGNALED")
             /\ events' = WithoutWaiter(e, 1, events[e].signaled)
             /\ UNCHANGED loop
    <3>1. 1 \in 1 .. Len(events[e].waiters) /\ "OBJECT_0" \in Completions
          /\ events[e].signaled \in BOOLEAN
      BY <2>1, <2>2, <1>0 DEF TypeOK, EventRecord, Completions
    <3> HIDE DEF e
    <3>. QED BY <2>1, <2>2, <3>1, WakeKeepsObjects
  <2>3. CASE loop' = Idle /\ UNCHANGED <<threads, records, events>>
    <3>1. WaitTargetStaysOpen'
      BY <2>3 DEF WaitTargetStaysOpen, Idle
    <3>. QED BY <1>1, <2>1, <2>3, <3>1
  <2>. QED BY <1>3, <2>2, <2>3 DEF WakeNext
<1>4. ASSUME ServiceNext PROVE ObjectInv'
  <2> DEFINE r == records[loop.index]
  <2>1. /\ loop' = [loop EXCEPT !.index = loop.index + 1]
        /\ UNCHANGED <<objects, activeWaits, mode>>
        /\ loop.op \in {"poll", "pollwait"} /\ loop.index < MaxThreads
    BY <1>4 DEF ServiceNext
  <2>2. loop.index \in Records
    <3>1. loop.index \in Nat /\ MaxThreads \in Nat
      BY <1>0, BoundsAssumption DEF TypeOK, LoopRecord
    <3>. QED BY <3>1, <2>1 DEF Records
  <2>3. loop'.op = loop.op /\ loop'.event = loop.event
    BY <2>1, <1>0 DEF TypeOK, LoopRecord
  <2>4. CASE UNCHANGED <<threads, records, events>>
    <3>1. WaitTargetStaysOpen'
      BY <2>1, <2>3, <2>4 DEF ObjectInv, WaitTargetStaysOpen
    <3>. QED BY <1>1, <2>1, <2>4, <3>1
  <2>5. CASE /\ r.linked
             /\ CompleteWaiter(r.event, r.index, "TIMEOUT", "TIMED_OUT")
             /\ events' = WithoutWaiter(r.event, r.index, events[r.event].signaled)
    <3> DEFINE e == r.event
               i == r.index
    <3>1. e \in Events /\ i \in 1 .. Len(events[e].waiters)
      BY <2>2, <2>5 DEF WaitInv, LinkedRecordsAreListed
    <3>2. events[e].signaled \in BOOLEAN /\ "TIMEOUT" \in Completions
      BY <3>1, <1>0 DEF TypeOK, EventRecord, Completions
    <3>3. /\ CompleteWaiter(e, i, "TIMEOUT", "TIMED_OUT")
          /\ events' = WithoutWaiter(e, i, events[e].signaled)
      BY <2>5
    <3> HIDE DEF e, i
    <3>. QED BY <2>1, <2>3, <3>1, <3>2, <3>3, WakeKeepsObjects
  <2>. QED BY <1>4, <2>4, <2>5 DEF ServiceNext, Expired
<1>5. ASSUME NEW h \in Handles, WaitInfinite(h) PROVE ObjectInv'
  <2>1. /\ Target(h) \in Events /\ mode = "up" /\ threads[current].wait = None
        /\ loop' = Idle /\ BlockOn(Target(h), FALSE, 0) /\ events[Target(h)].live
    BY <1>5 DEF WaitInfinite, OpenEvent, Resolves, Target, WaitInv, TargetsAreInRange,
                Handles, Running
  <2>. QED BY <2>1, ConstantFacts, BlockKeepsObjects
<1>6. ASSUME ServiceDone PROVE ObjectInv'
  <2>1. loop.op \in {"poll", "pollwait"} /\ loop' = Idle /\ loop # Idle
    BY <1>6 DEF ServiceDone, Idle
  <2>2. CASE loop.op = "pollwait"
    <3>1. /\ loop.event \in Events /\ loop.deadline \in Time
          /\ mode = "up" /\ threads[current].wait = None
          /\ events[loop.event].live
      BY <2>1, <2>2 DEF WaitInv, LoopTargetIsLive, TypeOK, LoopRecord, QueueInv,
                        LoopsRunForTheCaller
    <3>2. BlockOn(loop.event, TRUE, loop.deadline)
      BY <1>6, <2>2 DEF ServiceDone
    <3>. QED BY <2>1, <3>1, <3>2, BlockKeepsObjects
  <2>3. CASE loop.op = "poll"
    <3>1. UNCHANGED <<threads, objects, records, events, activeWaits, mode>>
      BY <1>6, <2>3 DEF ServiceDone
    <3>2. WaitTargetStaysOpen'
      BY <2>1 DEF WaitTargetStaysOpen, Idle
    <3>. QED BY <1>1, <3>1, <3>2
  <2>. QED BY <2>1, <2>2, <2>3
<1>. QED BY <1>2, <1>3, <1>4, <1>5, <1>6 DEF SetEvent

\* The end of a scheduler and its next beginning.
LEMMA ObjectInvRestart ==
  ASSUME WaitInv, QueueInv, QueueInv', ObjectInv, Teardown \/ Initialize
  PROVE  ObjectInv'
<1>1. CASE Teardown
  <2>1. /\ mode = "up" /\ mode' = "down" /\ loop' = Idle
        /\ UNCHANGED <<events, records, activeWaits>>
        /\ \A e \in Events : ~events[e].live
    BY <1>1 DEF Teardown, Running
  <2>2. HandlesNameTheirTargets' /\ WaitTargetStaysOpen'
    BY <2>1 DEF HandlesNameTheirTargets, WaitTargetStaysOpen, Idle
  <2>3. \A r \in Records : ~records'[r].active
    <3>1. \A t \in Threads : threads'[t].wait = None
      BY <2>1 DEF QueueInv, TornDownIsEmpty, WaitersHaveRun
    <3>2. \A r \in Records : records'[r].active => threads'[records'[r].thread].wait = r
                                                 /\ records'[r].thread \in Threads
      BY DEF QueueInv, RecordsMatchThreads
    <3>. QED BY <3>1, <3>2, ConstantFacts
  <2>4. activeWaits' = 0
    <3>1. {r \in Records : records[r].active} = {}
      BY <2>1, <2>3
    <3>. QED BY <2>1, <3>1, FS_EmptySet DEF ObjectInv, PinsKeepEvents
  <2>5. \A o \in Objects : objects'[o].type \in {"FREE", objects[o].type}
    BY <1>1 DEF Teardown, Released, FreeObject
  <2>6. \A o \in Objects : objects[o].type # "EVENT"
    BY <2>1 DEF ObjectInv, HandlesNameTheirTargets
  <2>7. \A o \in Objects : objects'[o].type # "EVENT"
    BY <2>5, <2>6
  <2>. QED BY <2>2, <2>3, <2>4, <2>7, NoWaitsKeepPins DEF ObjectInv
<1>2. CASE Initialize
  <2>1. /\ objects' = BootObjects /\ threads' = BootThreads /\ events' = NoEvents
        /\ records' = NoRecords /\ activeWaits' = 0 /\ loop' = Idle
    BY <1>2 DEF Initialize
  <2>2. HandlesNameTheirTargets' /\ WaitTargetStaysOpen'
    BY <2>1, BootTables
       DEF HandlesNameTheirTargets, HandleTables, WaitTargetStaysOpen, Idle
  <2>3. \A r \in Records : ~records'[r].active
    BY <2>1 DEF NoRecords, EmptyRecord
  <2>4. PinsKeepEvents'
    BY <2>1, <2>3, BootTables, NoWaitsKeepPins
  <2>. QED BY <2>2, <2>4 DEF ObjectInv
<1>. QED BY <1>1, <1>2

LEMMA ObjectInvStep ==
  WaitInv /\ QueueInv /\ ObjectInv /\ [Next]_vars => ObjectInv'
<1> SUFFICES ASSUME WaitInv, QueueInv, ObjectInv, [Next]_vars PROVE ObjectInv'
  OBVIOUS
<1>1. CASE \/ UNCHANGED vars
           \/ \E h \in Handles : \/ ResetEvent(h) \/ WaitSignaled(h)
                                 \/ \E ms \in Timeouts : WaitFinite(h, ms)
           \/ PollTimeouts \/ Tick \/ Yield \/ Terminate
  BY <1>1, ObjectInvQuiet
<1>2. CASE \/ \E manual, signaled \in BOOLEAN : CreateEvent(manual, signaled)
           \/ \E type \in Singletons : CreateSingleton(type)
           \/ \E allocated \in BOOLEAN : CreateSuspendedThread(allocated)
  BY <1>2, ObjectInvCreates
<1>3. CASE \/ \E h \in Handles : ResumeThread(h) \/ CloseHandle(h)
           \/ \E T \in SUBSET Threads : Collect(T)
           \/ \E t \in Threads : DiscardCreatedThread(t)
  BY <1>3, ObjectInvTables
<1>4. CASE \E h \in Handles : TryDestroyEvent(h)
  BY <1>4, ObjectInvDestroy
<1>5. CASE \/ \E h \in Handles : SignalEvent(h) \/ SetEvent(h) \/ WaitInfinite(h)
           \/ WakeNext \/ ServiceNext \/ ServiceDone
  BY <1>5, ObjectInvWaits
<1>6. CASE FinishWait
  BY <1>6, FinishKeepsObjects
<1>7. CASE Teardown \/ Initialize
  BY <1>7, QueueInvStep, ObjectInvRestart
<1>. QED
  BY <1>1, <1>2, <1>3, <1>4, <1>5, <1>6, <1>7 DEF Next, HandleCall

LEMMA ObjectInvHolds == Spec => [](WaitInv /\ QueueInv /\ ObjectInv)
<1>1. Init => WaitInv /\ QueueInv /\ ObjectInv
  BY WaitInvInit, QueueInvInit, ObjectInvInit
<1>2. WaitInv /\ QueueInv /\ ObjectInv /\ [Next]_vars
        => (WaitInv /\ QueueInv /\ ObjectInv)'
  BY WaitInvStep, QueueInvStep, ObjectInvStep
<1>. QED
  BY <1>1, <1>2, PTL DEF Spec

-----------------------------------------------------------------------------
(* Reclaimed threads and stale handles.                                    *)

\* The steps that zero a control block of a scheduler that goes on running
\* switch to no other thread and touch no wait record.
LEMMA FreeingStep ==
  ASSUME WaitInv, QueueInv, [Next]_vars, mode' = "up",
         NEW t \in Threads, threads[t].state # "FREE", threads'[t].state = "FREE"
  PROVE  UNCHANGED <<current, records>>
<1>0. TypeOK
  BY DEF WaitInv
<1>1. CASE \/ \E h \in Handles : ResumeThread(h) \/ CloseHandle(h)
           \/ \E T \in SUBSET Threads : Collect(T)
           \/ \E u \in Threads : DiscardCreatedThread(u)
           \/ \E allocated \in BOOLEAN : CreateSuspendedThread(allocated)
  BY <1>1 DEF ResumeThread, CloseHandle, Collect, DiscardCreatedThread,
              CreateSuspendedThread
<1>2. CASE Teardown
  BY <1>2 DEF Teardown
<1>3. CASE Initialize
  BY <1>3 DEF Initialize, QueueInv, TornDownIsEmpty
<1>4. UNCHANGED threads => FALSE
  OBVIOUS
<1>5. CASE \/ UNCHANGED vars
           \/ \E h \in Handles : \/ ResetEvent(h) \/ WaitSignaled(h)
                                 \/ TryDestroyEvent(h)
                                 \/ \E ms \in Timeouts : WaitFinite(h, ms)
           \/ \E manual, signaled \in BOOLEAN : CreateEvent(manual, signaled)
           \/ \E type \in Singletons : CreateSingleton(type)
           \/ PollTimeouts \/ Tick
  BY <1>4, <1>5 DEF vars, ResetEvent, WaitSignaled, TryDestroyEvent, WaitFinite,
                    CreateEvent, CreateSingleton, PollTimeouts, Tick
\* The remaining steps set one state, or two, and to none of them "FREE".
<1>6. ASSUME NEW ts, NEW u \in Threads, NEW c \in Threads, ts \in [Threads -> ThreadRecord],
             \A x \in Threads \ {c} : ts[x].state = threads[x].state,
             ts[c].state # "FREE",
             threads' = ts \/ threads' = Dispatched(ts, u)
      PROVE  FALSE
  <2>1. CASE threads' = ts
    BY <1>6, <2>1
  <2>2. CASE threads' = Dispatched(ts, u)
    <3>1. threads'[t].state = IF t = u THEN "RUNNING" ELSE ts[t].state
      BY <1>6, <2>2 DEF Dispatched, ThreadRecord
    <3>. QED BY <1>6, <3>1
  <2>. QED BY <1>6, <2>1, <2>2
<1>7. ASSUME NEW e \in Events, NEW i \in 1 .. Len(events[e].waiters), NEW c, NEW res,
             CompleteWaiter(e, i, c, res)
      PROVE  FALSE
  <2>1. \A u \in Threads :
          /\ u = records[events[e].waiters[i]].thread => threads'[u].state = "RUNNABLE"
          /\ u # records[events[e].waiters[i]].thread => threads'[u] = threads[u]
    BY <1>0, <1>7 DEF CompleteWaiter, TypeOK, ThreadRecord
  <2>. QED BY <2>1
<1>8. ASSUME NEW e \in Events, NEW armed, NEW deadline, BlockOn(e, armed, deadline)
      PROVE  FALSE
  <2>1. CASE UNCHANGED threads
    BY <2>1
  <2>2. CASE \E r \in Records, u \in Threads :
               threads' = Dispatched([threads EXCEPT ![current] =
                 [@ EXCEPT !.state = "BLOCKED", !.wait = r, !.result = "NONE"]], u)
    <3>1. PICK r \in Records, u \in Threads :
               threads' = Dispatched([threads EXCEPT ![current] =
                 [@ EXCEPT !.state = "BLOCKED", !.wait = r, !.result = "NONE"]], u)
      BY <2>2
    <3> DEFINE ts == [threads EXCEPT ![current] =
                 [@ EXCEPT !.state = "BLOCKED", !.wait = r, !.result = "NONE"]]
    <3>2. /\ current \in Threads
          /\ \A x \in Threads \ {current} : ts[x] = threads[x]
          /\ ts[current].state = "BLOCKED"
      BY <1>0 DEF TypeOK, ThreadRecord
    <3>3. ts \in [Threads -> ThreadRecord]
      <4>1. /\ "BLOCKED" \in ThreadStates /\ "NONE" \in WaitResults
            /\ threads \in [Threads -> ThreadRecord] /\ r \in Records \cup {None}
        BY <1>0 DEF ThreadStates, WaitResults, TypeOK
      <4>. QED BY <4>1, <3>2, ThreadRecordFields
    <3>4. threads' = Dispatched(ts, u)
      BY <3>1
    <3> HIDE DEF ts
    <3>. QED BY <1>6, <3>2, <3>3, <3>4
  <2>. QED BY <1>8, <2>1, <2>2 DEF BlockOn
<1>9. CASE \E h \in Handles : SignalEvent(h) \/ SetEvent(h)
  <2>1. PICK h \in Handles : SignalEvent(h)
    BY <1>9 DEF SetEvent
  <2>2. Target(h) \in Events
    BY <2>1 DEF SignalEvent, LiveEvent, Resolves, Target, WaitInv, TargetsAreInRange,
                Handles
  <2>3. events[Target(h)].waiters # <<>> => 1 \in 1 .. Len(events[Target(h)].waiters)
    BY <2>2, <1>0 DEF TypeOK, EventRecord
  <2>. QED BY <1>4, <1>7, <2>1, <2>2, <2>3 DEF SignalEvent
<1>10. CASE WakeNext
  <2>1. loop.event \in Events
    BY <1>10 DEF WakeNext, WaitInv, LoopTargetIsLive
  <2>2. events[loop.event].waiters # <<>> => 1 \in 1 .. Len(events[loop.event].waiters)
    BY <2>1, <1>0 DEF TypeOK, EventRecord
  <2>. QED BY <1>4, <1>7, <1>10, <2>1, <2>2 DEF WakeNext
<1>11. CASE ServiceNext
  <2> DEFINE r == records[loop.index]
  <2>1. loop.index \in Records
    <3>1. loop.index \in Nat /\ MaxThreads \in Nat /\ loop.index < MaxThreads
      BY <1>0, <1>11, BoundsAssumption DEF ServiceNext, TypeOK, LoopRecord
    <3>. QED BY <3>1 DEF Records
  <2>2. r.linked => r.event \in Events /\ r.index \in 1 .. Len(events[r.event].waiters)
    BY <2>1 DEF WaitInv, LinkedRecordsAreListed
  <2>3. CASE r.linked /\ CompleteWaiter(r.event, r.index, "TIMEOUT", "TIMED_OUT")
    BY <1>7, <2>2, <2>3
  <2>. QED BY <1>4, <1>11, <2>3 DEF ServiceNext, Expired
<1>12. CASE \E h \in Handles : WaitInfinite(h)
  <2>1. PICK h \in Handles : WaitInfinite(h)
    BY <1>12
  <2>2. Target(h) \in Events /\ BlockOn(Target(h), FALSE, 0)
    BY <2>1 DEF WaitInfinite, OpenEvent, Resolves, Target, WaitInv, TargetsAreInRange,
                Handles
  <2>. QED BY <2>2, <1>8
<1>13. CASE ServiceDone
  <2>1. \/ UNCHANGED threads
        \/ loop.op = "pollwait" /\ BlockOn(loop.event, TRUE, loop.deadline)
    BY <1>13 DEF ServiceDone
  <2>. QED BY <2>1, <1>4, <1>8 DEF WaitInv, LoopTargetIsLive
<1>14. CASE FinishWait
  <2>1. threads'[t].state = threads[t].state
    BY <1>0, <1>14 DEF FinishWait, TypeOK, ThreadRecord
  <2>. QED BY <2>1
<1>15. CASE Yield \/ Terminate
  <2> DEFINE yielded == [threads EXCEPT ![current] =
                           [@ EXCEPT !.state = "RUNNABLE", !.queued = TRUE]]
             ended == [threads EXCEPT ![current] =
                        [@ EXCEPT !.state = "TERMINATED", !.deferred = TRUE, !.exec = 0]]
  <2>1. PICK ts \in {yielded, ended} :
          \/ threads' = ts
          \/ \E u \in Threads : threads' = Dispatched(ts, u)
    BY <1>15 DEF Yield, Terminate
  <2>2. current \in Threads /\ threads \in [Threads -> ThreadRecord]
    BY <1>0 DEF TypeOK
  <2>3. /\ 0 \in 0 .. 1 /\ {"TERMINATED", "RUNNABLE"} \subseteq ThreadStates
        /\ TRUE \in BOOLEAN
    BY DEF ThreadStates
  <2>4. /\ \A x \in Threads \ {current} : yielded[x] = threads[x]
        /\ yielded[current].state # "FREE" /\ yielded \in [Threads -> ThreadRecord]
    <3>1. yielded \in [Threads -> ThreadRecord]
      BY <2>2, <2>3, ThreadRecordFields
    <3>. QED BY <3>1, <2>2 DEF ThreadRecord
  <2>5. /\ \A x \in Threads \ {current} : ended[x] = threads[x]
        /\ ended[current].state # "FREE" /\ ended \in [Threads -> ThreadRecord]
    <3>1. ended \in [Threads -> ThreadRecord]
      BY <2>2, <2>3, ThreadRecordFields
    <3>. QED BY <3>1, <2>2 DEF ThreadRecord
  <2>6. /\ \A x \in Threads \ {current} : ts[x].state = threads[x].state
        /\ ts[current].state # "FREE" /\ ts \in [Threads -> ThreadRecord]
    <3> HIDE DEF yielded, ended
    <3>. QED BY <2>1, <2>4, <2>5
  <2> HIDE DEF yielded, ended
  <2>. QED BY <1>6, <2>1, <2>2, <2>6
<1>. QED
  BY <1>1, <1>2, <1>3, <1>5, <1>9, <1>10, <1>11, <1>12, <1>13, <1>14, <1>15
     DEF Next, HandleCall

\* An object keeps its type and generation, or becomes free, or takes the next
\* generation: the slots of a scheduler that is up change in no other way.
LEMMA ObjectSlotStep ==
  ASSUME WaitInv, [Next]_vars, mode = "up", NEW o \in Objects
  PROVE  \/ /\ objects'[o].type = objects[o].type
            /\ objects'[o].generation = objects[o].generation
         \/ /\ objects'[o].type = "FREE"
            /\ objects'[o].generation = objects[o].generation
         \/ objects'[o].generation = NextGeneration(objects[o].generation)
<1> DEFINE P ==
      \/ /\ objects'[o].type = objects[o].type
         /\ objects'[o].generation = objects[o].generation
      \/ /\ objects'[o].type = "FREE"
         /\ objects'[o].generation = objects[o].generation
      \/ objects'[o].generation = NextGeneration(objects[o].generation)
<1>0. /\ objects \in [Objects -> ObjectRecord] /\ objects[o] \in ObjectRecord
      /\ TypeOK
  BY DEF WaitInv, TypeOK
<1>1. CASE UNCHANGED objects
  BY <1>1
<1>2. ASSUME NEW os, NEW ts, NEW T, objects' = Released(os, ts, T),
             os[o].type = objects[o].type, os[o].generation = objects[o].generation
      PROVE  P
  <2>1. objects'[o] = os[o] \/ objects'[o] = FreeObject(os[o].generation)
    BY <1>2 DEF Released
  <2>. QED BY <1>2, <2>1 DEF FreeObject
<1>3. ASSUME NEW x \in Objects, NEW type, NEW g, NEW target,
             g = NextGeneration(objects[x].generation),
             \/ objects' = [objects EXCEPT ![x] = NewObject(type, g, target)]
             \/ objects' = [objects EXCEPT ![x] = FreeObject(g)]
      PROVE  P
  <2>1. objects'[o].generation = IF o = x THEN g ELSE objects[o].generation
    BY <1>0, <1>3 DEF NewObject, FreeObject
  <2>2. o # x => objects'[o] = objects[o]
    BY <1>0, <1>3
  <2>. QED BY <2>1, <2>2, <1>3
<1>4. ASSUME NEW x, NEW n, objects' = [objects EXCEPT ![x].refs = n]
      PROVE  P
  BY <1>0, <1>4 DEF ObjectRecord
<1>5. CASE \E manual, signaled \in BOOLEAN : CreateEvent(manual, signaled)
  <2>1. PICK e \in Events, x \in Objects :
          objects' = [objects EXCEPT ![x] =
            NewObject("EVENT", NextGeneration(objects[x].generation), e)]
    BY <1>5 DEF CreateEvent
  <2>. QED BY <1>3, <2>1
<1>6. CASE \E type \in Singletons : CreateSingleton(type)
  BY <1>3, <1>6 DEF CreateSingleton
<1>7. CASE \E allocated \in BOOLEAN : CreateSuspendedThread(allocated)
  <2>1. PICK allocated \in BOOLEAN, t \in Threads, x \in Objects :
          objects' = [objects EXCEPT ![x] =
             IF allocated THEN NewObject("THREAD", NextGeneration(objects[x].generation), t)
                          ELSE FreeObject(NextGeneration(objects[x].generation))]
    BY <1>7 DEF CreateSuspendedThread
  <2>2. CASE allocated
    BY <1>3, <2>1, <2>2
  <2>3. CASE ~allocated
    BY <1>3, <2>1, <2>3
  <2>. QED BY <2>2, <2>3
<1>8. CASE \E h \in Handles : CloseHandle(h)
  <2>0. PICK h \in Handles : CloseHandle(h)
    BY <1>8
  <2> DEFINE os == [objects EXCEPT ![h.slot] =
                      [@ EXCEPT !.pub = objects[h.slot].pub - 1, !.closed = TRUE]]
  <2>1. os[o].type = objects[o].type /\ os[o].generation = objects[o].generation
    BY <1>0 DEF ObjectRecord
  <2>2. objects' = os \/ \E ts, T : objects' = Released(os, ts, T)
    BY <2>0 DEF CloseHandle
  <2> HIDE DEF os
  <2>. QED BY <1>2, <2>1, <2>2
<1>9. CASE \E h \in Handles : TryDestroyEvent(h)
  <2>1. PICK h \in Handles :
          objects' = [objects EXCEPT ![h.slot] = FreeObject(objects[h.slot].generation)]
    BY <1>9 DEF TryDestroyEvent
  <2>2. \/ objects'[o] = objects[o]
        \/ objects'[o] = FreeObject(objects[o].generation)
    BY <1>0, <2>1
  <2>. QED BY <2>2 DEF FreeObject
<1>10. CASE \E T \in SUBSET Threads : Collect(T)
  BY <1>2, <1>10 DEF Collect
<1>11. CASE \E t \in Threads : DiscardCreatedThread(t)
  BY <1>2, <1>11 DEF DiscardCreatedThread
<1>12. ASSUME NEW e, NEW armed, NEW deadline, BlockOn(e, armed, deadline) PROVE P
  BY <1>1, <1>4, <1>12 DEF BlockOn
<1>13. CASE (\E h \in Handles : WaitInfinite(h)) \/ ServiceDone
  BY <1>1, <1>12, <1>13 DEF WaitInfinite, ServiceDone
<1>14. CASE FinishWait
  BY <1>4, <1>14 DEF FinishWait
<1>15. CASE Teardown
  <2>1. \/ objects'[o] = FreeObject(objects[o].generation)
        \/ objects'[o] = objects[o]
    BY <1>15 DEF Teardown, Released
  <2>. QED BY <2>1 DEF FreeObject
<1>16. CASE Initialize
  BY <1>16 DEF Initialize
<1>17. CASE \/ UNCHANGED vars
            \/ \E h \in Handles :
                 \/ ResumeThread(h) \/ SignalEvent(h) \/ SetEvent(h) \/ ResetEvent(h)
                 \/ WaitSignaled(h) \/ \E ms \in Timeouts : WaitFinite(h, ms)
            \/ WakeNext \/ PollTimeouts \/ ServiceNext \/ Yield \/ Terminate \/ Tick
  <2>1. UNCHANGED objects
    BY <1>17 DEF vars, ResumeThread, SignalEvent, SetEvent, ResetEvent, WaitSignaled,
                 WaitFinite, WakeNext, PollTimeouts, ServiceNext, Yield, Terminate, Tick
  <2>. QED BY <1>1, <2>1
<1>. QED
  BY <1>5, <1>6, <1>7, <1>8, <1>9, <1>10, <1>11, <1>13, <1>14, <1>15, <1>16, <1>17
     DEF Next, HandleCall

-----------------------------------------------------------------------------
(* The theorems.                                                           *)

\* A handle that lookup_object accepts leads to a live thread or event that
\* names the same object slot and generation, however creations, closes,
\* destructions and reclaims interleave, and every live thread and event has
\* its object.
THEOREM HandlesLeadToTheirTargets == Spec => []HandlesNameTheirTargets
<1>1. ObjectInv => HandlesNameTheirTargets
  BY DEF ObjectInv
<1>. QED BY <1>1, ObjectInvHolds, PTL

\* The reference count of an event object is one more than the number of wait
\* records that pin it: try_destroy_event never frees an event under a waiter,
\* and finish_wait leaks no reference.  And the event a finite wait is about to
\* block on is still open and unsignaled after the wait has serviced the timeouts
\* of the others.
THEOREM EventsStayForTheirWaits == Spec => []EventsOutliveWaits
<1>1. ObjectInv => EventsOutliveWaits
  BY DEF ObjectInv, EventsOutliveWaits
<1>. QED BY <1>1, ObjectInvHolds, PTL

\* maybe_reclaim_thread zeroes a control block only when no queue, wait record,
\* waiter list or open handle leads to it, and never the running thread's.
THEOREM ReclaimedThreadsAreUnreferenced == Spec => ReclaimIsSafe
<1> DEFINE P(t) ==
      mode' = "up" /\ threads[t].state # "FREE" /\ threads'[t].state = "FREE" =>
        /\ t # current /\ t # current'
        /\ threads[t].wait = None
        /\ \A i \in 1 .. Len(runq') : runq'[i] # t
        /\ \A h \in Handles : h.type = "THREAD" /\ Resolves(h)' => Target(h)' # t
<1>1. ASSUME WaitInv, QueueInv, QueueInv', ObjectInv', [Next]_vars
      PROVE  \A t \in Threads : P(t)
  <2> SUFFICES ASSUME NEW t \in Threads, mode' = "up", threads[t].state # "FREE",
                      threads'[t].state = "FREE"
               PROVE  /\ t # current /\ t # current'
                      /\ threads[t].wait = None
                      /\ \A i \in 1 .. Len(runq') : runq'[i] # t
                      /\ \A h \in Handles : h.type = "THREAD" /\ Resolves(h)' =>
                           Target(h)' # t
    OBVIOUS
  <2>1. UNCHANGED <<current, records>>
    BY <1>1, FreeingStep
  <2>2. t # current' /\ \A i \in 1 .. Len(runq') : runq'[i] # t
    BY <1>1 DEF QueueInv, RunQueueMatchesStates
  <2>3. threads'[t].wait = None
    BY <1>1 DEF QueueInv, WaitersHaveRun
  <2>4. threads[t].wait = None
    <3> SUFFICES ASSUME threads[t].wait # None PROVE FALSE
      OBVIOUS
    <3>1. /\ threads[t].wait \in Records
          /\ records[threads[t].wait].active /\ records[threads[t].wait].thread = t
      BY <1>1 DEF WaitInv, TypeOK, ThreadRecord, QueueInv, RecordsMatchThreads
    <3>2. threads'[t].wait = threads[t].wait
      BY <1>1, <2>1, <3>1 DEF QueueInv, RecordsMatchThreads
    <3>. QED BY <2>3, <3>2
  <2>5. ASSUME NEW h \in Handles, h.type = "THREAD", Resolves(h)'
        PROVE  Target(h)' # t
    <3>1. h.slot \in Objects /\ objects'[h.slot].type = "THREAD"
      BY <2>5 DEF Handles, Resolves
    <3>2. threads'[objects'[h.slot].target].state # "FREE"
      BY <1>1, <3>1 DEF ObjectInv, HandlesNameTheirTargets
    <3>. QED BY <3>2 DEF Target
  <2>. QED BY <2>1, <2>2, <2>4, <2>5
<1>2. WaitInv /\ QueueInv /\ QueueInv' /\ ObjectInv' /\ [Next]_vars
        => [\A t \in Threads : P(t)]_vars
  BY <1>1
<1>3. Spec => [][\A t \in Threads : P(t)]_vars
  BY <1>2, ObjectInvHolds, PTL DEF Spec
<1>. QED BY <1>3 DEF ReclaimIsSafe

\* Until the 16-bit generation of an object slot wraps around, or the
\* scheduler is initialised anew, a handle that has gone stale is never
\* accepted again.
THEOREM StaleHandlesAreNotRevived == Spec => StaleHandlesStayStale
<1> DEFINE Q(o) ==
      /\ objects'[o].generation >= objects[o].generation
      /\ \A h \in Handles :
           /\ h.slot = o
           /\ h.generation <= objects[o].generation
           /\ ~Resolves(h)
           => ~Resolves(h)'
    P == mode = "up" =>
           \A o \in Objects : objects[o].generation # GenerationModulus - 1 => Q(o)
<1>1. ASSUME WaitInv, WaitInv', [Next]_vars PROVE P
  <2> SUFFICES ASSUME mode = "up", NEW o \in Objects,
                      objects[o].generation # GenerationModulus - 1
               PROVE  Q(o)
    OBVIOUS
  <2> DEFINE g == objects[o].generation
             g2 == objects'[o].generation
  <2>1. g \in Nat /\ g < GenerationModulus - 1 /\ GenerationModulus \in Nat /\ g2 \in Nat
    <3>1. /\ GenerationModulus \in Nat /\ g \in 0 .. (GenerationModulus - 1)
          /\ g2 \in 0 .. (GenerationModulus - 1)
      BY <1>1, BoundsAssumption DEF WaitInv, TypeOK, ObjectRecord, Generations
    <3>. QED BY <3>1
  <2>2. NextGeneration(g) = g + 1
    <3>1. (g + 1) % GenerationModulus = g + 1
      BY <2>1
    <3>. QED BY <2>1, <3>1 DEF NextGeneration
  <2>3. \/ objects'[o].type = objects[o].type /\ g2 = g
        \/ objects'[o].type = "FREE" /\ g2 = g
        \/ g2 = g + 1
    BY <1>1, <2>2, ObjectSlotStep
  <2>4. g2 >= g
    BY <2>1, <2>3
  <2>5. ASSUME NEW h \in Handles, h.slot = o, h.generation <= g, ~Resolves(h)
        PROVE  ~Resolves(h)'
    <3>1. h.generation \in Nat /\ h.type # "FREE"
      BY ConstantFacts DEF Handles
    <3>2. CASE g2 = g + 1
      BY <2>1, <2>5, <3>1, <3>2 DEF Resolves
    <3>3. CASE objects'[o].type = objects[o].type /\ g2 = g
      BY <2>5, <3>3 DEF Resolves
    <3>4. CASE objects'[o].type = "FREE"
      BY <2>5, <3>1, <3>4 DEF Resolves
    <3>. QED BY <2>3, <3>2, <3>3, <3>4
  <2>. QED BY <2>4, <2>5
<1>2. WaitInv /\ WaitInv' /\ [Next]_vars => [P]_vars
  BY <1>1
<1>3. Spec => [][P]_vars
  BY <1>2, WaitInvHolds, PTL DEF Spec
<1>. QED BY <1>3 DEF StaleHandlesStayStale

-----------------------------------------------------------------------------
(* The refinement of EventWaits.                                           *)

\* A wait that has no result yet still stands in a waiter list.
UnfinishedWaitsAreLinked ==
  \A r \in Records :
    records[r].active /\ records[r].completion = "FAILED" => records[r].linked

\* gxos_scheduler_teardown leaves no event.
TornDownHasNoEvents == mode = "down" => \A e \in Events : ~events[e].live

\* What the refinement needs beyond the other invariants.
ContractInv == UnfinishedWaitsAreLinked /\ TornDownHasNoEvents

-----------------------------------------------------------------------------
(* What the steps do to the waits, slot by slot.                           *)

LEMMA WakeFacts ==
  ASSUME WaitInv, NEW e \in Events, NEW i \in 1 .. Len(events[e].waiters),
         NEW c \in Completions, NEW res, CompleteWaiter(e, i, c, res)
  PROVE  LET r == events[e].waiters[i] IN
           /\ r \in Records /\ records[r].active /\ records[r].linked
           /\ records[r].event = e /\ records[r].completion = "FAILED"
           /\ records[r].thread \in Threads
           /\ records'[r].completion = c
           /\ \A k \in Records : /\ records'[k].active = records[k].active
                                 /\ records'[k].event = records[k].event
                                 /\ k # r => /\ records'[k].completion = records[k].completion
                                             /\ records'[k].linked = records[k].linked
           /\ \A t \in Threads : threads'[t].wait = threads[t].wait
<1> DEFINE w == events[e].waiters
           r == w[i]
           last == w[Len(w)]
<1>1. w \in Seq(Records) /\ r \in Records /\ TypeOK
  BY DEF WaitInv, TypeOK, EventRecord
<1>2. records[r].linked /\ records[r].event = e
  BY DEF WaitInv, ListedRecordsAreLinked
<1>3. /\ records[r].completion = "FAILED" /\ records[r].active
      /\ records[r].thread \in Threads
  BY <1>1, <1>2 DEF WaitInv, LinkedRecordsAreListed
<1>4. /\ records'[r] = [records[r] EXCEPT !.linked = FALSE, !.index = 0,
                                         !.completion = c]
      /\ \A k \in Records \ {r} :
           records'[k] = IF k = last THEN [records[k] EXCEPT !.index = i]
                                     ELSE records[k]
  BY <1>1 DEF CompleteWaiter
<1>5. \A t \in Threads : threads'[t].wait = threads[t].wait
  BY <1>1, <1>3 DEF CompleteWaiter, TypeOK, ThreadRecord
<1>6. \A k \in Records : records[k] \in WaitRecord
  BY <1>1 DEF TypeOK
<1> HIDE DEF r, last
<1>7. /\ records'[r].completion = c /\ records'[r].active = records[r].active
      /\ records'[r].event = records[r].event
  BY <1>1, <1>4, <1>6 DEF WaitRecord
<1>8. ASSUME NEW k \in Records \ {r}
      PROVE  /\ records'[k].active = records[k].active
             /\ records'[k].event = records[k].event
             /\ records'[k].completion = records[k].completion
             /\ records'[k].linked = records[k].linked
  <2>1. records[k] \in WaitRecord
    BY <1>6
  <2>2. CASE k = last
    <3>1. records'[k] = [records[k] EXCEPT !.index = i]
      BY <1>4, <2>2
    <3>. QED BY <2>1, <3>1 DEF WaitRecord
  <2>3. CASE k # last
    BY <1>4, <2>3
  <2>. QED BY <2>2, <2>3
<1>. QED
  BY <1>1, <1>2, <1>3, <1>5, <1>7, <1>8 DEF r

\* Blocking takes a free record for the caller, or halts and changes nothing.
LEMMA BlockFacts ==
  ASSUME WaitInv, NEW e \in Events, NEW armed, NEW deadline,
         BlockOn(e, armed, deadline)
  PROVE  \/ UNCHANGED <<threads, events, records>> /\ mode' = "halted"
         \/ /\ UNCHANGED mode
            /\ \E r \in Records :
                 /\ ~records[r].active
                 /\ records'[r].active /\ records'[r].linked
                 /\ records'[r].event = e /\ records'[r].completion = "FAILED"
                 /\ \A k \in Records \ {r} : records'[k] = records[k]
                 /\ threads'[current].wait = r
                 /\ \A t \in Threads \ {current} : threads'[t].wait = threads[t].wait
            /\ \A f \in Events : /\ events'[f].live = events[f].live
                                 /\ events'[f].manual = events[f].manual
                                 /\ events'[f].signaled = events[f].signaled
<1>0. TypeOK
  BY DEF WaitInv
<1>1. CASE UNCHANGED <<threads, events, records>> /\ mode' = "halted"
  BY <1>1
<1> DEFINE w == events[e].waiters
           blocked(r) == [threads EXCEPT ![current] =
              [@ EXCEPT !.state = "BLOCKED", !.wait = r, !.result = "NONE"]]
           rec == [active |-> TRUE, linked |-> TRUE, armed |-> armed,
                   deadline |-> deadline, thread |-> current, event |-> e,
                   slot |-> events[e].slot,
                   generation |-> objects[events[e].slot].generation,
                   index |-> Len(w) + 1, completion |-> "FAILED"]
<1>2. CASE /\ UNCHANGED mode
           /\ \E r \in Records, t \in Threads :
                /\ IsLowest(FreeRecords, r)
                /\ records' = [records EXCEPT ![r] = rec]
                /\ threads' = Dispatched(blocked(r), t)
                /\ events' = [events EXCEPT ![e].waiters = Append(w, r)]
  <2>1. PICK r \in Records, t \in Threads :
                /\ IsLowest(FreeRecords, r)
                /\ records' = [records EXCEPT ![r] = rec]
                /\ threads' = Dispatched(blocked(r), t)
                /\ events' = [events EXCEPT ![e].waiters = Append(w, r)]
    BY <1>2
  <2>2. ~records[r].active
    BY <2>1 DEF IsLowest, FreeRecords
  <2>3. /\ records'[r].active /\ records'[r].linked
        /\ records'[r].event = e /\ records'[r].completion = "FAILED"
        /\ \A k \in Records \ {r} : records'[k] = records[k]
    BY <2>1, <1>0 DEF TypeOK
  <2>4. \A f \in Events : /\ events'[f].live = events[f].live
                          /\ events'[f].manual = events[f].manual
                          /\ events'[f].signaled = events[f].signaled
    BY <2>1, <1>0 DEF TypeOK, EventRecord
  <2>5. /\ threads'[current].wait = r
        /\ \A u \in Threads \ {current} : threads'[u].wait = threads[u].wait
    <3> DEFINE ts == blocked(r)
    <3>1. /\ "BLOCKED" \in ThreadStates /\ "NONE" \in WaitResults
          /\ threads \in [Threads -> ThreadRecord] /\ r \in Records \cup {None}
          /\ current \in Threads
      BY <1>0 DEF ThreadStates, WaitResults, TypeOK
    <3>2. ts \in [Threads -> ThreadRecord]
      BY <3>1, ThreadRecordFields
    <3>3. /\ ts[current].wait = r
          /\ \A u \in Threads \ {current} : ts[u].wait = threads[u].wait
      BY <3>1 DEF ThreadRecord
    <3>4. threads' = Dispatched(ts, t)
      BY <2>1
    <3> HIDE DEF ts
    <3>5. \A u \in Threads : threads'[u].wait = ts[u].wait
      BY <3>2, <3>4 DEF Dispatched, ThreadRecord
    <3>. QED BY <3>1, <3>3, <3>5
  <2>. QED BY <1>2, <2>2, <2>3, <2>4, <2>5
<1>. QED BY <1>1, <1>2 DEF BlockOn

LEMMA FinishFacts ==
  ASSUME WaitInv, FinishWait
  PROVE  LET r == threads[current].wait IN
           /\ r \in Records /\ records[r].active /\ r # None
           /\ records[r].completion \in {"OBJECT_0", "TIMEOUT"}
           /\ ~records'[r].active
           /\ \A k \in Records \ {r} : records'[k] = records[k]
           /\ threads'[current].wait = None
           /\ \A t \in Threads \ {current} : threads'[t].wait = threads[t].wait
<1> DEFINE r == threads[current].wait
<1>1. /\ r \in Records /\ r # None /\ TypeOK /\ current \in Threads
      /\ records[r].active /\ records[r].completion \in {"OBJECT_0", "TIMEOUT"}
  BY DEF FinishWait, WaitIsComplete, WaitInv, TypeOK, ThreadRecord
<1>2. /\ \A k \in Records \ {r} : records'[k] = records[k]
      /\ ~records'[r].active
  BY <1>1 DEF FinishWait, TypeOK, EmptyRecord
<1>3. /\ threads'[current].wait = None
      /\ \A t \in Threads \ {current} : threads'[t].wait = threads[t].wait
  BY <1>1 DEF FinishWait, TypeOK, ThreadRecord
<1>. QED BY <1>1, <1>2, <1>3

-----------------------------------------------------------------------------
(* Every step preserves ContractInv.                                       *)

LEMMA UnfinishedStep ==
  ASSUME WaitInv, QueueInv, UnfinishedWaitsAreLinked, [Next]_vars
  PROVE  UnfinishedWaitsAreLinked'
<1> DEFINE U == UnfinishedWaitsAreLinked
<1>1. UNCHANGED records => U'
  BY DEF UnfinishedWaitsAreLinked
<1>2. ASSUME NEW e \in Events, NEW i \in 1 .. Len(events[e].waiters),
             NEW c \in Completions, c # "FAILED", NEW res, CompleteWaiter(e, i, c, res)
      PROVE  U'
  BY <1>2, WakeFacts DEF UnfinishedWaitsAreLinked
<1>3. ASSUME NEW e \in Events, NEW armed, NEW deadline, BlockOn(e, armed, deadline)
      PROVE  U'
  BY <1>3, BlockFacts DEF UnfinishedWaitsAreLinked
<1>4. CASE \E h \in Handles : SignalEvent(h) \/ SetEvent(h)
  <2>1. PICK h \in Handles : SignalEvent(h)
    BY <1>4 DEF SetEvent
  <2>2. Target(h) \in Events
    BY <2>1 DEF SignalEvent, LiveEvent, Resolves, Target, WaitInv, TargetsAreInRange,
                Handles
  <2>3. events[Target(h)].waiters # <<>> => 1 \in 1 .. Len(events[Target(h)].waiters)
    BY <2>2 DEF WaitInv, TypeOK, EventRecord
  <2>4. "OBJECT_0" \in Completions
    BY DEF Completions
  <2>. QED BY <1>1, <1>2, <2>1, <2>2, <2>3, <2>4 DEF SignalEvent
<1>5. CASE WakeNext
  <2>1. loop.event \in Events
    BY <1>5 DEF WakeNext, WaitInv, LoopTargetIsLive
  <2>2. events[loop.event].waiters # <<>> => 1 \in 1 .. Len(events[loop.event].waiters)
    BY <2>1 DEF WaitInv, TypeOK, EventRecord
  <2>3. "OBJECT_0" \in Completions
    BY DEF Completions
  <2>. QED BY <1>1, <1>2, <1>5, <2>1, <2>2, <2>3 DEF WakeNext
<1>6. CASE ServiceNext
  <2> DEFINE r == records[loop.index]
  <2>1. loop.index \in Records
    <3>1. loop.index \in Nat /\ MaxThreads \in Nat /\ loop.index < MaxThreads
      BY <1>6, BoundsAssumption DEF ServiceNext, WaitInv, TypeOK, LoopRecord
    <3>. QED BY <3>1 DEF Records
  <2>2. r.linked => r.event \in Events /\ r.index \in 1 .. Len(events[r.event].waiters)
    BY <2>1 DEF WaitInv, LinkedRecordsAreListed
  <2>3. "TIMEOUT" \in Completions
    BY DEF Completions
  <2>4. CASE r.linked /\ CompleteWaiter(r.event, r.index, "TIMEOUT", "TIMED_OUT")
    BY <1>2, <2>2, <2>3, <2>4
  <2>. QED BY <1>1, <1>6, <2>4 DEF ServiceNext, Expired
<1>7. CASE \E h \in Handles : WaitInfinite(h)
  <2>1. PICK h \in Handles : WaitInfinite(h)
    BY <1>7
  <2>2. Target(h) \in Events /\ BlockOn(Target(h), FALSE, 0)
    BY <2>1 DEF WaitInfinite, OpenEvent, Resolves, Target, WaitInv, TargetsAreInRange,
                Handles
  <2>. QED BY <2>2, <1>3
<1>8. CASE ServiceDone
  <2>1. \/ UNCHANGED records
        \/ loop.op = "pollwait" /\ BlockOn(loop.event, TRUE, loop.deadline)
    BY <1>8 DEF ServiceDone
  <2>. QED BY <2>1, <1>1, <1>3 DEF WaitInv, LoopTargetIsLive
<1>9. CASE FinishWait
  BY <1>9, FinishFacts DEF UnfinishedWaitsAreLinked
<1>10. CASE Initialize
  BY <1>10 DEF Initialize, NoRecords, EmptyRecord, UnfinishedWaitsAreLinked
<1>11. CASE \/ UNCHANGED vars
            \/ \E manual, signaled \in BOOLEAN : CreateEvent(manual, signaled)
            \/ \E type \in Singletons : CreateSingleton(type)
            \/ \E allocated \in BOOLEAN : CreateSuspendedThread(allocated)
            \/ \E h \in Handles : \/ ResumeThread(h) \/ CloseHandle(h)
                                  \/ TryDestroyEvent(h) \/ ResetEvent(h)
                                  \/ WaitSignaled(h)
                                  \/ \E ms \in Timeouts : WaitFinite(h, ms)
            \/ \E T \in SUBSET Threads : Collect(T)
            \/ \E t \in Threads : DiscardCreatedThread(t)
            \/ PollTimeouts \/ Yield \/ Terminate \/ Tick \/ Teardown
  <2>1. UNCHANGED records
    BY <1>11 DEF vars, CreateEvent, CreateSingleton, CreateSuspendedThread, ResumeThread,
         CloseHandle, TryDestroyEvent, ResetEvent, WaitSignaled, WaitFinite, Collect,
         DiscardCreatedThread, PollTimeouts, Yield, Terminate, Tick, Teardown
  <2>. QED BY <2>1, <1>1
<1>. QED
  BY <1>4, <1>5, <1>6, <1>7, <1>8, <1>9, <1>10, <1>11 DEF Next, HandleCall

LEMMA TornDownStep ==
  ASSUME QueueInv, TornDownHasNoEvents, [Next]_vars PROVE TornDownHasNoEvents'
<1>1. CASE Teardown
  BY <1>1 DEF Teardown, TornDownHasNoEvents
<1>2. CASE Initialize
  BY <1>2 DEF Initialize, TornDownHasNoEvents
<1>3. CASE UNCHANGED vars
  BY <1>3 DEF vars, TornDownHasNoEvents
<1>4. ASSUME mode = "up", mode' \in {mode, "halted"} PROVE TornDownHasNoEvents'
  BY <1>4 DEF TornDownHasNoEvents
<1>5. CASE \/ \E manual, signaled \in BOOLEAN : CreateEvent(manual, signaled)
           \/ \E type \in Singletons : CreateSingleton(type)
           \/ \E allocated \in BOOLEAN : CreateSuspendedThread(allocated)
           \/ \E h \in Handles : \/ ResumeThread(h) \/ CloseHandle(h)
                                 \/ TryDestroyEvent(h) \/ ResetEvent(h)
                                 \/ WaitSignaled(h) \/ SignalEvent(h) \/ SetEvent(h)
                                 \/ \E ms \in Timeouts : WaitFinite(h, ms)
           \/ \E T \in SUBSET Threads : Collect(T)
           \/ \E t \in Threads : DiscardCreatedThread(t)
           \/ PollTimeouts \/ Yield \/ Terminate \/ Tick \/ FinishWait
  <2>1. mode = "up" /\ mode' \in {mode, "halted"}
    BY <1>5 DEF CreateEvent, CreateSingleton, CreateSuspendedThread, ResumeThread,
         CloseHandle, TryDestroyEvent, ResetEvent, WaitSignaled, WaitFinite, Collect,
         DiscardCreatedThread, PollTimeouts, Yield, Terminate, Tick, FinishWait,
         SignalEvent, SetEvent, Running
  <2>. QED BY <1>4, <2>1
<1>6. CASE \/ WakeNext \/ ServiceNext \/ ServiceDone
           \/ \E h \in Handles : WaitInfinite(h)
  <2>1. loop # Idle \/ Running
    <3>1. loop = Idle => loop.op = "idle"
      BY DEF Idle
    <3>. QED BY <1>6, <3>1 DEF WakeNext, ServiceNext, ServiceDone, WaitInfinite
  <2>2. mode = "up"
    BY <2>1 DEF QueueInv, LoopsRunForTheCaller, Running
  <2>3. mode' \in {mode, "halted"}
    BY <1>6 DEF WakeNext, ServiceNext, ServiceDone, WaitInfinite, BlockOn
  <2>. QED BY <1>4, <2>2, <2>3
<1>. QED BY <1>1, <1>2, <1>3, <1>5, <1>6 DEF Next, HandleCall

LEMMA ContractInvHolds == Spec => []ContractInv
<1>1. Init => ContractInv
  BY DEF Init, ContractInv, UnfinishedWaitsAreLinked, TornDownHasNoEvents, NoRecords,
         EmptyRecord
<1>2. WaitInv /\ QueueInv /\ ContractInv /\ [Next]_vars => ContractInv'
  BY UnfinishedStep, TornDownStep DEF ContractInv
<1>. QED
  BY <1>1, <1>2, ObjectInvHolds, PTL DEF Spec

-----------------------------------------------------------------------------
(* Steps of the contract, slot by slot.                                    *)

SignalOf(e) == events[e].live /\ events[e].signaled

\* The step allows itself, seen through the mapping.
Allowed == [Contract!AbstractNext]_(Contract!vars)

\* Nothing the contract speaks of changes for the events but e, and for the
\* threads but t.
OnlyEvent(e) ==
  \A f \in Events : f # e => KindOf(f)' = KindOf(f) /\ SignalOf(f)' = SignalOf(f)
OnlyThread(t) == \A u \in Threads : u # t => StatusOf(u)' = StatusOf(u)

LEMMA StutterIsAllowed ==
  ASSUME \A e \in Events : KindOf(e)' = KindOf(e) /\ SignalOf(e)' = SignalOf(e),
         \A t \in Threads : StatusOf(t)' = StatusOf(t)
  PROVE  Allowed
<1>1. Contract!vars' = Contract!vars
  BY DEF Contract!vars, SignalOf
<1>. QED BY <1>1 DEF Allowed

LEMMA CreateIsAllowed ==
  ASSUME NEW e \in Events, NEW k \in {"auto", "manual"}, NEW s \in BOOLEAN,
         KindOf(e) = "none", KindOf(e)' = k, SignalOf(e)' = s,
         OnlyEvent(e), \A t \in Threads : StatusOf(t)' = StatusOf(t)
  PROVE  Allowed
<1>1. Contract!Create(e, k, s)
  BY DEF Contract!Create, OnlyEvent, SignalOf
<1>. QED BY <1>1 DEF Allowed, Contract!AbstractNext

LEMMA DestroyIsAllowed ==
  ASSUME NEW e \in Events, KindOf(e) # "none", KindOf(e)' = "none", SignalOf(e)' = FALSE,
         \A t \in Threads : StatusOf(t).on # e,
         OnlyEvent(e), \A t \in Threads : StatusOf(t)' = StatusOf(t)
  PROVE  Allowed
<1>1. Contract!Destroy(e)
  BY DEF Contract!Destroy, Contract!Outstanding, OnlyEvent, SignalOf
<1>. QED BY <1>1 DEF Allowed, Contract!AbstractNext

LEMMA SetManualIsAllowed ==
  ASSUME NEW e \in Events, KindOf(e) = "manual", KindOf(e)' = "manual",
         SignalOf(e)' = TRUE, OnlyEvent(e),
         \A t \in Threads :
           StatusOf(t)' = IF StatusOf(t) = [is |-> "waiting", on |-> e]
                            THEN [is |-> "signaled", on |-> e] ELSE StatusOf(t)
  PROVE  Allowed
<1>1. Contract!SetManual(e)
  BY DEF Contract!SetManual, Contract!WaitingOn, Contract!On, OnlyEvent, SignalOf
<1>. QED BY <1>1 DEF Allowed, Contract!AbstractNext

LEMMA KeptSignalIsAllowed ==
  ASSUME NEW e \in Events, KindOf(e) = "auto", KindOf(e)' = "auto",
         SignalOf(e)' = TRUE, OnlyEvent(e),
         \A t \in Threads : StatusOf(t) # [is |-> "waiting", on |-> e],
         \A t \in Threads : StatusOf(t)' = StatusOf(t)
  PROVE  Allowed
<1>1. Contract!SetAuto(e)
  BY DEF Contract!SetAuto, Contract!WaitingOn, Contract!On, OnlyEvent, SignalOf
<1>. QED BY <1>1 DEF Allowed, Contract!AbstractNext

LEMMA HandedSignalIsAllowed ==
  ASSUME NEW e \in Events, KindOf(e) = "auto", NEW t \in Threads,
         \A f \in Events : KindOf(f)' = KindOf(f) /\ SignalOf(f)' = SignalOf(f),
         StatusOf(t) = [is |-> "waiting", on |-> e],
         StatusOf(t)' = [is |-> "signaled", on |-> e], OnlyThread(t)
  PROVE  Allowed
<1>1. Contract!SetAuto(e)
  BY DEF Contract!SetAuto, Contract!WaitingOn, Contract!On, OnlyThread, SignalOf
<1>. QED BY <1>1 DEF Allowed, Contract!AbstractNext

LEMMA ResetIsAllowed ==
  ASSUME NEW e \in Events, KindOf(e) # "none", KindOf(e)' = KindOf(e),
         SignalOf(e)' = FALSE, OnlyEvent(e), \A t \in Threads : StatusOf(t)' = StatusOf(t)
  PROVE  Allowed
<1>1. Contract!Reset(e)
  BY DEF Contract!Reset, OnlyEvent, SignalOf
<1>. QED BY <1>1 DEF Allowed, Contract!AbstractNext

LEMMA BeginWaitIsAllowed ==
  ASSUME NEW e \in Events, NEW t \in Threads, KindOf(e) # "none", ~SignalOf(e),
         \A f \in Events : KindOf(f)' = KindOf(f) /\ SignalOf(f)' = SignalOf(f),
         StatusOf(t) = [is |-> "idle", on |-> None],
         StatusOf(t)' = [is |-> "waiting", on |-> e], OnlyThread(t)
  PROVE  Allowed
<1>1. Contract!BeginWait(t, e)
  BY DEF Contract!BeginWait, Contract!IdleStatus, Contract!On, OnlyThread, SignalOf
<1>. QED BY <1>1 DEF Allowed, Contract!AbstractNext

LEMMA TimeOutIsAllowed ==
  ASSUME NEW e, NEW t \in Threads,
         \A f \in Events : KindOf(f)' = KindOf(f) /\ SignalOf(f)' = SignalOf(f),
         StatusOf(t) = [is |-> "waiting", on |-> e],
         StatusOf(t)' = [is |-> "timedout", on |-> e], OnlyThread(t)
  PROVE  Allowed
<1> DEFINE f == [u \in Threads |-> StatusOf(u)]
<1>1. [f[t] EXCEPT !.is = "timedout"] = [is |-> "timedout", on |-> e]
  OBVIOUS
<1>2. [f EXCEPT ![t].is = "timedout"] =
        [u \in Threads |-> IF u = t THEN [is |-> "timedout", on |-> e] ELSE StatusOf(u)]
  BY <1>1
<1>3. f' = [f EXCEPT ![t].is = "timedout"]
  BY <1>2 DEF OnlyThread
<1>4. f[t].is = "waiting"
  OBVIOUS
<1>5. Contract!TimeOut(t)
  BY <1>3, <1>4 DEF Contract!TimeOut, SignalOf
<1>. QED BY <1>5 DEF Allowed, Contract!AbstractNext

LEMMA EndWaitIsAllowed ==
  ASSUME NEW t \in Threads,
         \A f \in Events : KindOf(f)' = KindOf(f) /\ SignalOf(f)' = SignalOf(f),
         StatusOf(t).is \in {"signaled", "timedout"},
         StatusOf(t)' = [is |-> "idle", on |-> None], OnlyThread(t)
  PROVE  Allowed
<1>1. Contract!EndWait(t)
  BY DEF Contract!EndWait, Contract!IdleStatus, OnlyThread, SignalOf
<1>. QED BY <1>1 DEF Allowed, Contract!AbstractNext

-----------------------------------------------------------------------------
(* What the mapping depends on.                                            *)

LEMMA EventsStand ==
  ASSUME NEW e, events'[e].live = events[e].live, events'[e].manual = events[e].manual,
         events'[e].signaled = events[e].signaled
  PROVE  KindOf(e)' = KindOf(e) /\ SignalOf(e)' = SignalOf(e)
  BY DEF KindOf, SignalOf

\* The wait of a thread stands as before: it has the same record, with the
\* same event and result, and no loop starts or stops waking that event.
LEMMA WaitStands ==
  ASSUME NEW t \in Threads, threads'[t].wait = threads[t].wait,
         threads[t].wait # None =>
           LET r == threads[t].wait IN
             /\ records'[r].completion = records[r].completion
             /\ records'[r].event = records[r].event
             /\ BeingWoken(records[r].event)' <=> BeingWoken(records[r].event)
  PROVE  StatusOf(t)' = StatusOf(t)
<1>1. CASE threads[t].wait = None
  BY <1>1 DEF StatusOf
<1>2. CASE threads[t].wait # None
  BY <1>2 DEF StatusOf, HowItStands, BeingWoken
<1>. QED BY <1>1, <1>2

-----------------------------------------------------------------------------
(* Every step is allowed.                                                  *)

\* The steps that touch no event, no wait and no wake-up loop.
LEMMA QuietStepIsAllowed ==
  ASSUME UNCHANGED <<events, records>>, loop'.op # "wake", loop.op # "wake",
         \A t \in Threads : threads'[t].wait = threads[t].wait
  PROVE  Allowed
<1>1. \A e \in Events : KindOf(e)' = KindOf(e) /\ SignalOf(e)' = SignalOf(e)
  BY EventsStand
<1>2. \A t \in Threads : StatusOf(t)' = StatusOf(t)
  <2> SUFFICES ASSUME NEW t \in Threads PROVE StatusOf(t)' = StatusOf(t)
    OBVIOUS
  <2>1. \A e : ~BeingWoken(e) /\ ~BeingWoken(e)'
    BY DEF BeingWoken
  <2>. QED BY <2>1, WaitStands
<1>. QED BY <1>1, <1>2, StutterIsAllowed

LEMMA SwitchIsAllowed ==
  ASSUME WaitInv, QueueInv,
         \/ \E allocated \in BOOLEAN : CreateSuspendedThread(allocated)
         \/ \E h \in Handles : ResumeThread(h) \/ CloseHandle(h)
         \/ \E T \in SUBSET Threads : Collect(T)
         \/ \E t \in Threads : DiscardCreatedThread(t)
         \/ Yield \/ Terminate
  PROVE  Allowed
<1>0. /\ UNCHANGED <<events, records, loop>> /\ loop = Idle /\ mode = "up"
      /\ mode' \in {"up", "halted"} /\ TypeOK
      /\ threads \in [Threads -> ThreadRecord] /\ current \in Threads
  BY DEF CreateSuspendedThread, ResumeThread, CloseHandle, Collect,
         DiscardCreatedThread, Yield, Terminate, Running, WaitInv, TypeOK
<1>1. loop.op # "wake" /\ loop'.op # "wake"
  BY <1>0 DEF Idle
<1>2. SUFFICES \A t \in Threads : threads'[t].wait = threads[t].wait
  BY <1>0, <1>1, QuietStepIsAllowed
<1>3. \A t \in Threads : threads[t].state \in {"FREE", "TERMINATED"} => threads[t].wait = None
  BY DEF QueueInv, WaitersHaveRun
<1>4. EmptyThread.wait = None
  BY DEF EmptyThread
<1>5. CASE \E allocated \in BOOLEAN : CreateSuspendedThread(allocated)
  <2>1. PICK t \in Threads : /\ threads[t].state = "FREE"
                             /\ \E x : /\ x.wait = None
                                       /\ threads' = [threads EXCEPT ![t] = x]
    BY <1>4, <1>5 DEF CreateSuspendedThread, IsLowest, FreeThreads, NewThread, EmptyThread
  <2>. QED BY <1>0, <1>3, <2>1
<1>6. CASE \E h \in Handles : ResumeThread(h)
  <2>1. PICK u : threads' = [threads EXCEPT ![u] =
                   [@ EXCEPT !.state = "RUNNABLE", !.suspend = 0, !.queued = TRUE]]
    BY <1>6 DEF ResumeThread
  <2>. QED BY <1>0, <2>1 DEF ThreadRecord
\* maybe_reclaim_thread zeroes threads that have ended.
<1>7. ASSUME NEW ts, NEW T \in SUBSET Threads, threads' = Zeroed(ts, T),
             \A t \in Threads : ts[t].wait = threads[t].wait,
             \A t \in T : threads[t].wait = None
      PROVE  \A t \in Threads : threads'[t].wait = threads[t].wait
  BY <1>4, <1>7 DEF Zeroed
<1>8. CASE \E h \in Handles : CloseHandle(h)
  <2>0. PICK h \in Handles : CloseHandle(h)
    BY <1>8
  <2> DEFINE t == Target(h)
             ts == [threads EXCEPT ![t].pub =
                      IF threads[t].pub # 0 THEN threads[t].pub - 1 ELSE 0]
             T == {u \in {t} : Reclaimable(ts, u)}
  <2>1. CASE UNCHANGED threads
    BY <2>1
  <2>2. CASE h.type = "THREAD" /\ threads' = Zeroed(ts, T)
    <3>1. t \in Threads
      BY <2>0, <2>2 DEF CloseHandle, Resolves, Target, WaitInv, TargetsAreInRange, Handles
    <3>2. \A u \in Threads : ts[u].wait = threads[u].wait /\ ts[u].state = threads[u].state
      BY <1>0 DEF ThreadRecord
    <3>3. T \in SUBSET Threads /\ \A u \in T : ts[u].state = "TERMINATED"
      BY <3>1 DEF Reclaimable
    <3> HIDE DEF ts, T
    <3>4. \A u \in T : threads[u].wait = None
      BY <3>2, <3>3, <1>3
    <3>. QED BY <1>7, <2>2, <3>2, <3>3, <3>4
  <2>. QED BY <2>0, <2>1, <2>2 DEF CloseHandle
<1>9. CASE \E T \in SUBSET Threads : Collect(T)
  <2>1. PICK T \in SUBSET Threads : /\ threads' = Zeroed(threads, T)
                                    /\ \A t \in T : threads[t].state = "TERMINATED"
    BY <1>9 DEF Collect, Reclaimable
  <2>2. \A t \in T : threads[t].wait = None
    BY <1>3, <2>1
  <2>. QED BY <1>7, <2>1, <2>2
<1>10. CASE \E t \in Threads : DiscardCreatedThread(t)
  <2>0. PICK t \in Threads : DiscardCreatedThread(t)
    BY <1>10
  <2> DEFINE ts == [threads EXCEPT ![t] =
                 [@ EXCEPT !.state = "TERMINATED", !.exec = 0, !.queued = FALSE]]
             T == {u \in {t} : Reclaimable(ts, u)}
  <2>1. threads' = Zeroed(ts, T) /\ T \in SUBSET Threads /\ T \subseteq {t}
    BY <2>0 DEF DiscardCreatedThread
  <2>2. \A u \in Threads : ts[u].wait = threads[u].wait
    BY <1>0 DEF ThreadRecord
  <2>3. threads[t].wait = None
    BY <2>0 DEF DiscardCreatedThread, QueueInv, WaitersHaveRun
  <2> HIDE DEF ts, T
  <2>. QED BY <1>7, <2>1, <2>2, <2>3
<1>11. CASE Yield \/ Terminate
  <2> DEFINE yielded == [threads EXCEPT ![current] =
                           [@ EXCEPT !.state = "RUNNABLE", !.queued = TRUE]]
             ended == [threads EXCEPT ![current] =
                        [@ EXCEPT !.state = "TERMINATED", !.deferred = TRUE, !.exec = 0]]
  <2>1. PICK ts \in {yielded, ended} :
          \/ threads' = ts
          \/ \E u \in Threads : threads' = Dispatched(ts, u)
    BY <1>11 DEF Yield, Terminate
  <2>2. /\ 0 \in 0 .. 1 /\ {"TERMINATED", "RUNNABLE"} \subseteq ThreadStates
        /\ TRUE \in BOOLEAN
    BY DEF ThreadStates
  <2>3. yielded \in [Threads -> ThreadRecord] /\ ended \in [Threads -> ThreadRecord]
    BY <1>0, <2>2, ThreadRecordFields
  <2>4. \A u \in Threads : /\ yielded[u].wait = threads[u].wait
                           /\ ended[u].wait = threads[u].wait
    BY <1>0 DEF ThreadRecord
  <2> HIDE DEF yielded, ended
  <2>5. ts \in [Threads -> ThreadRecord] /\ \A u \in Threads : ts[u].wait = threads[u].wait
    BY <2>1, <2>3, <2>4
  <2>6. ASSUME NEW u \in Threads, threads' = Dispatched(ts, u)
        PROVE  \A v \in Threads : threads'[v].wait = ts[v].wait
    BY <2>5, <2>6 DEF Dispatched, ThreadRecord
  <2>. QED BY <2>1, <2>5, <2>6
<1>. QED BY <1>5, <1>6, <1>8, <1>9, <1>10, <1>11

\* A thread inside a wait has an active record of its own.
LEMMA WaitersHaveRecords ==
  ASSUME WaitInv, QueueInv, NEW t \in Threads, threads[t].wait # None
  PROVE  /\ threads[t].wait \in Records /\ records[threads[t].wait].active
         /\ records[threads[t].wait].thread = t
         /\ records[threads[t].wait].completion \in Completions
<1>1. threads[t].wait \in Records
  BY DEF WaitInv, TypeOK, ThreadRecord
<1>2. records[threads[t].wait].completion \in Completions
  BY <1>1 DEF WaitInv, TypeOK, WaitRecord
<1>. QED BY <1>1, <1>2 DEF QueueInv, RecordsMatchThreads

\* With an empty waiter list, no wait on the event is without a result.
LEMMA NobodyWaits ==
  ASSUME WaitInv, QueueInv, ContractInv, NEW e \in Events, events[e].waiters = <<>>,
         NEW t \in Threads, threads[t].wait # None, records[threads[t].wait].event = e
  PROVE  records[threads[t].wait].completion \in {"OBJECT_0", "TIMEOUT"}
<1> DEFINE r == threads[t].wait
<1>1. r \in Records /\ records[r].active /\ records[r].completion \in Completions
  BY WaitersHaveRecords
<1>2. ~records[r].linked
  <2> SUFFICES ASSUME records[r].linked PROVE FALSE
    OBVIOUS
  <2>1. records[r].index \in 1 .. Len(events[e].waiters)
    BY <1>1 DEF WaitInv, LinkedRecordsAreListed
  <2>. QED BY <2>1
<1>. QED
  BY <1>1, <1>2 DEF ContractInv, UnfinishedWaitsAreLinked, Completions

\* A waiter that is woken, by a signal or by a timeout.
LEMMA WakeStatus ==
  ASSUME WaitInv, QueueInv, NEW e \in Events, NEW i \in 1 .. Len(events[e].waiters),
         NEW c \in Completions, NEW res, NEW s \in BOOLEAN,
         CompleteWaiter(e, i, c, res), events' = WithoutWaiter(e, i, s),
         s = events[e].signaled, loop'.op = loop.op, loop'.event = loop.event,
         NEW t \in Threads, t = records[events[e].waiters[i]].thread
  PROVE  /\ \A f \in Events : KindOf(f)' = KindOf(f) /\ SignalOf(f)' = SignalOf(f)
         /\ OnlyThread(t)
         /\ StatusOf(t) = [is |-> IF BeingWoken(e) THEN "signaled" ELSE "waiting",
                             on |-> e]
         /\ StatusOf(t)' = [is |-> IF c = "TIMEOUT" THEN "timedout"
                                     ELSE IF c = "OBJECT_0" \/ BeingWoken(e)
                                       THEN "signaled" ELSE "waiting",
                              on |-> e]
<1> DEFINE r == events[e].waiters[i]
<1>1. /\ r \in Records /\ records[r].active /\ t \in Threads
      /\ records[r].event = e /\ records[r].completion = "FAILED"
      /\ records'[r].completion = c
      /\ \A k \in Records : /\ records'[k].event = records[k].event
                            /\ k # r => records'[k].completion = records[k].completion
      /\ \A u \in Threads : threads'[u].wait = threads[u].wait
  BY WakeFacts
<1>2. threads[t].wait = r /\ r # None
  BY <1>1, ConstantFacts DEF QueueInv, RecordsMatchThreads
<1>3. \A x : BeingWoken(x)' <=> BeingWoken(x)
  BY DEF BeingWoken
<1>4. \A f \in Events : KindOf(f)' = KindOf(f) /\ SignalOf(f)' = SignalOf(f)
  <2>1. \A f \in Events : /\ events'[f].live = events[f].live
                          /\ events'[f].manual = events[f].manual
                          /\ events'[f].signaled = events[f].signaled
    BY DEF WithoutWaiter, WaitInv, TypeOK, EventRecord
  <2>. QED BY <2>1, EventsStand
<1>9. records[r].thread = t
  OBVIOUS
<1> HIDE DEF r
<1>5. ASSUME NEW u \in Threads, u # t PROVE StatusOf(u)' = StatusOf(u)
  <2>1. CASE threads[u].wait = None
    BY <1>1, <2>1, WaitStands
  <2>2. CASE threads[u].wait # None
    <3>1. threads[u].wait \in Records /\ threads[u].wait # r
      BY <1>5, <1>9, <2>2, WaitersHaveRecords
    <3>. QED BY <1>1, <1>3, <3>1, WaitStands
  <2>. QED BY <2>1, <2>2
<1>6. StatusOf(t) = [is |-> IF BeingWoken(e) THEN "signaled" ELSE "waiting", on |-> e]
  BY <1>1, <1>2 DEF StatusOf, HowItStands
<1>7. StatusOf(t)' = [is |-> IF c = "TIMEOUT" THEN "timedout"
                             ELSE IF c = "OBJECT_0" \/ BeingWoken(e)
                               THEN "signaled" ELSE "waiting", on |-> e]
  <2>0. PICK k \in Records : k = r
    BY <1>1
  <2>1. /\ threads'[t].wait = k /\ records'[k].event = e /\ records'[k].completion = c
        /\ BeingWoken(e)' <=> BeingWoken(e)
    BY <1>1, <1>2, <1>3, <2>0
  <2>. QED BY <1>2, <2>0, <2>1 DEF StatusOf, HowItStands, BeingWoken
<1>. QED BY <1>1, <1>4, <1>5, <1>6, <1>7 DEF OnlyThread

\* A wait that begins.
LEMMA BlockIsAllowed ==
  ASSUME WaitInv, QueueInv, NEW e \in Events, NEW armed, NEW deadline,
         BlockOn(e, armed, deadline), events[e].live, ~events[e].signaled,
         threads[current].wait = None, loop.op # "wake", loop'.op # "wake"
  PROVE  Allowed
<1>0. current \in Threads
  BY DEF WaitInv, TypeOK
<1>1. \A x : ~BeingWoken(x) /\ ~BeingWoken(x)'
  BY DEF BeingWoken
<1>2. CASE UNCHANGED <<threads, events, records>>
  BY <1>2, QuietStepIsAllowed
<1>3. CASE /\ \E r \in Records :
                /\ ~records[r].active
                /\ records'[r].active /\ records'[r].linked
                /\ records'[r].event = e /\ records'[r].completion = "FAILED"
                /\ \A k \in Records \ {r} : records'[k] = records[k]
                /\ threads'[current].wait = r
                /\ \A t \in Threads \ {current} : threads'[t].wait = threads[t].wait
           /\ \A f \in Events : /\ events'[f].live = events[f].live
                                /\ events'[f].manual = events[f].manual
                                /\ events'[f].signaled = events[f].signaled
  <2>1. PICK r \in Records :
                /\ ~records[r].active
                /\ records'[r].event = e /\ records'[r].completion = "FAILED"
                /\ \A k \in Records \ {r} : records'[k] = records[k]
                /\ threads'[current].wait = r
                /\ \A t \in Threads \ {current} : threads'[t].wait = threads[t].wait
    BY <1>3
  <2>2. r # None
    BY ConstantFacts
  <2>3. \A f \in Events : KindOf(f)' = KindOf(f) /\ SignalOf(f)' = SignalOf(f)
    BY <1>3, EventsStand
  <2>4. ASSUME NEW u \in Threads, u # current PROVE StatusOf(u)' = StatusOf(u)
    <3>1. threads[u].wait # None => threads[u].wait \in Records \ {r}
      BY <2>1, WaitersHaveRecords
    <3>. QED BY <1>1, <2>1, <2>4, <3>1, WaitStands
  <2>5. StatusOf(current) = [is |-> "idle", on |-> None]
    BY DEF StatusOf
  <2>6. ASSUME NEW t \in Threads, t = current
        PROVE  StatusOf(t)' = [is |-> "waiting", on |-> e]
    <3>1. threads'[t].wait = r
      BY <2>1, <2>6
    <3>. QED BY <1>1, <2>1, <2>2, <3>1 DEF StatusOf, HowItStands, BeingWoken
  <2>7. KindOf(e) # "none" /\ ~SignalOf(e)
    BY DEF KindOf, SignalOf
  <2>8. PICK t \in Threads : t = current
    BY <1>0
  <2>. QED
    BY <2>3, <2>4, <2>5, <2>6, <2>7, <2>8, BeginWaitIsAllowed DEF OnlyThread
<1>. QED BY <1>2, <1>3, BlockFacts

LEMMA FinishIsAllowed ==
  ASSUME WaitInv, QueueInv, FinishWait PROVE Allowed
<1> DEFINE r == threads[current].wait
<1>0. /\ current \in Threads /\ UNCHANGED <<events, loop>> /\ loop = Idle
  BY DEF FinishWait, WaitInv, TypeOK
<1>1. \A x : ~BeingWoken(x) /\ ~BeingWoken(x)'
  BY <1>0 DEF BeingWoken, Idle
<1>2. /\ r \in Records /\ r # None
      /\ records[r].completion \in {"OBJECT_0", "TIMEOUT"}
      /\ \A k \in Records \ {r} : records'[k] = records[k]
      /\ threads'[current].wait = None
      /\ \A t \in Threads \ {current} : threads'[t].wait = threads[t].wait
  BY FinishFacts
<1>3. \A f \in Events : KindOf(f)' = KindOf(f) /\ SignalOf(f)' = SignalOf(f)
  BY <1>0, EventsStand
<1>4. records[r].thread = current
  BY <1>0, <1>2, WaitersHaveRecords
<1>5. StatusOf(current).is \in {"signaled", "timedout"}
  BY <1>2 DEF StatusOf, HowItStands
<1> HIDE DEF r
<1>6. ASSUME NEW u \in Threads, u # current PROVE StatusOf(u)' = StatusOf(u)
  <2>1. threads[u].wait # None => threads[u].wait \in Records \ {r}
    BY <1>4, <1>6, WaitersHaveRecords
  <2>. QED BY <1>1, <1>2, <1>6, <2>1, WaitStands
<1>7. PICK t \in Threads : t = current
  BY <1>0
<1>8. StatusOf(t)' = [is |-> "idle", on |-> None]
  <2>1. threads'[t].wait = None
    BY <1>2, <1>7
  <2>. QED BY <2>1 DEF StatusOf
<1>. QED
  BY <1>3, <1>5, <1>6, <1>7, <1>8, EndWaitIsAllowed DEF OnlyThread

LEMMA CreateEventIsAllowed ==
  ASSUME WaitInv, QueueInv, NEW manual \in BOOLEAN, NEW signaled \in BOOLEAN,
         CreateEvent(manual, signaled)
  PROVE  Allowed
<1>0. /\ UNCHANGED <<threads, records, loop>> /\ loop = Idle
      /\ events \in [Events -> EventRecord]
  BY DEF CreateEvent, Running, WaitInv, TypeOK
<1>1. PICK e \in Events : \E g, o :
        /\ ~events[e].live
        /\ events' = [events EXCEPT ![e] =
             [EmptyEvent EXCEPT !.live = TRUE, !.manual = manual,
                !.signaled = signaled, !.generation = g, !.slot = o]]
  BY DEF CreateEvent, IsLowest, FreeEvents
<1>2. /\ events'[e].live /\ events'[e].manual = manual /\ events'[e].signaled = signaled
      /\ \A f \in Events \ {e} : events'[f] = events[f]
  <2>1. PICK g, o : events' = [events EXCEPT ![e] =
                      [EmptyEvent EXCEPT !.live = TRUE, !.manual = manual,
                         !.signaled = signaled, !.generation = g, !.slot = o]]
    BY <1>1
  <2>. QED BY <1>0, <2>1 DEF EmptyEvent
<1>3. \A x : ~BeingWoken(x) /\ ~BeingWoken(x)'
  BY <1>0 DEF BeingWoken, Idle
<1>4. \A t \in Threads : StatusOf(t)' = StatusOf(t)
  BY <1>0, <1>3, WaitStands
<1>5. OnlyEvent(e)
  BY <1>2, EventsStand DEF OnlyEvent
<1>6. /\ KindOf(e) = "none" /\ KindOf(e)' = (IF manual THEN "manual" ELSE "auto")
      /\ SignalOf(e)' = signaled
  BY <1>1, <1>2 DEF KindOf, SignalOf
<1>. QED
  BY <1>4, <1>5, <1>6, CreateIsAllowed

LEMMA DestroyEventIsAllowed ==
  ASSUME WaitInv, QueueInv, ObjectInv, NEW h \in Handles, TryDestroyEvent(h)
  PROVE  Allowed
<1>0. /\ UNCHANGED <<threads, records, loop>> /\ loop = Idle /\ mode = "up"
      /\ events \in [Events -> EventRecord]
  BY DEF TryDestroyEvent, Running, WaitInv, TypeOK
<1>1. /\ h.slot \in Objects /\ objects[h.slot].type = "EVENT"
      /\ objects[h.slot].refs <= 1 /\ Target(h) = objects[h.slot].target
      /\ events' = [events EXCEPT ![Target(h)].live = FALSE]
  BY DEF TryDestroyEvent, Resolves, Target, Handles
<1>2. Target(h) \in Events /\ events[Target(h)].live
  BY <1>0, <1>1 DEF ObjectInv, HandlesNameTheirTargets
<1>3. PICK e \in Events : e = Target(h)
  BY <1>2
<1>4. /\ ~events'[e].live /\ \A f \in Events \ {e} : events'[f] = events[f]
  BY <1>0, <1>1, <1>3 DEF EventRecord
<1>5. \A x : ~BeingWoken(x) /\ ~BeingWoken(x)'
  BY <1>0 DEF BeingWoken, Idle
<1>6. \A t \in Threads : StatusOf(t)' = StatusOf(t)
  BY <1>0, <1>5, WaitStands
<1>7. OnlyEvent(e)
  BY <1>4, EventsStand DEF OnlyEvent
<1>8. KindOf(e) # "none" /\ KindOf(e)' = "none" /\ SignalOf(e)' = FALSE
  BY <1>2, <1>3, <1>4 DEF KindOf, SignalOf
<1>9. ASSUME NEW t \in Threads PROVE StatusOf(t).on # e
  <2>1. CASE threads[t].wait = None
    BY <2>1, ConstantFacts DEF StatusOf
  <2>2. CASE threads[t].wait # None
    <3>1. threads[t].wait \in Records /\ records[threads[t].wait].active
      BY <2>2, WaitersHaveRecords
    <3>2. records[threads[t].wait].event # e
      BY <1>0, <1>1, <1>3, <3>1, OneReferenceMeansNoWait
    <3>. QED BY <2>2, <3>2 DEF StatusOf
  <2>. QED BY <2>1, <2>2
<1>. QED
  BY <1>6, <1>7, <1>8, <1>9, DestroyIsAllowed

LEMMA SignalIsAllowed ==
  ASSUME WaitInv, QueueInv, ContractInv, NEW h \in Handles, SignalEvent(h)
  PROVE  Allowed
<1>0. /\ Target(h) \in Events /\ loop = Idle /\ events[Target(h)].live
      /\ events \in [Events -> EventRecord]
  BY DEF SignalEvent, LiveEvent, Resolves, Target, WaitInv, TargetsAreInRange, TypeOK,
         Handles, Running
<1>1. PICK e \in Events : e = Target(h)
  BY <1>0
<1>2. /\ \A x : ~BeingWoken(x)
      /\ events[e].manual \in BOOLEAN /\ events[e].signaled \in BOOLEAN
      /\ events[e].live
  BY <1>0, <1>1 DEF BeingWoken, Idle, EventRecord
\* Setting the signaled flag.
<1>3. ASSUME events' = [events EXCEPT ![e].signaled = TRUE]
      PROVE  OnlyEvent(e) /\ KindOf(e)' = KindOf(e) /\ SignalOf(e)' = TRUE
  <2>1. /\ \A f \in Events \ {e} : events'[f] = events[f]
        /\ events'[e].live = events[e].live /\ events'[e].manual = events[e].manual
        /\ events'[e].signaled = TRUE
    BY <1>0, <1>3 DEF EventRecord
  <2>2. OnlyEvent(e)
    BY <2>1, EventsStand DEF OnlyEvent
  <2>. QED BY <1>2, <2>1, <2>2 DEF KindOf, SignalOf
<1>4. CASE /\ events[e].manual
           /\ events' = [events EXCEPT ![e].signaled = TRUE]
           /\ loop' = [Idle EXCEPT !.op = "wake", !.event = e]
           /\ UNCHANGED <<threads, records>>
  <2>1. \A x : BeingWoken(x)' <=> x = e
    BY <1>4 DEF BeingWoken, Idle
  <2>2. ASSUME NEW t \in Threads
        PROVE  StatusOf(t)' = IF StatusOf(t) = [is |-> "waiting", on |-> e]
                                THEN [is |-> "signaled", on |-> e] ELSE StatusOf(t)
    <3>1. CASE threads[t].wait = None
      BY <1>4, <3>1 DEF StatusOf
    <3>2. CASE threads[t].wait # None
      <4> DEFINE r == threads[t].wait
      <4>1. /\ StatusOf(t) = [is |-> HowItStands(r), on |-> records[r].event]
            /\ HowItStands(r) = IF records[r].completion = "TIMEOUT" THEN "timedout"
                                ELSE IF records[r].completion = "OBJECT_0"
                                  THEN "signaled" ELSE "waiting"
        BY <1>2, <3>2 DEF StatusOf, HowItStands
      <4>2. StatusOf(t)' = [is |-> IF records[r].completion = "TIMEOUT" THEN "timedout"
                                   ELSE IF records[r].completion = "OBJECT_0"
                                             \/ records[r].event = e
                                     THEN "signaled" ELSE "waiting",
                            on |-> records[r].event]
        BY <1>4, <2>1, <3>2 DEF StatusOf, HowItStands, BeingWoken
      <4>. QED BY <4>1, <4>2
    <3>. QED BY <3>1, <3>2
  <2>3. KindOf(e) = "manual"
    BY <1>2, <1>4 DEF KindOf
  <2>. QED
    BY <1>3, <1>4, <2>2, <2>3, SetManualIsAllowed
<1>5. CASE /\ ~events[e].manual
           /\ events[e].waiters # <<>>
           /\ CompleteWaiter(e, 1, "OBJECT_0", "SIGNALED")
           /\ events' = WithoutWaiter(e, 1, FALSE)
           /\ UNCHANGED loop
  <2>1. 1 \in 1 .. Len(events[e].waiters) /\ "OBJECT_0" \in Completions
    BY <1>0, <1>5 DEF EventRecord, Completions
  <2>2. ~events[e].signaled
    BY <1>0, <1>5 DEF WaitInv, NoLostWakeup, Idle
  <2>3. records[events[e].waiters[1]].thread \in Threads
    BY <1>5, <2>1, WakeFacts
  <2>4. PICK t \in Threads : t = records[events[e].waiters[1]].thread
    BY <2>3
  <2>5. /\ \A f \in Events : KindOf(f)' = KindOf(f) /\ SignalOf(f)' = SignalOf(f)
        /\ OnlyThread(t)
        /\ StatusOf(t) = [is |-> IF BeingWoken(e) THEN "signaled" ELSE "waiting",
                          on |-> e]
        /\ StatusOf(t)' = [is |-> "signaled", on |-> e]
    <3>1. FALSE = events[e].signaled
      BY <1>2, <2>2
    <3>. QED BY <1>5, <2>1, <2>4, <3>1, WakeStatus
  <2>6. KindOf(e) = "auto"
    BY <1>2, <1>5 DEF KindOf
  <2>. QED BY <1>2, <2>5, <2>6, HandedSignalIsAllowed
<1>6. CASE /\ ~events[e].manual
           /\ events[e].waiters = <<>>
           /\ events' = [events EXCEPT ![e].signaled = TRUE]
           /\ UNCHANGED <<threads, records, loop>>
  <2>1. \A x : BeingWoken(x)' <=> BeingWoken(x)
    BY <1>6 DEF BeingWoken
  <2>2. \A t \in Threads : StatusOf(t)' = StatusOf(t)
    BY <1>6, <2>1, WaitStands
  <2>3. ASSUME NEW t \in Threads PROVE StatusOf(t) # [is |-> "waiting", on |-> e]
    <3>1. CASE threads[t].wait = None
      BY <3>1 DEF StatusOf
    <3>2. CASE threads[t].wait # None /\ records[threads[t].wait].event # e
      BY <3>2 DEF StatusOf
    <3>3. CASE threads[t].wait # None /\ records[threads[t].wait].event = e
      <4>1. records[threads[t].wait].completion \in {"OBJECT_0", "TIMEOUT"}
        BY <1>6, <3>3, NobodyWaits
      <4>. QED BY <3>3, <4>1 DEF StatusOf, HowItStands
    <3>. QED BY <3>1, <3>2, <3>3
  <2>4. KindOf(e) = "auto"
    BY <1>2, <1>6 DEF KindOf
  <2>. QED
    BY <1>3, <1>6, <2>2, <2>3, <2>4, KeptSignalIsAllowed
<1>. QED BY <1>1, <1>4, <1>5, <1>6 DEF SignalEvent

LEMMA WakeLoopIsAllowed ==
  ASSUME WaitInv, QueueInv, ContractInv, WakeNext PROVE Allowed
<1>0. loop.event \in Events /\ loop.op = "wake" /\ events \in [Events -> EventRecord]
  BY DEF WakeNext, WaitInv, LoopTargetIsLive, TypeOK
<1>1. PICK e \in Events : e = loop.event
  BY <1>0
<1>2. \A x : BeingWoken(x) <=> x = e
  BY <1>0, <1>1 DEF BeingWoken
<1>3. CASE /\ events[e].waiters # <<>>
           /\ CompleteWaiter(e, 1, "OBJECT_0", "SIGNALED")
           /\ events' = WithoutWaiter(e, 1, events[e].signaled)
           /\ UNCHANGED loop
  <2>1. /\ 1 \in 1 .. Len(events[e].waiters) /\ "OBJECT_0" \in Completions
        /\ events[e].signaled \in BOOLEAN
    BY <1>0, <1>3 DEF EventRecord, Completions
  <2>2. records[events[e].waiters[1]].thread \in Threads
    BY <1>3, <2>1, WakeFacts
  <2>3. PICK t \in Threads : t = records[events[e].waiters[1]].thread
    BY <2>2
  <2>4. /\ \A f \in Events : KindOf(f)' = KindOf(f) /\ SignalOf(f)' = SignalOf(f)
        /\ OnlyThread(t)
        /\ StatusOf(t) = [is |-> IF BeingWoken(e) THEN "signaled" ELSE "waiting",
                          on |-> e]
        /\ StatusOf(t)' = [is |-> "signaled", on |-> e]
    BY <1>3, <2>1, <2>3, WakeStatus
  <2>5. \A u \in Threads : StatusOf(u)' = StatusOf(u)
    BY <1>2, <2>4 DEF OnlyThread
  <2>. QED BY <2>4, <2>5, StutterIsAllowed
<1>4. CASE /\ events[e].waiters = <<>>
           /\ loop' = Idle
           /\ UNCHANGED <<events, threads, records>>
  <2>1. \A x : ~BeingWoken(x)'
    BY <1>4 DEF BeingWoken, Idle
  <2>2. ASSUME NEW t \in Threads PROVE StatusOf(t)' = StatusOf(t)
    <3>1. CASE threads[t].wait = None
      BY <1>4, <3>1 DEF StatusOf
    <3>2. CASE threads[t].wait # None /\ records[threads[t].wait].event # e
      BY <1>2, <1>4, <2>1, <3>2, WaitStands
    <3>3. CASE threads[t].wait # None /\ records[threads[t].wait].event = e
      <4>1. records[threads[t].wait].completion \in {"OBJECT_0", "TIMEOUT"}
        BY <1>4, <3>3, NobodyWaits
      <4>. QED BY <1>4, <3>3, <4>1 DEF StatusOf, HowItStands
    <3>. QED BY <3>1, <3>2, <3>3
  <2>3. \A f \in Events : KindOf(f)' = KindOf(f) /\ SignalOf(f)' = SignalOf(f)
    BY <1>4, EventsStand
  <2>. QED BY <2>2, <2>3, StutterIsAllowed
<1>. QED BY <1>1, <1>3, <1>4 DEF WakeNext

LEMMA ServiceIsAllowed ==
  ASSUME WaitInv, QueueInv, ServiceNext PROVE Allowed
<1> DEFINE r == records[loop.index]
<1>1. /\ loop' = [loop EXCEPT !.index = loop.index + 1]
      /\ loop.op \in {"poll", "pollwait"} /\ loop.index < MaxThreads
  BY DEF ServiceNext
<1>2. loop.index \in Records
  <2>1. loop.index \in Nat /\ MaxThreads \in Nat
    BY BoundsAssumption DEF WaitInv, TypeOK, LoopRecord
  <2>. QED BY <1>1, <2>1 DEF Records
<1>3. loop'.op = loop.op /\ loop'.event = loop.event
  BY <1>1 DEF WaitInv, TypeOK, LoopRecord
<1>4. CASE UNCHANGED <<threads, events, records>>
  BY <1>1, <1>3, <1>4, QuietStepIsAllowed
<1>5. CASE /\ r.linked
           /\ CompleteWaiter(r.event, r.index, "TIMEOUT", "TIMED_OUT")
           /\ events' = WithoutWaiter(r.event, r.index, events[r.event].signaled)
  <2>1. r.event \in Events /\ r.index \in 1 .. Len(events[r.event].waiters)
    BY <1>2, <1>5 DEF WaitInv, LinkedRecordsAreListed
  <2>2. PICK e \in Events, i \in 1 .. Len(events[r.event].waiters) :
          e = r.event /\ i = r.index
    BY <2>1
  <2>3. "TIMEOUT" \in Completions /\ events[e].signaled \in BOOLEAN
    BY DEF WaitInv, TypeOK, EventRecord, Completions
  <2>4. /\ CompleteWaiter(e, i, "TIMEOUT", "TIMED_OUT")
        /\ events' = WithoutWaiter(e, i, events[e].signaled)
        /\ i \in 1 .. Len(events[e].waiters)
    BY <1>5, <2>2
  <2>5. records[events[e].waiters[i]].thread \in Threads
    BY <2>3, <2>4, WakeFacts
  <2>6. PICK t \in Threads : t = records[events[e].waiters[i]].thread
    BY <2>5
  <2>7. /\ \A f \in Events : KindOf(f)' = KindOf(f) /\ SignalOf(f)' = SignalOf(f)
        /\ OnlyThread(t)
        /\ StatusOf(t) = [is |-> IF BeingWoken(e) THEN "signaled" ELSE "waiting",
                          on |-> e]
        /\ StatusOf(t)' = [is |-> "timedout", on |-> e]
    BY <1>3, <2>3, <2>4, <2>6, WakeStatus
  <2>8. ~BeingWoken(e)
    BY <1>1 DEF BeingWoken
  <2>. QED BY <2>7, <2>8, TimeOutIsAllowed
<1>. QED BY <1>4, <1>5 DEF ServiceNext, Expired

\* A reset, and a wait that finds the event signaled.
LEMMA FlagStepIsAllowed ==
  ASSUME WaitInv, NEW h \in Handles, ResetEvent(h) \/ WaitSignaled(h) PROVE Allowed
<1>0. /\ UNCHANGED <<threads, records, loop>> /\ loop = Idle /\ Target(h) \in Events
      /\ events[Target(h)].live /\ events \in [Events -> EventRecord]
  BY DEF ResetEvent, WaitSignaled, OpenEvent, LiveEvent, Resolves, Target, Running,
         WaitInv, TargetsAreInRange, TypeOK, Handles
<1>1. PICK e \in Events : e = Target(h)
  BY <1>0
<1>2. \A x : ~BeingWoken(x) /\ ~BeingWoken(x)'
  BY <1>0 DEF BeingWoken, Idle
<1>3. \A t \in Threads : StatusOf(t)' = StatusOf(t)
  BY <1>0, <1>2, WaitStands
<1>4. ASSUME NEW s \in BOOLEAN, events' = [events EXCEPT ![e].signaled = s]
      PROVE  OnlyEvent(e) /\ KindOf(e)' = KindOf(e) /\ SignalOf(e)' = s
  <2>1. /\ \A f \in Events \ {e} : events'[f] = events[f]
        /\ events'[e].live = events[e].live /\ events'[e].manual = events[e].manual
        /\ events'[e].signaled = s
    BY <1>0, <1>4 DEF EventRecord
  <2>2. OnlyEvent(e)
    BY <2>1, EventsStand DEF OnlyEvent
  <2>3. events[e].live
    BY <1>0, <1>1
  <2>. QED BY <2>1, <2>2, <2>3 DEF KindOf, SignalOf
<1>5. KindOf(e) # "none"
  BY <1>0, <1>1 DEF KindOf
<1>6. CASE events' = [events EXCEPT ![e].signaled = FALSE]
  BY <1>3, <1>4, <1>5, <1>6, ResetIsAllowed
<1>7. CASE events' = [events EXCEPT ![e].signaled = TRUE] /\ events[e].signaled
  <2>1. OnlyEvent(e) /\ KindOf(e)' = KindOf(e) /\ SignalOf(e)' = TRUE
    BY <1>4, <1>7
  <2>2. SignalOf(e) = TRUE
    BY <1>0, <1>1, <1>7 DEF SignalOf
  <2>3. \A f \in Events : KindOf(f)' = KindOf(f) /\ SignalOf(f)' = SignalOf(f)
    BY <2>1, <2>2 DEF OnlyEvent
  <2>. QED BY <1>3, <2>3, StutterIsAllowed
<1>8. events[e].manual \in BOOLEAN /\ events[e].signaled \in BOOLEAN
  BY <1>0 DEF EventRecord
<1>. QED BY <1>1, <1>6, <1>7, <1>8 DEF ResetEvent, WaitSignaled

\* The next beginning of a scheduler that was torn down.
LEMMA RestartIsAllowed ==
  ASSUME WaitInv, QueueInv, ContractInv, Teardown \/ Initialize, QueueInv' PROVE Allowed
<1>1. CASE Teardown
  <2>1. UNCHANGED <<events, records, loop>> /\ loop = Idle
    BY <1>1 DEF Teardown, Running
  <2>2. \A t \in Threads : threads'[t].wait = None
    BY <1>1 DEF Teardown, QueueInv, TornDownIsEmpty, WaitersHaveRun
  <2>3. ASSUME NEW t \in Threads PROVE threads[t].wait = None
    <3> SUFFICES ASSUME threads[t].wait # None PROVE FALSE
      OBVIOUS
    <3>1. PICK r \in Records : r = threads[t].wait /\ records[r].active
                               /\ records[r].thread = t
      BY WaitersHaveRecords
    <3>2. threads'[t].wait = r
      BY <2>1, <3>1 DEF QueueInv, RecordsMatchThreads
    <3>. QED BY <2>2, <3>1, <3>2
  <2>4. loop.op # "wake" /\ loop'.op # "wake"
    BY <2>1 DEF Idle
  <2>. QED BY <2>1, <2>2, <2>3, <2>4, QuietStepIsAllowed
<1>2. CASE Initialize
  <2>1. \A e \in Events : ~events[e].live /\ ~events'[e].live
    BY <1>2 DEF Initialize, ContractInv, TornDownHasNoEvents, NoEvents, EmptyEvent
  <2>2. \A e \in Events : KindOf(e)' = KindOf(e) /\ SignalOf(e)' = SignalOf(e)
    BY <2>1 DEF KindOf, SignalOf
  <2>3. \A t \in Threads : threads[t].wait = None /\ threads'[t].wait = None
    BY <1>2, BootKeepsQueue DEF Initialize, QueueInv, TornDownIsEmpty, WaitersHaveRun
  <2>4. \A t \in Threads : StatusOf(t)' = StatusOf(t)
    BY <2>3 DEF StatusOf
  <2>. QED BY <2>2, <2>4, StutterIsAllowed
<1>. QED BY <1>1, <1>2

LEMMA EveryStepIsAllowed ==
  ASSUME WaitInv, QueueInv, ObjectInv, ContractInv, [Next]_vars PROVE Allowed
<1>1. CASE UNCHANGED vars
  <2>1. \A e \in Events : KindOf(e)' = KindOf(e) /\ SignalOf(e)' = SignalOf(e)
    BY <1>1, EventsStand DEF vars
  <2>2. \A x : BeingWoken(x)' <=> BeingWoken(x)
    BY <1>1 DEF vars, BeingWoken
  <2>3. \A t \in Threads : StatusOf(t)' = StatusOf(t)
    BY <1>1, <2>2, WaitStands DEF vars
  <2>. QED BY <2>1, <2>3, StutterIsAllowed
<1>2. CASE Tick
  <2>1. \A e \in Events : KindOf(e)' = KindOf(e) /\ SignalOf(e)' = SignalOf(e)
    BY <1>2, EventsStand DEF Tick
  <2>2. \A x : BeingWoken(x)' <=> BeingWoken(x)
    BY <1>2 DEF Tick, BeingWoken
  <2>3. \A t \in Threads : StatusOf(t)' = StatusOf(t)
    BY <1>2, <2>2, WaitStands DEF Tick
  <2>. QED BY <2>1, <2>3, StutterIsAllowed
<1>3. CASE \/ \E type \in Singletons : CreateSingleton(type)
           \/ \E h \in Handles, ms \in Timeouts : WaitFinite(h, ms)
           \/ PollTimeouts
  <2>1. /\ UNCHANGED <<events, records, threads>> /\ loop = Idle
        /\ (loop' = loop \/ loop'.op \in {"poll", "pollwait"})
    <3>1. CASE \E type \in Singletons : CreateSingleton(type)
      BY <3>1 DEF CreateSingleton, Running
    <3>2. CASE \E h \in Handles, ms \in Timeouts : WaitFinite(h, ms)
      BY <3>2 DEF WaitFinite, Running
    <3>3. CASE PollTimeouts
      BY <3>3 DEF PollTimeouts, Running, Idle
    <3>. QED BY <1>3, <3>1, <3>2, <3>3
  <2>2. loop.op # "wake" /\ loop'.op # "wake"
    BY <2>1 DEF Idle
  <2>. QED BY <2>1, <2>2, QuietStepIsAllowed
<1>4. CASE \/ \E allocated \in BOOLEAN : CreateSuspendedThread(allocated)
           \/ \E h \in Handles : ResumeThread(h) \/ CloseHandle(h)
           \/ \E T \in SUBSET Threads : Collect(T)
           \/ \E t \in Threads : DiscardCreatedThread(t)
           \/ Yield \/ Terminate
  BY <1>4, SwitchIsAllowed
<1>5. CASE \E manual, signaled \in BOOLEAN : CreateEvent(manual, signaled)
  BY <1>5, CreateEventIsAllowed
<1>6. CASE \E h \in Handles : TryDestroyEvent(h)
  BY <1>6, DestroyEventIsAllowed
<1>7. CASE \E h \in Handles : SignalEvent(h) \/ SetEvent(h)
  BY <1>7, SignalIsAllowed DEF SetEvent
<1>8. CASE \E h \in Handles : ResetEvent(h) \/ WaitSignaled(h)
  BY <1>8, FlagStepIsAllowed
<1>9. CASE \E h \in Handles : WaitInfinite(h)
  <2>1. PICK h \in Handles : WaitInfinite(h)
    BY <1>9
  <2>2. /\ Target(h) \in Events /\ BlockOn(Target(h), FALSE, 0)
        /\ events[Target(h)].live /\ ~events[Target(h)].signaled
        /\ threads[current].wait = None /\ loop = Idle /\ loop' = loop
    BY <2>1 DEF WaitInfinite, OpenEvent, Resolves, Target, WaitInv, TargetsAreInRange,
                Handles, Running
  <2>3. loop.op # "wake" /\ loop'.op # "wake"
    BY <2>2 DEF Idle
  <2>. QED BY <2>2, <2>3, BlockIsAllowed
<1>10. CASE WakeNext
  BY <1>10, WakeLoopIsAllowed
<1>11. CASE ServiceNext
  BY <1>11, ServiceIsAllowed
<1>12. CASE ServiceDone
  <2>1. loop.op \in {"poll", "pollwait"} /\ loop' = Idle /\ loop # Idle /\ loop'.op # "wake"
    BY <1>12 DEF ServiceDone, Idle
  <2>2. CASE UNCHANGED <<threads, events, records>>
    BY <2>1, <2>2, QuietStepIsAllowed
  <2>3. CASE loop.op = "pollwait" /\ BlockOn(loop.event, TRUE, loop.deadline)
    <3>1. /\ loop.event \in Events /\ threads[current].wait = None
          /\ events[loop.event].live /\ ~events[loop.event].signaled
      BY <2>1, <2>3 DEF WaitInv, LoopTargetIsLive, QueueInv, LoopsRunForTheCaller
    <3>. QED BY <2>1, <2>3, <3>1, BlockIsAllowed
  <2>. QED BY <1>12, <2>2, <2>3 DEF ServiceDone
<1>13. CASE FinishWait
  BY <1>13, FinishIsAllowed
<1>14. CASE Teardown \/ Initialize
  BY <1>14, QueueInvStep, RestartIsAllowed
<1>. QED
  BY <1>1, <1>2, <1>3, <1>4, <1>5, <1>6, <1>7, <1>8, <1>9, <1>10, <1>11, <1>12, <1>13,
     <1>14 DEF Next, HandleCall

-----------------------------------------------------------------------------
(* The theorem.                                                            *)

\* The scheduler implements the contract of events and waits: a signal of an
\* auto-reset event ends exactly one wait or is kept, a signal of a
\* manual-reset event ends every pending wait, a wait ends once, and an event
\* with a wait outstanding is never destroyed.
THEOREM SchedulerImplementsEventWaits == Spec => ImplementsEventWaits
<1>1. Init => Contract!AbstractInit
  <2> SUFFICES ASSUME Init PROVE Contract!AbstractInit
    OBVIOUS
  <2>1. \A e \in Events : KindOf(e) = "none" /\ (events[e].live /\ events[e].signaled) = FALSE
    BY DEF Init, NoEvents, EmptyEvent, KindOf
  <2>2. \A t \in Threads : threads[t].wait = None
    BY BootKeepsQueue DEF Init
  <2>3. \A t \in Threads : StatusOf(t) = [is |-> "idle", on |-> None]
    BY <2>2 DEF StatusOf
  <2>. QED BY <2>1, <2>3 DEF Contract!AbstractInit, Contract!IdleStatus
<1>2. WaitInv /\ QueueInv /\ ObjectInv /\ ContractInv /\ [Next]_vars
        => [Contract!AbstractNext]_(Contract!vars)
  BY EveryStepIsAllowed DEF Allowed
<1>. QED
  BY <1>1, <1>2, ObjectInvHolds, ContractInvHolds, PTL
     DEF Spec, ImplementsEventWaits, Contract!AbstractSpec
================================================================================
