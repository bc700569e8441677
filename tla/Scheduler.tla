------------------------------ MODULE Scheduler ------------------------------
(***************************************************************************)
(* The synthetic cooperative scheduler of src/src/Gate4Harness:            *)
(* scheduler_foundation.c, the wait paths of event_api.c, and what         *)
(* scheduler_context.S does with their results (a failed wait or           *)
(* termination executes ud2, a completed one calls finish_wait).           *)
(*                                                                         *)
(* One CPU, no preemption: every operation is a call the thread            *)
(* `current` makes, and it runs to its end before another one starts.      *)
(* The two loops of the code that wake several waiters are stepped one     *)
(* iteration at a time; `loop' is the position of the one in progress and  *)
(* disables every other action.                                            *)
(*                                                                         *)
(* Fixed arrays of the C structure are functions from slot numbers to      *)
(* records of the fields the properties depend on.  A pointer is the slot  *)
(* it points to, a null pointer is None.  A zeroed slot is Empty...; `live' *)
(* of a thread or an object is state # "FREE" or type # "FREE", and        *)
(* valid/active/pin_held of a wait record, which the code sets and clears  *)
(* together, are the one flag `active'.                                    *)
(***************************************************************************)
EXTENDS Integers, Sequences, FiniteSets

CONSTANTS
  MaxThreads,         \* GXOS_SCHEDULER_MAX_THREADS, 6 (also wait records, waiters)
  MaxEvents,          \* GXOS_SCHEDULER_MAX_EVENTS, 12
  MaxObjects,         \* GXOS_SCHEDULER_MAX_OBJECTS, 16
  GenerationModulus,  \* object generations are uint16_t: 2^16
  ClockMax,           \* the clock and deadlines are uint64_t: 2^64 - 1
  Timeouts,           \* the finite nonzero timeouts callers pass, in ms
  Singletons          \* which of the objects that exist at most once are created

ASSUME BoundsAssumption ==
  /\ MaxThreads \in Nat \ {0}
  /\ MaxEvents \in Nat \ {0}
  /\ MaxObjects \in Nat \ {0}
  /\ GenerationModulus \in Nat \ {0, 1}
  /\ ClockMax \in Nat
  /\ Timeouts \subseteq Nat \ {0}
  /\ Singletons \subseteq {"NOTIFICATION", "STREAM"}

None == -1
Boot == 0                            \* threads[0] is the boot thread
Threads == 0 .. (MaxThreads - 1)
Events == 0 .. (MaxEvents - 1)
Objects == 0 .. (MaxObjects - 1)
Records == 0 .. (MaxThreads - 1)
Generations == 0 .. (GenerationModulus - 1)
Time == 0 .. ClockMax

VARIABLES
  objects,      \* the object (handle) table
  threads,      \* the thread control blocks
  events,       \* the event table; an event is a WAITABLE
  records,      \* the wait records
  runq,         \* runnable_queue[0 .. runnable_count)
  current,      \* the running thread
  activeWaits,  \* active_wait_count
  now,          \* what the configured clock returns
  loop,         \* the wake-up loop in progress
  mode          \* "up", "down" after teardown, "halted" after ud2

vars == <<objects, threads, events, records, runq, current, activeWaits, now,
          loop, mode>>

-----------------------------------------------------------------------------
(* The state of a slot.                                                    *)

ObjectTypes == {"FREE", "THREAD", "EVENT", "NOTIFICATION", "STREAM"}

ObjectRecord ==
  [type : ObjectTypes, closed : BOOLEAN, generation : Generations,
   pub : 0 .. 1, refs : Nat, target : Int]

\* Mutant: the whole object record is cleared when it is released.
FreeObjectZeroed(g) ==
  [type |-> "FREE", closed |-> FALSE, generation |-> 0, pub |-> 0, refs |-> 0,
   target |-> None]

\* release_object_record keeps the generation of the slot.
FreeObject(g) ==
  [type |-> "FREE", closed |-> FALSE, generation |-> g, pub |-> 0, refs |-> 0,
   target |-> None]

NewObject(type, g, target) ==
  [type |-> type, closed |-> FALSE, generation |-> g, pub |-> 1, refs |-> 1,
   target |-> target]

ThreadStates ==
  {"FREE", "CREATED_SUSPENDED", "RUNNABLE", "RUNNING", "BLOCKED", "TERMINATED"}

\* blocked_result; WAIT_FAILURE and the WAIT_BLOCKED of a zeroed thread, which
\* gxos_scheduler_finish_wait treats alike, are "NONE".
WaitResults == {"NONE", "SIGNALED", "TIMED_OUT"}


ThreadRecord ==
  [state : ThreadStates, queued : BOOLEAN, suspend : 0 .. 1, pub : 0 .. 1,
   exec : 0 .. 1, deferred : BOOLEAN, started : BOOLEAN,
   generation : Generations, slot : Objects, result : WaitResults,
   wait : Records \cup {None}]

EmptyThread ==
  [state |-> "FREE", queued |-> FALSE, suspend |-> 0, pub |-> 0, exec |-> 0,
   deferred |-> FALSE, started |-> FALSE, generation |-> 0, slot |-> 0,
   result |-> "NONE", wait |-> None]

BootThread ==
  [EmptyThread EXCEPT !.state = "RUNNING", !.exec = 1, !.generation = 1]

NewThread(slot, g) ==
  [EmptyThread EXCEPT !.state = "CREATED_SUSPENDED", !.suspend = 1, !.pub = 1,
                      !.exec = 1, !.generation = g, !.slot = slot]

EventRecord ==
  [live : BOOLEAN, manual : BOOLEAN, signaled : BOOLEAN,
   generation : Generations, slot : Objects, waiters : Seq(Records)]

EmptyEvent ==
  [live |-> FALSE, manual |-> FALSE, signaled |-> FALSE, generation |-> 0,
   slot |-> 0, waiters |-> <<>>]

Completions == {"FAILED", "OBJECT_0", "TIMEOUT"}

\* `completed' of the code is completion # "FAILED"; index counts from 1.
WaitRecord ==
  [active : BOOLEAN, linked : BOOLEAN, armed : BOOLEAN, deadline : Time,
   thread : Threads \cup {None}, event : Events \cup {None}, slot : Objects,
   generation : Generations, index : Nat, completion : Completions]

EmptyRecord ==
  [active |-> FALSE, linked |-> FALSE, armed |-> FALSE, deadline |-> 0,
   thread |-> None, event |-> None, slot |-> 0, generation |-> 0, index |-> 0,
   completion |-> "FAILED"]

\* "wake" empties the waiter list of a manual-reset event; "poll" walks the
\* wait records for expired deadlines, and "pollwait" does so inside a finite
\* wait, which then blocks on `event' until `deadline'.
LoopRecord ==
  [op : {"idle", "wake", "poll", "pollwait"}, event : Events \cup {None},
   index : 0 .. MaxThreads, time : Time, deadline : Time]

Idle == [op |-> "idle", event |-> None, index |-> 0, time |-> 0, deadline |-> 0]

-----------------------------------------------------------------------------
(* Handles.  The magic byte and the packing into 64 bits carry nothing the *)
(* fields do not; a handle is its type, object slot and generation.        *)

Handles == [type : ObjectTypes \ {"FREE"}, slot : Objects,
            generation : Generations \ {0}]

\* lookup_object
Resolves(h) ==
  /\ objects[h.slot].type = h.type
  /\ objects[h.slot].generation = h.generation

Target(h) == objects[h.slot].target

\* open_event and validate_open_event_handle make the same tests.
OpenEvent(h) ==
  /\ h.type = "EVENT"
  /\ Resolves(h)
  /\ ~objects[h.slot].closed
  /\ objects[h.slot].pub # 0
  /\ objects[h.slot].refs # 0
  /\ events[Target(h)].live
  /\ events[Target(h)].slot = h.slot
  /\ events[Target(h)].generation = h.generation

LiveEvent(h) == h.type = "EVENT" /\ Resolves(h) /\ events[Target(h)].live

\* Mutant: the generation is not truncated to its width.
NextGenerationUntruncated(g) == g + 1

\* A uint16_t increment that skips zero.
NextGeneration(g) ==
  LET n == (g + 1) % GenerationModulus IN IF n = 0 THEN 1 ELSE n

\* The scans for a free slot take the lowest one.
IsLowest(S, i) == i \in S /\ \A j \in S : i <= j

FreeObjects == {o \in Objects : objects[o].type = "FREE"}
FreeThreads == {t \in Threads : threads[t].state = "FREE"}
FreeEvents == {e \in Events : ~events[e].live}
\* Mutant: the scan starts at the second record.
FreeRecordsButFirst == {r \in Records : r # 0 /\ ~records[r].active}

FreeRecords == {r \in Records : ~records[r].active}

-----------------------------------------------------------------------------
(* The runnable queue and the choice of the next thread.                   *)

\* Mutant: the head of the queue is removed, whichever thread runs next.
RemoveFirstRunnable(q, t) == IF q = <<>> THEN q ELSE Tail(q)

\* remove_runnable shifts the entries behind the first occurrence of t.
RemoveRunnable(q, t) ==
  IF \E i \in 1 .. Len(q) : q[i] = t
    THEN [j \in 1 .. (Len(q) - 1) |->
            IF \E i \in 1 .. j : q[i] = t THEN q[j + 1] ELSE q[j]]
    ELSE q

\* The slots pick_next_runnable may return: those RUNNABLE and flagged queued.
Ready(ts) == {t \in Threads : ts[t].state = "RUNNABLE" /\ ts[t].queued}

\* Mutant: the scan starts at slot 0 every time.
DistanceFromZero(c, t) == t + 1

\* The scan starts behind the slot of c and comes back to c last.
Distance(c, t) == IF t > c THEN t - c ELSE t - c + MaxThreads

\* pick_next_runnable
IsNextRunnable(ts, c, t) ==
  t \in Ready(ts) /\ \A u \in Ready(ts) : Distance(c, t) <= Distance(c, u)

\* choose_next; a worker's first dispatch runs note_worker_started.
Dispatched(ts, t) ==
  [ts EXCEPT ![t] = [@ EXCEPT !.state = "RUNNING", !.queued = FALSE,
                              !.started = (t # Boot)]]

\* What a thread that is about to run may do: it is inside no wait.
Running == mode = "up" /\ loop = Idle /\ threads[current].wait = None

-----------------------------------------------------------------------------
(* Initialisation and the object table.                                    *)

\* gxos_scheduler_initialize zeroes the whole structure, the generations of
\* the object slots included; the boot thread has object 0 and no handle.
BootObjects ==
  [o \in Objects |->
     IF o = 0 THEN [NewObject("THREAD", 1, Boot) EXCEPT !.pub = 0]
              ELSE FreeObject(0)]

BootThreads ==
  [t \in Threads |-> IF t = Boot THEN BootThread ELSE EmptyThread]

NoEvents == [e \in Events |-> EmptyEvent]
NoRecords == [r \in Records |-> EmptyRecord]

Init ==
  /\ objects = BootObjects
  /\ threads = BootThreads
  /\ events = NoEvents
  /\ records = NoRecords
  /\ runq = <<>>
  /\ current = Boot
  /\ activeWaits = 0
  /\ now = 0
  /\ loop = Idle
  /\ mode = "up"

\* gxos_scheduler_create_event
CreateEvent(manual, signaled) ==
  /\ Running
  /\ \E e \in Events, o \in Objects :
       /\ IsLowest(FreeEvents, e)
       /\ IsLowest(FreeObjects, o)
       /\ LET g == NextGeneration(objects[o].generation) IN
            /\ objects' = [objects EXCEPT ![o] = NewObject("EVENT", g, e)]
            /\ events' = [events EXCEPT ![e] =
                 [EmptyEvent EXCEPT !.live = TRUE, !.manual = manual,
                    !.signaled = signaled, !.generation = g, !.slot = o]]
  /\ UNCHANGED <<threads, records, runq, current, activeWaits, now, loop, mode>>

\* gxos_scheduler_create_memory_resource_notification and
\* gxos_scheduler_install_standard_stream: there is one notification and one
\* stream, and a second stream installation reuses the first one's object.
CreateSingleton(type) ==
  /\ Running
  /\ \A o \in Objects : objects[o].type # type
  /\ \E o \in Objects :
       /\ IsLowest(FreeObjects, o)
       /\ objects' = [objects EXCEPT ![o] =
            NewObject(type, NextGeneration(objects[o].generation), None)]
  /\ UNCHANGED <<threads, events, records, runq, current, activeWaits, now,
                 loop, mode>>

\* gxos_scheduler_create_suspended_thread.  When the stack, the canary page,
\* the environment pages or the stack registration cannot be had, everything
\* is rolled back except the generation of the object slot.
CreateSuspendedThread(allocated) ==
  /\ Running
  /\ \E t \in Threads, o \in Objects :
       /\ IsLowest(FreeThreads, t)
       /\ IsLowest(FreeObjects, o)
       /\ LET g == NextGeneration(objects[o].generation) IN
            /\ objects' = [objects EXCEPT ![o] =
                 IF allocated THEN NewObject("THREAD", g, t) ELSE FreeObject(g)]
            /\ threads' = [threads EXCEPT ![t] =
                 IF allocated THEN NewThread(o, g) ELSE EmptyThread]
  /\ UNCHANGED <<events, records, runq, current, activeWaits, now, loop, mode>>

\* gxos_scheduler_resume_thread.  A resume of a thread that is not suspended
\* succeeds and changes nothing.  The context it validates is the one
\* create_suspended_thread built.
ResumeThread(h) ==
  /\ Running
  /\ h.type = "THREAD"
  /\ Resolves(h)
  /\ objects[h.slot].pub # 0
  /\ objects[h.slot].refs # 0
  /\ LET t == Target(h) IN
       /\ threads[t].exec # 0
       /\ ~threads[t].deferred
       /\ threads[t].slot = h.slot
       /\ threads[t].generation = h.generation
       /\ threads[t].state = "CREATED_SUSPENDED"
       /\ threads[t].suspend = 1
       /\ Len(runq) < MaxThreads
       /\ threads' = [threads EXCEPT ![t] =
            [@ EXCEPT !.state = "RUNNABLE", !.suspend = 0, !.queued = TRUE]]
       /\ runq' = Append(runq, t)
  /\ UNCHANGED <<objects, events, records, current, activeWaits, now, loop, mode>>

\* Mutant: the last handle's owner is reclaimed whatever its state.
ReclaimableByHandle(ts, t) ==
  t # current /\ t # Boot /\ ts[t].state # "FREE" /\ ts[t].pub = 0

\* The test of maybe_reclaim_thread; the boot thread has no canary page.
Reclaimable(ts, t) ==
  /\ t # current
  /\ t # Boot
  /\ ts[t].state = "TERMINATED"
  /\ ts[t].exec = 0
  /\ ts[t].pub = 0
  /\ ~ts[t].queued
  /\ objects[ts[t].slot].type = "THREAD"

\* Mutant: the control block is zeroed and its object slot is kept.
ReleasedNothing(os, ts, T) == os

\* maybe_reclaim_thread, for the threads of T: the object slots are released
\* and the control blocks zeroed.
Released(os, ts, T) ==
  [o \in Objects |-> IF \E t \in T : ts[t].slot = o
                       THEN FreeObject(os[o].generation) ELSE os[o]]
Zeroed(ts, T) == [t \in Threads |-> IF t \in T THEN EmptyThread ELSE ts[t]]

\* gxos_scheduler_close_handle; notification and stream handles are refused.
CloseHandle(h) ==
  /\ Running
  /\ h.type \in {"THREAD", "EVENT"}
  /\ Resolves(h)
  /\ objects[h.slot].pub # 0
  /\ LET os == [objects EXCEPT ![h.slot] =
                 [@ EXCEPT !.pub = objects[h.slot].pub - 1, !.closed = TRUE]]
         t == Target(h)
         ts == [threads EXCEPT ![t].pub =
                  IF threads[t].pub # 0 THEN threads[t].pub - 1 ELSE 0]
     IN IF h.type = "EVENT"
          THEN objects' = os /\ UNCHANGED threads
          ELSE LET T == {u \in {t} : Reclaimable(ts, u)} IN
                 objects' = Released(os, ts, T) /\ threads' = Zeroed(ts, T)
  /\ UNCHANGED <<events, records, runq, current, activeWaits, now, loop, mode>>

\* Mutant: the pins of waits that have not been finished are not looked at.
TryDestroyPinnedEvent(h) ==
  /\ Running
  /\ h.type = "EVENT"
  /\ Resolves(h)
  /\ events[Target(h)].waiters = <<>>
  /\ objects[h.slot].pub = 0
  /\ events' = [events EXCEPT ![Target(h)].live = FALSE]
  /\ objects' =
       [objects EXCEPT ![h.slot] = FreeObject(objects[h.slot].generation)]
  /\ UNCHANGED <<threads, records, runq, current, activeWaits, now, loop, mode>>

\* gxos_scheduler_try_destroy_event
TryDestroyEvent(h) ==
  /\ Running
  /\ h.type = "EVENT"
  /\ Resolves(h)
  /\ events[Target(h)].waiters = <<>>
  /\ objects[h.slot].pub = 0
  /\ objects[h.slot].refs <= 1
  /\ events' = [events EXCEPT ![Target(h)].live = FALSE]
  /\ objects' =
       [objects EXCEPT ![h.slot] = FreeObject(objects[h.slot].generation)]
  /\ UNCHANGED <<threads, records, runq, current, activeWaits, now, loop, mode>>

\* gxos_scheduler_collect reclaims every thread it can, and
\* gxos_scheduler_try_reclaim_thread one of them.
Collect(T) ==
  /\ Running
  /\ T # {}
  /\ \A t \in T : Reclaimable(threads, t)
  /\ objects' = Released(objects, threads, T)
  /\ threads' = Zeroed(threads, T)
  /\ UNCHANGED <<events, records, runq, current, activeWaits, now, loop, mode>>

\* gxos_scheduler_discard_created_thread, on a thread that was never
\* dispatched, the only kind its callers hand to it.
DiscardCreatedThread(t) ==
  /\ Running
  /\ t # Boot
  /\ ~threads[t].started
  /\ threads[t].state \in {"CREATED_SUSPENDED", "RUNNABLE"}
  /\ threads[t].pub = 0
  /\ runq' = IF threads[t].queued THEN RemoveRunnable(runq, t) ELSE runq
  /\ LET ts == [threads EXCEPT ![t] =
                 [@ EXCEPT !.state = "TERMINATED", !.exec = 0, !.queued = FALSE]]
         T == {u \in {t} : Reclaimable(ts, u)}
     IN objects' = Released(objects, ts, T) /\ threads' = Zeroed(ts, T)
  /\ UNCHANGED <<events, records, current, activeWaits, now, loop, mode>>

-----------------------------------------------------------------------------
(* Waiters and wake-ups.                                                   *)

\* Mutant: the list is shortened and the last waiter is not moved.
DropLastWaiter(w, i) == [j \in 1 .. (Len(w) - 1) |-> w[j]]

\* remove_waiter: the last waiter takes the place of the removed one.
RemoveWaiter(w, i) ==
  [j \in 1 .. (Len(w) - 1) |-> IF j = i THEN w[Len(w)] ELSE w[j]]

\* complete_waiter on entry i of the waiter list of event e.
CompleteWaiter(e, i, completion, result) ==
  LET w == events[e].waiters
      r == w[i]
      last == w[Len(w)]
      t == records[r].thread
  IN /\ records' = [k \in Records |->
                      IF k = r
                        THEN [records[r] EXCEPT !.linked = FALSE, !.index = 0,
                                                !.completion = completion]
                        ELSE IF k = last THEN [records[k] EXCEPT !.index = i]
                        ELSE records[k]]
     /\ threads' = [threads EXCEPT ![t] =
          [@ EXCEPT !.result = result, !.state = "RUNNABLE", !.queued = TRUE]]
     /\ runq' = Append(runq, t)

\* Mutant: a signal handed to a waiter is kept by the event as well.
WithoutWaiterSignaled(e, i, signaled) ==
  [events EXCEPT ![e] =
     [@ EXCEPT !.waiters = RemoveWaiter(events[e].waiters, i),
               !.signaled = TRUE]]

\* The list of e without entry i, and the signaled flag that goes with it.
WithoutWaiter(e, i, signaled) ==
  [events EXCEPT ![e] =
     [@ EXCEPT !.waiters = RemoveWaiter(events[e].waiters, i),
               !.signaled = signaled]]

\* gxos_scheduler_signal_event.  A manual-reset event stays signaled and its
\* waiters are woken by the loop below; an auto-reset event hands the signal
\* to one waiter, or keeps it when there is none.
SignalEvent(h) ==
  /\ Running
  /\ LiveEvent(h)
  /\ LET e == Target(h) IN
       \/ /\ events[e].manual
          /\ events' = [events EXCEPT ![e].signaled = TRUE]
          /\ loop' = [Idle EXCEPT !.op = "wake", !.event = e]
          /\ UNCHANGED <<threads, records, runq>>
       \/ /\ ~events[e].manual
          /\ events[e].waiters # <<>>
          /\ CompleteWaiter(e, 1, "OBJECT_0", "SIGNALED")
          /\ events' = WithoutWaiter(e, 1, FALSE)
          /\ UNCHANGED loop
       \/ /\ ~events[e].manual
          /\ events[e].waiters = <<>>
          /\ events' = [events EXCEPT ![e].signaled = TRUE]
          /\ UNCHANGED <<threads, records, runq, loop>>
  /\ UNCHANGED <<objects, current, activeWaits, now, mode>>

\* while (event->waiter_count != 0) wake_waiter(event, 0)
WakeNext ==
  /\ loop.op = "wake"
  /\ LET e == loop.event IN
       \/ /\ events[e].waiters # <<>>
          /\ CompleteWaiter(e, 1, "OBJECT_0", "SIGNALED")
          /\ events' = WithoutWaiter(e, 1, events[e].signaled)
          /\ UNCHANGED loop
       \/ /\ events[e].waiters = <<>>
          /\ loop' = Idle
          /\ UNCHANGED <<events, threads, records, runq>>
  /\ UNCHANGED <<objects, current, activeWaits, now, mode>>

\* gxos_set_event_contract, the Win32 entry, refuses a closed event.
SetEvent(h) == OpenEvent(h) /\ SignalEvent(h)

\* gxos_scheduler_reset_event and gxos_reset_event_contract
ResetEvent(h) ==
  /\ Running
  /\ LiveEvent(h)
  /\ events' = [events EXCEPT ![Target(h)].signaled = FALSE]
  /\ UNCHANGED <<objects, threads, records, runq, current, activeWaits, now,
                 loop, mode>>

-----------------------------------------------------------------------------
(* Waiting.                                                                *)

\* The part of gxos_scheduler_prepare_wait_record that registers a waiter,
\* and the context switch.  Its repeated tests of the handle and of the
\* signaled flag come out as they did in wait_one: WaitTargetStaysOpen.
\* A wait that cannot block returns WAIT_FAILURE with everything rolled back,
\* and the assembly stub executes ud2.
BlockOn(e, armed, deadline) ==
  LET w == events[e].waiters
      o == events[e].slot
      blocked(r) ==
        [threads EXCEPT ![current] =
           [@ EXCEPT !.state = "BLOCKED", !.wait = r, !.result = "NONE"]]
      canBlock ==
        /\ FreeRecords # {}
        /\ Len(w) < MaxThreads
        /\ \A i \in 1 .. Len(w) : records[w[i]].thread # current
        /\ Ready(threads) # {}
  IN \/ /\ canBlock
        /\ \E r \in Records, t \in Threads :
             /\ IsLowest(FreeRecords, r)
             /\ records' = [records EXCEPT ![r] =
                  [active |-> TRUE, linked |-> TRUE, armed |-> armed,
                   deadline |-> deadline, thread |-> current, event |-> e,
                   slot |-> o, generation |-> objects[o].generation,
                   index |-> Len(w) + 1, completion |-> "FAILED"]]
             /\ IsNextRunnable(blocked(r), current, t)
             /\ threads' = Dispatched(blocked(r), t)
             /\ runq' = RemoveRunnable(runq, t)
             /\ current' = t
             /\ events' = [events EXCEPT ![e].waiters = Append(w, r)]
             /\ objects' = [objects EXCEPT ![o].refs = objects[o].refs + 1]
        /\ activeWaits' = activeWaits + 1
        /\ UNCHANGED mode
     \/ /\ ~canBlock
        /\ mode' = "halted"
        /\ UNCHANGED <<objects, threads, events, records, runq, current,
                       activeWaits>>

\* wait_one up to the point where it would block.  A wait for zero
\* milliseconds on an unsignaled event changes nothing.
WaitSignaled(h) ==
  /\ Running
  /\ OpenEvent(h)
  /\ events[Target(h)].signaled
  /\ events' = [events EXCEPT ![Target(h)].signaled = events[Target(h)].manual]
  /\ UNCHANGED <<objects, threads, records, runq, current, activeWaits, now,
                 loop, mode>>

WaitInfinite(h) ==
  /\ Running
  /\ OpenEvent(h)
  /\ ~events[Target(h)].signaled
  /\ BlockOn(Target(h), FALSE, 0)
  /\ UNCHANGED <<now, loop>>

\* Mutant: the event is looked up without the test that it is open.
WaitFiniteClosed(h, milliseconds) ==
  /\ Running
  /\ LiveEvent(h)
  /\ ~events[Target(h)].signaled
  /\ now' = now
  /\ loop' = [op |-> "pollwait", event |-> Target(h), index |-> 0, time |-> now,
              deadline |-> now]
  /\ UNCHANGED <<objects, threads, events, records, runq, current, activeWaits,
                 mode>>

\* The deadline saturates.  Expired waits are serviced before this one blocks,
\* by a second, possibly later, reading of the clock.
WaitFinite(h, milliseconds) ==
  /\ Running
  /\ OpenEvent(h)
  /\ ~events[Target(h)].signaled
  /\ now' \in now .. ClockMax
  /\ loop' = [op |-> "pollwait", event |-> Target(h), index |-> 0, time |-> now',
              deadline |-> IF now > ClockMax - milliseconds
                             THEN ClockMax ELSE now + milliseconds]
  /\ UNCHANGED <<objects, threads, events, records, runq, current, activeWaits,
                 mode>>

\* gxos_scheduler_poll_timeouts
PollTimeouts ==
  /\ Running
  /\ loop' = [Idle EXCEPT !.op = "poll", !.time = now]
  /\ UNCHANGED <<objects, threads, events, records, runq, current, activeWaits,
                 now, mode>>

\* Mutant: a wait without a deadline (deadline 0) counts as expired.
ExpiredUnarmed(r) ==
  r.active /\ r.completion = "FAILED" /\ r.deadline <= loop.time /\ r.linked

\* The wait records gxos_scheduler_service_timeouts completes.
Expired(r) ==
  /\ r.active /\ r.armed /\ r.completion = "FAILED"
  /\ r.deadline <= loop.time
  /\ r.linked

\* One iteration of gxos_scheduler_service_timeouts.
ServiceNext ==
  /\ loop.op \in {"poll", "pollwait"}
  /\ loop.index < MaxThreads
  /\ loop' = [loop EXCEPT !.index = loop.index + 1]
  /\ LET r == records[loop.index] IN
       \/ /\ Expired(r)
          /\ CompleteWaiter(r.event, r.index, "TIMEOUT", "TIMED_OUT")
          /\ events' = WithoutWaiter(r.event, r.index, events[r.event].signaled)
       \/ /\ ~Expired(r)
          /\ UNCHANGED <<threads, events, records, runq>>
  /\ UNCHANGED <<objects, current, activeWaits, now, mode>>

\* The end of the loop, where a finite wait goes on to block.
ServiceDone ==
  /\ loop.op \in {"poll", "pollwait"}
  /\ loop.index = MaxThreads
  /\ loop' = Idle
  /\ \/ /\ loop.op = "poll"
        /\ UNCHANGED <<objects, threads, events, records, runq, current,
                       activeWaits, mode>>
     \/ /\ loop.op = "pollwait"
        /\ BlockOn(loop.event, TRUE, loop.deadline)
  /\ UNCHANGED now

\* Mutant: only a signaled wait is recognised as complete.
WaitIsSignaled ==
  /\ records[threads[current].wait].active
  /\ threads[current].result = "SIGNALED"
  /\ records[threads[current].wait].completion = "OBJECT_0"

\* What gxos_scheduler_finish_wait requires of the record of the thread that
\* has just been switched to; otherwise the wait fails and keeps its record.
WaitIsComplete ==
  LET r == records[threads[current].wait] IN
    /\ r.active
    /\ r.thread = current
    /\ \/ threads[current].result = "SIGNALED" /\ r.completion = "OBJECT_0"
       \/ threads[current].result = "TIMED_OUT" /\ r.completion = "TIMEOUT"

\* gxos_scheduler_finish_wait and release_wait_record, which the assembly
\* stub calls as soon as the thread runs again.
FinishWait ==
  /\ mode = "up"
  /\ loop = Idle
  /\ threads[current].wait # None
  /\ WaitIsComplete
  /\ LET r == threads[current].wait
         o == records[r].slot
     IN
       /\ threads' = [threads EXCEPT ![current] =
                         [@ EXCEPT !.wait = None, !.result = "NONE"]]
       /\ records' = [records EXCEPT ![r] = EmptyRecord]
       /\ objects' = [objects EXCEPT ![o].refs =
                        IF objects[o].refs # 0 THEN objects[o].refs - 1 ELSE 0]
  /\ activeWaits' = IF activeWaits # 0 THEN activeWaits - 1 ELSE 0
  /\ UNCHANGED <<events, runq, current, now, loop, mode>>

-----------------------------------------------------------------------------
(* Giving up the CPU, time, and the end of a scheduler.                    *)

\* gxos_scheduler_prepare_yield puts the caller into the queue before it
\* picks, so that with no other thread ready it picks the caller.
Yield ==
  /\ Running
  /\ threads[current].state = "RUNNING"
  /\ LET ts == [threads EXCEPT ![current] =
                 [@ EXCEPT !.state = "RUNNABLE", !.queued = TRUE]]
     IN \E t \in Threads :
          /\ IsNextRunnable(ts, current, t)
          /\ threads' = Dispatched(ts, t)
          /\ runq' = RemoveRunnable(Append(runq, current), t)
          /\ current' = t
  /\ UNCHANGED <<objects, events, records, activeWaits, now, loop, mode>>

\* gxos_scheduler_prepare_terminate; with no thread to switch to, ud2.
Terminate ==
  /\ Running
  /\ threads[current].state = "RUNNING"
  /\ current # Boot
  /\ LET ts == [threads EXCEPT ![current] =
                 [@ EXCEPT !.state = "TERMINATED", !.deferred = TRUE, !.exec = 0]]
     IN \/ /\ Ready(ts) # {}
           /\ \E t \in Threads :
                /\ IsNextRunnable(ts, current, t)
                /\ threads' = Dispatched(ts, t)
                /\ runq' = RemoveRunnable(runq, t)
                /\ current' = t
           /\ UNCHANGED mode
        \/ /\ Ready(ts) = {}
           /\ threads' = ts
           /\ mode' = "halted"
           /\ UNCHANGED <<runq, current>>
  /\ UNCHANGED <<objects, events, records, activeWaits, now, loop>>

\* The clock; a loop in progress keeps the reading it started with.
Tick ==
  /\ mode = "up"
  /\ now < ClockMax
  /\ now' = now + 1
  /\ UNCHANGED <<objects, threads, events, records, runq, current, activeWaits,
                 loop, mode>>

\* gxos_scheduler_teardown succeeds when the boot thread is all that is left;
\* otherwise its only effect is that of Collect.  (The code clears `current'.)
Teardown ==
  /\ Running
  /\ current = Boot
  /\ threads[Boot].state = "RUNNING"
  /\ LET T == {t \in Threads : Reclaimable(threads, t)}
         left == {Boot} \cup {t \in Threads : threads[t].state # "FREE"}
     IN /\ \A e \in Events : ~events[e].live
        /\ \A o \in Objects : objects[o].type # "NOTIFICATION"
        /\ left \subseteq T \cup {Boot}
        /\ threads' = Zeroed(threads, T \cup {Boot})
        /\ objects' = [o \in Objects |->
             IF objects[o].type = "STREAM" THEN FreeObject(objects[o].generation)
             ELSE Released(objects, threads, T \cup {Boot})[o]]
  /\ mode' = "down"
  /\ UNCHANGED <<events, records, runq, current, activeWaits, now, loop>>

\* A later gxos_scheduler_initialize of the same storage.
Initialize ==
  /\ mode = "down"
  /\ objects' = BootObjects
  /\ threads' = BootThreads
  /\ events' = NoEvents
  /\ records' = NoRecords
  /\ runq' = <<>>
  /\ current' = Boot
  /\ activeWaits' = 0
  /\ loop' = Idle
  /\ mode' = "up"
  /\ UNCHANGED now

HandleCall(h) ==
  \/ ResumeThread(h)
  \/ CloseHandle(h)
  \/ TryDestroyEvent(h)
  \/ SignalEvent(h)
  \/ SetEvent(h)
  \/ ResetEvent(h)
  \/ WaitSignaled(h)
  \/ WaitInfinite(h)
  \/ \E milliseconds \in Timeouts : WaitFinite(h, milliseconds)

Next ==
  \/ \E manual, signaled \in BOOLEAN : CreateEvent(manual, signaled)
  \/ \E type \in Singletons : CreateSingleton(type)
  \/ \E allocated \in BOOLEAN : CreateSuspendedThread(allocated)
  \/ \E h \in Handles : HandleCall(h)
  \/ \E T \in SUBSET Threads : Collect(T)
  \/ \E t \in Threads : DiscardCreatedThread(t)
  \/ WakeNext
  \/ PollTimeouts
  \/ ServiceNext
  \/ ServiceDone
  \/ FinishWait
  \/ Yield
  \/ Terminate
  \/ Tick
  \/ Teardown
  \/ Initialize

Spec == Init /\ [][Next]_vars

-----------------------------------------------------------------------------
(* Safety.                                                                 *)

\* The types of the variables.
TypeOK ==
  /\ objects \in [Objects -> ObjectRecord]
  /\ threads \in [Threads -> ThreadRecord]
  /\ events \in [Events -> EventRecord]
  /\ records \in [Records -> WaitRecord]
  /\ runq \in Seq(Threads)
  /\ current \in Threads
  /\ activeWaits \in Nat
  /\ now \in Time
  /\ loop \in LoopRecord
  /\ mode \in {"up", "down", "halted"}

\* The runnable queue, the queued flags and the thread states always tell the
\* same story: a thread is in the queue exactly once iff it is flagged queued
\* iff it is RUNNABLE, and the only RUNNING thread is `current'.  The code
\* keeps the three by hand in enqueue_runnable, remove_runnable, choose_next,
\* complete_waiter and their callers.
RunQueueMatchesStates ==
  /\ \A i, j \in 1 .. Len(runq) : runq[i] = runq[j] => i = j
  /\ \A t \in Threads :
       /\ threads[t].queued <=> \E i \in 1 .. Len(runq) : runq[i] = t
       /\ threads[t].queued <=> threads[t].state = "RUNNABLE"
       /\ mode = "up" => (threads[t].state = "RUNNING" <=> t = current)

\* Every entry of a waiter list is an active, uncompleted, linked record that
\* names this event and this position (remove_waiter moves the last entry).
ListedRecordsAreLinked ==
  \A e \in Events : \A i \in 1 .. Len(events[e].waiters) :
    LET r == events[e].waiters[i] IN
      /\ records[r].linked
      /\ records[r].event = e
      /\ records[r].index = i

LinkedRecordsAreListed ==
  \A r \in Records : records[r].linked =>
    /\ records[r].active
    /\ records[r].completion = "FAILED"
    /\ records[r].thread \in Threads
    /\ records[r].event \in Events
    /\ events[records[r].event].live
    /\ records[r].index \in 1 .. Len(events[records[r].event].waiters)
    /\ events[records[r].event].waiters[records[r].index] = r

\* A wait record and the thread that waits name each other.
RecordsMatchThreads ==
  /\ \A r \in Records : records[r].active =>
       records[r].thread \in Threads /\ threads[records[r].thread].wait = r
  /\ \A t \in Threads : threads[t].wait # None =>
       records[threads[t].wait].active /\ records[threads[t].wait].thread = t
  /\ \A t \in Threads : threads[t].state = "BLOCKED" <=>
       threads[t].wait # None /\ records[threads[t].wait].linked

\* A thread is BLOCKED exactly while its wait record stands in the waiter list
\* of the event it names, so no thread blocks where no signal or timeout finds
\* it, and no list keeps a record whose wait is over.
WaitersMatchRecords ==
  ListedRecordsAreLinked /\ LinkedRecordsAreListed /\ RecordsMatchThreads

\* The object table and the tables it points into agree: a handle that
\* resolves leads to a live thread or event that names that object slot and
\* generation, and every live thread and event is named by its object.
HandlesNameTheirTargets ==
  mode = "up" =>
    /\ \A o \in Objects :
         /\ objects[o].type = "THREAD" =>
              /\ objects[o].target \in Threads
              /\ threads[objects[o].target].state # "FREE"
              /\ threads[objects[o].target].slot = o
         /\ objects[o].type = "EVENT" =>
              /\ objects[o].target \in Events
              /\ events[objects[o].target].live
              /\ events[objects[o].target].slot = o
    /\ \A t \in Threads : threads[t].state # "FREE" =>
         LET o == threads[t].slot IN
           /\ objects[o].type = "THREAD"
           /\ objects[o].target = t
           /\ objects[o].generation = threads[t].generation
           /\ objects[o].pub = threads[t].pub
    /\ \A e \in Events : events[e].live =>
         LET o == events[e].slot IN
           /\ objects[o].type = "EVENT"
           /\ objects[o].target = e
           /\ objects[o].generation = events[e].generation

\* The waits that hold a pin on object o.
Pins(o) == {r \in Records : records[r].active /\ records[r].slot = o}

\* The reference count of an event object is one for the object and one for
\* each wait record that has not been released, and the event those records
\* name is still the one that was waited on: closing and destroying an event,
\* in whatever order with waits, wake-ups and timeouts, neither frees it under
\* a waiter nor leaks a reference.
PinsKeepEvents ==
  /\ \A o \in Objects : objects[o].type = "EVENT" =>
       objects[o].refs = 1 + Cardinality(Pins(o))
  /\ \A r \in Records : records[r].active =>
       /\ objects[records[r].slot].type = "EVENT"
       /\ objects[records[r].slot].target = records[r].event
       /\ objects[records[r].slot].generation = records[r].generation
       /\ events[records[r].event].live
  /\ activeWaits = Cardinality({r \in Records : records[r].active})

\* No lost wake-up: an event that is signaled has no waiter, except while the
\* loop of signal_event is waking them.
NoLostWakeup ==
  \A e \in Events : events[e].signaled /\ events[e].waiters # <<>> =>
    loop.op = "wake" /\ loop.event = e

\* While a finite wait services the timeouts of others, the event it is about
\* to block on stays live and unsignaled, so the repeated tests of
\* prepare_wait_record cannot turn out differently.
WaitTargetStaysOpen ==
  loop.op = "pollwait" =>
    LET e == loop.event IN
      /\ events[e].live /\ ~events[e].signaled
      /\ objects[events[e].slot].type = "EVENT"
      /\ objects[events[e].slot].pub # 0 /\ ~objects[events[e].slot].closed

\* An event outlives the waits on it, from the test before a wait blocks until
\* the woken thread has released its record (wait_one, try_destroy_event,
\* finish_wait).
EventsOutliveWaits == PinsKeepEvents /\ WaitTargetStaysOpen

\* The fixed arrays are large enough: when a thread is about to wait there is
\* a free wait record and a place in every waiter list, and the runnable
\* queue never has more than MaxThreads entries.
CapacitySuffices ==
  /\ Running /\ mode = "up" => FreeRecords # {}
  /\ Running => \A e \in Events : Len(events[e].waiters) < MaxThreads
  /\ Len(runq) < MaxThreads

-----------------------------------------------------------------------------
(* Action properties.                                                      *)

\* A wait is completed once.  A completed record keeps its result until its
\* own thread releases it, and a timeout never completes a wait before its
\* deadline or one without a deadline.
WaitsCompleteOnce ==
  [][\A r \in Records :
       /\ records[r].active /\ records[r].completion # "FAILED" =>
            \/ records'[r].completion = records[r].completion
            \/ ~records'[r].active /\ records[r].thread = current
       /\ records[r].completion # "TIMEOUT" /\ records'[r].completion = "TIMEOUT" =>
            records[r].armed /\ records[r].deadline <= now]_vars

\* Stale handles: until the 16-bit generation of an object slot wraps around
\* or the scheduler is initialised anew, the generation never goes back, and a
\* handle of a generation the slot has already had and that no longer resolves
\* does not come to resolve again.
StaleHandlesStayStale ==
  [][mode = "up" =>
       \A o \in Objects : objects[o].generation # GenerationModulus - 1 =>
         /\ objects'[o].generation >= objects[o].generation
         /\ \A h \in Handles :
              /\ h.slot = o
              /\ h.generation <= objects[o].generation
              /\ ~Resolves(h)
              => ~Resolves(h)']_vars

\* A thread control block is zeroed only when no queue, wait record or
\* waiter list refers to the thread and no handle to it is open.
ReclaimIsSafe ==
  [][\A t \in Threads :
       mode' = "up" /\ threads[t].state # "FREE" /\ threads'[t].state = "FREE" =>
         /\ t # current /\ t # current'
         /\ threads[t].wait = None
         /\ \A i \in 1 .. Len(runq') : runq'[i] # t
         /\ \A h \in Handles : h.type = "THREAD" /\ Resolves(h)' =>
              Target(h)' # t]_vars

-----------------------------------------------------------------------------
(* Liveness.                                                               *)

\* The ways a running thread gives up the CPU of its own accord.
GiveUpCpu == Yield \/ Terminate \/ \E h \in Handles : WaitInfinite(h)

\* The CPU executes the call in progress to its end (weak fairness of the
\* steps inside one call), and, the assumption every cooperative scheduler
\* makes, each thread gives up the CPU again and again.  Nothing is assumed of
\* PollTimeouts: no code outside the finite wait calls it.
Fairness ==
  /\ WF_vars(WakeNext)
  /\ WF_vars(ServiceNext)
  /\ WF_vars(ServiceDone)
  /\ WF_vars(FinishWait)
  /\ SF_vars(GiveUpCpu)

FairSpec == Spec /\ Fairness
TimedSpec == FairSpec /\ WF_vars(Tick)

\* Round robin: a runnable thread is eventually dispatched (or discarded),
\* unless the scheduler halts.
RunnableThreadsRun ==
  \A t \in Threads :
    (mode = "up" /\ threads[t].state = "RUNNABLE")
      ~> (threads[t].state # "RUNNABLE" \/ mode # "up")

\* A wait that was signaled or timed out returns to its caller: the record is
\* released, and with it the pin on the event.
CompletedWaitsReturn ==
  \A r \in Records :
    (mode = "up" /\ records[r].completion # "FAILED")
      ~> (~records[r].active \/ mode # "up")

-----------------------------------------------------------------------------
(* What the documentation says and the code does not do.                   *)

\* docs/SYNTHETIC_COOPERATIVE_SCHEDULER.md: "finite wait deadlines are
\* serviced cooperatively through the configured scheduler clock", "A timeout
\* removes the waiter ... and returns WAIT_TIMEOUT".
ExpiredWaitsComplete ==
  \A r \in Records :
    (mode = "up" /\ records[r].armed /\ records[r].deadline <= now)
      ~> (~records[r].active \/ records[r].completion # "FAILED" \/ mode # "up")

\* docs/KERNEL32_WAITSINGLEOBJECTEX_BOOTSTRAP.md: the wait routine "supports
\* zero/finite/INFINITE timeouts": a finite wait ends with a result.
FiniteWaitsDoNotHalt == [][loop.op = "pollwait" => mode' # "halted"]_vars

\* docs/SYNTHETIC_COOPERATIVE_SCHEDULER.md: "Lookup validates the magic, type,
\* slot, generation, and live bit, rejecting invalid, stale, and wrong-type
\* handles" with a generation in bits [47:16].
StaleHandlesAreRejected ==
  [][mode = "up" =>
       \A h \in Handles :
         h.generation <= objects[h.slot].generation /\ ~Resolves(h)
           => ~Resolves(h)']_vars
=============================================================================
