# guideXOS_NET10: a TLA+ verification project

The repository boots a .NET 10 NativeAOT payload from UEFI: a loader maps the
PE image, supplies the Windows imports the runtime asks for (kernel32, the CRT,
COM) from its own C and assembly, and runs the managed entry point on a
cooperative scheduler. All of it is in `src/src/Gate4Harness`.

The project models the parts that keep state or compute what the payload relies
on, checks them with TLC on small instances, and proves with TLAPS, for every
size, the invariants and refinements of the scheduler, of the virtual memory, of
the state and memory of threads, of the heap and of the exception dispatch.

## Inventory

| Component | State | Operations | What is hard | What makes it correct |
|---|---|---|---|---|
| Scheduler, `scheduler_foundation.c` | thread control blocks, run queue, event table, wait records, object table with generations, `current` | create, resume, yield, terminate, reclaim; create/set/reset/close/destroy event; wait with and without a deadline; teardown | threads interleave at every call; a wake-up, a timeout, a close and a destroy may hit the same wait; slots and handles are reused; fixed arrays | queue, states and records agree; no lost wake-up; waits complete once; no object dies under a waiter; stale handles are refused; runnable threads run |
| Event and wait API, `event_api.c`, `create_event_w.c` | none of its own | SetEvent, ResetEvent, WaitForSingleObjectEx | tests the event, services other timeouts, then blocks on the earlier test | a wait ends as signaled, timed out or failed, as the event history says |
| Thread API, `create_thread.c`, `set_thread_priority.c` | last error | CreateThread, ResumeThread, SetThreadPriority | thin | a refused creation leaves nothing behind |
| Context switch, `scheduler_context.S` | saved contexts | yield, block, terminate, first entry | which registers survive, self-yield | a thread resumes where it stopped |
| Virtual memory, `virtual_memory.c`, `vm_substrate.c` | page tables, leaf entries, call in progress | VirtualAlloc, VirtualFree, VirtualQuery | any allocation of a multi-page commit may fail; rollback; stale TLB entries | calls are atomic; tables, mappings and frames agree |
| Memory accounting, `memory_accounting.c`, `global_memory_status_ex.c` | retained firmware map, physical ledger, commitments, snapshots | acquire and classify the map; allocate, free; reserve, commit, release; GlobalMemoryStatusEx | the buffer for the map changes the map; the map grows between calls; counters apart from tables; overflow | one buffer is kept; the compensated map is what the firmware has left; load and commit agree with it |
| Thread memory, `scheduler_foundation.c`, `vm_substrate.c` | pages of each thread, region ledger | six allocations and a registration per creation; reclamation from four places | an allocation refused in the middle; freed with the size it was allocated with | nothing freed is named, nothing leaks, VirtualQuery knows the live stacks |
| Thread environment: FLS and critical sections in `gate4_loader.c`, `com_api.c`, `nativeaot_callback_bridge.c` | slots in the control block, global slots before the scheduler runs, apartment counts, owner and recursion, registration | FlsAlloc/Get/Set/Free, CoInitializeEx, CoUninitialize, the four section calls, register, ready, invoke | the move from the global array to the control blocks; reuse of a control block; nested calls at their limit | a thread sees what it stored and nothing else; counts equal the calls |
| CRT heap, `crt_malloc.c` | registry, ring of released blocks, counters | malloc, free | a pool block refused after allocation, double free, address reuse, ring at its limit | live blocks are disjoint, registry and pool agree, double frees are told from unknown pointers |
| CRT on-exit, `crt_onexit.c` | encoded table triple, storage | initialise, register | pointer encoding; a failure after the pool block was obtained; a second initialisation | order kept, nothing lost or shared when a call fails |
| CRT initialisers, `crt_initterm.c`, `crt_initterm_e.c` | the walk, the globals for a fault | `_initterm`, `_initterm_e` | null entries, early stop, a callback that faults, the trace at its limit | each entry once, in order; a fault names its initialiser |
| Exceptions: `vectored_handler.c`, `exception_entry.S`, `exception_context.c` | registry, two guards, frame and context in progress | register first or last; dispatch; nested exception; resume | handlers that register, fault and change a shared context | order as asked; resumption only with an approved context; guards fall with the dispatch |
| Streams: `standard_handle.c`, `write_file.c`, `platform_multibyte.c` | stream object, standard handles | GetStdHandle, WriteFile, MultiByteToWideChar | short and failed writes; a count inside the buffer; edges of UTF-8 | what is counted was sent; what is written decodes the source |
| Time: `platform_time.c`, `platform_performance.c` | calibration, extension of a wrapping timer | GetSystemTimeAsFileTime, counter, GetTickCount64, the scheduler's clock | leap years, sign of the zone, wrap-around | file time is the instant; the counter is the time passed |
| Platform queries: `platform_*.c` | published snapshot | seven queries on processors, nodes, groups, jobs | output ranges, lengths, two outputs that overlap | a refused call writes nothing; the length asked for suffices |
| Modules and strings: `platform_get_module_handle.c`, `_load_library.c`, `_get_proc_address.c`, `_environment.c`, `crt_str*.c` | main module facts | lookups by name and address, environment, strlen, strcmp, `_stricmp` | strings that run into unreadable memory; two calls that check no pointer | checked scans stay inside, the others with their string; lookups agree |
| Loader, `gate4_loader.c` | image, import records, stubs, TLS block | map, relocate, bind, make the TLS block | order of phases; fields read before and after relocation; symbols counted across modules; one page for all stubs and one for any template | the image is the file, moved and bound; overruns are bounded |

How they interact: the payload calls an import thunk; the thunk calls the C
function of a component in the calling thread. The scheduler is entered through
the event, thread and wait imports and switches stacks in assembly; there are
no timer interrupts and no second processor, so a component's call runs to its
end before another starts, and threads interleave only at yields, blocking
waits and terminations. The scheduler obtains a thread's pages through
callbacks into the loader's tracked allocator, which writes the physical ledger
of the memory accounting; the virtual memory calls use the same ledger for
data pages and page tables. Imports that follow a pointer of the payload test it
against the image regions that the loader recorded, except `strcmp` and the
report of `GetEnvironmentVariableW`.

`PROJECT.json` lists every component with its status, and under `hazards` what
is hard to test, at the line where it bites.

## Modules

| Module | Models |
|---|---|
| `Scheduler` | `scheduler_foundation.c`, the wait path of `event_api.c`, and what the stubs of `scheduler_context.S` do with the results |
| `EventWaits` | the contract of events and waits: an event is set or not; a wait is waiting, signaled or timed out |
| `SchedulerRefinement` | the mapping from `Scheduler` to `EventWaits` |
| `VirtualMemory` | `virtual_memory.c`, the commit transaction and page tables of `vm_substrate.c`, the arena of `memory_accounting.c`, the page allocator of `gate4_loader.c` |
| `AddressSpace` | the contract of VirtualAlloc and VirtualFree: disjoint regions, backed pages, atomic calls |
| `ThreadResources` | the memory of a thread: `scheduler_foundation.c` with the page callbacks of `gate4_loader.c` and the region ledger of `vm_substrate.c` |
| `ThreadEnvironment` | FLS, COM apartments, critical sections and the callback bridge |
| `Loader` | mapping, relocation, import binding and the boot thread's TLS block |
| `ImageMemory` | the address space as the imports see it: words, canonical addresses, image regions; used by the next four groups |
| `CrtHeap`, `OnExit`, `Initterm` | malloc and free; the on-exit tables; the walks over initialiser tables |
| `Exceptions` | vectored handlers, exception entry, dispatch and resumption |
| `Queries`, `Modules`, `Streams` | machine queries; names, modules, environment and C strings; standard handles, WriteFile and UTF-8 conversion |
| `PlatformTime`, `MemoryAccounting` | calendar and counters; firmware map, ledger and memory status |
| `MCScheduler`, `MCVirtualMemory`, `MCThreadResources` | instances of one component for TLC |
| `MCMachine`, `MCCrt`, `MCPlatform` | instances of several components for TLC |
| `SchedulerProofs` | theorems about `Scheduler`: waiter lists, run queue and wait records |
| `SchedulerObjectProofs` | handles and references; `Scheduler` implements `EventWaits` |
| `VirtualMemoryProofs` | theorems about `VirtualMemory`; it implements `AddressSpace` |
| `ThreadProofs` | theorems about `ThreadResources` and `ThreadEnvironment` |
| `PlatformProofs` | lemmas on induction, sums, division and bits that the next three use; theorems about `PlatformTime` and `MemoryAccounting` |
| `CrtProofs` | theorems about `CrtHeap`, `OnExit`, `Initterm` and `Exceptions` |
| `ImportProofs` | theorems about `Streams`, `Modules` and `Queries` |
| `LoaderProofs` | theorems about `Loader` |

`MCMachine`, `MCCrt` and `MCPlatform` compose components that share only
constants: the image, or nothing. Their product would multiply states without an interaction to find, so
a variable `focus`, chosen in the initial state, says which component the
behaviour uses; the others stay in an initial state.

### Scheduler

Each C array is a function from slots to records, a pointer is a slot or
`None`. `objects` is the handle table; a handle is its type, slot and
generation. `runq` is `runnable_queue`, `events[e].waiters` the waiter list,
`records` the wait records, `loop` the wake-up loop in progress.

An action is a call of the running thread, including everything the C function
and the assembly stub around it do: a blocking wait takes the record, pins the
object, links the waiter, chooses the next thread and switches. Two loops of
the code, the wake-up of all waiters of a manual-reset event and the walk over
expired deadlines, are stepped one entry at a time (`WakeNext`, `ServiceNext`);
no other action is enabled meanwhile. A wait that fails, or a termination with
no thread to switch to, reaches `ud2` in the stub: `mode = "halted"`.

Calls that are refused change nothing but the last error and are not actions.
Left out: saved register contexts, the pages of a thread (in `ThreadResources`;
here their failure is the parameter of `CreateSuspendedThread`), priorities, which nothing reads,
statistics counters.

### Virtual memory

`reservations`, `commitments` and the four counters are the arena; `tables` is
the frame of each paging structure, `pte` the leaf entries, `ledger` the frames
obtained from the firmware, `tlb` what the processor has cached (external).
`op` holds the local variables of `gxos_vm_commit_range`; its steps are: look
at a page, obtain a frame, obtain a missing table, map, record, or roll back.
Every allocation may succeed or be refused, at each step anew. VirtualFree
checks everything before it changes anything, so it is one step. Arguments are
bytes, and the rounding to pages is modelled.

### Thread memory

`ledger` is the set of live entries of the physical ledger, a block of pages
each; `regions` the live entries of the region ledger; `tcb` what a thread
control block says it owns. Of the scheduler only what decides about memory is
kept: whether a thread exists, is done, has its handle open, and whether its
canary is intact. `op` is the creation in progress: stack, canary page, four
environment pages, registration of the stack. Every allocation may be refused,
and each error return is an action of its own with the pages it frees. The
firmware (external) hands out any block of free pages. `PageFree` is the free
callback as it is: it frees a block of one page.

### Thread environment

`tcbs` is what a control block holds of local storage and apartments, with an
identity that tells the threads of a reused block apart; `flsGlobal` and
`flsMode` are the storage from before the scheduler exists and the switch to the
control blocks, which copies the boot thread's values. `sections` has readiness,
ownership and recursion: the owner is the same constant for every thread, so
that a section is owned or not. `stored`, `entered` and `apartments` are history
variables kept per thread, against which the invariants compare. `fail` halts
(`envHalted`). Threads keep the calling discipline of sections that the imports
demand of the payload (leave what was entered).

### Loader

`payload` is the file, word by word, with the fields of its headers decoded;
`image` what `load_pe_image` fills in. The phases follow `efi_main`: allocate,
map one section per step, relocate one block per step, bind one symbol per step,
make the TLS block; each refusal calls `fail` and halts. Words are pointers,
and relocation is arithmetic modulo `AddressSpan`. The TLS start is taken from
the file before relocation and its callbacks after, as in the code. The payloads
of the instance are one file that loads and others that differ from it in a place
or two, some of which load as well. What a linker guarantees and the loader does
not test is stated as `PayloadsAreLinked`.

Fail-fast stubs and the TLS template go into one page each, and the code looks at
the end of neither: stub number 128 is written behind the page, and so is the rest
of a template of more than 4096 bytes. `strays` is the set of addresses written in
this way. Where one of them lies in the image or in the stubs, the write changes
the word there; the gs area and the TEB, allocated and cleared after the copy, may
turn any stray word into 0. What else an overrun may hit (the file buffer, the
loader's own data) is not in the model, which follows the image as if the loader
went on. The payload of the repository imports 124 symbols
(`docs/DEPENDENCY_CENSUS.md`), so its stubs fit.

### C runtime

`CrtHeap`: `records` is the registry, with the counters kept beside it;
`releases`, `releaseCount` and `nextRelease` are the ring of released pointers;
`pool` is what the pool service has outstanding (external: it never returns a
block that overlaps an outstanding one, and it takes back what it handed out). A
malloc is two steps, `MallocCall` up to the pool service and then
`MallocSucceeds` or `MallocRollback`, so that what comes back may be misaligned,
out of range or protected. `freed` is a history variable: the last pointers
freed, in order, against which the verdict of the ring is compared.

`OnExit`: `tables` holds the three encoded pointers of each table, `slots` the
words of the storage. The encoding is the code's, rotation and exclusive or
with the cookie, on words of `WordBits` bits. `RegisterFirst` obtains storage,
`RegisterAppend` uses it, `RegisterRefused` is every refusal with what it gives
back. The code neither grows a full table nor runs the functions.

`Initterm`: `walk` is the call in progress, `active`, `current` and `phase` the
globals that `fault_handler` prints. `platform_initterm` clears them, its twin
does not. An initialiser may return, fail or fault.

`Exceptions`: `vehRecords` and `vehOrder` are the registry, `entryActive` and
`registryActive` the two guards, `frame` and `context` the exception in
progress. A handler is external code: it may change the context, register
handlers, raise an exception or return either verdict. `asked` and `unasked`
split the snapshot of the order that the dispatch takes.

### Platform imports

`Queries`: the payload's memory is the function `bytes`; a query is a function
of the published facts and that memory (`Run`), so that the invariants can ask
of every reachable memory what every call would do. Outputs have scaled sizes;
the job query answers in two words, the flags and the rate, weight or range that
its mode calls for. The test that the memory context is configured is left out of
every query: the loader configures it before the payload runs.

`Modules`: `Text` is the image; a scan returns the characters and the addresses
it touched. `held` are the handles that were given out, with the argument.
`strcmp` and the preview that `GetEnvironmentVariableW` makes of a name check no
address, so they read through `Load`: the image, what is mapped around it (one of
`Surroundings`), or a fault, which halts. A wide character is 16 times its second
byte plus its first, since the characters of the instance are that small.

`Streams`: bytes have their real values, and UTF-8 is decoded by the code's
tests on them. The sink of a WriteFile takes any number of bytes up to the
length, or fails. Conversions make two passes as in the code, count and write.
The refusal of a sink that reports more bytes than it was given is left out: the
serial sink counts what it sent.

`PlatformTime`: the conversion loops over years and months are recursive
functions, checked against the closed formula of the calendar. A time is in whole
seconds: the nanoseconds of the firmware, which the code checks and divides by
100, are left out, and its two reserved fields are one refusal. The counter is
extended from a wrapping timer at each read; `late` records whether two reads
were more than half a period apart.

`MemoryAccounting`: `acquisition` steps through size query, allocation, fetch
and retry, where the firmware may answer with another map each time. `ledger`
and arena are reduced to what the counters depend on.

## Runs

| Run | Question | Instance |
|---|---|---|
| `scheduler` | do the tables stay consistent, is no wake-up lost, and does the scheduler implement `EventWaits` | 3 threads, 1 event, 4 objects, clock at its limit |
| `waits` | is a wait completed once, and by a timeout only when it is due; do runnable threads run and completed waits return | 3 threads, 1 event, 3 objects, clock 0..2, timeouts 1 and 2 |
| `handles` | does reuse of slots revive handles or free what is in use | 2 threads, 2 events, notification and stream, 3 object slots, generations 1 and 2 |
| `expired_waits` | (violation) does an expired wait complete | 2 threads |
| `finite_wait_halts` | (violation) does a finite wait end with a result | 2 threads |
| `stale_handles` | (violation) is every stale handle refused | 2 threads, generations 1 and 2 |
| `virtual_memory` | do arena, mappings, frames and TLB agree at every step; are the calls atomic, placed lowest first, and do they return | 3 reservations, 5 pages, 2 commitments, 5 tables, 8 ledger entries, 9 frames |
| `machine` | does any path of a thread's creation, failure or reclamation free too much or too little; does its local state stay its own; is the loaded image the file, and what does the loader write beyond its pages | 4 threads, 25 pages, 2 region entries, 3 identities; 2 threads, 2 slots, 1 section; 28 payloads, 3 bases, 3 stubs and 2 words to a page |
| `stacks_reclaimed` | (violation) are the pages of a stack given back | 4 threads, 26 pages |
| `crt` | do heap registry, ring and pool agree; do on-exit tables and initialiser walks keep order; do exceptions resume only as approved | 2 heap slots; 2 tables, 5 cookies; 6 table entries; 3 handlers |
| `platform` | do queries, scans, writes, conversions, clocks and memory status tell the truth for every pointer, length, date and allocation of the instance | words of 5 bits, an image of 16 addresses |
| `contention` | (violation) is a section that another thread holds refused | 2 threads, 1 section |

Several properties are conjunctions of named parts that belong to one claim,
and each module defines the parts before the whole: `EventsOutliveWaits`, `PagesAreAccounted`,
`ThreadStateIsFaithful`, `LoadedImageIsFaithful`, `HeapIsConsistent`,
`TablesAreFaithful`, `WalksAreFaithful`, `QueriesAreTruthful`,
`StringsAreReadWhole`, `AnswersAreConfirmed`, `StreamsAreFaithful`,
`StatusIsTruthful`, and `ArenaIsValid`, which contains the type invariant.

Bounds. Three threads are the fewest with two waiters on one event and a third
that signals, which is what the removal of an entry from the middle of a list
needs. The wait records and the lists have as many entries as there are
threads, in the code too. `ClockMax` is the value at which the code saturates a
deadline: at 0 every finite wait has expired when it is next polled, which is
how `scheduler` gets several expired waiters at once; at 2 `waits` has
deadlines before, at and beyond the limit. Its three object slots hold the boot
thread and either two more threads, which is what round robin needs, or one and
an event, which is what the return of a wait needs. One or two generations wrap
within the run. The handle run makes three slots serve six kinds of objects, so
that every slot is reused by another type.

For the memory calls, five pages with two bytes per page, two pages per granule and two per table
give unaligned ends, holes and several tables; two commitments in three
reservations and eight ledger entries are reached in the middle of a commit, so
that each of its steps is also the one that fails. `LowestFrameFirst` explores
one choice of free frame; the others differ by a renaming, since nothing refers
to a free frame. `LowestFit` does the same for the memory of threads. 25 pages
hold the boot environment and three workers of two stack pages and five single
pages, so that with two region entries the third worker gets as far as a
registration that is refused; a region identity wraps after two. The thread
environment creates three threads in two control blocks, so that one is reused
while the other lives, and nests calls to the limit of two. The loader's image
moves up, moves down and stays; its relocations have both entry types, its
imports symbols with a function and symbols that get a stub, the same name in two
modules. One base is just behind the stub page, and another just behind a page
that the TLS block may get; a payload with four symbols puts its last
stub into the image, one with five is refused, and templates of three words
overrun a page of two into the image or onto stubs.

In the heap, two slots and counters that stop at 11 let the ring wrap several
times before the counters reach their limit, and one protected address and the
end of the address space make the pool return blocks that must be refused. Five
cookies rotate by different amounts. The trace of a walk is cut off within the
longer tables. Three handlers, with a registration from inside a handler, are
the fewest that tell the three orders of first, last and snapshot apart; the
traps and contexts include every field that may and may not be changed. The
platform image has data, constants, code that cannot be read, code that can and
a gap, and the pointers passed lie at, across and beyond every end of a region,
with nothing around the image or with memory that continues a string; the jobs
have each mode of rate control with a valid and an invalid number;
the bytes converted are both sides of every edge of the UTF-8 table; the dates
are around leap days, centuries and ends of years; the timer wraps
three times. Two calls suffice for streams and names, since one call's
outputs are the other's inputs; one query suffices, because its invariants
quantify over every next call.

Deadlock checking is off for the scheduler, which stops for good when it halts,
and for `machine`, `crt` and `platform`, where `fail` halts, pages run out and
the bounds on calls and counters end every behaviour; it is on for the memory
calls.

Fairness. `waits` assumes that the processor executes the steps inside one
call (weak fairness of `WakeNext`, `ServiceNext`, `ServiceDone`, `FinishWait`)
and that threads give up the CPU again and again (strong fairness of
`GiveUpCpu`), which is what a cooperative scheduler relies on; nothing is
assumed of `PollTimeouts`, since no code outside the finite wait calls it.
`virtual_memory` assumes only that a call in progress goes on.

## Findings

* An expired finite wait may stay blocked for ever: only another finite wait
  polls deadlines (`expired_waits`).
* A finite wait made when no other thread is runnable fails and halts the
  machine instead of timing out (`finite_wait_halts`).
* Generations are 16 bits wide, the documents give the handle 32; after 65535
  reuses of a slot an old handle resolves again (`stale_handles`).
* The stack of a thread is allocated as `GXOS_SCHEDULER_STACK_PAGES` pages and
  freed through a callback that frees one page. The tracked allocator finds no
  entry of that size, refuses, and its status is ignored: the stack stays
  allocated although `docs/NATIVEAOT_DURABILITY.md` says that threads "reclaim
  their stacks" (`stacks_reclaimed`).
* Every thread has the same identity for critical sections, so a section that
  one thread holds lets another in as if it were a recursive entry;
  `docs/NEXT_STAGE_BLOCKERS.md` promises "deterministic contention failure"
  (`contention`).

Limits of the code are stated inside the properties, where a reader should
know them. When the memory map outgrows the largest buffer on a retry,
`gxos_uefi_memory_map_acquire` returns without freeing the buffer of the
attempt before (`AcquisitionKeepsOneBuffer`). And once the trace of a walk is
cut off, the globals that a fault prints are no longer updated
(`FaultNamesInitialiser`). The loader accepts more symbols and a longer template
than its pages take: the loaded image is the file except at `strays`, and these
are bounded (`LoadedImageIsFaithful`, `OverrunsAreBounded`). `strcmp` and the
preview of an environment name leave the image when their string does
(`StringsAreReadWhole`). No document of the repository says otherwise, so they
are not findings.

## Proofs

Every safety invariant, action property and refinement that a run checks is
also proved; only liveness is not. Every theorem holds for all values of the
constants that satisfy the named assumptions of its module: any number of
threads, events, pages, table entries, sections or handlers, any generation
modulus, clock, word size or address space. TLC evaluates the assumptions on the
instances. They are of three kinds:

* Sizes are natural numbers, where the code needs it not 0; sets that model fixed
  arrays are finite; inputs are numbers or sequences of bytes (`BoundsAssumption`,
  `ArenaAssumption`, `ResourceAssumption`, `EnvironmentAssumption`,
  `HeapAssumption`, `VehAssumption`, `InittermAssumption`, `StreamsAssumption`,
  `ModulesAssumption`, `QueryAssumption`, `TimeAssumption`,
  `AccountingAssumption`).
* What surrounds the code keeps its contract: regions of the image and of the
  firmware's allocations lie where they are said to and do not overlap
  (`ImageAssumption`, `LayoutAssumption`), tables that are initialised before the
  first call are well formed (`OnExitAssumption`), an image lies within the
  address space (`LoaderAssumption`), and the payload is what a linker makes
  (`PayloadsAreLinked`): its sections do not overlap, every imported symbol has a
  slot of its own that holds what the lookup table holds, and the pointers of the
  TLS directory are relocated once. The loader tests none of these; the theorem
  says what it makes of them.
* `PowersOfTwo` states the recurrence of `^` on the exponents in use, because the
  provers do not know exponentiation.

An invariant that a run checks is seldom inductive. For each component the table
names the inductive invariant; its preservation has one step per action.

| Module | Proved | Inductive invariant |
|---|---|---|
| `SchedulerProofs` | `TypeOK`, `NoLostWakeup` | `WaitInv` |
| | `RunQueueMatchesStates`, `WaitersMatchRecords`, `CapacitySuffices`, action property `WaitsCompleteOnce` | `QueueInv` |
| `SchedulerObjectProofs` | `HandlesNameTheirTargets`, `EventsOutliveWaits`, action properties `ReclaimIsSafe`, `StaleHandlesStayStale` | `ObjectInv` |
| | refinement `ImplementsEventWaits` | `ContractInv` |
| `VirtualMemoryProofs` | `ArenaIsValid`, `MappingsMatchCommitments`, `NoStaleTranslation`, `FramesHaveOneOwner` | `MemoryInv` |
| | refinement `ImplementsAddressSpace` | `CallIsAtomic` |
| `ThreadProofs` | `PagesAreAccounted`, `RegionsMatchStacks` | `ResourceInv` |
| | `ThreadStateIsFaithful` | `EnvInv` |
| `CrtProofs` | `HeapIsConsistent`, `DoubleFreesAreRecognised` | `HeapInv` |
| | `HandlersRunInOrder`, `OnlyApprovedContextsResume`, `GuardsFollowTheDispatch`, and that the handler registry passes its own validation | `VehInv` |
| | `WalksAreFaithful` | `WalkInv` |
| | `TablesAreFaithful` | `ExitInv` |
| `PlatformProofs` | `CounterTracksHardware` | `PerfInv` |
| | `FiletimeIsTheInstant` | none: a theorem about the operators |
| | `AcquisitionKeepsOneBuffer` | `AcquisitionInv` |
| | `StatusIsTruthful` | `LedgerInv`, `StatusInv` |
| `ImportProofs` | `StreamsAreFaithful` | `StreamInv` |
| | `ConversionsAreFaithful` | `ConversionInv` |
| | `StringsAreReadWhole`, `AnswersAreConfirmed` | `ModulesInv` |
| | `QueriesAreTruthful` | `QueryInv` |
| `LoaderProofs` | `LoadedImageIsFaithful` | `LoadInv` |
| | `OverrunsAreBounded` | `StrayInv` |

Why the invariants are as they are:

* `WaitInv`. `RemoveWaiter` fills the hole with the last entry and rewrites that
  record's index, so whether a list becomes empty, or a later timeout removes the
  right entry, depends on lists and records agreeing; and a finite wait blocks on
  a test made before it serviced other timeouts. `WaitInv` adds that agreement,
  that the wake loop works on a live, signaled, manual-reset event, and that the
  target of a finite wait stays live and unsignaled.
* `QueueInv` says of every thread what its state, its place in the queue and its
  wait record are to each other. It has to speak of the halted machine too: the
  thread that `ud2` stops is neither running nor queued. Capacity follows by
  counting: active records map one to one to blocked threads, and the running
  thread is not one of them.
* `ObjectInv` equates the reference count of an event with one for the object
  plus the number of waits that pin it, a cardinality; each action adds or
  removes one member or none.
* `ContractInv` is what the mapping reads: a wait without a result is still in a
  list. The proof maps the initial state and then each action to a step of the
  contract or a stutter; a wake-up of several waiters maps to one contract step
  per loop iteration.
* `MemoryInv` adds to the checked invariants what `gxos_vm_commit_range` relies
  on: its range lies in one reservation that stays live, the frame in hand is
  the one it mapped, and the pages it would roll back are the ones it created;
  and that a frame is owned by name, so that a count of owners is not needed.
* `CallIsAtomic` says that a commit in progress can tell its pages from those
  that were there before. The other half of this refinement is that the placement
  scan of `gxos_vm_arena_reserve_any` returns the lowest fit. It is a recursive
  function, and the argument is by minimal counterexample: a least candidate that
  the scan skips would lie between a conflict and its end.
* `ResourceInv` follows memory by name: stack, canary, environment page, or local
  of the creation in progress. Blocks of the ledger are disjoint, every name has
  its own, every single page has a name. The exception is the finding of
  `stacks_reclaimed`: a block of a whole stack may be left without a name.
* `EnvInv` adds that no control block has a value in a slot that is not
  allocated or from before the adoption of the slots, that there are no other
  threads before that, and that only live threads are inside a section. That a
  correct sequence of calls never fails follows from the recursion count being
  the number of entries, a cardinality again.
* `HeapInv` adds what the steps of a malloc know between the pool call and the
  registration, and where in the ring the i-th last released pointer stands. The
  search of `RecomputeLargest` is a greatest element (`GreatestExists`).
* `VehInv` follows the frame from the trap to the resumption, and says that the
  order is a permutation of the registered slots sorted as the registrations
  asked, also while a handler registers another.

* `WalkInv` ties the place of a walk to the calls made so far and to the globals
  of a trace that may be cut off.
* `ExitInv` says that storage belongs to one table and that the three encoded
  pointers of a table decode to a begin, an end and a limit in order. Encoding is
  a rotation of an exclusive or; that decoding undoes it is proved from the sums
  of bits that define both, for every word size and cookie.
* `PerfInv` says that the timer was last accepted at a known tick and that what
  was added up since is the time that passed less a multiple of the period, which
  is 0 if no read was late: the counter never invents time, and loses it only a
  whole period at a time.
* The calendar theorem compares the closed form for leap days with a count over
  the years, by induction over the year, and the table of days before a month
  with a sum over the months.
* `LedgerInv` writes the allocated bytes as a sum over the entries of the ledger
  plus the committed pages, and what the firmware has left as the rest of the
  classified memory less the bytes lost to rounding; each allocation and release
  changes one member of the sum.
* `ConversionInv` adds to the property only that memory holds bytes. The work is
  in lemmas about UTF-8: a well-formed sequence is the sum of a lead form and
  shifted parts, is taken apart by division, and encodes back to its bytes.
* `ModulesInv` keeps with every handle that was handed out the question that it
  answered. The length of a string is a least element, and a comparison is
  decided at the first difference of two whole strings. A read that checks
  nothing stops within a whole string, whatever surrounds the image, because the
  string has a terminator where the checked scan found it.
* `QueryInv` says that a published snapshot passed `TopologyIsValid`; that no
  query writes anywhere else, and that a retry succeeds, is proved call by call.
  That the rate word of a job is sound follows from the facts having been
  validated by the call that wrote it, and from a range being taken apart again
  by division.
* `LoadInv` has one part per phase. While sections are mapped, a word is that of
  the last section that holds it or of the headers. After n blocks of
  relocations a word has been moved by the number of entries, among those n
  blocks, that name it, a cardinality that the next block adds to; sums are
  reduced at every block and once in the statement, which agree modulo the
  address space. A slot that is bound came from an entry behind the one at hand,
  so that no later symbol overwrites it and none lies in the TLS directory. All
  of it speaks of addresses outside `strays`, a set that only grows.
* `StrayInv` counts, phase by phase, what has been written behind the pages: no
  stub until symbol `StubsPerPage` has no function, no word of the template until
  the end; and each symbol's number is below the limit when its stub is written.

Induction over numbers and finite sets is a lemma over a set, not over a
predicate (`NumberInduction`, `SubsetInduction` in `PlatformProofs`: a set that
has 0 and with n also n + 1 has every number up to a bound), which the provers
can instantiate. Recursive definitions that a proof is about are recursive
functions or sums over sets.

Model-checked only: liveness (`RunnableThreadsRun`, `CompletedWaitsReturn`,
`CallsReturn`), since fairness and ENABLED are out of the prover's reach.

## Plan

Every component with state of its own has its module, and every safety property
its theorem. What could be added is `ContextSwitch`: saved contexts, first
entry, a yield that picks its caller.

## Not modelled

* Which registers a context switch saves: no property here depends on it. The
  branch of the exception entry for frames without RSP and SS, which 64-bit mode
  does not produce.
* `InitializeSListHead`, which stores one zero word; the code has no push or pop.
* The older `gxos_vm_arena_commit` and `_decommit`, the paging audit,
  `paging_destroy` and `map_range`: only tests call them.
* The lookup of an export by name, the checks of import positions that
  `efi_main` makes against constants of one build, and memory other than image
  and stubs that an overrun of the stub page or the TLS page may reach.
* The printing of evidence lines, the gates that compare it, self-tests and
  scheduler proof drivers, stand-alone probes, the managed program, the
  PowerShell build and validation tools, the host tests.
