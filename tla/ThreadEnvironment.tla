------------------------- MODULE ThreadEnvironment -------------------------
(***************************************************************************)
(* What belongs to a thread beside its stack, and the imports that read    *)
(* and write it: fiber local storage (gate4_loader.c over the slots of the *)
(* thread control block), the COM apartment (com_api.c), critical sections *)
(* (gate4_loader.c), and the bridge through which native threads call      *)
(* managed code (nativeaot_callback_bridge.c).                             *)
(*                                                                         *)
(* Of the scheduler only the life of a thread control block is kept: a     *)
(* slot is free, live or terminated, it is zeroed when it is reclaimed and *)
(* when it is used again, and any live thread may be the running one.      *)
(***************************************************************************)
EXTENDS Integers, FiniteSets

CONSTANTS
  EnvThreads,     \* thread slots
  BootThread,     \* the slot of the boot thread
  FlsSlots,       \* 0 .. 63
  FlsValues,      \* values that threads store, not 0
  Sections,       \* critical sections
  MaxIdentity,    \* bound on the threads ever created
  MaxNesting,     \* bound on nested calls; UINT32_MAX in com_api.c
  RuntimeSlot     \* the FLS slot in which the runtime keeps its thread

ASSUME EnvironmentAssumption ==
  /\ IsFiniteSet(EnvThreads) /\ BootThread \in EnvThreads
  /\ FlsValues \subseteq Nat \ {0}
  /\ RuntimeSlot \in FlsSlots
  /\ MaxIdentity \in Nat /\ MaxNesting \in Nat \ {0}

VARIABLES
  tcbs,           \* thread control blocks
  running,        \* g_scheduler->current
  flsGlobal,      \* g_fls_allocated, g_fls_values, g_fls_callbacks
  flsMode,        \* g_fls_scheduler_mode
  sections,       \* the PlatformCriticalSection records
  bridge,         \* g_managed_callback_bridge
  envHalted,      \* fail was called
  stored,         \* history: what each thread stored since the slot's allocation
  entered,        \* history: how often each thread is inside each section
  apartments,     \* history: successful CoInitializeEx calls not yet undone
  nextIdentity

envVars == <<tcbs, running, flsGlobal, flsMode, sections, bridge, envHalted,
             stored, entered, apartments, nextIdentity>>

FreeTcb == [state |-> "free", identity |-> 0,
            has |-> [s \in FlsSlots |-> FALSE], value |-> [s \in FlsSlots |-> 0],
            com |-> 0]
NewTcb(id) == [FreeTcb EXCEPT !.state = "live", !.identity = id]

\* A section before InitializeCriticalSectionEx and after DeleteCriticalSection;
\* the payload enters none of these (external).
NoSection == [ready |-> FALSE, owned |-> FALSE, recursion |-> 0]

EnvInit ==
  /\ tcbs = [t \in EnvThreads |-> IF t = BootThread THEN NewTcb(1) ELSE FreeTcb]
  /\ running = BootThread
  /\ flsGlobal = [s \in FlsSlots |-> [allocated |-> FALSE, value |-> 0]]
  /\ flsMode = FALSE
  /\ sections = [c \in Sections |-> NoSection]
  /\ bridge = [registered |-> FALSE, ready |-> FALSE, count |-> 0]
  /\ envHalted = FALSE
  /\ stored = [t \in EnvThreads |-> [s \in FlsSlots |-> 0]]
  /\ entered = [t \in EnvThreads |-> [c \in Sections |-> 0]]
  /\ apartments = [t \in EnvThreads |-> 0]
  /\ nextIdentity = 2

flsVars == <<flsGlobal, flsMode, stored>>
sectionVars == <<sections, entered>>

-----------------------------------------------------------------------------
(* Threads.  There are none beside the boot thread until the loader has    *)
(* initialised the scheduler, which is when it adopts the FLS slots.       *)

Fresh(t) ==
  /\ stored' = [stored EXCEPT ![t] = [s \in FlsSlots |-> 0]]
  /\ entered' = [entered EXCEPT ![t] = [c \in Sections |-> 0]]
  /\ apartments' = [apartments EXCEPT ![t] = 0]

CreateThread(t) ==
  /\ ~envHalted /\ flsMode /\ tcbs[t].state = "free" /\ nextIdentity <= MaxIdentity
  /\ tcbs' = [tcbs EXCEPT ![t] = NewTcb(nextIdentity)]
  /\ nextIdentity' = nextIdentity + 1
  /\ Fresh(t)
  /\ UNCHANGED <<running, flsGlobal, flsMode, sections, bridge, envHalted>>

\* A yield, a wait or a wake-up: another thread goes on.
SwitchTo(t) ==
  /\ ~envHalted /\ t # running /\ tcbs[t].state = "live"
  /\ running' = t
  /\ UNCHANGED <<tcbs, flsGlobal, flsMode, sections, bridge, envHalted, stored,
                 entered, apartments, nextIdentity>>

\* A worker returns from its entry; the stub switches to another thread.  A
\* thread that returns has left its sections (external: the payload).
ExitThread(t, next) ==
  /\ ~envHalted /\ running = t /\ t # BootThread
  /\ next # t /\ tcbs[next].state = "live"
  /\ \A c \in Sections : entered[t][c] = 0
  /\ tcbs' = [tcbs EXCEPT ![t].state = "terminated"]
  /\ running' = next
  /\ UNCHANGED <<flsVars, sectionVars, bridge, envHalted, apartments, nextIdentity>>

ReclaimTcb(t) ==
  /\ ~envHalted /\ tcbs[t].state = "terminated"
  /\ tcbs' = [tcbs EXCEPT ![t] = FreeTcb]
  /\ Fresh(t)
  /\ UNCHANGED <<running, flsGlobal, flsMode, sections, bridge, envHalted, nextIdentity>>

-----------------------------------------------------------------------------
(* Fiber local storage.                                                    *)

\* fls_adopt_scheduler_storage, once, on the boot thread.
AdoptSchedulerStorage ==
  /\ ~envHalted /\ ~flsMode
  /\ flsMode' = TRUE
  /\ tcbs' = [tcbs EXCEPT
       ![BootThread].has = [s \in FlsSlots |-> @[s] \/ flsGlobal[s].allocated],
       ![BootThread].value = [s \in FlsSlots |->
         IF flsGlobal[s].allocated THEN flsGlobal[s].value ELSE @[s]]]
  /\ UNCHANGED <<running, flsGlobal, sectionVars, bridge, envHalted, stored,
                 apartments, nextIdentity>>

\* FlsAlloc takes the first free slot.
FlsAlloc(s) ==
  /\ ~envHalted
  /\ ~flsGlobal[s].allocated
  /\ \A u \in FlsSlots : u < s => flsGlobal[u].allocated
  /\ flsGlobal' = [flsGlobal EXCEPT ![s] = [allocated |-> TRUE, value |-> 0]]
  /\ UNCHANGED <<tcbs, running, flsMode, sectionVars, bridge, envHalted, stored,
                 apartments, nextIdentity>>

\* FlsGetValue on thread t.
FlsGet(t, s) ==
  CASE ~flsGlobal[s].allocated -> 0
    [] flsGlobal[s].allocated /\ flsMode ->
         IF tcbs[t].has[s] THEN tcbs[t].value[s] ELSE 0
    [] OTHER -> flsGlobal[s].value

\* FlsSetValue on thread t.
StoreFls(t, s, v) ==
  /\ flsGlobal[s].allocated
  /\ IF flsMode
       THEN /\ tcbs' = [tcbs EXCEPT ![t].has[s] = TRUE, ![t].value[s] = v]
            /\ UNCHANGED flsGlobal
       ELSE /\ flsGlobal' = [flsGlobal EXCEPT ![s].value = v]
            /\ UNCHANGED tcbs
  /\ stored' = [stored EXCEPT ![t][s] = v]

FlsSet(s, v) ==
  /\ ~envHalted
  /\ StoreFls(running, s, v)
  /\ UNCHANGED <<running, flsMode, sectionVars, bridge, envHalted, apartments,
                 nextIdentity>>

\* Mutant: only the slot of the calling thread is cleared.
FlsFreeOwn(s) ==
  /\ ~envHalted
  /\ flsGlobal[s].allocated
  /\ tcbs' = IF flsMode THEN [tcbs EXCEPT ![running].has[s] = FALSE,
                                          ![running].value[s] = 0]
                        ELSE tcbs
  /\ flsGlobal' = [flsGlobal EXCEPT ![s] = [allocated |-> FALSE, value |-> 0]]
  /\ stored' = [t \in EnvThreads |-> [stored[t] EXCEPT ![s] = 0]]
  /\ UNCHANGED <<running, flsMode, sectionVars, bridge, envHalted, apartments,
                 nextIdentity>>

\* FlsFree: the cleanup callback gets the value of the calling thread
\* (external); then the slot is cleared in every control block.
FlsFree(s) ==
  /\ ~envHalted
  /\ flsGlobal[s].allocated
  /\ tcbs' = IF flsMode THEN [t \in EnvThreads |->
                                [tcbs[t] EXCEPT !.has[s] = FALSE, !.value[s] = 0]]
                        ELSE tcbs
  /\ flsGlobal' = [flsGlobal EXCEPT ![s] = [allocated |-> FALSE, value |-> 0]]
  /\ stored' = [t \in EnvThreads |-> [stored[t] EXCEPT ![s] = 0]]
  /\ UNCHANGED <<running, flsMode, sectionVars, bridge, envHalted, apartments,
                 nextIdentity>>

-----------------------------------------------------------------------------
(* COM apartments.                                                         *)

\* gxos_com_initialize_ex: only the multithreaded model is ever entered.  A
\* caller that asks for the other one is refused, initialised or not.
CoInitializeEx(model) ==
  /\ ~envHalted
  /\ IF model = "MTA" /\ tcbs[running].com < MaxNesting
       THEN /\ tcbs' = [tcbs EXCEPT ![running].com = @ + 1]
            /\ apartments' = [apartments EXCEPT ![running] = @ + 1]
       ELSE UNCHANGED <<tcbs, apartments>>
  /\ UNCHANGED <<running, flsVars, sectionVars, bridge, envHalted, nextIdentity>>

\* Mutant: any call, whatever came of the matching CoInitializeEx, ends it.
CoUninitializeAll ==
  /\ ~envHalted
  /\ tcbs' = [tcbs EXCEPT ![running].com = 0]
  /\ apartments' = [apartments EXCEPT ![running] = IF @ > 0 THEN @ - 1 ELSE 0]
  /\ UNCHANGED <<running, flsVars, sectionVars, bridge, envHalted, nextIdentity>>

CoUninitialize ==
  /\ ~envHalted
  /\ tcbs' = [tcbs EXCEPT ![running].com = IF @ > 0 THEN @ - 1 ELSE 0]
  /\ apartments' = [apartments EXCEPT ![running] = IF @ > 0 THEN @ - 1 ELSE 0]
  /\ UNCHANGED <<running, flsVars, sectionVars, bridge, envHalted, nextIdentity>>

-----------------------------------------------------------------------------
(* Critical sections.  The owner is the pseudo handle -2 for every thread, *)
(* so "owned" is all that the record says.                                 *)

InitializeSection(c) ==
  /\ ~envHalted /\ ~sections[c].ready
  /\ sections' = [sections EXCEPT ![c] = [NoSection EXCEPT !.ready = TRUE]]
  /\ UNCHANGED <<tcbs, running, flsVars, bridge, envHalted, entered, apartments,
                 nextIdentity>>

\* Mutant: a section that is owned is entered without counting.
EnterSectionOnce(c) ==
  /\ ~envHalted /\ sections[c].ready /\ sections[c].recursion < MaxNesting
  /\ sections' = [sections EXCEPT ![c].owned = TRUE, ![c].recursion = 1]
  /\ entered' = [entered EXCEPT ![running][c] = @ + 1]
  /\ UNCHANGED <<tcbs, running, flsVars, bridge, envHalted, apartments, nextIdentity>>

EnterSection(c) ==
  /\ ~envHalted /\ sections[c].ready /\ sections[c].recursion < MaxNesting
  /\ sections' = [sections EXCEPT
       ![c].owned = TRUE, ![c].recursion = IF sections[c].owned THEN @ + 1 ELSE 1]
  /\ entered' = [entered EXCEPT ![running][c] = @ + 1]
  /\ UNCHANGED <<tcbs, running, flsVars, bridge, envHalted, apartments, nextIdentity>>

\* The payload leaves what it has entered (external).
LeaveSection(c) ==
  /\ ~envHalted /\ entered[running][c] > 0
  /\ IF sections[c].owned /\ sections[c].recursion > 0
       THEN /\ sections' = [sections EXCEPT
                 ![c].recursion = @ - 1, ![c].owned = sections[c].recursion # 1]
            /\ entered' = [entered EXCEPT ![running][c] = @ - 1]
            /\ UNCHANGED envHalted
       ELSE envHalted' = TRUE /\ UNCHANGED sectionVars
  /\ UNCHANGED <<tcbs, running, flsVars, bridge, apartments, nextIdentity>>

\* fail when the section is owned.
DeleteSection(c) ==
  /\ ~envHalted /\ sections[c].ready
  /\ \A t \in EnvThreads : entered[t][c] = 0
  /\ envHalted' = (sections[c].owned \/ sections[c].recursion # 0)
  /\ sections' = [sections EXCEPT ![c] = NoSection]
  /\ UNCHANGED <<tcbs, running, flsVars, bridge, entered, apartments, nextIdentity>>

-----------------------------------------------------------------------------
(* The callback bridge.                                                    *)

RegisterCallback ==
  /\ ~envHalted
  /\ bridge' = [registered |-> TRUE, ready |-> FALSE, count |-> 0]
  /\ UNCHANGED <<tcbs, running, flsVars, sectionVars, envHalted, apartments,
                 nextIdentity>>

MarkReady ==
  /\ ~envHalted /\ bridge.registered
  /\ bridge' = [bridge EXCEPT !.ready = TRUE]
  /\ UNCHANGED <<tcbs, running, flsVars, sectionVars, envHalted, apartments,
                 nextIdentity>>

\* gxos_nativeaot_callback_invoke.  The runtime (external) attaches a thread the
\* first time it calls in, by a value of its own in its FLS slot.
InvokeCallback(v) ==
  /\ ~envHalted /\ bridge.ready /\ bridge.count < MaxNesting
  /\ bridge' = [bridge EXCEPT !.count = @ + 1]
  /\ flsGlobal[RuntimeSlot].allocated
  /\ IF FlsGet(running, RuntimeSlot) = 0
       THEN StoreFls(running, RuntimeSlot, v)
       ELSE UNCHANGED <<tcbs, flsGlobal, stored>>
  /\ UNCHANGED <<running, flsMode, sectionVars, envHalted, apartments, nextIdentity>>

EnvNext ==
  \/ \E t \in EnvThreads :
       \/ CreateThread(t) \/ SwitchTo(t) \/ ReclaimTcb(t)
       \/ \E next \in EnvThreads : ExitThread(t, next)
  \/ AdoptSchedulerStorage
  \/ \E s \in FlsSlots :
       FlsAlloc(s) \/ FlsFree(s) \/ \E v \in FlsValues : FlsSet(s, v)
  \/ \E model \in {"MTA", "STA"} : CoInitializeEx(model)
  \/ CoUninitialize
  \/ \E c \in Sections :
       \/ InitializeSection(c) \/ EnterSection(c)
       \/ LeaveSection(c) \/ DeleteSection(c)
  \/ RegisterCallback \/ MarkReady
  \/ \E v \in FlsValues : InvokeCallback(v)

EnvSpec == EnvInit /\ [][EnvNext]_envVars

-----------------------------------------------------------------------------
(* Safety.                                                                 *)

\* A thread reads from a slot what it stored there itself since the slot was
\* last allocated, or 0: never a value of another thread, of a thread that had
\* its control block before, or of the slot's earlier life; and the switch from
\* the global array to the control blocks loses nothing.
FlsIsPerThread ==
  \A t \in EnvThreads, s \in FlsSlots :
    tcbs[t].state = "live" /\ (flsMode \/ t = BootThread) =>
      FlsGet(t, s) = stored[t][s]

\* The apartment of a thread is as deep as its successful calls, across thread
\* switches and reuse of control blocks.
ApartmentsAreBalanced ==
  \A t \in EnvThreads : tcbs[t].state # "free" => tcbs[t].com = apartments[t]

\* A section is owned while threads are inside it, and its recursion count is
\* the number of entries; so a correct sequence of calls never fails.
SectionsCountEntries ==
  /\ \A c \in Sections :
       LET inside == {p \in EnvThreads \X (1 .. MaxNesting) : p[2] <= entered[p[1]][c]}
       IN /\ sections[c].owned <=> inside # {}
          /\ sections[c].recursion = Cardinality(inside)
  /\ ~envHalted

\* What slots, apartments and sections say of a thread is what that thread did,
\* across switches, exits and reuse of its control block (gxos_scheduler_fls_*,
\* com_api.c, platform_enter_critical_section).
ThreadStateIsFaithful ==
  FlsIsPerThread /\ ApartmentsAreBalanced /\ SectionsCountEntries

\* Contention fails: two threads are never inside a section together.
ContentionFails ==
  \A c \in Sections, t, u \in EnvThreads :
    t # u => entered[t][c] = 0 \/ entered[u][c] = 0
=============================================================================
