--------------------------- MODULE ThreadResources ---------------------------
(***************************************************************************)
(* The memory of a scheduler thread in src/src/Gate4Harness: the stack, the *)
(* canary page and the four environment pages scheduler_foundation.c       *)
(* allocates for it, the page callbacks of gate4_loader.c with the         *)
(* physical ledger of memory_accounting.c, and the region ledger of        *)
(* vm_substrate.c that VirtualQuery answers from.                          *)
(*                                                                         *)
(* Of the scheduler there remains what decides when memory is released:    *)
(* whether a thread is done and whether its handle is open (see Scheduler  *)
(* for the rest).  A creation is stepped allocation by allocation, because *)
(* each may be refused; `op' is the creation in progress.  Addresses and   *)
(* sizes are in pages; page 0 is the null pointer.                         *)
(***************************************************************************)
EXTENDS Integers, FiniteSets

CONSTANTS
  MaxThreads,       \* GXOS_SCHEDULER_MAX_THREADS, 6
  StackPages,       \* GXOS_SCHEDULER_STACK_PAGES, 4
  FrameCount,       \* pages the firmware has
  LedgerCapacity,   \* GXOS_PHYSICAL_LEDGER_CAPACITY, 4096
  RegionCapacity,   \* entries of the region ledger left to stacks, at most 64
  IdentityModulus   \* region identities are uint64_t: 2^64

ASSUME ResourceAssumption ==
  /\ MaxThreads \in Nat \ {0}
  /\ StackPages \in Nat \ {0, 1}
  /\ FrameCount \in Nat
  /\ LedgerCapacity \in Nat
  /\ RegionCapacity \in Nat
  /\ IdentityModulus \in Nat \ {0, 1}

Boot == 0
Threads == 0 .. (MaxThreads - 1)
Workers == Threads \ {Boot}
Frames == 1 .. FrameCount
Null == 0
AnyFrame == Frames \cup {Null}
Environment == {"gs", "vector", "block", "teb"}
Identities == 0 .. (IdentityModulus - 1)

VARIABLES
  ledger,     \* the live entries of the physical ledger
  regions,    \* the live entries of the region ledger
  nextId,     \* next_identity of the region ledger
  tcb,        \* what the thread control blocks own
  op,         \* the creation in progress
  active      \* scheduler->active

vars == <<ledger, regions, nextId, tcb, op, active>>

-----------------------------------------------------------------------------
(* The state of a slot.                                                    *)

Block == [base : Frames, pages : Nat]
Region == [base : Frames, pages : Nat, id : Identities]

NoPages == [e \in Environment |-> Null]

ThreadRecord ==
  [live : BOOLEAN, done : BOOLEAN, open : BOOLEAN, intact : BOOLEAN,
   stack : AnyFrame, canary : AnyFrame, env : [Environment -> AnyFrame],
   id : Identities]

EmptyThread ==
  [live |-> FALSE, done |-> FALSE, open |-> FALSE, intact |-> FALSE,
   stack |-> Null, canary |-> Null, env |-> NoPages, id |-> 0]

Steps == {"idle", "stack", "canary", "gs", "vector", "block", "teb", "check",
          "register"}

\* `env' holds the local variables of allocate_thread_environment.
OpRecord ==
  [pc : Steps, thread : Threads, env : [Environment -> AnyFrame]]

Idle == [pc |-> "idle", thread |-> Boot, env |-> NoPages]

After == [canary |-> "gs", gs |-> "vector", vector |-> "block",
          block |-> "teb", teb |-> "check"]

-----------------------------------------------------------------------------
(* The page callbacks and the two ledgers.                                 *)

Extent(b) == b.base .. (b.base + b.pages - 1)
Apart(b, S) == \A c \in S : Extent(b) \cap Extent(c) = {}

\* memory_tracked_allocate_pages: the firmware hands out n pages nobody has,
\* and the ledger has room for them.
Available(n) ==
  LET held == UNION {Extent(b) : b \in ledger} IN
    {b \in [base : Frames, pages : {n}] :
       /\ Cardinality(ledger) < LedgerCapacity
       /\ Extent(b) \subseteq Frames \ held}

\* page_free of each page of P: memory_tracked_free_pages with a count of 1
\* finds the entry with this base and this size; its status is ignored.
PageFree(P) == ledger \ [base : P, pages : {1}]

\* Mutant: the identity is not truncated.
NextIdentityUntruncated(id) == id + 1

NextIdentity(id) == (id + 1) % IdentityModulus

\* gxos_vm_region_register
CanRegister(b) == Apart(b, regions) /\ Cardinality(regions) < RegionCapacity
RegisteredId == IF nextId = 0 THEN 1 ELSE nextId

StackRegion(t) ==
  [base |-> tcb[t].stack, pages |-> StackPages, id |-> tcb[t].id]

\* gxos_vm_region_virtual_query: the region that contains the page.
VirtualQuery(p) == {r \in regions : p \in Extent(r)}

-----------------------------------------------------------------------------
(* Creating a thread.                                                      *)

Init ==
  /\ ledger = {}
  /\ regions = {}
  /\ nextId = 1
  /\ tcb = [t \in Threads |-> EmptyThread]
  /\ op = Idle
  /\ active = FALSE

\* gxos_scheduler_initialize gives the boot thread an environment; its stack
\* is the firmware's.
Initialize ==
  /\ op = Idle
  /\ ~active
  /\ op' = [Idle EXCEPT !.pc = "gs", !.thread = Boot]
  /\ tcb' = [t \in Threads |->
       IF t = Boot THEN [EmptyThread EXCEPT !.live = TRUE] ELSE EmptyThread]
  /\ UNCHANGED <<ledger, regions, nextId, active>>

FreeThreads == {t \in Threads : ~tcb[t].live}

\* gxos_scheduler_create_suspended_thread
CreateSuspendedThread(t) ==
  /\ op = Idle
  /\ active
  /\ t \in FreeThreads /\ \A u \in FreeThreads : t <= u
  /\ tcb' = [tcb EXCEPT ![t] =
       [EmptyThread EXCEPT !.live = TRUE, !.open = TRUE]]
  /\ op' = [Idle EXCEPT !.pc = "stack", !.thread = t]
  /\ UNCHANGED <<ledger, regions, nextId, active>>

AllocateStack(b) ==
  /\ op.pc = "stack"
  /\ b \in Available(StackPages)
  /\ ledger' = ledger \cup {b}
  /\ tcb' = [tcb EXCEPT ![op.thread].stack = b.base]
  /\ op' = [op EXCEPT !.pc = "canary"]
  /\ UNCHANGED <<regions, nextId, active>>

\* page_allocate for the canary page, followed by set_canaries
AllocateCanary(b) ==
  /\ op.pc = "canary"
  /\ b \in Available(1)
  /\ ledger' = ledger \cup {b}
  /\ tcb' = [tcb EXCEPT ![op.thread] = [@ EXCEPT !.canary = b.base,
                                                 !.intact = TRUE]]
  /\ op' = [op EXCEPT !.pc = After[op.pc]]
  /\ UNCHANGED <<regions, nextId, active>>

\* The four calls of page_allocate in allocate_thread_environment; the result
\* is tested after the last one.
AllocateEnvironmentPage(b) ==
  /\ op.pc \in Environment
  /\ b \in Available(1)
  /\ ledger' = ledger \cup {b}
  /\ op' = [op EXCEPT !.pc = After[op.pc], !.env[op.pc] = b.base]
  /\ UNCHANGED <<regions, nextId, tcb, active>>

EnvironmentPageRefused ==
  /\ op.pc \in Environment
  /\ op' = [op EXCEPT !.pc = After[op.pc]]
  /\ UNCHANGED <<ledger, regions, nextId, tcb, active>>

EnvironmentReady ==
  /\ op.pc = "check"
  /\ \A e \in Environment : op.env[e] # Null
  /\ tcb' = [tcb EXCEPT ![op.thread].env = op.env]
  /\ IF op.thread = Boot
       THEN op' = Idle /\ active' = TRUE
       ELSE /\ op' = [op EXCEPT !.pc = "register", !.env = NoPages]
            /\ UNCHANGED active
  /\ UNCHANGED <<ledger, regions, nextId>>

EnvironmentPages(env) == {env[e] : e \in Environment} \ {Null}

\* The error returns of a creation free P and zero the thread.
Abandon(P) ==
  /\ ledger' = PageFree(P)
  /\ tcb' = [tcb EXCEPT ![op.thread] = EmptyThread]
  /\ op' = Idle
  /\ UNCHANGED <<regions, nextId, active>>

StackRefused == op.pc = "stack" /\ Abandon({})

CanaryRefused == op.pc = "canary" /\ Abandon({tcb[op.thread].stack})

\* Mutant: the pages obtained before the refused one are not freed.
EnvironmentFailsLeaking ==
  /\ op.pc = "check"
  /\ \E e \in Environment : op.env[e] = Null
  /\ Abandon({tcb[op.thread].canary, tcb[op.thread].stack})

\* allocate_thread_environment frees what it got, its caller the rest.
EnvironmentFails ==
  /\ op.pc = "check"
  /\ \E e \in Environment : op.env[e] = Null
  /\ Abandon(EnvironmentPages(op.env)
               \cup {tcb[op.thread].canary, tcb[op.thread].stack})

RegisterStack ==
  /\ op.pc = "register"
  /\ LET r == [base |-> tcb[op.thread].stack, pages |-> StackPages,
               id |-> RegisteredId]
     IN /\ CanRegister(r)
        /\ regions' = regions \cup {r}
        /\ tcb' = [tcb EXCEPT ![op.thread].id = RegisteredId]
  /\ nextId' = NextIdentity(RegisteredId)
  /\ op' = Idle
  /\ UNCHANGED <<ledger, active>>

RegisterFails ==
  /\ op.pc = "register"
  /\ ~CanRegister([base |-> tcb[op.thread].stack, pages |-> StackPages])
  /\ Abandon(EnvironmentPages(tcb[op.thread].env)
               \cup {tcb[op.thread].canary, tcb[op.thread].stack})

-----------------------------------------------------------------------------
(* The end of a thread.                                                    *)

Ready == op = Idle /\ active

\* The test of maybe_reclaim_thread, the unregistration of the stack included.
Reclaimable(ts, t) ==
  /\ ts[t].live /\ ts[t].done /\ ~ts[t].open
  /\ ts[t].stack # Null /\ ts[t].canary # Null /\ ts[t].intact
  /\ ts[t].id # 0
  /\ StackRegion(t) \in regions

OwnedPages(t) ==
  {tcb[t].stack, tcb[t].canary} \cup EnvironmentPages(tcb[t].env)

\* Mutant: the region of the stack stays registered.
ReclaimKeepingRegion(ts, T) ==
  /\ ledger' = PageFree(UNION {OwnedPages(t) : t \in T})
  /\ tcb' = [t \in Threads |-> IF t \in T THEN EmptyThread ELSE ts[t]]
  /\ UNCHANGED regions

\* Mutant: the pages are freed and the thread stays terminated.
ReclaimKeepingThread(ts, T) ==
  /\ ledger' = PageFree(UNION {OwnedPages(t) : t \in T})
  /\ tcb' = ts
  /\ regions' = regions \ {StackRegion(t) : t \in T}

\* maybe_reclaim_thread: the stack, too, is given to page_free.
Reclaim(ts, T) ==
  /\ ledger' = PageFree(UNION {OwnedPages(t) : t \in T})
  /\ tcb' = [t \in Threads |-> IF t \in T THEN EmptyThread ELSE ts[t]]
  /\ regions' = regions \ {StackRegion(t) : t \in T}

\* gxos_scheduler_prepare_terminate
Terminate(t) ==
  /\ Ready
  /\ tcb[t].live /\ ~tcb[t].done
  /\ tcb' = [tcb EXCEPT ![t].done = TRUE]
  /\ UNCHANGED <<ledger, regions, nextId, op, active>>

\* gxos_scheduler_close_handle
CloseHandle(t) ==
  /\ Ready
  /\ tcb[t].live /\ tcb[t].open
  /\ LET ts == [tcb EXCEPT ![t].open = FALSE] IN
       Reclaim(ts, {u \in {t} : Reclaimable(ts, u)})
  /\ UNCHANGED <<nextId, op, active>>

\* gxos_scheduler_discard_created_thread, of a thread that does not run
DiscardCreatedThread(t) ==
  /\ Ready
  /\ tcb[t].live /\ ~tcb[t].done /\ ~tcb[t].open
  /\ LET ts == [tcb EXCEPT ![t].done = TRUE] IN
       Reclaim(ts, {u \in {t} : Reclaimable(ts, u)})
  /\ UNCHANGED <<nextId, op, active>>

\* gxos_scheduler_collect
Collect ==
  /\ Ready
  /\ LET T == {t \in Workers : Reclaimable(tcb, t)} IN
       T # {} /\ Reclaim(tcb, T)
  /\ UNCHANGED <<nextId, op, active>>

\* A program that overruns its stack overwrites the canary.
OverwriteCanary(t) ==
  /\ Ready
  /\ tcb[t].live /\ tcb[t].intact
  /\ tcb' = [tcb EXCEPT ![t].intact = FALSE]
  /\ UNCHANGED <<ledger, regions, nextId, op, active>>

\* gxos_scheduler_teardown, which collects first
Teardown ==
  /\ Ready
  /\ LET T == {t \in Workers : Reclaimable(tcb, t)} IN
       /\ \A t \in Workers : tcb[t].live => t \in T
       /\ ledger' = PageFree(UNION {OwnedPages(t) : t \in T \cup {Boot}})
       /\ regions' = regions \ {StackRegion(t) : t \in T}
  /\ tcb' = [t \in Threads |-> EmptyThread]
  /\ active' = FALSE
  /\ UNCHANGED <<nextId, op>>

Next ==
  \/ Initialize
  \/ \E t \in Workers :
       \/ CreateSuspendedThread(t)
       \/ Terminate(t)
       \/ CloseHandle(t)
       \/ DiscardCreatedThread(t)
       \/ OverwriteCanary(t)
  \/ \E b \in Available(StackPages) : AllocateStack(b)
  \/ \E b \in Available(1) : AllocateCanary(b) \/ AllocateEnvironmentPage(b)
  \/ EnvironmentPageRefused
  \/ EnvironmentReady
  \/ StackRefused
  \/ CanaryRefused
  \/ EnvironmentFails
  \/ RegisterStack
  \/ RegisterFails
  \/ Collect
  \/ Teardown

Spec == Init /\ [][Next]_vars

-----------------------------------------------------------------------------
(* Safety.                                                                 *)

\* The types of the variables.
TypeOK ==
  /\ ledger \subseteq Block
  /\ regions \subseteq Region
  /\ nextId \in Identities
  /\ tcb \in [Threads -> ThreadRecord]
  /\ op \in OpRecord
  /\ active \in BOOLEAN

\* What threads and the creation in progress own, with its owner.
Creation == -1
StackOwners == {t \in Threads : tcb[t].stack # Null} \X {"stack"}
PageOwners ==
  ({t \in Threads : tcb[t].canary # Null} \X {"canary"})
    \cup {x \in Threads \X Environment : tcb[x[1]].env[x[2]] # Null}
    \cup {x \in {Creation} \X Environment : op.env[x[2]] # Null}

Owned(x) ==
  CASE x[1] = Creation -> [base |-> op.env[x[2]], pages |-> 1]
    [] x[2] = "stack" -> [base |-> tcb[x[1]].stack, pages |-> StackPages]
    [] x[2] = "canary" -> [base |-> tcb[x[1]].canary, pages |-> 1]
    [] OTHER -> [base |-> tcb[x[1]].env[x[2]], pages |-> 1]

\* Every page a thread uses is one the firmware handed out and has not taken
\* back, and no other thread uses it: no path of creation, failure, discard or
\* reclamation frees memory that is still named, or frees it for someone else.
OwnedMemoryIsHeld ==
  /\ \A x \in StackOwners \cup PageOwners : Owned(x) \in ledger
  /\ Cardinality({Owned(x) : x \in StackOwners \cup PageOwners})
       = Cardinality(StackOwners \cup PageOwners)

\* Single pages never leak: each one in the ledger has an owner, whichever
\* allocation or registration of a creation was refused.
SinglePagesDoNotLeak ==
  \A b \in ledger : b.pages = 1 => \E x \in PageOwners : Owned(x) = b

\* VirtualQuery answers for the stacks of existing threads and for nothing
\* else: each is registered once with its bounds and its identity, so that
\* maybe_reclaim_thread can unregister it, and no region outlives its thread.
RegionsMatchStacks ==
  /\ regions = {StackRegion(t) :
                  t \in {t \in Workers : tcb[t].live /\ tcb[t].id # 0}}
  /\ \A t \in Workers : tcb[t].live /\ op.thread # t =>
       /\ tcb[t].id # 0
       /\ \A p \in Extent(StackRegion(t)) : VirtualQuery(p) = {StackRegion(t)}

\* Firmware, ledger and control blocks tell one story about the pages of
\* threads after every creation, failure, discard and reclamation.
PagesAreAccounted == TypeOK /\ OwnedMemoryIsHeld /\ SinglePagesDoNotLeak

-----------------------------------------------------------------------------
(* What the documentation says and the code does not do.                   *)

\* docs/NATIVEAOT_DURABILITY.md: threads "terminate, reclaim their stacks, and
\* leave no stale handle, wait, FLS, ..." state behind.
StacksAreReclaimed ==
  \A b \in ledger : b.pages = StackPages => \E x \in StackOwners : Owned(x) = b
=============================================================================
