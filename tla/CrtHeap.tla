------------------------------- MODULE CrtHeap -------------------------------
(***************************************************************************)
(* malloc and free of src/src/Gate4Harness/crt_malloc.c: the registry of   *)
(* live blocks, the counters kept beside it, the ring of released blocks   *)
(* that tells a double free from an unknown pointer, and the pool service  *)
(* of gate4_loader.c behind them.                                          *)
(*                                                                         *)
(* A malloc is two steps, before and after the pool service: what came     *)
(* back is validated and may be given back.  Calls that are refused before *)
(* they reach the pool change statistics only and are not actions.         *)
(***************************************************************************)
EXTENDS Integers, Sequences, FiniteSets

CONSTANTS
  Capacity,      \* GXOS_CRT_MALLOC_REGISTRY_CAPACITY, 64
  MaxRequest,    \* GXOS_CRT_MALLOC_MAX_REQUEST, 0xC8000
  Alignment,     \* 8
  AddressMax,    \* UINTPTR_MAX
  CounterMax,    \* UINT64_MAX, where the sequence and the generation stop
  Protected,     \* the image, the stack and the onexit tables, as addresses
  Sizes          \* the sizes callers ask for

ASSUME HeapAssumption ==
  /\ Capacity \in Nat \ {0}
  /\ MaxRequest \in Nat
  /\ Alignment \in Nat \ {0}
  /\ AddressMax \in Nat \ {0}
  /\ CounterMax \in Nat \ {0}
  /\ Protected \subseteq 0 .. AddressMax
  /\ Sizes \subseteq Nat

Slots == 0 .. (Capacity - 1)
Addresses == 1 .. AddressMax
NoBlock == [base |-> 0, size |-> 0]
Block == [base : Addresses, size : Nat]

VARIABLES
  records,       \* context->records
  liveCount,     \* live_count
  total,         \* total_requested_bytes
  largest,       \* largest_request
  nextSequence,  \* next_allocation_sequence
  generation,    \* accounting_generation
  releases,      \* release_records: the pointers, 0 when never written
  releaseCount,  \* release_record_count
  nextRelease,   \* next_release_record_slot
  pool,          \* the blocks the pool service has outstanding
  pending,       \* what the pool service returned to the malloc in progress
  freed          \* history: the pointers freed so far, the last Capacity of them

registry == <<records, liveCount, total, largest, nextSequence, generation>>
ring == <<releases, releaseCount, nextRelease>>
vars == <<records, liveCount, total, largest, nextSequence, generation,
          releases, releaseCount, nextRelease, pool, pending, freed>>

-----------------------------------------------------------------------------
(* The registry.                                                           *)

HeapRecord ==
  [occupied : BOOLEAN, pointer : 0 .. AddressMax, size : Nat, sequence : Nat]

NoRecord == [occupied |-> FALSE, pointer |-> 0, size |-> 0, sequence |-> 0]

Occupied == {s \in Slots : records[s].occupied}
BlockOf(s) == [base |-> records[s].pointer, size |-> records[s].size]
Extent(b) == b.base .. (b.base + b.size - 1)

\* gxos_crt_malloc_find_free_slot and the scan of free take the lowest slot.
IsLowest(S, i) == i \in S /\ \A j \in S : i <= j
FindFreeSlot(s) == IsLowest(Slots \ Occupied, s)
Holding(p) == {s \in Occupied : records[s].pointer = p}

\* gxos_crt_malloc_find_live_containing_record
Containing(p) ==
  {s \in Occupied : p > records[s].pointer /\ p < records[s].pointer + records[s].size}

\* gxos_crt_malloc_find_release_record
Remembered(p) ==
  \E i \in 0 .. (releaseCount - 1) : releases[i] = p

\* Mutant: the request that is freed stays the largest.
LargestEver(rs) == largest

\* gxos_crt_free_recompute_largest
RecomputeLargest(rs) ==
  LET sizes == {0} \cup {rs[s].size : s \in {s \in Slots : rs[s].occupied}} IN
    CHOOSE m \in sizes : \A n \in sizes : n <= m

\* Mutant: the oldest entry is not the one that is overwritten.
ReleaseSlotFirst == IF releaseCount < Capacity THEN releaseCount ELSE 0

\* The slot gxos_crt_free_remember_release writes.
ReleaseSlot == IF releaseCount < Capacity THEN releaseCount ELSE nextRelease

\* Mutant: the ring does not wrap.
NextReleaseSlotUnwrapped(s) == s + 1

NextReleaseSlot(s) == (s + 1) % Capacity

-----------------------------------------------------------------------------
(* malloc and free.                                                        *)

\* gxos_crt_malloc_context_reset
Init ==
  /\ records = [s \in Slots |-> NoRecord]
  /\ liveCount = 0
  /\ total = 0
  /\ largest = 0
  /\ nextSequence = 1
  /\ generation = 1
  /\ releases = [s \in Slots |-> 0]
  /\ releaseCount = 0
  /\ nextRelease = 0
  /\ pool = {}
  /\ pending = NoBlock
  /\ freed = <<>>

\* gxos_crt_malloc_call up to the call of allocate_pool; the registry is valid,
\* as RegistryIsValid says.  The pool may refuse, or return a block that
\* overlaps no outstanding one (memory_tracked_allocate_pool refuses what the
\* ledger says is in use), aligned or not and anywhere else.
MallocCall(size, base) ==
  /\ pending = NoBlock
  /\ size # 0 /\ size <= MaxRequest
  /\ Slots # Occupied
  /\ nextSequence # CounterMax
  /\ LET b == [base |-> base, size |-> size] IN
       /\ \A c \in pool : Extent(b) \cap Extent(c) = {}
       /\ pool' = pool \cup {b}
       /\ pending' = b
  /\ UNCHANGED <<registry, ring, freed>>

\* The tests on what the pool returned.
Acceptable(b) ==
  /\ b.base % Alignment = 0
  /\ b.base <= AddressMax - b.size
  /\ Extent(b) \cap Protected = {}
  /\ \A s \in Occupied : Extent(b) \cap Extent(BlockOf(s)) = {}
  /\ generation # CounterMax

MallocSucceeds ==
  /\ pending # NoBlock
  /\ Acceptable(pending)
  /\ \E s \in Slots :
       /\ FindFreeSlot(s)
       /\ records' = [records EXCEPT ![s] =
            [occupied |-> TRUE, pointer |-> pending.base, size |-> pending.size,
             sequence |-> nextSequence]]
  /\ liveCount' = liveCount + 1
  /\ total' = total + pending.size
  /\ largest' = IF pending.size > largest THEN pending.size ELSE largest
  /\ nextSequence' = nextSequence + 1
  /\ generation' = generation + 1
  /\ pending' = NoBlock
  /\ UNCHANGED <<ring, pool, freed>>

\* Mutant: a block that is refused stays allocated.
MallocRollbackLeaking ==
  /\ pending # NoBlock
  /\ ~Acceptable(pending)
  /\ pending' = NoBlock
  /\ UNCHANGED <<registry, ring, pool, freed>>

\* gxos_crt_malloc_rollback
MallocRollback ==
  /\ pending # NoBlock
  /\ ~Acceptable(pending)
  /\ pool' = pool \ {pending}
  /\ pending' = NoBlock
  /\ UNCHANGED <<registry, ring, freed>>

\* What gxos_crt_free_call finds out about a pointer.
Verdict(p) ==
  IF Holding(p) # {} THEN "LIVE"
  ELSE IF Containing(p) # {} THEN "INTERIOR_POINTER"
  ELSE IF Remembered(p) THEN "DOUBLE_FREE"
  ELSE "UNKNOWN_POINTER"

\* The last Capacity pointers freed, p included.
Latest(p) ==
  LET all == Append(freed, p) IN
    IF Len(all) > Capacity THEN Tail(all) ELSE all

\* gxos_crt_free_call with a pointer to a live block; every other pointer and
\* a failing pool service leave the registry alone.
Free(p) ==
  /\ pending = NoBlock
  /\ Verdict(p) = "LIVE"
  /\ generation # CounterMax
  /\ \E s \in Slots :
       /\ IsLowest(Holding(p), s)
       /\ liveCount # 0 /\ total >= records[s].size
       /\ BlockOf(s) \in pool
       /\ pool' = pool \ {BlockOf(s)}
       /\ records' = [records EXCEPT ![s] = NoRecord]
       /\ total' = total - records[s].size
  /\ liveCount' = liveCount - 1
  /\ largest' = RecomputeLargest(records')
  /\ generation' = generation + 1
  /\ releases' = [releases EXCEPT ![ReleaseSlot] = p]
  /\ releaseCount' = IF releaseCount < Capacity THEN releaseCount + 1
                                                ELSE releaseCount
  /\ nextRelease' = NextReleaseSlot(ReleaseSlot)
  /\ freed' = Latest(p)
  /\ UNCHANGED <<nextSequence, pending>>

Next ==
  \/ \E size \in Sizes, base \in Addresses : MallocCall(size, base)
  \/ MallocSucceeds
  \/ MallocRollback
  \/ \E p \in Addresses : Free(p)

Spec == Init /\ [][Next]_vars

-----------------------------------------------------------------------------
(* Safety.                                                                 *)

\* The types of the variables.
TypeOK ==
  /\ records \in [Slots -> HeapRecord]
  /\ liveCount \in 0 .. Capacity
  /\ total \in Nat
  /\ largest \in 0 .. MaxRequest
  /\ nextSequence \in 1 .. CounterMax
  /\ generation \in 1 .. CounterMax
  /\ releases \in [Slots -> 0 .. AddressMax]
  /\ releaseCount \in 0 .. Capacity
  /\ nextRelease \in Slots
  /\ pool \subseteq Block
  /\ pending \in Block \cup {NoBlock}

\* gxos_crt_malloc_registry_valid holds after every call, so that malloc and
\* free never refuse to work with MALFORMED_REGISTRY: the blocks are disjoint,
\* their sequence numbers unique, and the counters what the table says.
RegistryIsValid ==
  /\ \A s \in Occupied :
       /\ records[s].pointer # 0 /\ records[s].pointer % Alignment = 0
       /\ records[s].size \in 1 .. MaxRequest
       /\ records[s].sequence \in 1 .. (nextSequence - 1)
       /\ Extent(BlockOf(s)) \subseteq Addresses \ Protected
  /\ \A s, t \in Occupied : s # t =>
       /\ Extent(BlockOf(s)) \cap Extent(BlockOf(t)) = {}
       /\ records[s].sequence # records[t].sequence
  /\ liveCount = Cardinality(Occupied)
  /\ total = Cardinality(UNION {Extent(BlockOf(s)) : s \in Occupied})
  /\ \A s \in Occupied : records[s].size <= largest
  /\ largest = 0 \/ \E s \in Occupied : records[s].size = largest

\* The pool service has exactly the blocks outstanding that the registry
\* lists, and the one a malloc in progress holds: nothing leaks when a block
\* is refused, and no live block is given back.
PoolMatchesRegistry ==
  pool = {BlockOf(s) : s \in Occupied} \cup ({pending} \ {NoBlock})

\* A pointer that is not live and lies in no live block is called a double
\* free exactly when it is among the last Capacity pointers freed, however
\* often its address was allocated and freed in between and the ring wrapped.
DoubleFreesAreRecognised ==
  \A p \in Addresses : Holding(p) = {} /\ Containing(p) = {} =>
    (Verdict(p) = "DOUBLE_FREE" <=> \E i \in 1 .. Len(freed) : freed[i] = p)

\* Registry, counters and pool agree on the blocks that are live, so that the
\* check both calls begin with never refuses a correct program and nothing
\* leaks (gxos_crt_malloc_registry_valid, gxos_crt_malloc_rollback).
HeapIsConsistent == TypeOK /\ RegistryIsValid /\ PoolMatchesRegistry
=============================================================================
