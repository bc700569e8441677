-------------------------- MODULE MemoryAccounting --------------------------
(***************************************************************************)
(* Memory accounting of src/src/Gate4Harness/memory_accounting.c and       *)
(* GlobalMemoryStatusEx (global_memory_status_ex.c), with the loader code  *)
(* that drives them: the firmware's memory map is acquired once while the  *)
(* buffer allocated for it changes it, classified and retained; a ledger   *)
(* of what is allocated afterwards compensates for its age; a query        *)
(* combines the two with the arena into one answer.                        *)
(*                                                                         *)
(* The firmware is external: which map it reports, and that the pool takes *)
(* whole pages.  FreePool and FreePages do not refuse what the firmware    *)
(* gave.  The calls of the arena are those of VirtualMemory, here with     *)
(* their effect on the counters only.                                      *)
(***************************************************************************)
EXTENDS Integers, Sequences, FiniteSets, SequencesExt

CONSTANTS
  FirmwareMaps,        \* what GetMemoryMap may report: [start, pages, type] each
  AccountingMax,       \* UINT64_MAX
  AccountingPage,      \* GXOS_MEMORY_PAGE_SIZE
  MapSlack,            \* GXOS_MEMORY_MAP_GROWTH_SLACK_DESCRIPTORS, 8
  MaxMap,              \* GXOS_MEMORY_MAP_MAX_BYTES, in descriptors
  MaxDescriptors,      \* GXOS_MEMORY_MAP_MAX_DESCRIPTORS, 2048
  MaxMapRetries,       \* GXOS_MEMORY_MAP_MAX_RETRIES, 4
  AccountCapacity,     \* GXOS_PHYSICAL_LEDGER_CAPACITY, 4096
  PoolSizes,           \* sizes the CRT asks the pool for
  ArenaGranules,       \* base addresses of the granules of the arena
  GranulePages,        \* pages of a granule
  StatusRegions,       \* g_memory_status_ex_regions: [base, end, writable]
  StatusPointers,      \* where callers want the answer, 0 included
  StatusSize,          \* sizeof(MEMORYSTATUSEX), 64
  GenerationMax        \* bound on the accounting generation

ASSUME AccountingAssumption ==
  /\ AccountingMax \in Nat /\ AccountingPage \in Nat \ {0}
  /\ MapSlack \in Nat /\ MaxMap \in Nat /\ MaxMapRetries \in Nat \ {0}
  /\ FirmwareMaps \subseteq Seq([start : Nat, pages : Nat, type : STRING])
  /\ PoolSizes \subseteq Nat
  /\ \A g, h \in ArenaGranules : g # h => h \notin g .. (g + GranulePages * AccountingPage - 1)

VARIABLES
  acquisition,     \* gxos_uefi_memory_map_acquire: [pc, retry, bytes, backing, status]
  reported,        \* the map in the backing when the firmware last filled it
  poolBlocks,      \* history: the buffers for the map that are allocated, by attempt
  classification,  \* g_memory_classification
  firmwareFree,    \* what the firmware has left of its conventional memory
  ledgerEntries,   \* the live entries of g_memory_ledger: [id, use, bytes]
  physicalBytes,   \* g_memory_ledger.physical_bytes
  reservedGranules, \* the reservations of the arena
  committedPages,  \* the commitments of the arena, by address
  accountingGeneration, \* g_memory_accounting_generation
  status           \* history: what the last call wrote, if it was GlobalMemoryStatusEx

accountingVars ==
  <<acquisition, reported, poolBlocks, classification, firmwareFree, ledgerEntries,
    physicalBytes, reservedGranules, committedPages, accountingGeneration, status>>
mapVars == <<acquisition, reported, poolBlocks, classification>>
arenaVars == <<reservedGranules, committedPages>>

NoClassification == [valid |-> FALSE, total |-> 0, conventional |-> 0]
NoStatus == [written |-> FALSE]

AccountingInit ==
  /\ acquisition = [pc |-> "start", retry |-> 0, bytes |-> 0, backing |-> 0, status |-> "none"]
  /\ reported = <<>>
  /\ poolBlocks = {}
  /\ classification = NoClassification
  /\ firmwareFree = 0
  /\ ledgerEntries = {}
  /\ physicalBytes = 0
  /\ reservedGranules = {}
  /\ committedPages = {}
  /\ accountingGeneration = 0
  /\ status = NoStatus

-----------------------------------------------------------------------------
(* Acquisition.  Sizes are in descriptors.                                 *)

Ends(result) == [acquisition EXCEPT !.pc = "done", !.status = result]

\* The first call, with no buffer: an error, an empty map, or the size.
QueryMapSize(map, works) ==
  /\ acquisition.pc = "start"
  /\ acquisition' =
       IF ~works THEN Ends("query")
       ELSE IF map = <<>> THEN Ends("ok")
       ELSE [acquisition EXCEPT !.pc = "attempt", !.bytes = Len(map)]
  /\ UNCHANGED <<reported, poolBlocks, classification, firmwareFree, ledgerEntries,
                 physicalBytes, arenaVars, accountingGeneration, status>>

Growth == acquisition.bytes + MapSlack

AttemptOverflows ==
  /\ acquisition.pc = "attempt" /\ acquisition.retry # MaxMapRetries
  /\ Growth > MaxMap
  /\ acquisition' = Ends("overflow")
  /\ UNCHANGED <<reported, poolBlocks, classification, firmwareFree, ledgerEntries,
                 physicalBytes, arenaVars, accountingGeneration, status>>

\* Mutant: the buffer of the attempt before is not given back.
AttemptKeepsBuffer(map, allocated) ==
  /\ acquisition.pc = "attempt" /\ acquisition.retry # MaxMapRetries
  /\ Growth <= MaxMap
  /\ poolBlocks' = IF allocated THEN poolBlocks \cup {acquisition.retry} ELSE poolBlocks
  /\ reported' = IF allocated /\ Len(map) <= Growth THEN map ELSE reported
  /\ acquisition' =
       IF ~allocated THEN Ends("allocation")
       ELSE IF Len(map) > Growth THEN
              [acquisition EXCEPT !.retry = @ + 1, !.bytes = Len(map), !.backing = Growth]
       ELSE [Ends("ok") EXCEPT !.backing = Growth]
  /\ UNCHANGED <<classification, firmwareFree, ledgerEntries, physicalBytes, arenaVars,
                 accountingGeneration, status>>

\* One turn of the loop: the earlier buffer is freed, one of the grown size is
\* allocated, which may itself change the map, and the firmware fills it.
Attempt(map, allocated) ==
  LET malformed == Len(map) > MaxDescriptors IN
    /\ acquisition.pc = "attempt" /\ acquisition.retry # MaxMapRetries
    /\ Growth <= MaxMap
    /\ poolBlocks' =
         IF allocated /\ (Len(map) > Growth \/ ~malformed) THEN {acquisition.retry} ELSE {}
    /\ reported' = IF allocated /\ Len(map) <= Growth THEN map ELSE reported
    /\ acquisition' =
         IF ~allocated THEN Ends("allocation")
         ELSE IF Len(map) > Growth THEN
                [acquisition EXCEPT !.retry = @ + 1, !.bytes = Len(map), !.backing = Growth]
         ELSE IF malformed THEN Ends("malformed")
         ELSE [Ends("ok") EXCEPT !.backing = Growth]
    /\ UNCHANGED <<classification, firmwareFree, ledgerEntries, physicalBytes, arenaVars,
                   accountingGeneration, status>>

\* The firmware fails the call that was to fill the buffer.
AttemptRefused ==
  /\ acquisition.pc = "attempt" /\ acquisition.retry # MaxMapRetries
  /\ Growth <= MaxMap
  /\ acquisition' = Ends("query")
  /\ poolBlocks' = {}
  /\ UNCHANGED <<reported, classification, firmwareFree, ledgerEntries, physicalBytes,
                 arenaVars, accountingGeneration, status>>

RetriesExhausted ==
  /\ acquisition.pc = "attempt" /\ acquisition.retry = MaxMapRetries
  /\ acquisition' = Ends("retries")
  /\ poolBlocks' = {}
  /\ UNCHANGED <<reported, classification, firmwareFree, ledgerEntries, physicalBytes,
                 arenaVars, accountingGeneration, status>>

-----------------------------------------------------------------------------
(* Classification.                                                         *)

BytesOf(d) == d.pages * AccountingPage
RamLike == {"conventional", "loader", "acpi"}
SumOf(map, types) ==
  FoldLeft(LAMBDA sum, d : sum + (IF d.type \in types THEN BytesOf(d) ELSE 0), 0, map)

\* gxos_uefi_memory_map_classify: descriptors of no page, that leave the
\* address space, or that overlap an earlier one, are refused.
Classifiable(map) ==
  /\ \A i \in DOMAIN map :
       /\ map[i].pages # 0
       /\ BytesOf(map[i]) <= AccountingMax
       /\ map[i].start + BytesOf(map[i]) <= AccountingMax
  /\ \A i, j \in DOMAIN map :
       j < i => \/ map[i].start >= map[j].start + BytesOf(map[j])
                \/ map[j].start >= map[i].start + BytesOf(map[i])

\* initialize_memory_accounting and capture_memory_snapshot: a refused map, or
\* one without memory, halts; otherwise the ledger and the arena start empty,
\* and the generation follows the one of the map.
Classify ==
  /\ acquisition.pc = "done" /\ acquisition.status = "ok" /\ ~classification.valid
  /\ Classifiable(reported)
  /\ classification' =
       [valid |-> TRUE,
        total |-> SumOf(reported, RamLike),
        conventional |-> SumOf(reported, {"conventional"})]
  /\ classification'.total # 0
  /\ firmwareFree' = classification'.conventional
  /\ accountingGeneration' = 2
  /\ UNCHANGED <<acquisition, reported, poolBlocks, ledgerEntries, physicalBytes, arenaVars,
                 status>>

-----------------------------------------------------------------------------
(* The ledger.                                                             *)

PagesFor(bytes) == ((bytes + AccountingPage - 1) \div AccountingPage) * AccountingPage
NextId == CHOOSE n \in 1 .. (Cardinality(ledgerEntries) + 1) :
            \A e \in ledgerEntries : e.id # n

\* memory_accounting_note_mutation; the pages of the arena are not noted.
NoteMutation(use) ==
  /\ use \in {"pool", "pages"} => accountingGeneration < GenerationMax
  /\ accountingGeneration' =
       accountingGeneration + (IF use \in {"pool", "pages"} THEN 1 ELSE 0)

\* Mutant: the firmware keeps what the ledger had no entry for.
TrackedAllocateKept(use, bytes) ==
  /\ firmwareFree >= PagesFor(bytes)
  /\ firmwareFree' = firmwareFree - PagesFor(bytes)
  /\ IF Cardinality(ledgerEntries) < AccountCapacity
       THEN /\ ledgerEntries' =
                 ledgerEntries \cup {[id |-> NextId, use |-> use, bytes |-> bytes]}
            /\ physicalBytes' = physicalBytes + bytes
            /\ NoteMutation(use)
       ELSE UNCHANGED <<ledgerEntries, physicalBytes, accountingGeneration>>

\* memory_tracked_allocate_pool and _pages, vm_uefi_allocate_page: what the
\* ledger cannot record is given back to the firmware.
TrackedAllocate(use, bytes) ==
  /\ firmwareFree >= PagesFor(bytes)
  /\ IF Cardinality(ledgerEntries) < AccountCapacity
       THEN /\ ledgerEntries' =
                 ledgerEntries \cup {[id |-> NextId, use |-> use, bytes |-> bytes]}
            /\ physicalBytes' = physicalBytes + bytes
            /\ firmwareFree' = firmwareFree - PagesFor(bytes)
            /\ NoteMutation(use)
       ELSE UNCHANGED <<ledgerEntries, physicalBytes, firmwareFree, accountingGeneration>>

\* memory_tracked_free_pool and _pages, vm_uefi_free_page.
TrackedFree(e) ==
  /\ physicalBytes >= e.bytes
  /\ firmwareFree' = firmwareFree + PagesFor(e.bytes)
  /\ ledgerEntries' = ledgerEntries \ {e}
  /\ physicalBytes' = physicalBytes - e.bytes
  /\ NoteMutation(e.use)

Allocate(use, bytes) ==
  /\ classification.valid
  /\ TrackedAllocate(use, bytes)
  /\ status' = NoStatus
  /\ UNCHANGED <<mapVars, arenaVars>>

FreeEntry(e) ==
  /\ e.use \in {"pool", "pages"}
  /\ TrackedFree(e)
  /\ status' = NoStatus
  /\ UNCHANGED <<mapVars, arenaVars>>

-----------------------------------------------------------------------------
(* The arena.                                                              *)

GranuleAddresses(g) == {g + i * AccountingPage : i \in 0 .. (GranulePages - 1)}

ReserveGranule(g) ==
  /\ classification.valid
  /\ reservedGranules' = reservedGranules \cup {g}
  /\ status' = NoStatus
  /\ UNCHANGED <<mapVars, firmwareFree, ledgerEntries, physicalBytes, committedPages,
                 accountingGeneration>>

\* The page is allocated and recorded before it is committed, or neither.
CommitArenaPage(a) ==
  /\ TrackedAllocate("data", AccountingPage)
  /\ committedPages' = IF ledgerEntries' # ledgerEntries THEN committedPages \cup {a}
                                                         ELSE committedPages
  /\ status' = NoStatus
  /\ UNCHANGED <<mapVars, reservedGranules>>

DecommitArenaPage(a) ==
  /\ \E e \in ledgerEntries : e.use = "data" /\ TrackedFree(e)
  /\ committedPages' = committedPages \ {a}
  /\ status' = NoStatus
  /\ UNCHANGED <<mapVars, reservedGranules>>

ReleaseGranule(g) ==
  /\ GranuleAddresses(g) \cap committedPages = {}
  /\ reservedGranules' = reservedGranules \ {g}
  /\ status' = NoStatus
  /\ UNCHANGED <<mapVars, firmwareFree, ledgerEntries, physicalBytes, committedPages,
                 accountingGeneration>>

-----------------------------------------------------------------------------
(* The answer.                                                             *)

\* Mutant: used * 100 in the width of the words.
PercentageOverflowing(used, total) ==
  IF total = 0 \/ used > total THEN 0 ELSE ((used * 100) % (AccountingMax + 1)) \div total

\* percentage_100: a hundred additions of used to a remainder below total.
Percentage100(used, total) ==
  LET threshold == total - used
      step[i \in 0 .. 100] ==
        IF i = 0 THEN [quotient |-> 0, remainder |-> 0]
        ELSE LET s == step[i - 1]
             IN IF s.remainder >= threshold
                  THEN [quotient |-> s.quotient + 1, remainder |-> s.remainder - threshold]
                  ELSE [s EXCEPT !.remainder = @ + used]
  IN IF total = 0 \/ used > total THEN 0
     ELSE IF used = total THEN 100
     ELSE step[100].quotient

CommittedBytes == Cardinality(committedPages) * AccountingPage

\* Mutant: what is committed does not count towards the limit.
CommitLimitPhysical(total, available) == IF available > total THEN total ELSE available

\* gxos_commit_model_create_no_pagefile.
CommitLimit(total, available) ==
  IF available + CommittedBytes > total THEN total ELSE available + CommittedBytes

\* gxos_memory_snapshot_query_current over gxos_physical_snapshot_create,
\* gxos_commit_model_create_no_pagefile and gxos_memory_snapshot_create.
Snapshot ==
  LET total == classification.total
      available == classification.conventional - physicalBytes
      limit == CommitLimit(total, available)
      arena == Cardinality(ArenaGranules) * GranulePages * AccountingPage
  IN [valid |-> /\ total # 0 /\ physicalBytes <= classification.conventional
                /\ available + CommittedBytes <= AccountingMax
                /\ CommittedBytes <= limit,
      total |-> total, available |-> available,
      load |-> Percentage100(total - available, total),
      commitLimit |-> limit, availableCommit |-> limit - CommittedBytes,
      availableVirtual |->
        arena - Cardinality(reservedGranules) * GranulePages * AccountingPage]

\* range_is_writable: a region that meets the range decides; elsewhere one
\* commitment must hold all of it.
StatusWritable(p) ==
  LET meets == {r \in StatusRegions : p < r.end /\ r.base < p + StatusSize}
  IN IF meets # {}
       THEN \E r \in meets : r.base <= p /\ p + StatusSize <= r.end /\ r.writable
       ELSE \E a \in committedPages : a <= p /\ p + StatusSize <= a + AccountingPage

\* platform_global_memory_status_ex; exact: dwLength is the size.  The machine
\* is cooperative, so the generation is the same before and after.
GlobalMemoryStatusEx(p, exact) ==
  /\ classification.valid
  /\ status' = IF p # 0 /\ StatusWritable(p) /\ exact /\ Snapshot.valid
                 THEN [written |-> TRUE, view |-> Snapshot]
                 ELSE NoStatus
  /\ UNCHANGED <<mapVars, firmwareFree, ledgerEntries, physicalBytes, arenaVars,
                 accountingGeneration>>

AccountingNext ==
  \/ \E map \in FirmwareMaps, works \in BOOLEAN : QueryMapSize(map, works)
  \/ AttemptOverflows
  \/ \E map \in FirmwareMaps, allocated \in BOOLEAN : Attempt(map, allocated)
  \/ AttemptRefused
  \/ RetriesExhausted
  \/ Classify
  \/ \E bytes \in PoolSizes : Allocate("pool", bytes)
  \/ \E use \in {"pages", "table"} : Allocate(use, AccountingPage)
  \/ \E e \in ledgerEntries : FreeEntry(e)
  \/ \E g \in ArenaGranules \ reservedGranules : ReserveGranule(g)
  \/ \E g \in reservedGranules : \E a \in GranuleAddresses(g) \ committedPages : CommitArenaPage(a)
  \/ \E a \in committedPages : DecommitArenaPage(a)
  \/ \E g \in reservedGranules : ReleaseGranule(g)
  \/ \E p \in StatusPointers, exact \in BOOLEAN : GlobalMemoryStatusEx(p, exact)

AccountingSpec == AccountingInit /\ [][AccountingNext]_accountingVars

-----------------------------------------------------------------------------
(* Safety.                                                                 *)

\* The buffers of the attempts do not pile up: a retained map has one, which
\* the map fits into, and an acquisition that failed has none, unless the map
\* outgrew every buffer on a retry, where the code returns before it frees
\* (gxos_uefi_memory_map_acquire).
AcquisitionKeepsOneBuffer ==
  /\ Cardinality(poolBlocks) <= 1
  /\ acquisition.status = "ok" => Len(reported) <= acquisition.backing
  /\ acquisition.status \notin {"none", "ok", "overflow"} => poolBlocks = {}

\* The retained map, compensated by the ledger, is what the firmware has left,
\* up to the pages that the pool rounds its blocks to: nothing that was refused
\* or freed stays on either side (gxos_physical_snapshot_create).
AvailableTracksFirmware ==
  classification.valid =>
    classification.conventional - physicalBytes =
      firmwareFree + FoldSet(LAMBDA e, sum : sum + PagesFor(e.bytes) - e.bytes,
                             0, ledgerEntries)

\* The load GlobalMemoryStatusEx reports is the percentage, rounded down,
\* however large used * 100 is (percentage_100).
LoadIsThePercentage ==
  status.written =>
    LET v == status.view IN v.load = (100 * (v.total - v.available)) \div v.total

\* Without a page file what can be committed is what memory is left, however
\* much of it is committed already (gxos_commit_model_create_no_pagefile, and
\* the order of allocation and commitment in the arena).
CommitIsBacked ==
  status.written => status.view.availableCommit = status.view.available

\* The memory status is the truth about the firmware's memory, although it is
\* computed from a map that is out of date, a ledger and the counters of the
\* arena (gxos_memory_snapshot_query_current).
StatusIsTruthful ==
  AvailableTracksFirmware /\ LoadIsThePercentage /\ CommitIsBacked
=============================================================================
