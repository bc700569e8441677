---------------------------- MODULE VirtualMemory ----------------------------
(***************************************************************************)
(* Virtual memory of src/src/Gate4Harness: the public calls of             *)
(* virtual_memory.c, the commit transaction and the page tables of         *)
(* vm_substrate.c, the arena of memory_accounting.c, and the page          *)
(* allocator of gate4_loader.c they are wired to.                          *)
(*                                                                         *)
(* One call runs at a time.  A commit is stepped page by page and, within  *)
(* a page, table by table, because each allocation may be refused and what *)
(* was done so far must then be undone; `op' is the call in progress.      *)
(*                                                                         *)
(* Addresses are relative to the arena, whose base is a multiple of every  *)
(* alignment involved.  The arrays of the arena are functions from slots   *)
(* to records; sizes in them are page counts, since the code stores        *)
(* multiples of the page size only.  The arguments of the calls are bytes. *)
(***************************************************************************)
EXTENDS Integers, Sequences, FiniteSets

CONSTANTS
  PageSize,         \* GXOS_VM_PAGE_SIZE, 4096
  Granule,          \* GXOS_VM_RESERVATION_GRANULARITY in pages, 16
  ArenaPages,       \* GXOS_VM_ARENA_LENGTH in pages, 2^18
  TableSpan,        \* pages one page table maps, 512
  MaxReservations,  \* GXOS_VM_MAX_RESERVATIONS, 256
  MaxCommitments,   \* GXOS_VM_MAX_COMMITMENTS, 4096
  MaxTables,        \* GXOS_VM_MAX_OWNED_TABLE_PAGES, 64
  LedgerCapacity,   \* entries of the physical ledger left to this arena
  Frames,           \* physical pages
  NoFrame,          \* physical address 0
  Sizes             \* the byte counts callers ask for

ASSUME ArenaAssumption ==
  /\ PageSize \in Nat \ {0}
  /\ Granule \in Nat \ {0}
  /\ ArenaPages \in Nat \ {0}
  /\ TableSpan \in Nat \ {0}
  /\ MaxReservations \in Nat \ {0}
  /\ MaxCommitments \in Nat \ {0}
  /\ MaxTables \in Nat \ {0}
  /\ LedgerCapacity \in Nat \ {0}
  /\ NoFrame \notin Frames
  /\ Sizes \subseteq Nat \ {0}

Pages == 0 .. (ArenaPages - 1)
Slots == 0 .. (MaxReservations - 1)
Places == 0 .. (MaxCommitments - 1)
Addresses == 0 .. (ArenaPages * PageSize - 1)
AnyFrame == Frames \cup {NoFrame}

\* A paging structure is <<level, index>>: the owned root is level 4, and the
\* one-GiB arena lies below one entry of it and of the next two levels.
Root == <<4, 0>>
Nodes == {Root, <<3, 0>>, <<2, 0>>} \cup
           {<<1, i>> : i \in {p \div TableSpan : p \in Pages}}

VARIABLES
  reservations,      \* arena->reservations
  commitments,       \* arena->commitments
  reservationCount,  \* arena->reservation_count
  commitmentCount,   \* arena->commitment_count
  reservedPages,     \* arena->total_reserved_bytes
  committedPages,    \* arena->total_committed_bytes
  tables,            \* the frame of each paging structure, owned_table_pages
  pte,               \* the leaf entries
  ledger,            \* the frames the firmware handed out and the ledger lists
  tlb,               \* the translations the processor has cached
  op                 \* the call in progress

arena == <<reservations, commitments, reservationCount, commitmentCount,
           reservedPages, committedPages>>
vars == <<reservations, commitments, reservationCount, commitmentCount,
          reservedPages, committedPages, tables, pte, ledger, tlb, op>>

-----------------------------------------------------------------------------
(* The state of a slot.                                                    *)

ReservationRecord ==
  [live : BOOLEAN, base : Nat, pages : Nat, committed : Nat,
   state : {"NONE", "RESERVED", "COMMITTED"}]

NoReservation ==
  [live |-> FALSE, base |-> 0, pages |-> 0, committed |-> 0, state |-> "NONE"]

CommitmentRecord ==
  [live : BOOLEAN, slot : Slots, page : Pages, frame : AnyFrame]

NoCommitment == [live |-> FALSE, slot |-> 0, page |-> 0, frame |-> NoFrame]

\* GXOS_VM_CREATED_PAGE, and the variables of gxos_vm_commit_range: the slot, the page range, the page
\* the loop is at, the frame in hand, and the pages created so far.  `fresh'
\* is set when VirtualAlloc made the reservation in the same call.
CreatedRecord == [page : Pages, frame : Frames]

OpRecord ==
  [pc : {"idle", "page", "map", "record", "rollback"}, slot : Slots,
   first : Pages, last : Pages, next : Nat, frame : AnyFrame,
   created : Seq(CreatedRecord), fresh : BOOLEAN]

Idle ==
  [pc |-> "idle", slot |-> 0, first |-> 0, last |-> 0, next |-> 0,
   frame |-> NoFrame, created |-> <<>>, fresh |-> FALSE]

Extent(r) == r.base .. (r.base + r.pages - 1)
LiveSlots == {s \in Slots : reservations[s].live}
LivePlaces == {c \in Places : commitments[c].live}
PlacesOf(s) == {c \in LivePlaces : commitments[c].slot = s}

\* gxos_vm_arena_find_reservation and gxos_vm_arena_find_commitment take the
\* first slot that contains the page.
IsLowest(S, i) == i \in S /\ \A j \in S : i <= j
Holding(p) == {s \in LiveSlots : p \in Extent(reservations[s])}
Backing(p) == {c \in LivePlaces : commitments[c].page = p}

-----------------------------------------------------------------------------
(* Sizes and placement.                                                    *)

\* page_round
RoundPages(bytes) == (bytes + PageSize - 1) \div PageSize

\* Mutant: an aligned value is moved to the next boundary.
AlignUpAlways(p) == (p \div Granule + 1) * Granule

\* align_up_u64 to the reservation granularity
AlignUp(p) == ((p + Granule - 1) \div Granule) * Granule

Overlaps(base, n, r) == base < r.base + r.pages /\ r.base < base + n

Conflicts(base, n) == {s \in LiveSlots : Overlaps(base, n, reservations[s])}

\* Behind the last conflicting reservation, aligned.
NextCandidate(base, n) ==
  CHOOSE b \in {AlignUp(reservations[s].base + reservations[s].pages) :
                  s \in Conflicts(base, n)} :
    \A s \in Conflicts(base, n) :
      AlignUp(reservations[s].base + reservations[s].pages) <= b

\* The scan of gxos_vm_arena_reserve_any; -1 when it leaves the arena.
Candidate(n) ==
  LET scan[b \in 0 .. (ArenaPages + Granule)] ==
        IF b + n > ArenaPages THEN -1
        ELSE IF Conflicts(b, n) = {} THEN b
        ELSE scan[NextCandidate(b, n)]
  IN scan[0]

-----------------------------------------------------------------------------
(* Reserving and releasing.                                                *)

Init ==
  /\ reservations = [s \in Slots |-> NoReservation]
  /\ commitments = [c \in Places |-> NoCommitment]
  /\ reservationCount = 0
  /\ commitmentCount = 0
  /\ reservedPages = 0
  /\ committedPages = 0
  /\ \E root \in Frames :
       /\ tables = [n \in Nodes |-> IF n = Root THEN root ELSE NoFrame]
       /\ ledger = {root}
  /\ pte = [p \in Pages |-> NoFrame]
  /\ tlb = [p \in Pages |-> NoFrame]
  /\ op = Idle

\* gxos_vm_arena_reserve_fixed and gxos_vm_arena_reserve
Reserve(s, base, n) ==
  /\ base % Granule = 0
  /\ base \in Pages /\ base + n <= ArenaPages
  /\ Conflicts(base, n) = {}
  /\ reservationCount < MaxReservations
  /\ IsLowest(Slots \ LiveSlots, s)
  /\ reservations' = [reservations EXCEPT ![s] =
       [live |-> TRUE, base |-> base, pages |-> n, committed |-> 0,
        state |-> "RESERVED"]]
  /\ reservationCount' = reservationCount + 1
  /\ reservedPages' = reservedPages + n
  /\ UNCHANGED <<commitments, commitmentCount, committedPages>>

\* gxos_vm_public_virtual_alloc with MEM_RESERVE and no address
VirtualAllocReserve(bytes) ==
  /\ op = Idle
  /\ \E s \in Slots :
       LET n == RoundPages(bytes) IN
         /\ Candidate(n) # -1
         /\ Reserve(s, Candidate(n), n)
  /\ UNCHANGED <<tables, pte, ledger, tlb, op>>

\* The start of gxos_vm_commit_range; a range with more pages than there are
\* commitments is refused before anything is done.
CommitOp(s, first, last, fresh) ==
  [Idle EXCEPT
     !.pc = IF last - first + 1 <= MaxCommitments THEN "page" ELSE "rollback",
     !.slot = s, !.first = first, !.last = last, !.next = first,
     !.fresh = fresh]

\* MEM_RESERVE | MEM_COMMIT and no address
VirtualAllocReserveCommit(bytes) ==
  /\ op = Idle
  /\ \E s \in Slots :
       LET n == RoundPages(bytes)
           base == Candidate(n)
       IN
         /\ base # -1
         /\ Reserve(s, base, n)
         /\ op' = CommitOp(s, base, base + n - 1, TRUE)
  /\ UNCHANGED <<tables, pte, ledger, tlb>>

\* MEM_COMMIT at an address; commit_range refuses a range that leaves the
\* reservation of its first page.
VirtualAllocCommit(address, bytes) ==
  /\ op = Idle
  /\ \E s \in Slots :
       LET first == address \div PageSize
           last == RoundPages(address + bytes) - 1
       IN
         /\ IsLowest(Holding(first), s)
         /\ last \in Extent(reservations[s])
         /\ op' = CommitOp(s, first, last, FALSE)
  /\ UNCHANGED <<arena, tables, pte, ledger, tlb>>

\* Mutant: the entry stays present.
UnmapNothing(P) == UNCHANGED <<pte, tlb>>

\* Mutant: the translation is not invalidated.
UnmapWithoutInvlpg(P) ==
  /\ pte' = [p \in Pages |-> IF p \in P THEN NoFrame ELSE pte[p]]
  /\ UNCHANGED tlb

\* gxos_vm_paging_unmap_page clears the entry and executes invlpg.
UnmapPages(P) ==
  /\ pte' = [p \in Pages |-> IF p \in P THEN NoFrame ELSE pte[p]]
  /\ tlb' = [p \in Pages |-> IF p \in P THEN NoFrame ELSE tlb[p]]

\* Mutant: the reservation stays COMMITTED when its last page is given up.
DecommittedKeepingState(s, C) ==
  [reservations EXCEPT ![s].committed = @ - Cardinality(C)]

\* gxos_vm_arena_decommit_page for the commitments C of the reservation s
Decommitted(s, C) ==
  LET left == reservations[s].committed - Cardinality(C) IN
    [reservations EXCEPT ![s].committed = left,
                         ![s].state = IF left = 0 THEN "RESERVED" ELSE @]

\* Mutant: the total is reduced once per page and once per call.
DecommitPlacesTwice(C) ==
  /\ commitments' = [c \in Places |->
                       IF c \in C THEN NoCommitment ELSE commitments[c]]
  /\ commitmentCount' = commitmentCount - Cardinality(C)
  /\ committedPages' = committedPages - 1 - Cardinality(C)

DecommitPlaces(C) ==
  /\ commitments' = [c \in Places |->
                       IF c \in C THEN NoCommitment ELSE commitments[c]]
  /\ commitmentCount' = commitmentCount - Cardinality(C)
  /\ committedPages' = committedPages - Cardinality(C)

PagesOf(C) == {commitments[c].page : c \in C}
FramesOf(C) == {commitments[c].frame : c \in C}

\* Every commitment of s is unmapped, forgotten and its frame freed; then
\* gxos_vm_arena_release gives up the reservation.
ReleaseReservation(s) ==
  LET C == PlacesOf(s) IN
    /\ Decommitted(s, C)[s].committed = 0
    /\ UnmapPages(PagesOf(C))
    /\ DecommitPlaces(C)
    /\ ledger' = ledger \ FramesOf(C)
    /\ reservations' = [reservations EXCEPT ![s] = NoReservation]
    /\ reservationCount' = reservationCount - 1
    /\ reservedPages' = reservedPages - reservations[s].pages
    /\ op' = Idle
    /\ UNCHANGED tables

\* gxos_vm_public_virtual_free: the address must be the base of the first
\* reservation that contains it.  Its first loop refuses the call when a
\* commitment and its leaf entry disagree.
VirtualFree(address) ==
  /\ op = Idle
  /\ \E s \in Slots :
       /\ IsLowest(Holding(address \div PageSize), s)
       /\ reservations[s].base * PageSize = address
       /\ \A c \in PlacesOf(s) :
            pte[commitments[c].page] = commitments[c].frame
       /\ ReleaseReservation(s)

-----------------------------------------------------------------------------
(* The commit transaction, gxos_vm_commit_range.                           *)

\* What vm_uefi_allocate_page can return: the ledger must have room.
Available == {f \in Frames \ ledger : Cardinality(ledger) < LedgerCapacity}

\* The paging structures above a page, in the order map_page descends, and
\* the steps of this descent at which there is none yet.
Path(p) == << <<3, 0>>, <<2, 0>>, <<1, p \div TableSpan>> >>
Missing(p) == {i \in 1 .. 3 : tables[Path(p)[i]] = NoFrame}

OwnedTables == {n \in Nodes : tables[n] # NoFrame}

\* All pages of the range are committed and mapped.
CommitDone ==
  /\ op.pc = "page"
  /\ op.next > op.last
  /\ op' = Idle
  /\ UNCHANGED <<arena, tables, pte, ledger, tlb>>

\* Mutant: the loop does not advance over a committed page.
SkipCommittedInPlace ==
  /\ op.pc = "page"
  /\ op.next <= op.last
  /\ Backing(op.next) # {}
  /\ UNCHANGED vars

\* A page that is committed already is left alone, if its mapping agrees.
SkipCommitted ==
  /\ op.pc = "page"
  /\ op.next <= op.last
  /\ \E c \in Places :
       /\ IsLowest(Backing(op.next), c)
       /\ op' = IF pte[op.next] = commitments[c].frame
                  THEN [op EXCEPT !.next = @ + 1]
                  ELSE [op EXCEPT !.pc = "rollback"]
  /\ UNCHANGED <<arena, tables, pte, ledger, tlb>>

\* allocate_page hands out a zeroed frame
AllocateData(f) ==
  /\ op.pc = "page"
  /\ op.next <= op.last
  /\ Backing(op.next) = {}
  /\ f \in Available
  /\ ledger' = ledger \cup {f}
  /\ op' = [op EXCEPT !.pc = "map", !.frame = f]
  /\ UNCHANGED <<arena, tables, pte, tlb>>

\* or fails: the firmware may be out of pages at any time.
AllocateDataFails ==
  /\ op.pc = "page"
  /\ op.next <= op.last
  /\ Backing(op.next) = {}
  /\ op' = [op EXCEPT !.pc = "rollback"]
  /\ UNCHANGED <<arena, tables, pte, ledger, tlb>>

\* allocate_table for the first structure that is missing on the way down
AllocateTable(f) ==
  /\ op.pc = "map"
  /\ Cardinality(OwnedTables) < MaxTables
  /\ f \in Available
  /\ \E i \in 1 .. 3 :
       /\ IsLowest(Missing(op.next), i)
       /\ tables' = [tables EXCEPT ![Path(op.next)[i]] = f]
  /\ ledger' = ledger \cup {f}
  /\ UNCHANGED <<arena, pte, tlb, op>>

\* Mutant: the frame in hand is forgotten.
MapFailsLeaking ==
  /\ op.pc = "map"
  /\ Missing(op.next) # {}
  /\ op' = [op EXCEPT !.pc = "rollback", !.frame = NoFrame]
  /\ UNCHANGED <<arena, tables, pte, ledger, tlb>>

\* gxos_vm_paging_map_page fails for want of a table or because the entry is
\* present (mapping_failure): the frame in hand is freed, tables are kept.
MapFails ==
  /\ op.pc = "map"
  /\ ~(Missing(op.next) = {} /\ pte[op.next] = NoFrame)
  /\ ledger' = ledger \ {op.frame}
  /\ op' = [op EXCEPT !.pc = "rollback", !.frame = NoFrame]
  /\ UNCHANGED <<arena, tables, pte, tlb>>

MapPage ==
  /\ op.pc = "map"
  /\ Missing(op.next) = {}
  /\ pte[op.next] = NoFrame
  /\ pte' = [pte EXCEPT ![op.next] = op.frame]
  /\ tlb' = [tlb EXCEPT ![op.next] = NoFrame]
  /\ op' = [op EXCEPT !.pc = "record"]
  /\ UNCHANGED <<arena, tables, ledger>>

\* gxos_vm_arena_commit_page
RecordCommitment ==
  /\ op.pc = "record"
  /\ commitmentCount < MaxCommitments
  /\ \E s \in Slots, c \in Places :
       /\ IsLowest(Holding(op.next), s)
       /\ IsLowest(Places \ LivePlaces, c)
       /\ commitments' = [commitments EXCEPT ![c] =
            [live |-> TRUE, slot |-> s, page |-> op.next, frame |-> op.frame]]
       /\ reservations' = [reservations EXCEPT ![s].committed = @ + 1,
                                              ![s].state = "COMMITTED"]
  /\ commitmentCount' = commitmentCount + 1
  /\ committedPages' = committedPages + 1
  /\ op' = [op EXCEPT !.pc = "page", !.next = @ + 1, !.frame = NoFrame,
                      !.created = Append(@, [page |-> op.next,
                                             frame |-> op.frame])]
  /\ UNCHANGED <<reservationCount, reservedPages, tables, pte, ledger, tlb>>

\* bookkeeping_failure: the page just mapped is unmapped and freed.
RecordFails ==
  /\ op.pc = "record"
  /\ commitmentCount >= MaxCommitments
  /\ UnmapPages({op.next})
  /\ ledger' = ledger \ {op.frame}
  /\ op' = [op EXCEPT !.pc = "rollback", !.frame = NoFrame]
  /\ UNCHANGED <<arena, tables>>

\* The loop that undoes the pages created so far, the last one first.
RollbackPage ==
  /\ op.pc = "rollback"
  /\ op.created # <<>>
  /\ LET made == op.created[Len(op.created)] IN
       /\ UnmapPages({made.page})
       /\ \E c \in Places :
            /\ IsLowest(Backing(made.page), c)
            /\ DecommitPlaces({c})
            /\ reservations' = Decommitted(commitments[c].slot, {c})
       /\ ledger' = ledger \ {made.frame}
  /\ op' = [op EXCEPT !.created = SubSeq(@, 1, Len(@) - 1)]
  /\ UNCHANGED <<reservationCount, reservedPages, tables>>

RollbackDone ==
  /\ op.pc = "rollback"
  /\ op.created = <<>>
  /\ ~op.fresh
  /\ op' = Idle
  /\ UNCHANGED <<arena, tables, pte, ledger, tlb>>

\* When the same call made the reservation, gxos_vm_public_virtual_alloc
\* releases whatever is still committed in it, and the reservation.
UndoReservation ==
  /\ op.pc = "rollback"
  /\ op.created = <<>>
  /\ op.fresh
  /\ ReleaseReservation(op.slot)

\* The processor may cache any present translation whenever it likes.
TlbFill(p) ==
  /\ pte[p] # NoFrame
  /\ tlb' = [tlb EXCEPT ![p] = pte[p]]
  /\ UNCHANGED <<arena, tables, pte, ledger, op>>

Next ==
  \/ \E bytes \in Sizes :
       \/ VirtualAllocReserve(bytes)
       \/ VirtualAllocReserveCommit(bytes)
       \/ \E address \in Addresses : VirtualAllocCommit(address, bytes)
  \/ \E address \in Addresses : VirtualFree(address)
  \/ CommitDone
  \/ SkipCommitted
  \/ \E f \in Frames : AllocateData(f) \/ AllocateTable(f)
  \/ AllocateDataFails
  \/ MapFails
  \/ MapPage
  \/ RecordCommitment
  \/ RecordFails
  \/ RollbackPage
  \/ RollbackDone
  \/ UndoReservation
  \/ \E p \in Pages : TlbFill(p)

Spec == Init /\ [][Next]_vars

-----------------------------------------------------------------------------
(* Safety.                                                                 *)

\* The types of the variables.
TypeOK ==
  /\ reservations \in [Slots -> ReservationRecord]
  /\ commitments \in [Places -> CommitmentRecord]
  /\ reservationCount \in Nat
  /\ commitmentCount \in Nat
  /\ reservedPages \in Nat
  /\ committedPages \in Nat
  /\ tables \in [Nodes -> AnyFrame]
  /\ pte \in [Pages -> AnyFrame]
  /\ ledger \subseteq Frames
  /\ tlb \in [Pages -> AnyFrame]
  /\ op \in OpRecord

\* No two reservations overlap and each lies inside the arena.
ReservationsAreDisjoint ==
  /\ \A s \in LiveSlots :
       /\ reservations[s].pages # 0
       /\ reservations[s].base + reservations[s].pages <= ArenaPages
  /\ \A s, t \in LiveSlots :
       s # t => Extent(reservations[s]) \cap Extent(reservations[t]) = {}

\* A page is committed at most once, to the reservation that contains it.
CommitmentsAreInReservations ==
  /\ \A c \in LivePlaces :
       /\ reservations[commitments[c].slot].live
       /\ commitments[c].page \in Extent(reservations[commitments[c].slot])
  /\ \A c, d \in LivePlaces : commitments[c].page = commitments[d].page => c = d

\* The counters the calls maintain beside the tables.
CountersMatch ==
  /\ reservationCount = Cardinality(LiveSlots)
  /\ reservedPages = Cardinality(UNION {Extent(reservations[s]) : s \in LiveSlots})
  /\ commitmentCount = Cardinality(LivePlaces)
  /\ committedPages = Cardinality(LivePlaces)
  /\ \A s \in LiveSlots :
       /\ reservations[s].committed = Cardinality(PlacesOf(s))
       /\ reservations[s].state =
            IF PlacesOf(s) = {} THEN "RESERVED" ELSE "COMMITTED"

\* What gxos_vm_arena_validate checks holds at every point of every call, so
\* that a memory snapshot, which is refused when it fails, can be taken there.
ArenaIsValid ==
  /\ TypeOK
  /\ ReservationsAreDisjoint /\ CommitmentsAreInReservations /\ CountersMatch

\* A leaf entry maps a page exactly when the page is committed, to the frame
\* of its commitment; only the page a commit is about to record is ahead.
\* The calls refuse to work (INCONSISTENT) when they find it otherwise.
MappingsMatchCommitments ==
  /\ \A c \in LivePlaces :
       commitments[c].frame # NoFrame
         /\ pte[commitments[c].page] = commitments[c].frame
  /\ \A p \in Pages : pte[p] # NoFrame =>
       \/ \E c \in LivePlaces : commitments[c].page = p
       \/ op.pc = "record" /\ p = op.next /\ pte[p] = op.frame
  /\ \A p \in Pages : pte[p] # NoFrame => Missing(p) = {}

\* Every frame the ledger lists has one owner: a paging structure, a
\* commitment, or the page being committed.  No frame leaks, none is used
\* twice, and vm_uefi_free_page is never asked to free what the ledger does
\* not list (which would stop the machine).
FramesHaveOneOwner ==
  LET owners(f) ==
        {<<"table", n>> : n \in {n \in Nodes : tables[n] = f}}
          \cup {<<"data", c>> : c \in {c \in LivePlaces : commitments[c].frame = f}}
          \cup {<<"hand", 0>> : x \in {x \in {op} : x.frame = f}}
  IN \A f \in Frames :
       Cardinality(owners(f)) = IF f \in ledger THEN 1 ELSE 0

\* The processor never translates through an entry that was cleared: no
\* frame that was freed, or given to another page, is reachable by the
\* address it used to have.
NoStaleTranslation ==
  \A p \in Pages : tlb[p] # NoFrame => tlb[p] = pte[p]

-----------------------------------------------------------------------------
(* Refinement: a call takes effect as a whole when it returns.             *)

\* The reservation and the pages of a call in progress are not yet visible.
VisibleSlots == {s \in LiveSlots : ~(op.fresh /\ s = op.slot)}

CreatedPages == {op.created[i].page : i \in 1 .. Len(op.created)}

Contract == INSTANCE AddressSpace WITH
  regions <- {[base |-> reservations[s].base, pages |-> reservations[s].pages] :
                s \in VisibleSlots},
  backed <- PagesOf(LivePlaces) \ CreatedPages

\* VirtualAlloc reserves at the lowest aligned place that fits, commits all
\* the pages it was asked for or none, and VirtualFree gives back a whole
\* region with its pages, whichever allocation fails on the way.
ImplementsAddressSpace == Contract!Spec

-----------------------------------------------------------------------------
(* Liveness.                                                               *)

\* The steps of a call in progress; which allocation fails is left open.
Step ==
  \/ CommitDone \/ SkipCommitted
  \/ \E f \in Frames : AllocateData(f) \/ AllocateTable(f)
  \/ AllocateDataFails \/ MapFails \/ MapPage
  \/ RecordCommitment \/ RecordFails
  \/ RollbackPage \/ RollbackDone \/ UndoReservation

\* The processor goes on executing the call it is in.
FairSpec == Spec /\ WF_vars(Step)

\* Every call returns: no combination of existing pages, missing tables and
\* failures leaves a commit or its rollback without a next step.
CallsReturn == op.pc # "idle" ~> op.pc = "idle"
=============================================================================
