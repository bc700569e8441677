------------------------- MODULE VirtualMemoryProofs -------------------------
(***************************************************************************)
(* Proofs about the virtual memory calls, for every size of the arena, of  *)
(* its tables and of the ledger: the arena stays valid, the page tables    *)
(* agree with it, every frame has one owner, and no stale translation is   *)
(* left behind.                                                            *)
(*                                                                         *)
(* The invariants the runs check say little about the commit in progress,  *)
(* so they are not inductive.  CallIsConsistent adds what gxos_vm_commit_  *)
(* range relies on: that its range lies in a reservation which stays live, *)
(* that the frame in hand is the one it mapped, and that the pages it will *)
(* roll back are the ones it created.                                      *)
(*                                                                         *)
(* The second part shows that VirtualMemory implements AddressSpace: a     *)
(* call of VirtualAlloc or VirtualFree takes effect as a whole or not at   *)
(* all, and a reservation without an address gets the lowest place that    *)
(* fits.  Two arguments carry it.  The scan of gxos_vm_arena_reserve_any   *)
(* skips from one conflict to the next; what lies between does not fit     *)
(* either, so it returns the lowest fit (CandidateIsLowest).  And a commit *)
(* in progress can always tell its own pages from those that were there    *)
(* before, so that it can be undone without a trace (CallIsAtomic).        *)
(***************************************************************************)
EXTENDS VirtualMemory, TLAPS, FiniteSetTheorems, SequenceTheorems,
        WellFoundedInduction

-----------------------------------------------------------------------------
(* The inductive invariant.                                                *)

\* The frame in hand exists between its allocation and its commitment, and
\* the range of the call lies in one live reservation.
RangeIsReserved ==
  /\ op.pc \in {"map", "record"} <=> op.frame # NoFrame
  /\ op.pc # "idle" =>
       /\ reservations[op.slot].live
       /\ op.first \in Extent(reservations[op.slot])
       /\ op.last \in Extent(reservations[op.slot])
       /\ op.first <= op.next
  /\ op.pc \in {"map", "record"} => op.next <= op.last /\ Backing(op.next) = {}
  /\ op.pc = "record" => pte[op.next] = op.frame

\* The pages a rollback undoes are distinct, lie behind the loop, and are
\* committed to the frames the call allocated for them.
CreatedAreCommitted ==
  /\ op.pc = "idle" => op.created = <<>>
  /\ \A i \in 1 .. Len(op.created) :
       /\ op.created[i].page < op.next
       /\ \E c \in LivePlaces : /\ commitments[c].page = op.created[i].page
                                /\ commitments[c].frame = op.created[i].frame
  /\ \A i, j \in 1 .. Len(op.created) :
       op.created[i].page = op.created[j].page => i = j

CallIsConsistent == RangeIsReserved /\ CreatedAreCommitted

\* The three kinds of owners hold frames of the ledger,
OwnersHoldFrames ==
  /\ \A n \in Nodes : tables[n] # NoFrame => tables[n] \in ledger
  /\ \A c \in LivePlaces : commitments[c].frame \in ledger
  /\ op.frame # NoFrame => op.frame \in ledger

\* no two owners the same frame,
OwnersAreApart ==
  /\ \A m, n \in Nodes : tables[m] # NoFrame /\ tables[m] = tables[n] => m = n
  /\ \A c, d \in LivePlaces :
       commitments[c].frame = commitments[d].frame => c = d
  /\ \A n \in Nodes, c \in LivePlaces : tables[n] # commitments[c].frame
  /\ op.frame # NoFrame =>
       /\ \A n \in Nodes : tables[n] # op.frame
       /\ \A c \in LivePlaces : commitments[c].frame # op.frame

\* and no frame is without an owner.
NoFrameLeaks ==
  \A f \in ledger :
    \/ \E n \in Nodes : tables[n] = f
    \/ \E c \in LivePlaces : commitments[c].frame = f
    \/ op.frame = f

Ownership == OwnersHoldFrames /\ OwnersAreApart /\ NoFrameLeaks

MemoryInv ==
  /\ ArenaIsValid
  /\ MappingsMatchCommitments
  /\ NoStaleTranslation
  /\ Ownership
  /\ CallIsConsistent

-----------------------------------------------------------------------------
(* Arithmetic and finite sets.                                             *)

LEMMA ConstantsAreNat ==
  /\ PageSize \in Nat /\ PageSize # 0
  /\ Granule \in Nat /\ ArenaPages \in Nat /\ TableSpan \in Nat
  /\ MaxReservations \in Nat /\ MaxReservations # 0
  /\ MaxCommitments \in Nat /\ MaxCommitments # 0
  /\ NoFrame \notin Frames
  /\ Sizes \subseteq Nat \ {0}
  BY ArenaAssumption

LEMMA RangesAreFinite ==
  /\ IsFiniteSet(Slots) /\ IsFiniteSet(Places) /\ IsFiniteSet(Pages)
  <1>1. /\ 0 \in Int /\ MaxReservations - 1 \in Int
        /\ MaxCommitments - 1 \in Int /\ ArenaPages - 1 \in Int
    BY ConstantsAreNat
  <1>2. QED
    BY <1>1, FS_Interval DEF Slots, Places, Pages

LEMMA CardinalityWithout ==
  ASSUME NEW S, IsFiniteSet(S), NEW T \in SUBSET S
  PROVE  /\ Cardinality(S \ T) = Cardinality(S) - Cardinality(T)
         /\ Cardinality(S \ T) \in Nat
  <1>1. S \cap T = T
    OBVIOUS
  <1>2. /\ IsFiniteSet(S \ T)
        /\ Cardinality(S \ T) = Cardinality(S) - Cardinality(S \cap T)
    BY FS_Difference
  <1>3. Cardinality(S \ T) \in Nat
    BY <1>2, FS_CardinalityType
  <1>4. QED
    BY <1>1, <1>2, <1>3

\* A call that asks for bytes asks for a page at least.
LEMMA RoundPagesIsPositive ==
  ASSUME NEW bytes \in Nat \ {0}
  PROVE  RoundPages(bytes) \in Nat \ {0}
  <1>1. /\ PageSize \in Nat \ {0}
        /\ bytes + PageSize - 1 \in Nat
        /\ bytes + PageSize - 1 >= PageSize
    BY ConstantsAreNat
  <1>2. QED
    BY <1>1 DEF RoundPages

\* What IsLowest says of the element it picks.
LEMMA LowestIsMember ==
  ASSUME NEW S, NEW i, IsLowest(S, i)
  PROVE  i \in S
  BY DEF IsLowest

-----------------------------------------------------------------------------
(* The arena: reservations, commitments and their counters.                *)

ArenaType ==
  /\ reservations \in [Slots -> ReservationRecord]
  /\ commitments \in [Places -> CommitmentRecord]
  /\ reservationCount \in Nat
  /\ commitmentCount \in Nat
  /\ reservedPages \in Nat
  /\ committedPages \in Nat

ArenaInv ==
  /\ ArenaType
  /\ ReservationsAreDisjoint /\ CommitmentsAreInReservations /\ CountersMatch

PagingType ==
  /\ tables \in [Nodes -> AnyFrame]
  /\ pte \in [Pages -> AnyFrame]
  /\ ledger \subseteq Frames
  /\ tlb \in [Pages -> AnyFrame]
  /\ op \in OpRecord

LEMMA ArenaIsValidSplit == ArenaIsValid <=> ArenaInv /\ PagingType
  BY DEF ArenaIsValid, TypeOK, ArenaInv, ArenaType, PagingType

\* The pages of all reservations, as CountersMatch counts them.
Reserved == UNION {Extent(reservations[s]) : s \in LiveSlots}

LEMMA ReservationFields ==
  ASSUME ArenaType, NEW s \in Slots
  PROVE  /\ reservations[s] \in ReservationRecord
         /\ reservations[s].live \in BOOLEAN
         /\ reservations[s].base \in Nat
         /\ reservations[s].pages \in Nat
         /\ reservations[s].committed \in Nat
         /\ reservations[s].state \in {"NONE", "RESERVED", "COMMITTED"}
  BY DEF ArenaType, ReservationRecord

LEMMA CommitmentFields ==
  ASSUME ArenaType, NEW c \in Places
  PROVE  /\ commitments[c] \in CommitmentRecord
         /\ commitments[c].live \in BOOLEAN
         /\ commitments[c].slot \in Slots
         /\ commitments[c].page \in Pages
         /\ commitments[c].frame \in AnyFrame
  BY DEF ArenaType, CommitmentRecord

\* Live sets are subsets of finite sets, so their cardinalities are numbers.
LEMMA LiveSetsAreFinite ==
  /\ IsFiniteSet(LiveSlots) /\ IsFiniteSet(LivePlaces)
  /\ \A s : IsFiniteSet(PlacesOf(s))
  <1>1. LiveSlots \in SUBSET Slots /\ LivePlaces \in SUBSET Places
    BY DEF LiveSlots, LivePlaces
  <1>2. \A s : PlacesOf(s) \in SUBSET Places
    BY DEF PlacesOf, LivePlaces
  <1>3. IsFiniteSet(Slots) /\ IsFiniteSet(Places)
    BY RangesAreFinite
  <1>4. QED
    BY <1>1, <1>2, <1>3, FS_Subset

LEMMA ExtentsAreInArena ==
  ASSUME ArenaInv, NEW s \in LiveSlots
  PROVE  /\ Extent(reservations[s]) \in SUBSET Pages
         /\ IsFiniteSet(Extent(reservations[s]))
         /\ Cardinality(Extent(reservations[s])) = reservations[s].pages
  <1>1. s \in Slots
    BY DEF LiveSlots
  <1>2. /\ reservations[s].base \in Nat /\ reservations[s].pages \in Nat
        /\ reservations[s].pages # 0
        /\ reservations[s].base + reservations[s].pages <= ArenaPages
    BY <1>1, ReservationFields DEF ArenaInv, ReservationsAreDisjoint
  <1>3. Extent(reservations[s]) \in SUBSET Pages
    BY <1>2, ConstantsAreNat DEF Extent, Pages
  <1> DEFINE a == reservations[s].base
             b == reservations[s].base + reservations[s].pages - 1
  <1>4. /\ a \in Int /\ b \in Int
        /\ (IF a > b THEN 0 ELSE b - a + 1) = reservations[s].pages
    BY <1>2
  <1>5. /\ IsFiniteSet(a .. b)
        /\ Cardinality(a .. b) = IF a > b THEN 0 ELSE b - a + 1
    BY <1>4, FS_Interval
  <1>6. QED
    BY <1>3, <1>4, <1>5 DEF Extent

LEMMA ReservedIsFinite ==
  ASSUME ArenaInv
  PROVE  IsFiniteSet(Reserved)
  <1>1. Reserved \in SUBSET Pages
    BY ExtentsAreInArena DEF Reserved
  <1>2. QED
    BY <1>1, RangesAreFinite, FS_Subset

\* gxos_vm_arena_reserve keeps the arena valid.
LEMMA ReserveKeepsArena ==
  ASSUME ArenaInv, NEW s \in Slots, NEW base, NEW n \in Nat \ {0},
         Reserve(s, base, n)
  PROVE  /\ ArenaInv'
         /\ s \notin LiveSlots /\ s \in LiveSlots'
         /\ Extent(reservations[s])' = base .. (base + n - 1)
         /\ \A t \in LiveSlots : t \in LiveSlots' /\ reservations'[t] = reservations[t]
  <1> DEFINE new == [live |-> TRUE, base |-> base, pages |-> n,
                     committed |-> 0, state |-> "RESERVED"]
  <1>1. /\ base \in Nat /\ base + n <= ArenaPages
        /\ s \in Slots \ LiveSlots
        /\ Conflicts(base, n) = {}
        /\ UNCHANGED <<commitments, commitmentCount, committedPages>>
        /\ reservationCount' = reservationCount + 1
        /\ reservedPages' = reservedPages + n
        /\ reservations' = [reservations EXCEPT ![s] = new]
    BY LowestIsMember, ConstantsAreNat DEF Reserve, Pages
  <1>2. ArenaType
    BY DEF ArenaInv
  <1>3. new \in ReservationRecord
    BY <1>1 DEF ReservationRecord
  <1>4. /\ reservations' \in [Slots -> ReservationRecord]
        /\ reservations'[s] = new
        /\ \A t \in Slots : t # s => reservations'[t] = reservations[t]
    BY <1>1, <1>2, <1>3 DEF ArenaType
  <1>5. /\ new.live /\ new.base = base /\ new.pages = n
        /\ new.committed = 0 /\ new.state = "RESERVED"
    OBVIOUS
  <1> HIDE DEF new
  <1>6. LiveSlots' = LiveSlots \cup {s}
    BY <1>1, <1>4, <1>5 DEF LiveSlots
  <1>7. \A t \in LiveSlots : t # s /\ t \in Slots /\ reservations'[t] = reservations[t]
    BY <1>1, <1>4 DEF LiveSlots
  <1>8. LivePlaces' = LivePlaces /\ \A t : PlacesOf(t)' = PlacesOf(t)
    BY <1>1 DEF LivePlaces, PlacesOf
  <1>9. PlacesOf(s) = {}
    BY <1>1 DEF ArenaInv, CommitmentsAreInReservations, PlacesOf, LivePlaces, LiveSlots
  <1>10. Extent(reservations[s])' = base .. (base + n - 1)
    BY <1>4, <1>5 DEF Extent
  <1>11. \A t \in LiveSlots : Extent(reservations[t])' = Extent(reservations[t])
    BY <1>7 DEF Extent
  <1>12. \A t \in LiveSlots :
           Extent(reservations[t]) \cap (base .. (base + n - 1)) = {}
    <2> SUFFICES ASSUME NEW t \in LiveSlots, NEW p \in Extent(reservations[t]),
                        p \in base .. (base + n - 1)
                 PROVE  FALSE
      OBVIOUS
    <2>1. ~Overlaps(base, n, reservations[t])
      BY <1>1 DEF Conflicts
    <2>2. reservations[t].base \in Nat /\ reservations[t].pages \in Nat
      BY <1>2, <1>7, ReservationFields
    <2>3. QED
      BY <1>1, <2>1, <2>2 DEF Overlaps, Extent
  <1>13. ReservationsAreDisjoint'
    <2>1. \A t \in LiveSlots' :
            /\ reservations'[t].pages # 0
            /\ reservations'[t].base + reservations'[t].pages <= ArenaPages
      BY <1>1, <1>4, <1>5, <1>6, <1>7 DEF ArenaInv, ReservationsAreDisjoint
    <2>2. ASSUME NEW t \in LiveSlots', NEW u \in LiveSlots', t # u
          PROVE  Extent(reservations'[t]) \cap Extent(reservations'[u]) = {}
      <3>1. CASE t \in LiveSlots /\ u \in LiveSlots
        BY <2>2, <3>1, <1>7 DEF ArenaInv, ReservationsAreDisjoint
      <3>2. CASE t = s
        BY <2>2, <3>2, <1>6, <1>10, <1>11, <1>12
      <3>3. CASE u = s
        BY <2>2, <3>3, <1>6, <1>10, <1>11, <1>12
      <3>4. QED
        BY <3>1, <3>2, <3>3, <1>6
    <2>3. QED
      BY <2>1, <2>2 DEF ReservationsAreDisjoint
  <1>14. CommitmentsAreInReservations'
    <2>1. ASSUME NEW c \in LivePlaces
          PROVE  /\ reservations'[commitments[c].slot].live
                 /\ commitments[c].page \in Extent(reservations'[commitments[c].slot])
      <3>1. /\ commitments[c].slot \in Slots
            /\ reservations[commitments[c].slot].live
            /\ commitments[c].page \in Extent(reservations[commitments[c].slot])
        BY <1>2, CommitmentFields DEF ArenaInv, CommitmentsAreInReservations, LivePlaces
      <3>2. reservations'[commitments[c].slot] = reservations[commitments[c].slot]
        BY <3>1, <1>7 DEF LiveSlots
      <3>3. QED
        BY <3>1, <3>2
    <2>2. QED
      BY <2>1, <1>1, <1>8 DEF ArenaInv, CommitmentsAreInReservations
  <1>15. Cardinality(LiveSlots') = Cardinality(LiveSlots) + 1
    BY <1>1, <1>6, LiveSetsAreFinite, FS_AddElement
  <1>16. Reserved' = Reserved \cup (base .. (base + n - 1))
    BY <1>6, <1>10, <1>11 DEF Reserved
  <1>17. Cardinality(Reserved') = Cardinality(Reserved) + n
    <2>1. Reserved \cap (base .. (base + n - 1)) = {}
      BY <1>12 DEF Reserved
    <2>2. base \in Int /\ base + n - 1 \in Int /\ ~(base > base + n - 1)
          /\ base + n - 1 - base + 1 = n
      BY <1>1
    <2>3. /\ IsFiniteSet(base .. (base + n - 1))
          /\ Cardinality(base .. (base + n - 1)) = n
      BY <2>2, FS_Interval
    <2>4. IsFiniteSet(Reserved) /\ Cardinality(Reserved) \in Nat
      BY ReservedIsFinite, FS_CardinalityType
    <2>5. Cardinality(Reserved \cup (base .. (base + n - 1)))
            = Cardinality(Reserved) + n - Cardinality({})
      <3> DEFINE Added == base .. (base + n - 1)
      <3>1. /\ IsFiniteSet(Added) /\ Cardinality(Added) = n
            /\ IsFiniteSet(Reserved) /\ Reserved \cap Added = {}
        BY <2>1, <2>3, <2>4
      <3> HIDE DEF Added
      <3>2. Cardinality(Reserved \cup Added)
              = Cardinality(Reserved) + Cardinality(Added) - Cardinality(Reserved \cap Added)
        BY <3>1, FS_Union
      <3>3. QED
        BY <3>1, <3>2 DEF Added
    <2>6. QED
      BY <2>4, <2>5, <1>16, FS_EmptySet
  <1>18. CountersMatch'
    <2>1. \A t \in LiveSlots' :
            /\ reservations'[t].committed = Cardinality(PlacesOf(t))
            /\ reservations'[t].state =
                 IF PlacesOf(t) = {} THEN "RESERVED" ELSE "COMMITTED"
      <3>1. \A t \in LiveSlots :
            /\ reservations'[t].committed = Cardinality(PlacesOf(t))
            /\ reservations'[t].state =
                 IF PlacesOf(t) = {} THEN "RESERVED" ELSE "COMMITTED"
        BY <1>7 DEF ArenaInv, CountersMatch
      <3>2. QED
        BY <3>1, <1>4, <1>5, <1>6, <1>9, FS_EmptySet
    <2>2. /\ reservationCount' = Cardinality(LiveSlots')
          /\ commitmentCount' = Cardinality(LivePlaces')
          /\ committedPages' = Cardinality(LivePlaces')
      BY <1>1, <1>8, <1>15 DEF ArenaInv, CountersMatch
    <2>3. reservedPages' = Cardinality(Reserved')
      BY <1>1, <1>17 DEF ArenaInv, CountersMatch, Reserved
    <2>4. QED
      BY <2>1, <2>2, <2>3, <1>8 DEF CountersMatch, Reserved
  <1>19. ArenaType'
    BY <1>1, <1>2, <1>4 DEF ArenaType
  <1>20. QED
    BY <1>1, <1>6, <1>7, <1>10, <1>13, <1>14, <1>18, <1>19 DEF ArenaInv

\* Giving up a reservation with all its commitments keeps the arena valid.
LEMMA ReleaseKeepsArena ==
  ASSUME ArenaInv, NEW s \in LiveSlots, ReleaseReservation(s)
  PROVE  /\ ArenaInv'
         /\ LivePlaces' = LivePlaces \ PlacesOf(s)
         /\ \A c \in LivePlaces' : commitments'[c] = commitments[c]
         /\ LiveSlots' = LiveSlots \ {s}
         /\ \A t \in LiveSlots' : reservations'[t] = reservations[t]
  <1>1. /\ s \in Slots
        /\ commitments' = [c \in Places |->
             IF c \in PlacesOf(s) THEN NoCommitment ELSE commitments[c]]
        /\ commitmentCount' = commitmentCount - Cardinality(PlacesOf(s))
        /\ committedPages' = committedPages - Cardinality(PlacesOf(s))
        /\ reservations' = [reservations EXCEPT ![s] = NoReservation]
        /\ reservationCount' = reservationCount - 1
        /\ reservedPages' = reservedPages - reservations[s].pages
    BY DEF ReleaseReservation, DecommitPlaces, LiveSlots
  <1>2. ArenaType
    BY DEF ArenaInv
  <1>3. NoReservation \in ReservationRecord /\ ~NoReservation.live
    BY DEF NoReservation, ReservationRecord
  <1>4. NoCommitment \in CommitmentRecord /\ ~NoCommitment.live
    <2>1. 0 \in Slots
      BY ConstantsAreNat DEF Slots
    <2>2. 0 \in Pages
      BY ArenaAssumption DEF Pages
    <2>3. QED
      BY <2>1, <2>2 DEF NoCommitment, CommitmentRecord, AnyFrame
  <1>5. /\ reservations' \in [Slots -> ReservationRecord]
        /\ reservations'[s] = NoReservation
        /\ \A t \in Slots : t # s => reservations'[t] = reservations[t]
    BY <1>1, <1>2, <1>3 DEF ArenaType
  <1>6. /\ commitments' \in [Places -> CommitmentRecord]
        /\ \A c \in Places :
             commitments'[c] = IF c \in PlacesOf(s) THEN NoCommitment ELSE commitments[c]
    BY <1>1, <1>2, <1>4 DEF ArenaType
  <1>7. LiveSlots' = LiveSlots \ {s}
    BY <1>1, <1>3, <1>5 DEF LiveSlots
  <1>8. \A t \in LiveSlots' : t # s /\ t \in LiveSlots /\ reservations'[t] = reservations[t]
    BY <1>5, <1>7 DEF LiveSlots
  <1>9. LivePlaces' = LivePlaces \ PlacesOf(s)
    BY <1>4, <1>6 DEF LivePlaces
  <1>10. \A c \in LivePlaces' : /\ c \in LivePlaces /\ c \in Places
                                /\ commitments'[c] = commitments[c]
                                /\ commitments[c].slot # s
    BY <1>6, <1>9 DEF LivePlaces, PlacesOf
  <1>11. \A t \in LiveSlots' : PlacesOf(t)' = PlacesOf(t)
    <2> SUFFICES ASSUME NEW t \in LiveSlots' PROVE PlacesOf(t)' = PlacesOf(t)
      OBVIOUS
    <2>1. PlacesOf(t)' = {c \in LivePlaces' : commitments'[c].slot = t}
      BY DEF PlacesOf
    <2>2. t # s
      BY <1>8
    <2>3. QED
      BY <2>1, <2>2, <1>9, <1>10 DEF PlacesOf
  <1>12. ReservationsAreDisjoint'
    BY <1>8 DEF ArenaInv, ReservationsAreDisjoint
  <1>13. CommitmentsAreInReservations'
    <2>1. ASSUME NEW c \in LivePlaces'
          PROVE  /\ reservations'[commitments'[c].slot].live
                 /\ commitments'[c].page \in Extent(reservations'[commitments'[c].slot])
      <3>1. /\ c \in LivePlaces /\ commitments[c].slot \in Slots
            /\ commitments'[c] = commitments[c] /\ commitments[c].slot # s
        BY <1>2, <1>10, CommitmentFields
      <3>2. reservations'[commitments[c].slot] = reservations[commitments[c].slot]
        BY <3>1, <1>5
      <3>3. QED
        BY <3>1, <3>2 DEF ArenaInv, CommitmentsAreInReservations
    <2>2. QED
      BY <2>1, <1>10 DEF ArenaInv, CommitmentsAreInReservations
  <1>14. /\ Cardinality(LiveSlots') = Cardinality(LiveSlots) - 1
         /\ Cardinality(LiveSlots') \in Nat
    BY <1>7, LiveSetsAreFinite, FS_RemoveElement, FS_CardinalityType
  <1>15. /\ Cardinality(LivePlaces') = Cardinality(LivePlaces) - Cardinality(PlacesOf(s))
         /\ Cardinality(LivePlaces') \in Nat
    <2>1. PlacesOf(s) \in SUBSET LivePlaces
      BY DEF PlacesOf
    <2>2. QED
      BY <2>1, <1>9, LiveSetsAreFinite, CardinalityWithout
  <1>16. /\ Cardinality(Reserved') = Cardinality(Reserved) - reservations[s].pages
         /\ Cardinality(Reserved') \in Nat
    <2>1. Reserved' = UNION {Extent(reservations[t]) : t \in LiveSlots \ {s}}
      BY <1>7, <1>8 DEF Reserved, Extent
    <2>2. \A t \in LiveSlots \ {s} :
            Extent(reservations[t]) \cap Extent(reservations[s]) = {}
      BY DEF ArenaInv, ReservationsAreDisjoint
    <2>3. Reserved' = Reserved \ Extent(reservations[s])
      BY <2>1, <2>2 DEF Reserved
    <2>4. Extent(reservations[s]) \in SUBSET Reserved
      BY DEF Reserved
    <2>5. QED
      BY <2>3, <2>4, ReservedIsFinite, ExtentsAreInArena, CardinalityWithout
  <1>17. CountersMatch'
    <2>1. \A t \in LiveSlots' :
            /\ reservations'[t].committed = Cardinality(PlacesOf(t))
            /\ reservations'[t].state =
                 IF PlacesOf(t) = {} THEN "RESERVED" ELSE "COMMITTED"
      BY <1>8 DEF ArenaInv, CountersMatch
    <2>2. /\ reservationCount' = Cardinality(LiveSlots')
          /\ commitmentCount' = Cardinality(LivePlaces')
          /\ committedPages' = Cardinality(LivePlaces')
      BY <1>1, <1>14, <1>15 DEF ArenaInv, CountersMatch
    <2>3. reservedPages' = Cardinality(Reserved')
      BY <1>1, <1>16 DEF ArenaInv, CountersMatch, Reserved
    <2>4. QED
      BY <2>1, <2>2, <2>3, <1>11 DEF CountersMatch, Reserved
  <1>18. ArenaType'
    <2>1. reservedPages' = Cardinality(Reserved')
      BY <1>17 DEF CountersMatch, Reserved
    <2>2. /\ reservationCount' = Cardinality(LiveSlots')
          /\ commitmentCount' = Cardinality(LivePlaces')
          /\ committedPages' = Cardinality(LivePlaces')
      BY <1>17 DEF CountersMatch
    <2>3. QED
      BY <2>1, <2>2, <1>5, <1>6, <1>14, <1>15, <1>16 DEF ArenaType
  <1>19. QED
    BY <1>7, <1>8, <1>9, <1>10, <1>12, <1>13, <1>17, <1>18 DEF ArenaInv

\* Committing and decommitting leave the extent of every reservation alone.
SameExtents ==
  \A t \in Slots : /\ reservations'[t].live = reservations[t].live
                   /\ reservations'[t].base = reservations[t].base
                   /\ reservations'[t].pages = reservations[t].pages

LEMMA SameExtentsKeep ==
  ASSUME ReservationsAreDisjoint, SameExtents
  PROVE  /\ LiveSlots' = LiveSlots
         /\ \A t \in Slots : Extent(reservations'[t]) = Extent(reservations[t])
         /\ Reserved' = Reserved
         /\ ReservationsAreDisjoint'
  <1>1. LiveSlots' = LiveSlots
    BY DEF SameExtents, LiveSlots
  <1>2. \A t \in Slots : Extent(reservations'[t]) = Extent(reservations[t])
    BY DEF SameExtents, Extent
  <1>3. LiveSlots \subseteq Slots
    BY DEF LiveSlots
  <1>4. Reserved' = Reserved
    BY <1>1, <1>2, <1>3 DEF Reserved
  <1>5. ReservationsAreDisjoint'
    BY <1>1, <1>2, <1>3 DEF ReservationsAreDisjoint, SameExtents
  <1>6. QED
    BY <1>1, <1>2, <1>4, <1>5

\* gxos_vm_arena_commit_page keeps the arena valid, given a page that is not
\* committed yet.
LEMMA CommitKeepsArena ==
  ASSUME ArenaInv, NEW s \in Slots, NEW c \in Places, NEW p \in Pages,
         NEW f \in AnyFrame, Backing(p) = {},
         s \in Holding(p), c \notin LivePlaces,
         commitments' = [commitments EXCEPT ![c] =
           [live |-> TRUE, slot |-> s, page |-> p, frame |-> f]],
         reservations' = [reservations EXCEPT ![s].committed = @ + 1,
                                              ![s].state = "COMMITTED"],
         commitmentCount' = commitmentCount + 1,
         committedPages' = committedPages + 1,
         UNCHANGED <<reservationCount, reservedPages>>
  PROVE  /\ ArenaInv' /\ SameExtents
         /\ LivePlaces' = LivePlaces \cup {c}
         /\ commitments'[c].page = p /\ commitments'[c].frame = f
         /\ \A d \in LivePlaces : commitments'[d] = commitments[d]
  <1> DEFINE new == [live |-> TRUE, slot |-> s, page |-> p, frame |-> f]
             r == reservations[s]
             more == r.committed + 1
             rec == [r EXCEPT !.committed = more, !.state = "COMMITTED"]
  <1>1. ArenaType
    BY DEF ArenaInv
  <1>2. new \in CommitmentRecord
    BY DEF CommitmentRecord
  <1>3. /\ commitments' \in [Places -> CommitmentRecord]
        /\ commitments'[c] = new
        /\ \A d \in Places : d # c => commitments'[d] = commitments[d]
    BY <1>1, <1>2 DEF ArenaType
  <1>4. /\ commitments'[c].live /\ commitments'[c].slot = s
        /\ commitments'[c].page = p /\ commitments'[c].frame = f
    BY <1>3
  <1>5. /\ rec \in ReservationRecord
        /\ rec.live = r.live /\ rec.base = r.base /\ rec.pages = r.pages
        /\ rec.committed = more /\ rec.state = "COMMITTED"
    <2>1. r \in ReservationRecord /\ more \in Nat
      BY <1>1, ReservationFields
    <2> HIDE DEF r, more
    <2>2. QED
      BY <2>1 DEF ReservationRecord
  <1>6. reservations' = [reservations EXCEPT ![s] = rec]
    OBVIOUS
  <1> HIDE DEF new, r, more, rec
  <1>7. /\ reservations' \in [Slots -> ReservationRecord]
        /\ reservations'[s] = rec
        /\ \A t \in Slots : t # s => reservations'[t] = reservations[t]
    BY <1>1, <1>5, <1>6 DEF ArenaType
  <1>8. SameExtents
    BY <1>5, <1>7 DEF SameExtents, r
  <1>9. /\ LiveSlots' = LiveSlots /\ Reserved' = Reserved
        /\ \A t \in Slots : Extent(reservations'[t]) = Extent(reservations[t])
        /\ ReservationsAreDisjoint'
    BY <1>8, SameExtentsKeep DEF ArenaInv
  <1>10. LivePlaces' = LivePlaces \cup {c}
    BY <1>3, <1>4 DEF LivePlaces
  <1>11. \A d \in LivePlaces : d # c /\ d \in Places /\ commitments'[d] = commitments[d]
    BY <1>3 DEF LivePlaces
  <1>12. s \in LiveSlots /\ p \in Extent(reservations[s])
    BY DEF Holding
  <1>13. CommitmentsAreInReservations'
    <2>1. ASSUME NEW d \in LivePlaces'
          PROVE  /\ reservations'[commitments'[d].slot].live
                 /\ commitments'[d].page \in Extent(reservations'[commitments'[d].slot])
      <3>1. CASE d = c
        BY <3>1, <1>4, <1>9, <1>12 DEF LiveSlots
      <3>2. CASE d \in LivePlaces
        <4>1. /\ commitments[d].slot \in Slots
              /\ commitments'[d] = commitments[d]
              /\ reservations[commitments[d].slot].live
              /\ commitments[d].page \in Extent(reservations[commitments[d].slot])
          BY <3>2, <1>1, <1>11, CommitmentFields DEF ArenaInv, CommitmentsAreInReservations
        <4>2. QED
          BY <4>1, <1>9 DEF LiveSlots
      <3>3. QED
        BY <3>1, <3>2, <1>10
    <2>2. \A d \in LivePlaces : commitments[d].page # p
      BY DEF Backing
    <2>3. \A d, e \in LivePlaces' : commitments'[d].page = commitments'[e].page => d = e
      BY <2>2, <1>4, <1>10, <1>11 DEF ArenaInv, CommitmentsAreInReservations
    <2>4. QED
      BY <2>1, <2>3 DEF CommitmentsAreInReservations
  <1>14. PlacesOf(s)' = PlacesOf(s) \cup {c} /\ c \notin PlacesOf(s)
    <2>1. PlacesOf(s)' = {d \in LivePlaces' : commitments'[d].slot = s}
      BY DEF PlacesOf
    <2>2. QED
      BY <2>1, <1>4, <1>10, <1>11 DEF PlacesOf
  <1>15. ASSUME NEW t, t # s
         PROVE  PlacesOf(t)' = PlacesOf(t)
    <2>1. PlacesOf(t)' = {d \in LivePlaces' : commitments'[d].slot = t}
      BY DEF PlacesOf
    <2>2. QED
      BY <2>1, <1>15, <1>4, <1>10, <1>11 DEF PlacesOf
  <1>16. /\ Cardinality(PlacesOf(s) \cup {c}) = Cardinality(PlacesOf(s)) + 1
         /\ Cardinality(LivePlaces \cup {c}) = Cardinality(LivePlaces) + 1
    BY <1>14, LiveSetsAreFinite, FS_AddElement
  <1>17. CountersMatch'
    <2>1. ASSUME NEW t \in LiveSlots'
          PROVE  /\ reservations'[t].committed = Cardinality(PlacesOf(t)')
                 /\ reservations'[t].state =
                      IF PlacesOf(t)' = {} THEN "RESERVED" ELSE "COMMITTED"
      <3>1. t \in LiveSlots /\ t \in Slots
        BY <1>9 DEF LiveSlots
      <3>2. CASE t = s
        BY <3>1, <3>2, <1>5, <1>7, <1>14, <1>16 DEF r, more, ArenaInv, CountersMatch
      <3>3. CASE t # s
        <4>1. reservations'[t] = reservations[t] /\ PlacesOf(t)' = PlacesOf(t)
          BY <3>1, <3>3, <1>7, <1>15
        <4>2. QED
          BY <3>1, <4>1 DEF ArenaInv, CountersMatch
      <3>4. QED
        BY <3>2, <3>3
    <2>2. /\ reservationCount' = Cardinality(LiveSlots')
          /\ commitmentCount' = Cardinality(LivePlaces')
          /\ committedPages' = Cardinality(LivePlaces')
      BY <1>9, <1>10, <1>16 DEF ArenaInv, CountersMatch
    <2>3. reservedPages' = Cardinality(Reserved')
      BY <1>9 DEF ArenaInv, CountersMatch, Reserved
    <2>4. QED
      BY <2>1, <2>2, <2>3 DEF CountersMatch, Reserved
  <1>18. ArenaType'
    BY <1>1, <1>3, <1>7 DEF ArenaType
  <1>19. QED
    BY <1>4, <1>8, <1>9, <1>10, <1>11, <1>13, <1>17, <1>18 DEF ArenaInv

\* gxos_vm_arena_decommit_page, of the page of one commitment
LEMMA DecommitKeepsArena ==
  ASSUME ArenaInv, NEW c \in LivePlaces,
         DecommitPlaces({c}),
         reservations' = Decommitted(commitments[c].slot, {c}),
         UNCHANGED <<reservationCount, reservedPages>>
  PROVE  /\ ArenaInv' /\ SameExtents
         /\ LivePlaces' = LivePlaces \ {c}
         /\ \A d \in LivePlaces' : commitments'[d] = commitments[d]
  <1> DEFINE s == commitments[c].slot
             r == reservations[s]
             left == r.committed - 1
             rec == [r EXCEPT !.committed = left,
                              !.state = IF left = 0 THEN "RESERVED" ELSE r.state]
  <1>1. ArenaType /\ c \in Places
    BY DEF ArenaInv, LivePlaces
  <1>2. Cardinality({c}) = 1
    BY FS_Singleton
  <1>3. /\ commitments' = [d \in Places |->
             IF d = c THEN NoCommitment ELSE commitments[d]]
        /\ commitmentCount' = commitmentCount - 1
        /\ committedPages' = committedPages - 1
    BY <1>2 DEF DecommitPlaces
  <1>4. NoCommitment \in CommitmentRecord /\ ~NoCommitment.live
    <2>1. 0 \in Slots
      BY ConstantsAreNat DEF Slots
    <2>2. 0 \in Pages
      BY ArenaAssumption DEF Pages
    <2>3. QED
      BY <2>1, <2>2 DEF NoCommitment, CommitmentRecord, AnyFrame
  <1>5. /\ commitments' \in [Places -> CommitmentRecord]
        /\ commitments'[c] = NoCommitment
        /\ \A d \in Places : d # c => commitments'[d] = commitments[d]
    BY <1>1, <1>3, <1>4 DEF ArenaType
  <1>6. s \in LiveSlots /\ s \in Slots /\ c \in PlacesOf(s)
    BY <1>1, CommitmentFields
       DEF ArenaInv, CommitmentsAreInReservations, LiveSlots, PlacesOf
  <1>7. /\ IsFiniteSet(PlacesOf(s)) /\ IsFiniteSet(LivePlaces)
        /\ Cardinality(PlacesOf(s) \ {c}) = Cardinality(PlacesOf(s)) - 1
        /\ Cardinality(PlacesOf(s) \ {c}) \in Nat
        /\ Cardinality(LivePlaces \ {c}) = Cardinality(LivePlaces) - 1
        /\ Cardinality(LivePlaces \ {c}) \in Nat
    <2>1. IsFiniteSet(PlacesOf(s)) /\ IsFiniteSet(LivePlaces)
      BY LiveSetsAreFinite
    <2>2. {c} \in SUBSET PlacesOf(s) /\ {c} \in SUBSET LivePlaces
      BY <1>6
    <2>3. QED
      BY <2>1, <2>2, <1>2, CardinalityWithout
  <1>8. left = Cardinality(PlacesOf(s) \ {c}) /\ left \in Nat
    BY <1>6, <1>7 DEF ArenaInv, CountersMatch
  <1>9. r.state = "COMMITTED"
    BY <1>6 DEF ArenaInv, CountersMatch
  <1>10. r \in ReservationRecord
    BY <1>1, <1>6, ReservationFields
  <1>11. /\ rec \in ReservationRecord
         /\ rec.live = r.live /\ rec.base = r.base /\ rec.pages = r.pages
         /\ rec.committed = left
         /\ rec.state = IF left = 0 THEN "RESERVED" ELSE "COMMITTED"
    <2> HIDE DEF left, r
    <2>1. QED
      BY <1>8, <1>9, <1>10 DEF ReservationRecord
  <1>12. reservations' = [reservations EXCEPT ![s] = rec]
    <2>1. reservations' = [reservations EXCEPT ![s].committed = left,
             ![s].state = IF left = 0 THEN "RESERVED" ELSE @]
      BY <1>2 DEF Decommitted
    <2> HIDE DEF left, s
    <2>2. QED
      BY <2>1
  <1> HIDE DEF s, r, rec, left
  <1>13. /\ reservations' \in [Slots -> ReservationRecord]
         /\ reservations'[s] = rec
         /\ \A t \in Slots : t # s => reservations'[t] = reservations[t]
    BY <1>1, <1>6, <1>11, <1>12 DEF ArenaType
  <1>14. SameExtents
    BY <1>11, <1>13 DEF SameExtents, r
  <1>15. /\ LiveSlots' = LiveSlots /\ Reserved' = Reserved
         /\ \A t \in Slots : Extent(reservations'[t]) = Extent(reservations[t])
         /\ ReservationsAreDisjoint'
    BY <1>14, SameExtentsKeep DEF ArenaInv
  <1>16. LivePlaces' = LivePlaces \ {c}
    BY <1>4, <1>5 DEF LivePlaces
  <1>17. \A d \in LivePlaces' : d # c /\ d \in LivePlaces /\ commitments'[d] = commitments[d]
    BY <1>5, <1>16 DEF LivePlaces
  <1>18. CommitmentsAreInReservations'
    <2>1. ASSUME NEW d \in LivePlaces'
          PROVE  /\ reservations'[commitments'[d].slot].live
                 /\ commitments'[d].page \in Extent(reservations'[commitments'[d].slot])
      <3>1. d \in LivePlaces /\ d \in Places
        BY <1>17 DEF LivePlaces
      <3>2. /\ commitments[d].slot \in Slots
            /\ commitments'[d] = commitments[d]
            /\ reservations[commitments[d].slot].live
            /\ commitments[d].page \in Extent(reservations[commitments[d].slot])
        BY <3>1, <1>1, <1>17, CommitmentFields DEF ArenaInv, CommitmentsAreInReservations
      <3>3. QED
        BY <3>2, <1>15 DEF LiveSlots
    <2>2. QED
      BY <2>1, <1>17 DEF ArenaInv, CommitmentsAreInReservations
  <1>19. ASSUME NEW t
         PROVE  PlacesOf(t)' = IF t = s THEN PlacesOf(s) \ {c} ELSE PlacesOf(t)
    <2>1. PlacesOf(t)' = {d \in LivePlaces' : commitments'[d].slot = t}
      BY DEF PlacesOf
    <2>2. QED
      BY <2>1, <1>16, <1>17 DEF PlacesOf, s
  <1>20. CountersMatch'
    <2>1. ASSUME NEW t \in LiveSlots'
          PROVE  /\ reservations'[t].committed = Cardinality(PlacesOf(t)')
                 /\ reservations'[t].state =
                      IF PlacesOf(t)' = {} THEN "RESERVED" ELSE "COMMITTED"
      <3>1. t \in LiveSlots /\ t \in Slots
        BY <1>15 DEF LiveSlots
      <3>2. CASE t = s
        <4>1. PlacesOf(t)' = PlacesOf(s) \ {c}
          BY <3>2, <1>19
        <4>2. IsFiniteSet(PlacesOf(s) \ {c})
          BY <1>7, FS_Difference
        <4>3. left = 0 <=> PlacesOf(s) \ {c} = {}
          BY <4>2, <1>8, FS_EmptySet
        <4>4. QED
          BY <3>2, <4>1, <4>3, <1>8, <1>11, <1>13
      <3>3. CASE t # s
        <4>1. reservations'[t] = reservations[t] /\ PlacesOf(t)' = PlacesOf(t)
          BY <3>1, <3>3, <1>13, <1>19
        <4>2. QED
          BY <3>1, <4>1 DEF ArenaInv, CountersMatch
      <3>4. QED
        BY <3>2, <3>3
    <2>2. /\ reservationCount' = Cardinality(LiveSlots')
          /\ commitmentCount' = Cardinality(LivePlaces')
          /\ committedPages' = Cardinality(LivePlaces')
      BY <1>3, <1>7, <1>15, <1>16 DEF ArenaInv, CountersMatch
    <2>3. reservedPages' = Cardinality(Reserved')
      BY <1>15 DEF ArenaInv, CountersMatch, Reserved
    <2>4. QED
      BY <2>1, <2>2, <2>3 DEF CountersMatch, Reserved
  <1>21. ArenaType'
    <2>1. commitmentCount' \in Nat /\ committedPages' \in Nat
      BY <1>20, <1>7, <1>16 DEF CountersMatch
    <2>2. QED
      BY <2>1, <1>1, <1>5, <1>13 DEF ArenaType
  <1>22. QED
    BY <1>14, <1>15, <1>16, <1>17, <1>18, <1>20, <1>21 DEF ArenaInv

LEMMA UnchangedArena ==
  ASSUME UNCHANGED arena
  PROVE  /\ UNCHANGED <<reservations, commitments>>
         /\ LiveSlots' = LiveSlots /\ LivePlaces' = LivePlaces
         /\ \A p : Backing(p)' = Backing(p)
         /\ ArenaInv => ArenaInv'
  <1>1. UNCHANGED <<reservations, commitments, reservationCount,
                    commitmentCount, reservedPages, committedPages>>
    BY DEF arena
  <1>2. /\ LiveSlots' = LiveSlots /\ LivePlaces' = LivePlaces
        /\ \A p : Backing(p)' = Backing(p)
        /\ \A s : PlacesOf(s)' = PlacesOf(s)
    BY <1>1 DEF LiveSlots, LivePlaces, Backing, PlacesOf
  <1>3. ArenaInv => ArenaInv'
    BY <1>1, <1>2 DEF ArenaInv, ArenaType, ReservationsAreDisjoint,
       CommitmentsAreInReservations, CountersMatch
  <1>4. QED
    BY <1>1, <1>2, <1>3

-----------------------------------------------------------------------------
(* The call in progress.                                                   *)

LEMMA OpFields ==
  ASSUME NEW o \in OpRecord
  PROVE  /\ o.pc \in {"idle", "page", "map", "record", "rollback"}
         /\ o.slot \in Slots /\ o.first \in Pages /\ o.last \in Pages
         /\ o.next \in Nat /\ o.frame \in AnyFrame
         /\ o.created \in Seq(CreatedRecord) /\ o.fresh \in BOOLEAN
  BY DEF OpRecord

LEMMA IdleFields ==
  /\ Idle \in OpRecord
  /\ Idle.pc = "idle" /\ Idle.frame = NoFrame /\ Idle.created = <<>>
  /\ ~Idle.fresh
  <1>1. 0 \in Slots
    BY ConstantsAreNat DEF Slots
  <1>2. 0 \in Pages
    BY ArenaAssumption DEF Pages
  <1>3. <<>> \in Seq(CreatedRecord)
    OBVIOUS
  <1>4. QED
    BY <1>1, <1>2, <1>3 DEF Idle, OpRecord, AnyFrame

LEMMA CommitOpFields ==
  ASSUME NEW s \in Slots, NEW first \in Pages, NEW last \in Pages,
         NEW fresh \in BOOLEAN, NEW o, o = CommitOp(s, first, last, fresh)
  PROVE  /\ o \in OpRecord
         /\ o.pc \in {"page", "rollback"}
         /\ o.slot = s /\ o.first = first /\ o.last = last /\ o.next = first
         /\ o.frame = NoFrame /\ o.created = <<>> /\ o.fresh = fresh
  <1> DEFINE pc == IF last - first + 1 <= MaxCommitments THEN "page" ELSE "rollback"
  <1>1. pc \in {"page", "rollback"}
    OBVIOUS
  <1>2. o = [Idle EXCEPT !.pc = pc, !.slot = s, !.first = first,
                         !.last = last, !.next = first, !.fresh = fresh]
    BY DEF CommitOp
  <1>3. first \in Nat
    BY DEF Pages
  <1>4. <<>> \in Seq(CreatedRecord)
    OBVIOUS
  <1> HIDE DEF pc
  <1>5. o = [pc |-> pc, slot |-> s, first |-> first, last |-> last,
             next |-> first, frame |-> NoFrame, created |-> <<>>,
             fresh |-> fresh]
    BY <1>2 DEF Idle
  <1>6. QED
    BY <1>1, <1>3, <1>4, <1>5 DEF OpRecord, AnyFrame

\* A page of a live reservation is a page of the arena.
LEMMA ReservedPagesArePages ==
  ASSUME ArenaInv, NEW s \in Slots, reservations[s].live,
         NEW p \in Extent(reservations[s])
  PROVE  p \in Pages
  <1>1. s \in LiveSlots
    BY DEF LiveSlots
  <1>2. QED
    BY <1>1, ExtentsAreInArena

\* The page the loop is at lies in the arena.
LEMMA NextIsPage ==
  ASSUME ArenaInv, PagingType, RangeIsReserved, op.pc # "idle",
         op.next <= op.last
  PROVE  /\ op.next \in Pages
         /\ op.next \in Extent(reservations[op.slot])
         /\ op.slot \in Holding(op.next)
  <1>1. /\ op.slot \in Slots /\ op.first \in Pages /\ op.last \in Pages
        /\ op.next \in Nat
    BY OpFields DEF PagingType
  <1>2. /\ reservations[op.slot].live
        /\ op.first \in Extent(reservations[op.slot])
        /\ op.last \in Extent(reservations[op.slot])
        /\ op.first <= op.next
    BY DEF RangeIsReserved
  <1>3. reservations[op.slot].base \in Nat /\ reservations[op.slot].pages \in Nat
    BY <1>1, ReservationFields DEF ArenaInv
  <1>4. op.next \in Extent(reservations[op.slot])
    BY <1>1, <1>2, <1>3 DEF Extent, Pages
  <1>5. QED
    BY <1>1, <1>2, <1>4, ReservedPagesArePages DEF Holding, LiveSlots

\* A step that moves neither frames nor mappings keeps what is said of them.
LEMMA QuietStepKeepsFrames ==
  ASSUME MappingsMatchCommitments, Ownership,
         UNCHANGED <<arena, tables, pte, ledger>>,
         op'.frame = op.frame,
         op.pc = "record" => op'.pc = "record" /\ op'.next = op.next
  PROVE  MappingsMatchCommitments' /\ Ownership'
  <1>1. /\ LivePlaces' = LivePlaces
        /\ UNCHANGED <<commitments, tables, pte, ledger>>
    BY UnchangedArena
  <1>2. \A p : Missing(p)' = Missing(p)
    BY <1>1 DEF Missing
  <1>3. MappingsMatchCommitments'
    BY <1>1, <1>2 DEF MappingsMatchCommitments
  <1>4. Ownership'
    BY <1>1 DEF Ownership, OwnersHoldFrames, OwnersAreApart, NoFrameLeaks
  <1>5. QED
    BY <1>3, <1>4

LEMMA MemoryParts ==
  MemoryInv <=> /\ ArenaInv /\ PagingType
                /\ MappingsMatchCommitments /\ NoStaleTranslation
                /\ Ownership /\ RangeIsReserved /\ CreatedAreCommitted
  BY ArenaIsValidSplit DEF MemoryInv, CallIsConsistent

LEMMA MemoryPartsNext ==
  ASSUME ArenaInv', PagingType', MappingsMatchCommitments',
         NoStaleTranslation', Ownership', RangeIsReserved',
         CreatedAreCommitted'
  PROVE  MemoryInv'
  BY DEF MemoryInv, CallIsConsistent, ArenaIsValid, TypeOK, ArenaInv,
         ArenaType, PagingType

-----------------------------------------------------------------------------
(* The actions.                                                            *)

LEMMA InitMemory == Init => MemoryInv
  <1> SUFFICES ASSUME Init PROVE MemoryInv
    OBVIOUS
  <1>1. PICK root \in Frames :
          /\ tables = [n \in Nodes |-> IF n = Root THEN root ELSE NoFrame]
          /\ ledger = {root}
    BY DEF Init
  <1>2. /\ reservations = [s \in Slots |-> NoReservation]
        /\ commitments = [c \in Places |-> NoCommitment]
        /\ reservationCount = 0 /\ commitmentCount = 0
        /\ reservedPages = 0 /\ committedPages = 0
        /\ pte = [p \in Pages |-> NoFrame] /\ tlb = [p \in Pages |-> NoFrame]
        /\ op = Idle
    BY DEF Init
  <1>3. /\ NoReservation \in ReservationRecord /\ ~NoReservation.live
    BY DEF NoReservation, ReservationRecord
  <1>4. /\ NoCommitment \in CommitmentRecord /\ ~NoCommitment.live
    <2>1. 0 \in Slots
      BY ConstantsAreNat DEF Slots
    <2>2. 0 \in Pages
      BY ArenaAssumption DEF Pages
    <2>3. QED
      BY <2>1, <2>2 DEF NoCommitment, CommitmentRecord, AnyFrame
  <1>5. LiveSlots = {} /\ LivePlaces = {}
    BY <1>2, <1>3, <1>4 DEF LiveSlots, LivePlaces
  <1>6. Reserved = {}
    BY <1>5 DEF Reserved
  <1>7. ArenaInv
    <2>1. ArenaType
      BY <1>2, <1>3, <1>4 DEF ArenaType
    <2>2. ReservationsAreDisjoint /\ CommitmentsAreInReservations
      BY <1>5 DEF ReservationsAreDisjoint, CommitmentsAreInReservations
    <2>3. CountersMatch
      BY <1>2, <1>5, <1>6, FS_EmptySet DEF CountersMatch, Reserved
    <2>4. QED
      BY <2>1, <2>2, <2>3 DEF ArenaInv
  <1>8. PagingType
    BY <1>1, <1>2, IdleFields DEF PagingType, AnyFrame
  <1>9. MappingsMatchCommitments /\ NoStaleTranslation
    BY <1>2, <1>5 DEF MappingsMatchCommitments, NoStaleTranslation
  <1>10. Ownership
    <2>1. op.frame = NoFrame /\ NoFrame # root /\ Root \in Nodes
      BY <1>2, IdleFields, ConstantsAreNat DEF Nodes
    <2>2. QED
      BY <2>1, <1>1, <1>5 DEF Ownership, OwnersHoldFrames, OwnersAreApart, NoFrameLeaks
  <1>11. RangeIsReserved /\ CreatedAreCommitted
    BY <1>2, IdleFields DEF RangeIsReserved, CreatedAreCommitted
  <1>12. QED
    BY <1>7, <1>8, <1>9, <1>10, <1>11, MemoryParts

LEMMA StutterMemory == MemoryInv /\ UNCHANGED vars => MemoryInv'
  <1> SUFFICES ASSUME MemoryInv, UNCHANGED vars PROVE MemoryInv'
    OBVIOUS
  <1>1. /\ UNCHANGED arena
        /\ UNCHANGED <<tables, pte, ledger, tlb, op>>
    BY DEF vars, arena
  <1>2. /\ UNCHANGED <<reservations, commitments>>
        /\ LivePlaces' = LivePlaces
        /\ \A p : Backing(p)' = Backing(p)
        /\ ArenaInv'
    BY <1>1, UnchangedArena, MemoryParts
  <1>3. /\ PagingType' /\ NoStaleTranslation'
        /\ MappingsMatchCommitments' /\ Ownership'
    BY <1>1, MemoryParts, QuietStepKeepsFrames DEF PagingType, NoStaleTranslation
  <1>4. RangeIsReserved' /\ CreatedAreCommitted'
    BY <1>1, <1>2, MemoryParts DEF RangeIsReserved, CreatedAreCommitted
  <1>5. QED
    BY <1>2, <1>3, <1>4, MemoryPartsNext

\* A reservation without a commitment.
LEMMA VirtualAllocReserveKeeps ==
  ASSUME MemoryInv, NEW bytes \in Sizes, VirtualAllocReserve(bytes)
  PROVE  MemoryInv'
  <1>1. RoundPages(bytes) \in Nat \ {0}
    BY ConstantsAreNat, RoundPagesIsPositive
  <1>2. PICK s \in Slots : Reserve(s, Candidate(RoundPages(bytes)), RoundPages(bytes))
    BY DEF VirtualAllocReserve
  <1>3. op = Idle /\ UNCHANGED <<tables, pte, ledger, tlb, op>>
    BY DEF VirtualAllocReserve
  <1>4. ArenaInv'
    BY <1>1, <1>2, ReserveKeepsArena, MemoryParts
  <1>5. UNCHANGED commitments
    BY <1>2 DEF Reserve
  <1>6. LivePlaces' = LivePlaces /\ \A p : Missing(p)' = Missing(p)
    BY <1>3, <1>5 DEF LivePlaces, Missing
  <1>7. /\ PagingType' /\ NoStaleTranslation'
        /\ MappingsMatchCommitments' /\ Ownership'
    BY <1>3, <1>5, <1>6, MemoryParts
       DEF PagingType, NoStaleTranslation, MappingsMatchCommitments, Ownership,
           OwnersHoldFrames, OwnersAreApart, NoFrameLeaks
  <1>8. RangeIsReserved' /\ CreatedAreCommitted'
    BY <1>3, IdleFields DEF RangeIsReserved, CreatedAreCommitted
  <1>9. QED
    BY <1>4, <1>7, <1>8, MemoryPartsNext

\* The start of a commit, in a reservation that is there.
LEMMA StartOfCommit ==
  ASSUME NEW s \in Slots, NEW first \in Pages, NEW last \in Pages,
         NEW fresh \in BOOLEAN, op' = CommitOp(s, first, last, fresh),
         reservations'[s].live,
         first \in Extent(reservations'[s]), last \in Extent(reservations'[s])
  PROVE  /\ op' \in OpRecord /\ op'.frame = NoFrame
         /\ op'.pc # "record"
         /\ RangeIsReserved' /\ CreatedAreCommitted'
  <1>1. /\ op' \in OpRecord
        /\ op'.pc \in {"page", "rollback"}
        /\ op'.slot = s /\ op'.first = first /\ op'.last = last
        /\ op'.next = first
        /\ op'.frame = NoFrame /\ op'.created = <<>>
    BY CommitOpFields
  <1>2. first <= first
    BY DEF Pages
  <1>3. RangeIsReserved'
    BY <1>1, <1>2 DEF RangeIsReserved
  <1>4. CreatedAreCommitted'
    BY <1>1 DEF CreatedAreCommitted
  <1>5. QED
    BY <1>1, <1>3, <1>4

LEMMA VirtualAllocReserveCommitKeeps ==
  ASSUME MemoryInv, NEW bytes \in Sizes, VirtualAllocReserveCommit(bytes)
  PROVE  MemoryInv'
  <1> DEFINE n == RoundPages(bytes)
             base == Candidate(n)
  <1>1. n \in Nat \ {0}
    BY ConstantsAreNat, RoundPagesIsPositive
  <1>2. PICK s \in Slots : /\ Reserve(s, base, n)
                           /\ op' = CommitOp(s, base, base + n - 1, TRUE)
    BY DEF VirtualAllocReserveCommit
  <1>3. op = Idle /\ UNCHANGED <<tables, pte, ledger, tlb>>
    BY DEF VirtualAllocReserveCommit
  <1> HIDE DEF n, base
  <1>4. /\ ArenaInv' /\ s \in LiveSlots'
        /\ Extent(reservations[s])' = base .. (base + n - 1)
    BY <1>1, <1>2, ReserveKeepsArena, MemoryParts
  <1>5. base \in Pages /\ base + n <= ArenaPages /\ UNCHANGED commitments
    BY <1>2 DEF Reserve
  <1>6. /\ base + n - 1 \in Pages
        /\ base \in base .. (base + n - 1)
        /\ base + n - 1 \in base .. (base + n - 1)
    BY <1>1, <1>5, ConstantsAreNat DEF Pages
  <1>7. reservations'[s].live
    BY <1>4 DEF LiveSlots
  <1>8. /\ op' \in OpRecord /\ op'.frame = NoFrame /\ op'.pc # "record"
        /\ RangeIsReserved' /\ CreatedAreCommitted'
    BY <1>2, <1>4, <1>5, <1>6, <1>7, StartOfCommit
  <1>9. op.frame = NoFrame /\ op.pc # "record"
    BY <1>3, IdleFields
  <1>10. LivePlaces' = LivePlaces /\ \A p : Missing(p)' = Missing(p)
    BY <1>3, <1>5 DEF LivePlaces, Missing
  <1>11. /\ PagingType' /\ NoStaleTranslation'
         /\ MappingsMatchCommitments' /\ Ownership'
    BY <1>3, <1>5, <1>8, <1>9, <1>10, MemoryParts
       DEF PagingType, NoStaleTranslation, MappingsMatchCommitments, Ownership,
           OwnersHoldFrames, OwnersAreApart, NoFrameLeaks
  <1>12. QED
    BY <1>4, <1>8, <1>11, MemoryPartsNext

LEMMA VirtualAllocCommitKeeps ==
  ASSUME MemoryInv, NEW address \in Addresses, NEW bytes \in Sizes,
         VirtualAllocCommit(address, bytes)
  PROVE  MemoryInv'
  <1> DEFINE first == address \div PageSize
             last == RoundPages(address + bytes) - 1
  <1>1. PICK s \in Slots : /\ IsLowest(Holding(first), s)
                           /\ last \in Extent(reservations[s])
                           /\ op' = CommitOp(s, first, last, FALSE)
    BY DEF VirtualAllocCommit
  <1>2. op = Idle /\ UNCHANGED <<arena, tables, pte, ledger, tlb>>
    BY DEF VirtualAllocCommit
  <1> HIDE DEF first, last
  <1>3. reservations[s].live /\ first \in Extent(reservations[s])
    BY <1>1, LowestIsMember DEF Holding, LiveSlots
  <1>4. first \in Pages /\ last \in Pages
    BY <1>1, <1>3, ReservedPagesArePages, MemoryParts
  <1>5. ArenaInv' /\ UNCHANGED <<reservations, commitments>>
    BY <1>2, UnchangedArena, MemoryParts
  <1>6. /\ op' \in OpRecord /\ op'.frame = NoFrame /\ op'.pc # "record"
        /\ RangeIsReserved' /\ CreatedAreCommitted'
    BY <1>1, <1>3, <1>4, <1>5, StartOfCommit
  <1>7. op.frame = NoFrame /\ op.pc # "record"
    BY <1>2, IdleFields
  <1>8. MappingsMatchCommitments' /\ Ownership'
    BY <1>2, <1>6, <1>7, QuietStepKeepsFrames, MemoryParts
  <1>9. PagingType' /\ NoStaleTranslation'
    BY <1>2, <1>6, MemoryParts DEF PagingType, NoStaleTranslation
  <1>10. QED
    BY <1>5, <1>6, <1>8, <1>9, MemoryPartsNext

\* VirtualFree, and VirtualAlloc undoing its own reservation.
LEMMA ReleaseKeeps ==
  ASSUME MemoryInv, NEW s \in LiveSlots, ReleaseReservation(s),
         op.frame = NoFrame
  PROVE  MemoryInv'
  <1> DEFINE C == PlacesOf(s)
  <1>1. /\ ArenaInv'
        /\ LivePlaces' = LivePlaces \ C
        /\ \A c \in LivePlaces' : commitments'[c] = commitments[c]
    BY ReleaseKeepsArena, MemoryParts
  <1>2. /\ pte' = [p \in Pages |-> IF p \in PagesOf(C) THEN NoFrame ELSE pte[p]]
        /\ tlb' = [p \in Pages |-> IF p \in PagesOf(C) THEN NoFrame ELSE tlb[p]]
        /\ ledger' = ledger \ FramesOf(C)
        /\ op' = Idle /\ UNCHANGED tables
    BY DEF ReleaseReservation, UnmapPages
  <1>3. C \subseteq LivePlaces
    BY DEF PlacesOf
  <1> HIDE DEF C
  <1>4. \A c \in LivePlaces : /\ c \in Places
                              /\ commitments[c].page \in Pages
                              /\ commitments[c].frame \in AnyFrame
    BY MemoryParts, CommitmentFields DEF ArenaInv, LivePlaces
  <1>5. ArenaInv /\ PagingType /\ MappingsMatchCommitments /\ NoStaleTranslation
        /\ Ownership /\ CommitmentsAreInReservations
    BY MemoryParts DEF ArenaInv
  <1>6. \A c \in LivePlaces' : /\ c \in LivePlaces
                               /\ commitments[c].page \notin PagesOf(C)
                               /\ commitments[c].frame \notin FramesOf(C)
    BY <1>1, <1>3, <1>5
       DEF CommitmentsAreInReservations, Ownership, OwnersAreApart, PagesOf, FramesOf
  <1>7. \A c \in LivePlaces :
          c \in LivePlaces' \/ /\ commitments[c].page \in PagesOf(C)
                               /\ commitments[c].frame \in FramesOf(C)
    BY <1>1 DEF PagesOf, FramesOf
  <1>8. \A p : Missing(p)' = Missing(p)
    BY <1>2 DEF Missing
  <1>9. op.pc # "record"
    BY MemoryParts DEF RangeIsReserved
  <1>10. MappingsMatchCommitments'
    <2>1. \A c \in LivePlaces' :
            /\ commitments'[c].frame # NoFrame
            /\ pte'[commitments'[c].page] = commitments'[c].frame
      BY <1>1, <1>2, <1>4, <1>5, <1>6 DEF MappingsMatchCommitments
    <2>2. \A p \in Pages : pte'[p] # NoFrame =>
            /\ \E c \in LivePlaces' : commitments'[c].page = p
            /\ Missing(p)' = {}
      <3> SUFFICES ASSUME NEW p \in Pages, pte'[p] # NoFrame
                   PROVE  /\ \E c \in LivePlaces' : commitments'[c].page = p
                          /\ Missing(p)' = {}
        OBVIOUS
      <3>1. p \notin PagesOf(C) /\ pte[p] # NoFrame
        BY <1>2
      <3>2. PICK c \in LivePlaces : commitments[c].page = p
        BY <3>1, <1>5, <1>9 DEF MappingsMatchCommitments
      <3>3. Missing(p) = {}
        BY <3>1, <1>5 DEF MappingsMatchCommitments
      <3>4. QED
        BY <3>1, <3>2, <3>3, <1>1, <1>7, <1>8
    <2>3. QED
      BY <2>1, <2>2 DEF MappingsMatchCommitments
  <1>11. NoStaleTranslation'
    BY <1>2, <1>5 DEF NoStaleTranslation
  <1>12. PagingType'
    BY <1>2, <1>5, IdleFields DEF PagingType, AnyFrame
  <1>13. op'.frame = NoFrame /\ op'.pc = "idle" /\ op'.created = <<>>
    BY <1>2, IdleFields
  <1>14. Ownership'
    <2>1. \A n \in Nodes : tables[n] \notin FramesOf(C)
      BY <1>3, <1>5 DEF Ownership, OwnersAreApart, FramesOf
    <2>2. OwnersHoldFrames'
      BY <2>1, <1>1, <1>2, <1>5, <1>6, <1>13 DEF Ownership, OwnersHoldFrames
    <2>3. OwnersAreApart'
      BY <1>1, <1>2, <1>5, <1>6, <1>13 DEF Ownership, OwnersAreApart
    <2>4. ASSUME NEW f \in ledger'
          PROVE  \/ \E n \in Nodes : tables[n] = f
                 \/ \E c \in LivePlaces' : commitments'[c].frame = f
      <3>1. f \in ledger /\ f \notin FramesOf(C) /\ f # NoFrame
        BY <1>2, <1>5, ConstantsAreNat DEF PagingType
      <3>2. \/ \E n \in Nodes : tables[n] = f
            \/ \E c \in LivePlaces : commitments[c].frame = f
        BY <3>1, <1>5 DEF Ownership, NoFrameLeaks
      <3>3. QED
        BY <3>1, <3>2, <1>1, <1>7
    <2>5. QED
      BY <2>2, <2>3, <2>4, <1>2 DEF Ownership, NoFrameLeaks
  <1>15. RangeIsReserved' /\ CreatedAreCommitted'
    BY <1>13 DEF RangeIsReserved, CreatedAreCommitted
  <1>16. QED
    BY <1>1, <1>10, <1>11, <1>12, <1>14, <1>15, MemoryPartsNext

LEMMA VirtualFreeKeeps ==
  ASSUME MemoryInv, NEW address \in Addresses, VirtualFree(address)
  PROVE  MemoryInv'
  <1>1. PICK s \in Slots : /\ IsLowest(Holding(address \div PageSize), s)
                           /\ ReleaseReservation(s)
    BY DEF VirtualFree
  <1>2. s \in LiveSlots
    BY <1>1, LowestIsMember DEF Holding
  <1>3. op.frame = NoFrame
    BY IdleFields DEF VirtualFree
  <1>4. QED
    BY <1>1, <1>2, <1>3, ReleaseKeeps

LEMMA UndoReservationKeeps ==
  ASSUME MemoryInv, UndoReservation
  PROVE  MemoryInv'
  <1>1. op.pc = "rollback" /\ ReleaseReservation(op.slot)
    BY DEF UndoReservation
  <1>2. op.slot \in LiveSlots /\ op.frame = NoFrame
    BY <1>1, OpFields, MemoryParts DEF PagingType, RangeIsReserved, LiveSlots
  <1>3. QED
    BY <1>1, <1>2, ReleaseKeeps

LEMMA CommitDoneKeeps ==
  ASSUME MemoryInv, CommitDone \/ RollbackDone
  PROVE  MemoryInv'
  <1>1. /\ op.pc \in {"page", "rollback"} /\ op' = Idle
        /\ UNCHANGED <<arena, tables, pte, ledger, tlb>>
    BY DEF CommitDone, RollbackDone
  <1>2. op.frame = NoFrame
    BY <1>1, MemoryParts DEF RangeIsReserved
  <1>3. /\ op' \in OpRecord
        /\ op'.frame = NoFrame /\ op'.pc = "idle" /\ op'.created = <<>>
    BY <1>1, IdleFields
  <1>4. ArenaInv' /\ MappingsMatchCommitments' /\ Ownership'
    BY <1>1, <1>2, <1>3, UnchangedArena, QuietStepKeepsFrames, MemoryParts
  <1>5. PagingType' /\ NoStaleTranslation'
    BY <1>1, <1>3, MemoryParts DEF PagingType, NoStaleTranslation
  <1>6. RangeIsReserved' /\ CreatedAreCommitted'
    BY <1>3 DEF RangeIsReserved, CreatedAreCommitted
  <1>7. QED
    BY <1>4, <1>5, <1>6, MemoryPartsNext

\* The two ways the loop moves on without creating a page: over a page that is
\* committed, and into the rollback.
LEMMA LoopStepKeeps ==
  ASSUME MemoryInv, op.pc = "page", op.next <= op.last,
         \/ op' = [op EXCEPT !.next = @ + 1]
         \/ op' = [op EXCEPT !.pc = "rollback"],
         UNCHANGED <<arena, tables, pte, ledger, tlb>>
  PROVE  MemoryInv'
  <1>1. op \in OpRecord /\ op.next \in Nat /\ op.first \in Nat
    BY OpFields, MemoryParts DEF PagingType, Pages
  <1>2. /\ op' \in OpRecord
        /\ op'.frame = op.frame /\ op'.created = op.created
        /\ op'.slot = op.slot /\ op'.first = op.first /\ op'.last = op.last
        /\ op'.pc \in {"page", "rollback"} /\ op'.next \in {op.next, op.next + 1}
    <2> DEFINE n == op.next + 1
    <2>1. n \in Nat
      BY <1>1
    <2>2. op' = [op EXCEPT !.next = n] \/ op' = [op EXCEPT !.pc = "rollback"]
      OBVIOUS
    <2> HIDE DEF n
    <2>3. /\ op' \in OpRecord
          /\ op'.frame = op.frame /\ op'.created = op.created
          /\ op'.slot = op.slot /\ op'.first = op.first /\ op'.last = op.last
          /\ op'.pc \in {"page", "rollback"} /\ op'.next \in {op.next, n}
      BY <1>1, <2>1, <2>2 DEF OpRecord
    <2>4. QED
      BY <2>3 DEF n
  <1>3. ArenaInv' /\ UNCHANGED <<reservations, commitments>> /\ LivePlaces' = LivePlaces
    BY UnchangedArena, MemoryParts
  <1>4. MappingsMatchCommitments' /\ Ownership'
    BY <1>2, QuietStepKeepsFrames, MemoryParts
  <1>5. PagingType' /\ NoStaleTranslation'
    BY <1>2, MemoryParts DEF PagingType, NoStaleTranslation
  <1>6. RangeIsReserved'
    <2>1. op.frame = NoFrame /\ op.first <= op.next
      BY MemoryParts DEF RangeIsReserved
    <2>2. op.first <= op'.next
      BY <1>1, <1>2, <2>1
    <2>3. QED
      BY <2>1, <2>2, <1>2, <1>3, MemoryParts DEF RangeIsReserved
  <1>7. CreatedAreCommitted'
    <2>1. \A i \in 1 .. Len(op.created) : op.created[i].page < op'.next
      <3> SUFFICES ASSUME NEW i \in 1 .. Len(op.created)
                   PROVE  op.created[i].page < op'.next
        OBVIOUS
      <3>1. op.created[i] \in CreatedRecord
        BY <1>1, OpFields
      <3>2. op.created[i].page \in Nat
        BY <3>1 DEF CreatedRecord, Pages
      <3>3. op.created[i].page < op.next
        BY MemoryParts DEF CreatedAreCommitted
      <3>4. QED
        BY <3>2, <3>3, <1>1, <1>2
    <2>2. QED
      BY <2>1, <1>2, <1>3, MemoryParts DEF CreatedAreCommitted
  <1>8. QED
    BY <1>3, <1>4, <1>5, <1>6, <1>7, MemoryPartsNext

LEMMA SkipCommittedKeeps ==
  ASSUME MemoryInv, SkipCommitted \/ AllocateDataFails
  PROVE  MemoryInv'
  BY LoopStepKeeps DEF SkipCommitted, AllocateDataFails

\* A step that leaves the range and the created pages of the call alone, and
\* the arena, keeps what is said of them.
LEMMA SameRangeKeepsCreated ==
  ASSUME CreatedAreCommitted, UNCHANGED arena, op.pc # "idle", op'.pc # "idle",
         op'.created = op.created, op'.next = op.next
  PROVE  CreatedAreCommitted'
  <1>1. LivePlaces' = LivePlaces /\ UNCHANGED commitments
    BY UnchangedArena
  <1>2. QED
    BY <1>1 DEF CreatedAreCommitted

LEMMA AllocateDataKeeps ==
  ASSUME MemoryInv, NEW f \in Frames, AllocateData(f)
  PROVE  MemoryInv'
  <1>1. /\ op.pc = "page" /\ op.next <= op.last /\ Backing(op.next) = {}
        /\ f \notin ledger /\ ledger' = ledger \cup {f}
        /\ op' = [op EXCEPT !.pc = "map", !.frame = f]
        /\ UNCHANGED <<arena, tables, pte, tlb>>
    BY DEF AllocateData, Available
  <1>2. op \in OpRecord /\ f \in AnyFrame /\ f # NoFrame
    BY MemoryParts, ConstantsAreNat DEF PagingType, AnyFrame
  <1>3. /\ op' \in OpRecord
        /\ op'.pc = "map" /\ op'.frame = f
        /\ op'.slot = op.slot /\ op'.first = op.first /\ op'.last = op.last
        /\ op'.next = op.next /\ op'.created = op.created
    BY <1>1, <1>2 DEF OpRecord
  <1>4. /\ ArenaInv' /\ UNCHANGED <<reservations, commitments>>
        /\ LivePlaces' = LivePlaces /\ \A p : Backing(p)' = Backing(p)
        /\ \A p : Missing(p)' = Missing(p)
    BY <1>1, UnchangedArena, MemoryParts DEF Missing
  <1>5. op.frame = NoFrame
    BY <1>1, MemoryParts DEF RangeIsReserved
  <1>6. MappingsMatchCommitments'
    BY <1>1, <1>3, <1>4, MemoryParts DEF MappingsMatchCommitments
  <1>7. PagingType' /\ NoStaleTranslation'
    BY <1>1, <1>3, MemoryParts DEF PagingType, NoStaleTranslation
  <1>8. Ownership'
    <2>1. OwnersHoldFrames'
      BY <1>1, <1>3, <1>4, MemoryParts DEF Ownership, OwnersHoldFrames
    <2>2. OwnersAreApart'
      BY <1>1, <1>2, <1>3, <1>4, MemoryParts DEF Ownership, OwnersHoldFrames, OwnersAreApart
    <2>3. NoFrameLeaks'
      <3>1. \A g \in ledger : g # NoFrame
        BY MemoryParts, ConstantsAreNat DEF PagingType
      <3>2. QED
        BY <3>1, <1>1, <1>3, <1>4, <1>5, MemoryParts DEF Ownership, NoFrameLeaks
    <2>4. QED
      BY <2>1, <2>2, <2>3 DEF Ownership
  <1>9. RangeIsReserved'
    BY <1>1, <1>2, <1>3, <1>4, MemoryParts DEF RangeIsReserved
  <1>10. CreatedAreCommitted'
    BY <1>1, <1>3, MemoryParts, SameRangeKeepsCreated
  <1>11. QED
    BY <1>4, <1>6, <1>7, <1>8, <1>9, <1>10, MemoryPartsNext

LEMMA PathIsInNodes ==
  ASSUME NEW p \in Pages, NEW i \in 1 .. 3
  PROVE  Path(p)[i] \in Nodes
  <1>1. << <<3, 0>>, <<2, 0>>, <<1, p \div TableSpan>> >>[i]
          \in {<<3, 0>>, <<2, 0>>, <<1, p \div TableSpan>>}
    BY i = 1 \/ i = 2 \/ i = 3
  <1>2. <<1, p \div TableSpan>> \in {<<1, k>> : k \in {q \div TableSpan : q \in Pages}}
    OBVIOUS
  <1>3. QED
    BY <1>1, <1>2 DEF Path, Nodes

\* A paging structure that is added hides none that is there.
LEMMA AllocateTableKeeps ==
  ASSUME MemoryInv, NEW f \in Frames, AllocateTable(f)
  PROVE  MemoryInv'
  <1>1. /\ op.pc = "map" /\ f \notin ledger /\ ledger' = ledger \cup {f}
        /\ UNCHANGED <<arena, pte, tlb, op>>
    BY DEF AllocateTable, Available
  <1>2. PICK i \in 1 .. 3 : /\ IsLowest(Missing(op.next), i)
                            /\ tables' = [tables EXCEPT ![Path(op.next)[i]] = f]
    BY DEF AllocateTable
  <1>3. PICK m \in Nodes : m = Path(op.next)[i]
    <2>1. op.next \in Pages
      BY <1>1, NextIsPage, MemoryParts DEF RangeIsReserved
    <2>2. QED
      BY <2>1, PathIsInNodes
  <1>4. tables[m] = NoFrame
    BY <1>2, <1>3, LowestIsMember DEF Missing
  <1>5. f \in AnyFrame /\ f # NoFrame
    BY ConstantsAreNat DEF AnyFrame
  <1>6. /\ tables' \in [Nodes -> AnyFrame]
        /\ tables'[m] = f
        /\ \A n \in Nodes : n # m => tables'[n] = tables[n]
    BY <1>2, <1>3, <1>5, MemoryParts DEF PagingType
  <1>7. /\ ArenaInv' /\ UNCHANGED <<reservations, commitments>>
        /\ LivePlaces' = LivePlaces /\ \A p : Backing(p)' = Backing(p)
    BY <1>1, UnchangedArena, MemoryParts
  <1>8. \A p \in Pages : Missing(p) = {} => Missing(p)' = {}
    BY <1>5, <1>6, PathIsInNodes DEF Missing
  <1>9. MappingsMatchCommitments'
    BY <1>1, <1>7, <1>8, MemoryParts DEF MappingsMatchCommitments
  <1>10. PagingType' /\ NoStaleTranslation'
    BY <1>1, <1>6, MemoryParts DEF PagingType, NoStaleTranslation
  <1>11. Ownership'
    <2>1. OwnersHoldFrames'
      BY <1>1, <1>6, <1>7, MemoryParts DEF Ownership, OwnersHoldFrames
    <2>2. OwnersAreApart'
      BY <1>1, <1>4, <1>6, <1>7, MemoryParts DEF Ownership, OwnersHoldFrames, OwnersAreApart
    <2>3. NoFrameLeaks'
      <3>1. \A g \in ledger : g # NoFrame
        BY MemoryParts, ConstantsAreNat DEF PagingType
      <3>2. QED
        BY <3>1, <1>1, <1>4, <1>6, <1>7, MemoryParts DEF Ownership, NoFrameLeaks
    <2>4. QED
      BY <2>1, <2>2, <2>3 DEF Ownership
  <1>12. RangeIsReserved' /\ CreatedAreCommitted'
    BY <1>1, <1>7, MemoryParts DEF RangeIsReserved, CreatedAreCommitted
  <1>13. QED
    BY <1>7, <1>9, <1>10, <1>11, <1>12, MemoryPartsNext

\* Freeing the frame in hand, for the two failures after its allocation.
LEMMA FreeingHandKeepsOwnership ==
  ASSUME PagingType, Ownership, UNCHANGED <<arena, tables>>,
         op.frame # NoFrame, ledger' = ledger \ {op.frame},
         op'.frame = NoFrame
  PROVE  Ownership'
  <1>1. LivePlaces' = LivePlaces /\ UNCHANGED commitments
    BY UnchangedArena
  <1>2. OwnersHoldFrames'
    BY <1>1 DEF Ownership, OwnersHoldFrames, OwnersAreApart
  <1>3. OwnersAreApart'
    BY <1>1 DEF Ownership, OwnersAreApart
  <1>4. NoFrameLeaks'
    BY <1>1 DEF Ownership, NoFrameLeaks
  <1>5. QED
    BY <1>2, <1>3, <1>4 DEF Ownership

LEMMA MapFailsKeeps ==
  ASSUME MemoryInv, MapFails
  PROVE  MemoryInv'
  <1>1. /\ op.pc = "map" /\ ledger' = ledger \ {op.frame}
        /\ op' = [op EXCEPT !.pc = "rollback", !.frame = NoFrame]
        /\ UNCHANGED <<arena, tables, pte, tlb>>
    BY DEF MapFails
  <1>2. op \in OpRecord /\ NoFrame \in AnyFrame
    BY MemoryParts DEF PagingType, AnyFrame
  <1>3. /\ op' \in OpRecord
        /\ op'.pc = "rollback" /\ op'.frame = NoFrame
        /\ op'.slot = op.slot /\ op'.first = op.first /\ op'.last = op.last
        /\ op'.next = op.next /\ op'.created = op.created
    BY <1>1, <1>2 DEF OpRecord
  <1>4. /\ ArenaInv' /\ UNCHANGED <<reservations, commitments>>
        /\ LivePlaces' = LivePlaces /\ \A p : Backing(p)' = Backing(p)
        /\ \A p : Missing(p)' = Missing(p)
    BY <1>1, UnchangedArena, MemoryParts DEF Missing
  <1>5. op.frame # NoFrame
    BY <1>1, MemoryParts DEF RangeIsReserved
  <1>6. MappingsMatchCommitments'
    BY <1>1, <1>3, <1>4, MemoryParts DEF MappingsMatchCommitments
  <1>7. PagingType' /\ NoStaleTranslation'
    BY <1>1, <1>3, MemoryParts DEF PagingType, NoStaleTranslation
  <1>8. Ownership'
    BY <1>1, <1>3, <1>5, MemoryParts, FreeingHandKeepsOwnership
  <1>9. RangeIsReserved'
    BY <1>1, <1>3, <1>4, MemoryParts DEF RangeIsReserved
  <1>10. CreatedAreCommitted'
    BY <1>1, <1>3, MemoryParts, SameRangeKeepsCreated
  <1>11. QED
    BY <1>4, <1>6, <1>7, <1>8, <1>9, <1>10, MemoryPartsNext

LEMMA MapPageKeeps ==
  ASSUME MemoryInv, MapPage
  PROVE  MemoryInv'
  <1>1. /\ op.pc = "map" /\ Missing(op.next) = {} /\ pte[op.next] = NoFrame
        /\ pte' = [pte EXCEPT ![op.next] = op.frame]
        /\ tlb' = [tlb EXCEPT ![op.next] = NoFrame]
        /\ op' = [op EXCEPT !.pc = "record"]
        /\ UNCHANGED <<arena, tables, ledger>>
    BY DEF MapPage
  <1>2. op \in OpRecord /\ op.frame \in AnyFrame /\ NoFrame \in AnyFrame
    BY MemoryParts, OpFields DEF PagingType, AnyFrame
  <1>3. /\ op' \in OpRecord
        /\ op'.pc = "record" /\ op'.frame = op.frame
        /\ op'.slot = op.slot /\ op'.first = op.first /\ op'.last = op.last
        /\ op'.next = op.next /\ op'.created = op.created
    BY <1>1, <1>2 DEF OpRecord
  <1>4. /\ ArenaInv' /\ UNCHANGED <<reservations, commitments>>
        /\ LivePlaces' = LivePlaces /\ \A p : Backing(p)' = Backing(p)
        /\ \A p : Missing(p)' = Missing(p)
    BY <1>1, UnchangedArena, MemoryParts DEF Missing
  <1>5. op.next \in Pages
    BY <1>1, NextIsPage, MemoryParts DEF RangeIsReserved
  <1>6. /\ pte' \in [Pages -> AnyFrame] /\ tlb' \in [Pages -> AnyFrame]
        /\ pte'[op.next] = op.frame /\ tlb'[op.next] = NoFrame
        /\ \A p \in Pages : p # op.next => pte'[p] = pte[p] /\ tlb'[p] = tlb[p]
    BY <1>1, <1>2, <1>5, MemoryParts DEF PagingType
  <1>7. \A c \in LivePlaces : /\ commitments[c].page \in Pages
                              /\ commitments[c].page # op.next
    <2>1. Backing(op.next) = {}
      BY <1>1, MemoryParts DEF RangeIsReserved
    <2>2. QED
      BY <2>1, MemoryParts, CommitmentFields DEF ArenaInv, LivePlaces, Backing
  <1>8. MappingsMatchCommitments'
    <2>1. \A c \in LivePlaces' :
            /\ commitments'[c].frame # NoFrame
            /\ pte'[commitments'[c].page] = commitments'[c].frame
      BY <1>4, <1>6, <1>7, MemoryParts DEF MappingsMatchCommitments
    <2>2. \A p \in Pages : pte'[p] # NoFrame =>
            \/ \E c \in LivePlaces' : commitments'[c].page = p
            \/ op'.pc = "record" /\ p = op'.next /\ pte'[p] = op'.frame
      BY <1>1, <1>3, <1>4, <1>6, MemoryParts DEF MappingsMatchCommitments
    <2>3. \A p \in Pages : pte'[p] # NoFrame => Missing(p)' = {}
      BY <1>1, <1>4, <1>6, MemoryParts DEF MappingsMatchCommitments
    <2>4. QED
      BY <2>1, <2>2, <2>3 DEF MappingsMatchCommitments
  <1>9. PagingType' /\ NoStaleTranslation'
    BY <1>1, <1>3, <1>6, MemoryParts DEF PagingType, NoStaleTranslation
  <1>10. Ownership'
    BY <1>1, <1>3, <1>4, MemoryParts
       DEF Ownership, OwnersHoldFrames, OwnersAreApart, NoFrameLeaks
  <1>11. RangeIsReserved'
    BY <1>1, <1>3, <1>4, <1>6, MemoryParts DEF RangeIsReserved
  <1>12. CreatedAreCommitted'
    BY <1>1, <1>3, MemoryParts, SameRangeKeepsCreated
  <1>13. QED
    BY <1>4, <1>8, <1>9, <1>10, <1>11, <1>12, MemoryPartsNext

LEMMA RecordFailsKeeps ==
  ASSUME MemoryInv, RecordFails
  PROVE  MemoryInv'
  <1>1. /\ op.pc = "record" /\ ledger' = ledger \ {op.frame}
        /\ pte' = [p \in Pages |-> IF p \in {op.next} THEN NoFrame ELSE pte[p]]
        /\ tlb' = [p \in Pages |-> IF p \in {op.next} THEN NoFrame ELSE tlb[p]]
        /\ op' = [op EXCEPT !.pc = "rollback", !.frame = NoFrame]
        /\ UNCHANGED <<arena, tables>>
    BY DEF RecordFails, UnmapPages
  <1>2. op \in OpRecord /\ NoFrame \in AnyFrame
    BY MemoryParts DEF PagingType, AnyFrame
  <1>3. /\ op' \in OpRecord
        /\ op'.pc = "rollback" /\ op'.frame = NoFrame
        /\ op'.slot = op.slot /\ op'.first = op.first /\ op'.last = op.last
        /\ op'.next = op.next /\ op'.created = op.created
    BY <1>1, <1>2 DEF OpRecord
  <1>4. /\ ArenaInv' /\ UNCHANGED <<reservations, commitments>>
        /\ LivePlaces' = LivePlaces /\ \A p : Backing(p)' = Backing(p)
        /\ \A p : Missing(p)' = Missing(p)
    BY <1>1, UnchangedArena, MemoryParts DEF Missing
  <1>5. op.frame # NoFrame /\ Backing(op.next) = {}
    BY <1>1, MemoryParts DEF RangeIsReserved
  <1>6. \A c \in LivePlaces : /\ commitments[c].page \in Pages
                              /\ commitments[c].page # op.next
    BY <1>5, MemoryParts, CommitmentFields DEF ArenaInv, LivePlaces, Backing
  <1>7. MappingsMatchCommitments'
    BY <1>1, <1>3, <1>4, <1>6, MemoryParts DEF MappingsMatchCommitments
  <1>8. PagingType' /\ NoStaleTranslation'
    BY <1>1, <1>2, <1>3, MemoryParts DEF PagingType, NoStaleTranslation
  <1>9. Ownership'
    BY <1>1, <1>3, <1>5, MemoryParts, FreeingHandKeepsOwnership
  <1>10. RangeIsReserved'
    BY <1>1, <1>3, <1>4, MemoryParts DEF RangeIsReserved
  <1>11. CreatedAreCommitted'
    BY <1>1, <1>3, MemoryParts, SameRangeKeepsCreated
  <1>12. QED
    BY <1>4, <1>7, <1>8, <1>9, <1>10, <1>11, MemoryPartsNext

LEMMA TlbFillKeeps ==
  ASSUME MemoryInv, NEW p \in Pages, TlbFill(p)
  PROVE  MemoryInv'
  <1>1. /\ tlb' = [tlb EXCEPT ![p] = pte[p]]
        /\ UNCHANGED <<arena, tables, pte, ledger, op>>
    BY DEF TlbFill
  <1>2. /\ ArenaInv' /\ UNCHANGED <<reservations, commitments>>
        /\ LivePlaces' = LivePlaces /\ \A q : Backing(q)' = Backing(q)
    BY <1>1, UnchangedArena, MemoryParts
  <1>3. MappingsMatchCommitments' /\ Ownership'
    BY <1>1, MemoryParts, QuietStepKeepsFrames
  <1>4. PagingType' /\ NoStaleTranslation'
    BY <1>1, MemoryParts DEF PagingType, NoStaleTranslation
  <1>5. RangeIsReserved' /\ CreatedAreCommitted'
    BY <1>1, <1>2, MemoryParts DEF RangeIsReserved, CreatedAreCommitted
  <1>6. QED
    BY <1>2, <1>3, <1>4, <1>5, MemoryPartsNext

\* A step that keeps the extents keeps the range of the call reserved.
LEMMA SameExtentsKeepRange ==
  ASSUME ArenaInv, NEW s \in Slots, SameExtents, reservations[s].live
  PROVE  /\ reservations'[s].live
         /\ Extent(reservations'[s]) = Extent(reservations[s])
  BY SameExtentsKeep DEF ArenaInv, SameExtents

LEMMA RecordCommitmentKeeps ==
  ASSUME MemoryInv, RecordCommitment
  PROVE  MemoryInv'
  <1> DEFINE made == [page |-> op.next, frame |-> op.frame]
  <1>1. /\ op.pc = "record"
        /\ UNCHANGED <<reservationCount, reservedPages, tables, pte, ledger, tlb>>
        /\ commitmentCount' = commitmentCount + 1
        /\ committedPages' = committedPages + 1
        /\ op' = [op EXCEPT !.pc = "page", !.next = @ + 1, !.frame = NoFrame,
                            !.created = Append(@, made)]
    BY DEF RecordCommitment
  <1>2. PICK s \in Slots, c \in Places :
          /\ IsLowest(Holding(op.next), s)
          /\ IsLowest(Places \ LivePlaces, c)
          /\ commitments' = [commitments EXCEPT ![c] =
               [live |-> TRUE, slot |-> s, page |-> op.next, frame |-> op.frame]]
          /\ reservations' = [reservations EXCEPT ![s].committed = @ + 1,
                                                  ![s].state = "COMMITTED"]
    BY DEF RecordCommitment
  <1>3. /\ ArenaInv /\ PagingType /\ op \in OpRecord /\ op.next \in Nat
        /\ op.frame \in AnyFrame /\ op.created \in Seq(CreatedRecord)
        /\ op.slot \in Slots /\ op.first \in Nat
    BY MemoryParts, OpFields DEF PagingType, Pages
  <1>4. /\ op.frame # NoFrame /\ op.next <= op.last /\ Backing(op.next) = {}
        /\ pte[op.next] = op.frame /\ reservations[op.slot].live
        /\ op.first \in Extent(reservations[op.slot])
        /\ op.last \in Extent(reservations[op.slot])
        /\ op.first <= op.next
    BY <1>1, MemoryParts DEF RangeIsReserved
  <1>5. op.next \in Pages
    BY <1>1, <1>4, NextIsPage, MemoryParts
  <1>6. s \in Holding(op.next) /\ c \notin LivePlaces
    BY <1>2, LowestIsMember
  <1>7. /\ ArenaInv' /\ SameExtents
        /\ LivePlaces' = LivePlaces \cup {c}
        /\ commitments'[c].page = op.next /\ commitments'[c].frame = op.frame
        /\ \A d \in LivePlaces : commitments'[d] = commitments[d]
    BY <1>1, <1>2, <1>3, <1>4, <1>5, <1>6, CommitKeepsArena
  <1>8. made \in CreatedRecord /\ made.page = op.next /\ made.frame = op.frame
    BY <1>3, <1>4, <1>5 DEF CreatedRecord, AnyFrame
  <1> HIDE DEF made
  <1>9. PICK q \in Seq(CreatedRecord) : q = Append(op.created, made)
    <2>1. Append(op.created, made) \in Seq(CreatedRecord)
      BY <1>3, <1>8, AppendProperties
    <2>2. QED
      BY <2>1
  <1>10. /\ Len(q) = Len(op.created) + 1 /\ Len(op.created) \in Nat
         /\ q[Len(q)] = made
         /\ \A i \in 1 .. Len(op.created) : q[i] = op.created[i]
    BY <1>3, <1>8, <1>9, AppendProperties
  <1>11. PICK n \in Nat : n = op.next + 1
    BY <1>3
  <1>12. op' = [op EXCEPT !.pc = "page", !.next = n, !.frame = NoFrame,
                          !.created = q]
    BY <1>1, <1>9, <1>11
  <1>13. /\ op' \in OpRecord
         /\ op'.pc = "page" /\ op'.frame = NoFrame
         /\ op'.slot = op.slot /\ op'.first = op.first /\ op'.last = op.last
         /\ op'.next = n /\ op'.created = q
    BY <1>3, <1>12 DEF OpRecord, AnyFrame
  <1>14. \A d \in LivePlaces : d # c
    BY <1>6
  <1>15. \A p : Missing(p)' = Missing(p)
    BY <1>1 DEF Missing
  <1>16. MappingsMatchCommitments'
    <2>1. \A d \in LivePlaces' :
            /\ commitments'[d].frame # NoFrame
            /\ pte'[commitments'[d].page] = commitments'[d].frame
      BY <1>1, <1>4, <1>7, MemoryParts DEF MappingsMatchCommitments
    <2>2. \A p \in Pages : pte'[p] # NoFrame =>
            \E d \in LivePlaces' : commitments'[d].page = p
      BY <1>1, <1>7, MemoryParts DEF MappingsMatchCommitments
    <2>3. \A p \in Pages : pte'[p] # NoFrame => Missing(p)' = {}
      BY <1>1, <1>15, MemoryParts DEF MappingsMatchCommitments
    <2>4. QED
      BY <2>1, <2>2, <2>3 DEF MappingsMatchCommitments
  <1>17. PagingType' /\ NoStaleTranslation'
    BY <1>1, <1>13, MemoryParts DEF PagingType, NoStaleTranslation
  <1>18. Ownership'
    <2>1. OwnersHoldFrames'
      BY <1>1, <1>4, <1>7, <1>13, MemoryParts DEF Ownership, OwnersHoldFrames
    <2>2. OwnersAreApart'
      BY <1>1, <1>4, <1>7, <1>13, MemoryParts DEF Ownership, OwnersAreApart
    <2>3. NoFrameLeaks'
      BY <1>1, <1>7, <1>13, MemoryParts DEF Ownership, NoFrameLeaks
    <2>4. QED
      BY <2>1, <2>2, <2>3 DEF Ownership
  <1>19. RangeIsReserved'
    <2>1. /\ reservations'[op.slot].live
          /\ Extent(reservations'[op.slot]) = Extent(reservations[op.slot])
      BY <1>3, <1>4, <1>7, SameExtentsKeepRange
    <2>2. op.first <= n
      BY <1>3, <1>4, <1>11
    <2>3. QED
      BY <2>1, <2>2, <1>4, <1>13 DEF RangeIsReserved
  <1>20. CreatedAreCommitted'
    <2>1. ASSUME NEW i \in 1 .. Len(op.created)
          PROVE  /\ q[i] = op.created[i]
                 /\ op.created[i].page < op.next /\ op.created[i].page \in Nat
                 /\ \E d \in LivePlaces : /\ commitments[d].page = op.created[i].page
                                          /\ commitments[d].frame = op.created[i].frame
      <3>1. op.created[i] \in CreatedRecord
        BY <1>3
      <3>2. QED
        BY <3>1, <1>10, MemoryParts DEF CreatedRecord, Pages, CreatedAreCommitted
    <2>2. ASSUME NEW i \in 1 .. Len(q)
          PROVE  /\ q[i].page < n
                 /\ \E d \in LivePlaces' : /\ commitments'[d].page = q[i].page
                                           /\ commitments'[d].frame = q[i].frame
      <3>1. CASE i = Len(q)
        BY <3>1, <1>3, <1>7, <1>8, <1>10, <1>11
      <3>2. CASE i # Len(q)
        <4>1. i \in 1 .. Len(op.created)
          BY <3>2, <1>10
        <4>2. q[i].page < n
          BY <4>1, <2>1, <1>3, <1>11
        <4>3. QED
          BY <4>1, <4>2, <2>1, <1>7
      <3>3. QED
        BY <3>1, <3>2
    <2>3. ASSUME NEW i \in 1 .. Len(q), NEW j \in 1 .. Len(q), q[i].page = q[j].page
          PROVE  i = j
      <3>1. \A k \in 1 .. Len(q) : k = Len(q) \/ k \in 1 .. Len(op.created)
        BY <1>10
      <3>2. \A k \in 1 .. Len(op.created) : q[k].page # q[Len(q)].page
        BY <2>1, <1>3, <1>8, <1>10, SMTT(30)
      <3>3. CASE i = Len(q) \/ j = Len(q)
        BY <3>1, <3>2, <3>3, <2>3
      <3>4. CASE i \in 1 .. Len(op.created) /\ j \in 1 .. Len(op.created)
        BY <3>4, <2>1, <2>3, MemoryParts DEF CreatedAreCommitted
      <3>5. QED
        BY <3>1, <3>3, <3>4
    <2>4. QED
      BY <2>2, <2>3, <1>13 DEF CreatedAreCommitted
  <1>21. QED
    BY <1>7, <1>16, <1>17, <1>18, <1>19, <1>20, MemoryPartsNext

LEMMA RollbackPageKeeps ==
  ASSUME MemoryInv, RollbackPage
  PROVE  MemoryInv'
  <1>1. /\ op.pc = "rollback" /\ op.created # <<>>
        /\ op' = [op EXCEPT !.created = SubSeq(@, 1, Len(@) - 1)]
        /\ UNCHANGED <<reservationCount, reservedPages, tables>>
    BY DEF RollbackPage
  <1>2. /\ ArenaInv /\ PagingType /\ op \in OpRecord /\ op.next \in Nat
        /\ op.created \in Seq(CreatedRecord) /\ op.slot \in Slots
    BY MemoryParts, OpFields DEF PagingType
  <1>3. PICK k \in Nat \ {0} : k = Len(op.created)
    BY <1>1, <1>2
  <1>4. PICK made \in CreatedRecord : made = op.created[k]
    BY <1>2, <1>3
  <1>5. /\ UnmapPages({made.page})
        /\ ledger' = ledger \ {made.frame}
    BY <1>3, <1>4 DEF RollbackPage
  <1>6. PICK c \in Places :
          /\ IsLowest(Backing(made.page), c)
          /\ DecommitPlaces({c})
          /\ reservations' = Decommitted(commitments[c].slot, {c})
    BY <1>3, <1>4 DEF RollbackPage
  <1>7. c \in LivePlaces /\ commitments[c].page = made.page
    BY <1>6, LowestIsMember DEF Backing
  <1>8. /\ ArenaInv' /\ SameExtents
        /\ LivePlaces' = LivePlaces \ {c}
        /\ \A d \in LivePlaces' : commitments'[d] = commitments[d]
    BY <1>1, <1>2, <1>6, <1>7, DecommitKeepsArena
  <1>9. commitments[c].frame = made.frame
    <2>1. PICK d \in LivePlaces : /\ commitments[d].page = made.page
                                  /\ commitments[d].frame = made.frame
      BY <1>3, <1>4, MemoryParts DEF CreatedAreCommitted
    <2>2. QED
      BY <2>1, <1>2, <1>7 DEF ArenaInv, CommitmentsAreInReservations
  <1>10. \A d \in LivePlaces' : /\ d \in LivePlaces
                                /\ commitments[d].page \in Pages
                                /\ commitments[d].page # made.page
                                /\ commitments[d].frame # made.frame
    <2>1. \A d \in LivePlaces : commitments[d].page \in Pages
      BY <1>2, CommitmentFields DEF ArenaInv, LivePlaces
    <2>2. QED
      BY <2>1, <1>2, <1>7, <1>8, <1>9, MemoryParts
         DEF ArenaInv, CommitmentsAreInReservations, Ownership, OwnersAreApart
  <1>11. /\ pte' = [p \in Pages |-> IF p = made.page THEN NoFrame ELSE pte[p]]
         /\ tlb' = [p \in Pages |-> IF p = made.page THEN NoFrame ELSE tlb[p]]
    BY <1>5 DEF UnmapPages
  <1>12. PICK q \in Seq(CreatedRecord) :
           /\ q = SubSeq(op.created, 1, Len(op.created) - 1)
           /\ Len(q) = k - 1
           /\ \A i \in 1 .. Len(q) : q[i] = op.created[i]
    <2>1. /\ k - 1 \in 0 .. Len(op.created) /\ k - 1 = Len(op.created) - 1
          /\ 1 \in 1 .. Len(op.created) + 1 /\ k - 1 - 1 + 1 = k - 1
      BY <1>3
    <2>2. /\ SubSeq(op.created, 1, k - 1) \in Seq(CreatedRecord)
          /\ Len(SubSeq(op.created, 1, k - 1)) = k - 1
          /\ \A i \in 1 .. (k - 1) : SubSeq(op.created, 1, k - 1)[i] = op.created[i]
      BY <2>1, <1>2, <1>3
    <2>3. QED
      BY <2>1, <2>2
  <1>13. /\ op' \in OpRecord
         /\ op'.pc = "rollback" /\ op'.frame = op.frame
         /\ op'.slot = op.slot /\ op'.first = op.first /\ op'.last = op.last
         /\ op'.next = op.next /\ op'.created = q
    <2>1. op' = [op EXCEPT !.created = q]
      BY <1>1, <1>12
    <2>2. QED
      BY <2>1, <1>1, <1>2 DEF OpRecord
  <1>14. op.frame = NoFrame
    BY <1>1, MemoryParts DEF RangeIsReserved
  <1>15. \A p : Missing(p)' = Missing(p)
    BY <1>1 DEF Missing
  <1>16. MappingsMatchCommitments'
    <2>1. \A d \in LivePlaces' :
            /\ commitments'[d].frame # NoFrame
            /\ pte'[commitments'[d].page] = commitments'[d].frame
      BY <1>8, <1>10, <1>11, MemoryParts DEF MappingsMatchCommitments
    <2>2. ASSUME NEW p \in Pages, pte'[p] # NoFrame
          PROVE  /\ \E d \in LivePlaces' : commitments'[d].page = p
                 /\ Missing(p)' = {}
      <3>1. p # made.page /\ pte[p] # NoFrame
        BY <2>2, <1>11
      <3>2. PICK d \in LivePlaces : commitments[d].page = p
        BY <3>1, <1>1, MemoryParts DEF MappingsMatchCommitments
      <3>3. Missing(p) = {}
        BY <3>1, MemoryParts DEF MappingsMatchCommitments
      <3>4. QED
        BY <3>1, <3>2, <3>3, <1>7, <1>8, <1>15
    <2>3. QED
      BY <2>1, <2>2 DEF MappingsMatchCommitments
  <1>17. PagingType' /\ NoStaleTranslation'
    BY <1>1, <1>2, <1>5, <1>11, <1>13, MemoryParts
       DEF PagingType, NoStaleTranslation, AnyFrame
  <1>18. Ownership'
    <2>1. OwnersHoldFrames'
      <3>1. \A n \in Nodes : tables[n] # made.frame
        BY <1>7, <1>9, MemoryParts DEF Ownership, OwnersAreApart
      <3>2. QED
        BY <3>1, <1>1, <1>5, <1>8, <1>10, <1>13, <1>14, MemoryParts
           DEF Ownership, OwnersHoldFrames
    <2>2. OwnersAreApart'
      BY <1>1, <1>8, <1>10, <1>13, <1>14, MemoryParts, SMTT(30) DEF Ownership, OwnersAreApart
    <2>3. NoFrameLeaks'
      BY <1>1, <1>5, <1>8, <1>9, <1>13, MemoryParts DEF Ownership, NoFrameLeaks
    <2>4. QED
      BY <2>1, <2>2, <2>3 DEF Ownership
  <1>19. RangeIsReserved'
    <2>1. reservations[op.slot].live
      BY <1>1, MemoryParts DEF RangeIsReserved
    <2>2. /\ reservations'[op.slot].live
          /\ Extent(reservations'[op.slot]) = Extent(reservations[op.slot])
      BY <2>1, <1>2, <1>8, SameExtentsKeepRange
    <2>3. QED
      BY <2>2, <1>1, <1>13, <1>14, MemoryParts DEF RangeIsReserved
  <1>20. CreatedAreCommitted'
    <2>1. \A i \in 1 .. Len(q) : i \in 1 .. Len(op.created) /\ i # k
      BY <1>3, <1>12
    <2>2. ASSUME NEW i \in 1 .. Len(q)
          PROVE  /\ q[i].page < op.next
                 /\ \E d \in LivePlaces' : /\ commitments'[d].page = q[i].page
                                           /\ commitments'[d].frame = q[i].frame
      <3>1. /\ i \in 1 .. Len(op.created) /\ i # k
            /\ k \in 1 .. Len(op.created)
        BY <2>1, <1>3
      <3>2. op.created[i].page # made.page
        BY <3>1, <1>4, MemoryParts DEF CreatedAreCommitted
      <3>3. PICK d \in LivePlaces : /\ commitments[d].page = op.created[i].page
                                    /\ commitments[d].frame = op.created[i].frame
        BY <3>1, MemoryParts DEF CreatedAreCommitted
      <3>4. d \in LivePlaces'
        BY <3>2, <3>3, <1>7, <1>8
      <3>5. QED
        BY <3>1, <3>3, <3>4, <1>8, <1>12, MemoryParts DEF CreatedAreCommitted
    <2>3. \A i, j \in 1 .. Len(q) : q[i].page = q[j].page => i = j
      BY <2>1, <1>12, MemoryParts DEF CreatedAreCommitted
    <2>4. QED
      BY <2>2, <2>3, <1>13 DEF CreatedAreCommitted
  <1>21. QED
    BY <1>8, <1>16, <1>17, <1>18, <1>19, <1>20, MemoryPartsNext

LEMMA MemoryStep == MemoryInv /\ [Next]_vars => MemoryInv'
  <1> SUFFICES ASSUME MemoryInv, [Next]_vars
               PROVE  MemoryInv'
    OBVIOUS
  <1>1. ASSUME NEW bytes \in Sizes, VirtualAllocReserve(bytes) PROVE MemoryInv'
    BY <1>1, VirtualAllocReserveKeeps
  <1>2. ASSUME NEW bytes \in Sizes, VirtualAllocReserveCommit(bytes) PROVE MemoryInv'
    BY <1>2, VirtualAllocReserveCommitKeeps
  <1>3. ASSUME NEW bytes \in Sizes, NEW address \in Addresses,
               VirtualAllocCommit(address, bytes)
        PROVE  MemoryInv'
    BY <1>3, VirtualAllocCommitKeeps
  <1>4. ASSUME NEW address \in Addresses, VirtualFree(address) PROVE MemoryInv'
    BY <1>4, VirtualFreeKeeps
  <1>5. CASE CommitDone
    BY <1>5, CommitDoneKeeps
  <1>6. CASE SkipCommitted
    BY <1>6, SkipCommittedKeeps
  <1>7. ASSUME NEW f \in Frames, AllocateData(f) PROVE MemoryInv'
    BY <1>7, AllocateDataKeeps
  <1>8. ASSUME NEW f \in Frames, AllocateTable(f) PROVE MemoryInv'
    BY <1>8, AllocateTableKeeps
  <1>9. CASE AllocateDataFails
    BY <1>9, SkipCommittedKeeps
  <1>10. CASE MapFails
    BY <1>10, MapFailsKeeps
  <1>11. CASE MapPage
    BY <1>11, MapPageKeeps
  <1>12. CASE RecordCommitment
    BY <1>12, RecordCommitmentKeeps
  <1>13. CASE RecordFails
    BY <1>13, RecordFailsKeeps
  <1>14. CASE RollbackPage
    BY <1>14, RollbackPageKeeps
  <1>15. CASE RollbackDone
    BY <1>15, CommitDoneKeeps
  <1>16. CASE UndoReservation
    BY <1>16, UndoReservationKeeps
  <1>17. ASSUME NEW p \in Pages, TlbFill(p) PROVE MemoryInv'
    BY <1>17, TlbFillKeeps
  <1>18. CASE UNCHANGED vars
    BY <1>18, StutterMemory
  <1>19. QED
    BY <1>1, <1>2, <1>3, <1>4, <1>5, <1>6, <1>7, <1>8, <1>9, <1>10, <1>11,
       <1>12, <1>13, <1>14, <1>15, <1>16, <1>17, <1>18 DEF Next

-----------------------------------------------------------------------------
(* The theorems.                                                           *)

\* The inductive invariant holds in every state of every behaviour of the
\* calls of virtual_memory.c and vm_substrate.c.
THEOREM MemoryInvHolds == Spec => []MemoryInv
  BY InitMemory, MemoryStep, PTL DEF Spec

\* What gxos_vm_arena_validate checks holds at every point of every call:
\* reservations are disjoint and inside the arena, each page is committed at
\* most once and to its reservation, and all counters are exact, so that no
\* sequence of VirtualAlloc, VirtualFree and failed commits drifts from them.
THEOREM ArenaStaysValid == Spec => []ArenaIsValid
  <1>1. MemoryInv => ArenaIsValid
    BY DEF MemoryInv
  <1>2. QED
    BY <1>1, MemoryInvHolds, PTL

\* The leaf entries of the page tables and the commitments of the arena agree
\* at every step of gxos_vm_commit_range and its rollback, so the INCONSISTENT
\* returns of the calls are never taken.
THEOREM PageTablesMatchArena == Spec => []MappingsMatchCommitments
  <1>1. MemoryInv => MappingsMatchCommitments
    BY DEF MemoryInv
  <1>2. QED
    BY <1>1, MemoryInvHolds, PTL

\* gxos_vm_paging_unmap_page invalidates every translation it removes: the
\* processor never reaches a frame through an address it no longer backs.
THEOREM TranslationsAreFresh == Spec => []NoStaleTranslation
  <1>1. MemoryInv => NoStaleTranslation
    BY DEF MemoryInv
  <1>2. QED
    BY <1>1, MemoryInvHolds, PTL

\* Three kinds of owners that hold frames apart count as one owner per frame.
LEMMA OwnershipCounts ==
  ASSUME PagingType, Ownership
  PROVE  FramesHaveOneOwner
  <1> DEFINE owners(f) ==
        {<<"table", n>> : n \in {n \in Nodes : tables[n] = f}}
          \cup {<<"data", c>> : c \in {c \in LivePlaces : commitments[c].frame = f}}
          \cup {<<"hand", 0>> : x \in {x \in {op} : x.frame = f}}
  <1> SUFFICES ASSUME NEW f \in Frames
               PROVE  Cardinality(owners(f)) = IF f \in ledger THEN 1 ELSE 0
    BY DEF FramesHaveOneOwner
  <1>1. f # NoFrame
    BY ConstantsAreNat
  <1>2. CASE f \notin ledger
    <2>1. owners(f) = {}
      BY <1>1, <1>2 DEF Ownership, OwnersHoldFrames
    <2>2. QED
      BY <2>1, <1>2, FS_EmptySet
  <1>3. CASE f \in ledger
    <2>1. \E x : owners(f) = {x}
      <3>1. CASE \E n \in Nodes : tables[n] = f
        <4>1. PICK n \in Nodes : tables[n] = f
          BY <3>1
        <4>2. owners(f) = {<<"table", n>>}
          BY <4>1, <1>1 DEF Ownership, OwnersAreApart
        <4>3. QED
          BY <4>2
      <3>2. CASE \E c \in LivePlaces : commitments[c].frame = f
        <4>1. PICK c \in LivePlaces : commitments[c].frame = f
          BY <3>2
        <4>2. owners(f) = {<<"data", c>>}
          BY <4>1, <1>1 DEF Ownership, OwnersAreApart
        <4>3. QED
          BY <4>2
      <3>3. CASE op.frame = f
        <4>1. owners(f) = {<<"hand", 0>>}
          BY <3>3, <1>1 DEF Ownership, OwnersAreApart
        <4>2. QED
          BY <4>1
      <3>4. QED
        BY <1>3, <3>1, <3>2, <3>3 DEF Ownership, NoFrameLeaks
    <2>2. QED
      BY <2>1, <1>3, FS_Singleton
  <1>4. QED
    BY <1>2, <1>3

\* No frame leaks and none is used twice, whichever allocation of a commit is
\* refused: every frame of the ledger has exactly one owner, and vm_uefi_free_
\* page is never asked to free a frame the ledger does not list.
THEOREM EveryFrameHasOneOwner == Spec => []FramesHaveOneOwner
  <1>1. MemoryInv => FramesHaveOneOwner
    BY OwnershipCounts, MemoryParts
  <1>2. QED
    BY <1>1, MemoryInvHolds, PTL

-----------------------------------------------------------------------------
(* The invariant of the call in progress.                                  *)

\* The variables of AddressSpace, as Contract substitutes them.
Regions ==
  {[base |-> reservations[s].base, pages |-> reservations[s].pages] :
     s \in VisibleSlots}

Backed == PagesOf(LivePlaces) \ CreatedPages

\* Until it fails, the loop of gxos_vm_commit_range has backed the pages
\* behind it; the pages it created lie in its range.
RangeIsBacked ==
  /\ op.pc = "idle" => ~op.fresh
  /\ op.pc \in {"page", "map", "record"} =>
       \A p \in op.first .. (op.next - 1) : p \in PagesOf(LivePlaces)
  /\ CreatedPages \subseteq op.first .. op.last

\* A reservation made by the same call is exactly its range, at the lowest
\* place that fitted, and holds nothing but pages the call created.
FreshIsUntouched ==
  op.fresh =>
    /\ reservations[op.slot].base = op.first
    /\ reservations[op.slot].pages = op.last - op.first + 1
    /\ Contract!IsLowestFit(op.first, op.last - op.first + 1)
    /\ PagesOf(PlacesOf(op.slot)) \subseteq CreatedPages

CallIsAtomic == RangeIsBacked /\ FreshIsUntouched

-----------------------------------------------------------------------------
(* Least elements.  A minimal counterexample takes the place of induction. *)

LEMMA NatHasMinimum ==
  ASSUME NEW S \in SUBSET Nat, S # {}
  PROVE  \E x \in S : \A y \in S : x <= y
  <1> DEFINE R == {ss \in Nat \X Nat : ss[1] < ss[2]}
  <1>1. IsWellFoundedOn(R, Nat)
    BY NatLessThanWellFounded DEF OpToRel
  <1>2. PICK x \in S : \A y \in S : ~(<<y, x>> \in R)
    BY <1>1, WFMin
  <1>3. ASSUME NEW y \in S PROVE x <= y
    <2>1. x \in Nat /\ y \in Nat
      OBVIOUS
    <2>2. CASE y < x
      <3>1. <<y, x>> \in R
        BY <2>1, <2>2
      <3>2. QED
        BY <3>1, <1>2
    <2>3. QED
      BY <2>1, <2>2
  <1>4. QED
    BY <1>3

LEMMA BoundedSetHasMaximum ==
  ASSUME NEW S \in SUBSET Nat, S # {}, NEW k \in Nat, \A x \in S : x <= k
  PROVE  \E x \in S : \A y \in S : y <= x
  <1> DEFINE T == {k - x : x \in S}
  <1>1. T \in SUBSET Nat /\ T # {}
    <2>1. \A x \in S : k - x \in Nat
      OBVIOUS
    <2>2. QED
      BY <2>1
  <1>2. PICK t \in T : \A u \in T : t <= u
    <2> HIDE DEF T
    <2>1. QED
      BY <1>1, NatHasMinimum
  <1>3. PICK x \in S : t = k - x
    OBVIOUS
  <1>4. ASSUME NEW y \in S PROVE y <= x
    <2>1. k - y \in T
      OBVIOUS
    <2>2. k - x <= k - y
      BY <2>1, <1>2, <1>3
    <2>3. x \in Nat /\ y \in Nat
      OBVIOUS
    <2>4. QED
      BY <2>2, <2>3
  <1>5. QED
    BY <1>4

-----------------------------------------------------------------------------
(* The scan for a place.                                                   *)

\* align_up_u64 moves to the next boundary, and not beyond it.
LEMMA AlignUpProperties ==
  ASSUME NEW e \in Nat
  PROVE  /\ AlignUp(e) \in Nat
         /\ AlignUp(e) % Granule = 0
         /\ e <= AlignUp(e)
         /\ AlignUp(e) <= e + Granule
         /\ \A x \in Nat : x % Granule = 0 /\ e <= x => AlignUp(e) <= x
  <1>1. PICK g \in Nat \ {0} : g = Granule
    BY ArenaAssumption
  <1>2. PICK q \in Nat : q = (e + g - 1) \div g
    OBVIOUS
  <1>3. /\ q * g <= e + g - 1
        /\ e + g - 1 < q * g + g
    BY <1>2
  <1>4. AlignUp(e) = q * g
    BY <1>1, <1>2 DEF AlignUp
  <1>5. q * g \in Nat /\ (q * g) % g = 0
    OBVIOUS
  <1>6. ASSUME NEW x \in Nat, x % g = 0, e <= x
        PROVE  q * g <= x
    <2>1. PICK k \in Nat : x = k * g
      BY <1>6
    <2>2. q <= k
      <3>1. CASE k + 1 <= q
        <4>1. (k + 1) * g <= q * g
          BY <3>1
        <4>2. (k + 1) * g = k * g + g
          OBVIOUS
        <4>3. k * g \in Nat /\ q * g \in Nat
          OBVIOUS
        <4>4. QED
          BY <1>3, <1>6, <2>1, <4>1, <4>2, <4>3
      <3>2. QED
        BY <3>1
    <2>3. q * g <= k * g
      BY <2>2
    <2>4. QED
      BY <2>1, <2>3
  <1>7. e <= q * g /\ q * g <= e + g
    BY <1>3, <1>5
  <1>8. QED
    BY <1>1, <1>4, <1>5, <1>6, <1>7

\* An aligned place for n pages, and the places from b on.
Fit(n, b) == b % Granule = 0 /\ b + n <= ArenaPages /\ Conflicts(b, n) = {}
FitsFrom(n, b) == {x \in Nat : b <= x /\ Fit(n, x)}

\* The next candidate lies behind a reservation that is in the way, so that
\* nothing before it fits.
LEMMA NextCandidateProperties ==
  ASSUME ArenaInv, NEW n \in Nat \ {0}, NEW b \in Nat, Conflicts(b, n) # {}
  PROVE  /\ NextCandidate(b, n) \in Nat
         /\ b < NextCandidate(b, n)
         /\ NextCandidate(b, n) <= ArenaPages + Granule
         /\ NextCandidate(b, n) % Granule = 0
         /\ FitsFrom(n, b) = FitsFrom(n, NextCandidate(b, n))
  <1> DEFINE End(s) == AlignUp(reservations[s].base + reservations[s].pages)
             S == {End(s) : s \in Conflicts(b, n)}
  <1>1. ASSUME NEW s \in Conflicts(b, n)
        PROVE  /\ s \in LiveSlots
               /\ reservations[s].base \in Nat /\ reservations[s].pages \in Nat
               /\ reservations[s].base + reservations[s].pages \in Nat
               /\ reservations[s].base + reservations[s].pages <= ArenaPages
               /\ b < reservations[s].base + reservations[s].pages
               /\ reservations[s].base < b + n
               /\ End(s) \in Nat
               /\ End(s) % Granule = 0
               /\ reservations[s].base + reservations[s].pages <= End(s)
               /\ End(s) <= reservations[s].base + reservations[s].pages + Granule
               /\ \A x \in Nat : x % Granule = 0 /\ x < End(s) =>
                    x < reservations[s].base + reservations[s].pages
    <2>1. s \in LiveSlots /\ s \in Slots
      BY DEF Conflicts, LiveSlots
    <2>2. /\ reservations[s].base \in Nat /\ reservations[s].pages \in Nat
          /\ reservations[s].base + reservations[s].pages \in Nat
      BY <2>1, ReservationFields DEF ArenaInv
    <2>3. /\ reservations[s].base + reservations[s].pages <= ArenaPages
          /\ b < reservations[s].base + reservations[s].pages
          /\ reservations[s].base < b + n
      BY <2>1 DEF ArenaInv, ReservationsAreDisjoint, Conflicts, Overlaps
    <2>4. /\ End(s) \in Nat
          /\ End(s) % Granule = 0
          /\ reservations[s].base + reservations[s].pages <= End(s)
          /\ End(s) <= reservations[s].base + reservations[s].pages + Granule
          /\ \A x \in Nat : x % Granule = 0
                             /\ reservations[s].base + reservations[s].pages <= x
                               => End(s) <= x
      BY <2>2, AlignUpProperties
    <2> HIDE DEF End
    <2>5. QED
      BY <2>1, <2>2, <2>3, <2>4
  <1> HIDE DEF End
  <1>2. S \in SUBSET Nat /\ S # {}
    BY <1>1
  <1>3. ArenaPages + Granule \in Nat /\ \A x \in S : x <= ArenaPages + Granule
    <2>1. ASSUME NEW s \in Conflicts(b, n) PROVE End(s) <= ArenaPages + Granule
      BY <1>1, ConstantsAreNat
    <2>2. QED
      BY <2>1, ConstantsAreNat
  <1>4. \E x \in S : \A y \in S : y <= x
    <2> HIDE DEF S
    <2>1. QED
      BY <1>2, <1>3, BoundedSetHasMaximum
  <1>5. \E x \in S : \A s \in Conflicts(b, n) : End(s) <= x
    BY <1>4
  <1>6. NextCandidate(b, n) = CHOOSE x \in S : \A s \in Conflicts(b, n) : End(s) <= x
    BY DEF NextCandidate, End
  <1>7. NextCandidate(b, n) \in S
    <2> HIDE DEF S
    <2>1. QED
      BY <1>5, <1>6
  <1>8. PICK s \in Conflicts(b, n) : NextCandidate(b, n) = End(s)
    BY <1>7
  <1>9. /\ NextCandidate(b, n) \in Nat
        /\ b < NextCandidate(b, n)
        /\ NextCandidate(b, n) <= ArenaPages + Granule
        /\ NextCandidate(b, n) % Granule = 0
    BY <1>1, <1>8, ConstantsAreNat
  <1>10. ASSUME NEW x \in Nat, b <= x, x % Granule = 0, x < NextCandidate(b, n)
         PROVE  s \in Conflicts(x, n)
    <2>1. x < reservations[s].base + reservations[s].pages
      BY <1>1, <1>8, <1>10
    <2>2. reservations[s].base < x + n
      BY <1>1, <1>10
    <2>3. QED
      BY <2>1, <2>2, <1>1 DEF Conflicts, Overlaps
  <1>11. FitsFrom(n, b) \subseteq FitsFrom(n, NextCandidate(b, n))
    <2> SUFFICES ASSUME NEW x \in FitsFrom(n, b)
                 PROVE  x \in FitsFrom(n, NextCandidate(b, n))
      OBVIOUS
    <2>1. x \in Nat /\ b <= x /\ Fit(n, x)
      BY DEF FitsFrom
    <2>2. ~(x < NextCandidate(b, n))
      BY <2>1, <1>10 DEF Fit
    <2>3. QED
      BY <2>1, <2>2, <1>9 DEF FitsFrom
  <1>12. FitsFrom(n, NextCandidate(b, n)) \subseteq FitsFrom(n, b)
    BY <1>9 DEF FitsFrom
  <1>13. QED
    BY <1>9, <1>11, <1>12

\* The lowest place from b on, or -1.
LowestFit(n, b) ==
  IF FitsFrom(n, b) = {} THEN -1
  ELSE CHOOSE x \in FitsFrom(n, b) : \A y \in FitsFrom(n, b) : x <= y

LEMMA LowestFitProperties ==
  ASSUME NEW n, NEW b
  PROVE  /\ FitsFrom(n, b) = {} => LowestFit(n, b) = -1
         /\ FitsFrom(n, b) # {} =>
              /\ LowestFit(n, b) \in FitsFrom(n, b)
              /\ \A y \in FitsFrom(n, b) : LowestFit(n, b) <= y
  <1>1. FitsFrom(n, b) \in SUBSET Nat
    BY DEF FitsFrom
  <1>2. CASE FitsFrom(n, b) # {}
    <2>1. \E x \in FitsFrom(n, b) : \A y \in FitsFrom(n, b) : x <= y
      BY <1>1, <1>2, NatHasMinimum
    <2>2. QED
      BY <2>1, <1>2 DEF LowestFit
  <1>3. QED
    BY <1>2 DEF LowestFit

\* What the scan computes from b on.
Scanned(n, b) ==
  IF b + n > ArenaPages THEN -1
  ELSE IF Conflicts(b, n) = {} THEN b
  ELSE LowestFit(n, b)

LEMMA ScannedStep ==
  ASSUME ArenaInv, NEW n \in Nat \ {0}, NEW b \in Nat, b + n <= ArenaPages,
         Conflicts(b, n) # {}
  PROVE  Scanned(n, b) = Scanned(n, NextCandidate(b, n))
  <1>1. PICK m \in Nat : m = NextCandidate(b, n)
    BY NextCandidateProperties
  <1>2. b < m /\ m % Granule = 0 /\ FitsFrom(n, b) = FitsFrom(n, m)
    BY <1>1, NextCandidateProperties
  <1>3. Scanned(n, b) = LowestFit(n, m)
    BY <1>2, ConstantsAreNat DEF Scanned, LowestFit
  <1>4. CASE m + n > ArenaPages
    <2>1. FitsFrom(n, m) = {}
      BY <1>4, ConstantsAreNat DEF FitsFrom, Fit
    <2>2. QED
      BY <2>1, <1>1, <1>3, <1>4, LowestFitProperties DEF Scanned
  <1>5. CASE m + n <= ArenaPages /\ Conflicts(m, n) = {}
    <2>1. m \in FitsFrom(n, m)
      BY <1>2, <1>5 DEF FitsFrom, Fit
    <2>2. PICK x \in FitsFrom(n, m) : x = LowestFit(n, m) /\ x <= m
      BY <2>1, LowestFitProperties
    <2>3. x = m
      BY <2>2 DEF FitsFrom
    <2>4. QED
      BY <2>2, <2>3, <1>1, <1>3, <1>5, ConstantsAreNat DEF Scanned
  <1>6. CASE m + n <= ArenaPages /\ Conflicts(m, n) # {}
    BY <1>1, <1>3, <1>6, ConstantsAreNat DEF Scanned
  <1>7. QED
    BY <1>4, <1>5, <1>6, ConstantsAreNat

\* The recursion of the scan has one solution, and this is it.
LEMMA CandidateIsScanned ==
  ASSUME ArenaInv, NEW n \in Nat \ {0}
  PROVE  Candidate(n) = Scanned(n, 0)
  <1> DEFINE D == 0 .. (ArenaPages + Granule)
             Body(f, b) == IF b + n > ArenaPages THEN -1
                           ELSE IF Conflicts(b, n) = {} THEN b
                           ELSE f[NextCandidate(b, n)]
             scan == CHOOSE f : f = [b \in D |-> Body(f, b)]
             g == [b \in D |-> Scanned(n, b)]
  <1>1. Candidate(n) = scan[0]
    BY DEF Candidate
  <1>2. ASSUME NEW b \in D, b + n <= ArenaPages, Conflicts(b, n) # {}
        PROVE  NextCandidate(b, n) \in D /\ b < NextCandidate(b, n)
    BY <1>2, NextCandidateProperties, ConstantsAreNat
  <1>3. g = [b \in D |-> Body(g, b)]
    <2>1. ASSUME NEW b \in D PROVE Scanned(n, b) = Body(g, b)
      <3>1. b \in Nat
        BY ConstantsAreNat
      <3>2. CASE b + n <= ArenaPages /\ Conflicts(b, n) # {}
        <4>1. NextCandidate(b, n) \in D
          BY <3>2, <1>2
        <4>2. g[NextCandidate(b, n)] = Scanned(n, NextCandidate(b, n))
          BY <4>1
        <4>3. Scanned(n, b) = Scanned(n, NextCandidate(b, n))
          BY <3>1, <3>2, ScannedStep
        <4> HIDE DEF g
        <4>4. Body(g, b) = g[NextCandidate(b, n)]
          BY <3>1, <3>2, ConstantsAreNat
        <4>5. QED
          BY <4>2, <4>3, <4>4
      <3>3. CASE b + n > ArenaPages \/ Conflicts(b, n) = {}
        BY <3>3 DEF Scanned
      <3>4. QED
        BY <3>1, <3>2, <3>3, ConstantsAreNat
    <2>2. QED
      BY <2>1
  <1>4. scan = [b \in D |-> Body(scan, b)]
    <2>1. \E f : f = [b \in D |-> Body(f, b)]
      <3> HIDE DEF g, Body
      <3>1. QED
        BY <1>3
    <2>2. QED
      BY <2>1
  <1> HIDE DEF scan, g
  <1>5. \A b \in D : scan[b] = Body(scan, b) /\ g[b] = Body(g, b)
    <2> HIDE DEF Body
    <2>1. QED
      BY <1>3, <1>4
  <1>6. \A b \in D : scan[b] = g[b]
    <2> DEFINE Bad == {b \in D : scan[b] # g[b]}
    <2> SUFFICES ASSUME Bad # {} PROVE FALSE
      OBVIOUS
    <2>1. /\ Bad \in SUBSET Nat /\ ArenaPages + Granule \in Nat
          /\ \A x \in Bad : x <= ArenaPages + Granule
      BY ConstantsAreNat
    <2>2. PICK b \in Bad : \A y \in Bad : y <= b
      <3> HIDE DEF Bad
      <3>1. QED
        BY <2>1, BoundedSetHasMaximum
    <2>3. b \in D /\ b \in Nat /\ Body(scan, b) # Body(g, b)
      <3> HIDE DEF Body
      <3>1. QED
        BY <1>5, <2>1
    <2>4. /\ b + n <= ArenaPages /\ Conflicts(b, n) # {}
          /\ scan[NextCandidate(b, n)] # g[NextCandidate(b, n)]
      BY <2>3, ConstantsAreNat
    <2>5. NextCandidate(b, n) \in D /\ b < NextCandidate(b, n)
      BY <2>3, <2>4, <1>2
    <2>6. NextCandidate(b, n) \in Bad
      BY <2>4, <2>5
    <2>7. NextCandidate(b, n) <= b
      BY <2>2, <2>6
    <2>8. NextCandidate(b, n) \in Nat
      BY <2>5
    <2>9. QED
      BY <2>3, <2>5, <2>7, <2>8
  <1>7. 0 \in D
    BY ConstantsAreNat
  <1>8. QED
    BY <1>1, <1>6, <1>7 DEF g

\* gxos_vm_arena_reserve_any returns the lowest place that fits.
LEMMA CandidateIsLowest ==
  ASSUME ArenaInv, NEW n \in Nat \ {0}, Candidate(n) # -1
  PROVE  /\ Candidate(n) \in FitsFrom(n, 0)
         /\ \A y \in FitsFrom(n, 0) : Candidate(n) <= y
  <1>1. Candidate(n) = Scanned(n, 0) /\ Scanned(n, 0) # -1
    BY CandidateIsScanned
  <1>2. CASE Conflicts(0, n) = {}
    <2>1. 0 + n <= ArenaPages /\ Candidate(n) = 0
      BY <1>1, <1>2, ConstantsAreNat DEF Scanned
    <2>2. 0 % Granule = 0
      BY ArenaAssumption
    <2>3. 0 \in FitsFrom(n, 0) /\ \A y \in FitsFrom(n, 0) : 0 <= y
      BY <2>1, <2>2, <1>2 DEF FitsFrom, Fit
    <2>4. QED
      BY <2>1, <2>3
  <1>3. CASE Conflicts(0, n) # {}
    <2>1. Candidate(n) = LowestFit(n, 0)
      BY <1>1, <1>3 DEF Scanned
    <2>2. QED
      BY <2>1, <1>1, LowestFitProperties
  <1>4. QED
    BY <1>2, <1>3

-----------------------------------------------------------------------------
(* The abstract actions, in terms of Regions and Backed.                   *)

LEMMA AbstractReserve ==
  ASSUME NEW base \in 0 .. (ArenaPages - 1), NEW n \in 1 .. ArenaPages,
         Contract!IsLowestFit(base, n),
         Regions' = Regions \cup {[base |-> base, pages |-> n]},
         Backed' = Backed
  PROVE  Contract!Next
  <1>1. Contract!Reserve(base, n)
    BY DEF Contract!Reserve, Regions, Backed
  <1>2. QED
    BY <1>1 DEF Contract!Next

LEMMA AbstractReserveAndCommit ==
  ASSUME NEW base \in 0 .. (ArenaPages - 1), NEW n \in 1 .. ArenaPages,
         Contract!IsLowestFit(base, n),
         Regions' = Regions \cup {[base |-> base, pages |-> n]},
         Backed' = Backed \cup (base .. (base + n - 1))
  PROVE  Contract!Next
  <1>1. Contract!ReserveAndCommit(base, n)
    BY DEF Contract!ReserveAndCommit, Regions, Backed
  <1>2. QED
    BY <1>1 DEF Contract!Next

LEMMA AbstractCommit ==
  ASSUME NEW first \in 0 .. (ArenaPages - 1), NEW last \in 0 .. (ArenaPages - 1),
         NEW r \in Regions, first \in Extent(r), last \in Extent(r),
         Regions' = Regions,
         Backed' = Backed \cup (first .. last)
  PROVE  Contract!Next
  <1>1. Contract!Commit(first, last)
    BY DEF Contract!Commit, Contract!Extent, Extent, Regions, Backed
  <1>2. QED
    BY <1>1 DEF Contract!Next

LEMMA AbstractRelease ==
  ASSUME NEW r \in Regions, Regions' = Regions \ {r},
         Backed' = Backed \ Extent(r)
  PROVE  Contract!Next
  <1>1. Contract!Release(r)
    BY DEF Contract!Release, Contract!Extent, Extent, Regions, Backed
  <1>2. QED
    BY <1>1 DEF Contract!Next, Regions

LEMMA AbstractStutter ==
  ASSUME Regions' = Regions, Backed' = Backed
  PROVE  UNCHANGED Contract!vars
  BY DEF Contract!vars, Regions, Backed

\* Both sides mean the same by a place that fits, while no call hides a slot.
LEMMA FitsIsFit ==
  ASSUME ArenaInv, VisibleSlots = LiveSlots, NEW n \in Nat \ {0}, NEW b \in Nat
  PROVE  Contract!Fits(b, n) <=> Fit(n, b)
  <1>1. ASSUME NEW s \in LiveSlots
        PROVE  Overlaps(b, n, reservations[s]) <=>
                 Extent(reservations[s]) \cap (b .. (b + n - 1)) # {}
    <2>1. PICK x \in Nat : x = reservations[s].base
      BY ReservationFields DEF ArenaInv, LiveSlots
    <2>2. PICK k \in Nat \ {0} : k = reservations[s].pages
      BY ReservationFields DEF ArenaInv, LiveSlots, ReservationsAreDisjoint
    <2>3. CASE b < x + k /\ x < b + n
      <3>1. CASE b <= x
        <4>1. x \in x .. (x + k - 1) /\ x \in b .. (b + n - 1)
          BY <3>1, <2>3
        <4>2. QED
          BY <4>1, <2>1, <2>2, <2>3 DEF Overlaps, Extent
      <3>2. CASE x <= b
        <4>1. b \in x .. (x + k - 1) /\ b \in b .. (b + n - 1)
          BY <3>2, <2>3
        <4>2. QED
          BY <4>1, <2>1, <2>2, <2>3 DEF Overlaps, Extent
      <3>3. QED
        BY <3>1, <3>2
    <2>4. CASE ~(b < x + k /\ x < b + n)
      <3>1. (x .. (x + k - 1)) \cap (b .. (b + n - 1)) = {}
        BY <2>4
      <3>2. QED
        BY <3>1, <2>1, <2>2, <2>4 DEF Overlaps, Extent
    <2>5. QED
      BY <2>3, <2>4
  <1>2. Conflicts(b, n) = {} <=>
          \A s \in LiveSlots : Extent(reservations[s]) \cap (b .. (b + n - 1)) = {}
    BY <1>1 DEF Conflicts
  <1>3. ASSUME NEW s \in LiveSlots
        PROVE  Contract!Extent([base |-> reservations[s].base,
                                pages |-> reservations[s].pages])
                 = Extent(reservations[s])
    BY DEF Contract!Extent, Extent
  <1>4. (\A r \in Regions : Contract!Extent(r) \cap (b .. (b + n - 1)) = {}) <=>
          \A s \in LiveSlots : Extent(reservations[s]) \cap (b .. (b + n - 1)) = {}
    BY <1>3 DEF Regions
  <1>5. Contract!Fits(b, n) <=>
          /\ b % Granule = 0 /\ b + n <= ArenaPages
          /\ \A r \in Regions : Contract!Extent(r) \cap (b .. (b + n - 1)) = {}
    BY DEF Contract!Fits, Regions
  <1>6. QED
    BY <1>2, <1>4, <1>5 DEF Fit

LEMMA CandidateIsLowestFit ==
  ASSUME ArenaInv, VisibleSlots = LiveSlots, NEW n \in Nat \ {0},
         Candidate(n) # -1
  PROVE  Contract!IsLowestFit(Candidate(n), n)
  <1>1. PICK c \in Nat : /\ c = Candidate(n) /\ Fit(n, c)
                         /\ \A y \in Nat : Fit(n, y) => c <= y
    BY CandidateIsLowest DEF FitsFrom
  <1>2. Contract!Fits(c, n)
    BY <1>1, FitsIsFit
  <1>3. ASSUME NEW b \in 0 .. (c - 1) PROVE ~Contract!Fits(b, n)
    <2>1. b \in Nat /\ ~(c <= b)
      OBVIOUS
    <2>2. QED
      BY <2>1, <1>1, FitsIsFit
  <1>4. QED
    BY <1>1, <1>2, <1>3 DEF Contract!IsLowestFit

LEMMA LowestFitStays ==
  ASSUME NEW b, NEW n, Contract!IsLowestFit(b, n), Regions' = Regions
  PROVE  Contract!IsLowestFit(b, n)'
  <1>1. \A x : Contract!Fits(x, n)' <=> Contract!Fits(x, n)
    BY DEF Contract!Fits, Regions
  <1>2. QED
    BY <1>1 DEF Contract!IsLowestFit

-----------------------------------------------------------------------------
(* The steps of a call.                                                    *)

\* Visible pages of the arena, committed ones.
LEMMA PagesOfLive ==
  /\ \A p : p \in PagesOf(LivePlaces) <=> \E c \in LivePlaces : commitments[c].page = p
  /\ \A p : p \in PagesOf(LivePlaces)' <=> \E c \in LivePlaces' : commitments'[c].page = p
  BY DEF PagesOf

\* The slots that are visible after a step that neither makes nor gives up a
\* reservation, and keeps the slot of the call.
LEMMA SameRegions ==
  ASSUME ArenaInv, SameExtents, op'.fresh = op.fresh, op'.slot = op.slot
  PROVE  VisibleSlots' = VisibleSlots /\ Regions' = Regions
  <1>1. LiveSlots' = LiveSlots
    BY SameExtentsKeep DEF ArenaInv
  <1>2. VisibleSlots' = VisibleSlots
    BY <1>1 DEF VisibleSlots
  <1>3. \A s \in VisibleSlots : /\ reservations'[s].base = reservations[s].base
                                /\ reservations'[s].pages = reservations[s].pages
    BY DEF SameExtents, VisibleSlots, LiveSlots
  <1>4. QED
    BY <1>2, <1>3 DEF Regions

\* The part of FreshIsUntouched that such a step keeps.
LEMMA SameRegionsKeepFresh ==
  ASSUME ArenaInv, PagingType, FreshIsUntouched, SameExtents,
         op'.fresh = op.fresh, op'.slot = op.slot, op'.first = op.first,
         op'.last = op.last, op'.fresh => PagesOf(PlacesOf(op.slot))' \subseteq CreatedPages'
  PROVE  FreshIsUntouched'
  <1> SUFFICES ASSUME op'.fresh PROVE FreshIsUntouched'
    BY DEF FreshIsUntouched
  <1>1. PICK first \in Pages : first = op.first
    BY OpFields DEF PagingType
  <1>2. PICK k \in Int : k = op.last - op.first + 1
    BY OpFields DEF PagingType, Pages
  <1>3. Contract!IsLowestFit(first, k)
    BY <1>1, <1>2 DEF FreshIsUntouched
  <1>4. Contract!IsLowestFit(first, k)'
    BY <1>3, SameRegions, LowestFitStays
  <1>5. op.slot \in Slots
    BY OpFields DEF PagingType
  <1>6. /\ reservations'[op.slot].base = op.first
        /\ reservations'[op.slot].pages = op.last - op.first + 1
    BY <1>5 DEF SameExtents, FreshIsUntouched
  <1>7. (Contract!IsLowestFit(op.first, op.last - op.first + 1))'
    BY <1>1, <1>2, <1>4
  <1>8. QED
    BY <1>6, <1>7 DEF FreshIsUntouched

\* What a step has to show: it keeps the invariant of the call, and it is a
\* step of AddressSpace or changes nothing there.
Refines == CallIsAtomic' /\ (Contract!Next \/ UNCHANGED Contract!vars)

\* A step that leaves the arena and the created pages alone changes nothing.
LEMMA QuietCallRefines ==
  ASSUME MemoryInv, CallIsAtomic, UNCHANGED arena,
         op'.fresh = op.fresh, op'.slot = op.slot, op'.first = op.first,
         op'.last = op.last, op'.created = op.created,
         op'.pc = "idle" => op.pc = "idle",
         op'.pc \in {"page", "map", "record"} =>
           \A p \in op'.first .. (op'.next - 1) : p \in PagesOf(LivePlaces)
  PROVE  Refines
  <1>1. UNCHANGED <<reservations, commitments>> /\ LivePlaces' = LivePlaces
    BY UnchangedArena
  <1>2. SameExtents
    BY <1>1 DEF SameExtents
  <1>3. CreatedPages' = CreatedPages
    BY DEF CreatedPages
  <1>4. PagesOf(LivePlaces)' = PagesOf(LivePlaces)
    BY <1>1 DEF PagesOf
  <1>5. PagesOf(PlacesOf(op.slot))' = PagesOf(PlacesOf(op.slot))
    BY <1>1 DEF PagesOf, PlacesOf
  <1>6. ArenaInv /\ PagingType
    BY MemoryParts
  <1>7. Regions' = Regions /\ Backed' = Backed
    BY <1>2, <1>3, <1>4, <1>6, SameRegions DEF Backed
  <1>8. op'.fresh => PagesOf(PlacesOf(op.slot))' \subseteq CreatedPages'
    BY <1>3, <1>5 DEF CallIsAtomic, FreshIsUntouched
  <1>9. FreshIsUntouched'
    BY <1>2, <1>6, <1>8, SameRegionsKeepFresh DEF CallIsAtomic
  <1>10. RangeIsBacked'
    BY <1>3, <1>4 DEF CallIsAtomic, RangeIsBacked
  <1>11. QED
    BY <1>7, <1>9, <1>10, AbstractStutter DEF Refines, CallIsAtomic

\* The steps between the allocation of a frame and its commitment.
LEMMA FrameStepRefines ==
  ASSUME MemoryInv, CallIsAtomic,
         \/ \E f \in Frames : AllocateData(f) \/ AllocateTable(f)
         \/ AllocateDataFails \/ MapFails \/ MapPage \/ RecordFails
  PROVE  Refines
  <1>1. op \in OpRecord /\ UNCHANGED arena
    BY MemoryParts
       DEF PagingType, AllocateData, AllocateTable, AllocateDataFails, MapFails,
           MapPage, RecordFails
  <1>2. /\ op'.fresh = op.fresh /\ op'.slot = op.slot /\ op'.first = op.first
        /\ op'.last = op.last /\ op'.created = op.created /\ op'.next = op.next
        /\ op'.pc # "idle" /\ op.pc \in {"page", "map", "record"}
    <2>1. ASSUME NEW f \in Frames, AllocateData(f)
          PROVE  /\ op'.fresh = op.fresh /\ op'.slot = op.slot /\ op'.first = op.first
                 /\ op'.last = op.last /\ op'.created = op.created /\ op'.next = op.next
                 /\ op'.pc # "idle" /\ op.pc = "page"
      BY <2>1, <1>1 DEF AllocateData, OpRecord
    <2>2. ASSUME NEW f \in Frames, AllocateTable(f)
          PROVE  op' = op /\ op.pc = "map"
      BY <2>2 DEF AllocateTable
    <2>3. CASE AllocateDataFails
      BY <2>3, <1>1 DEF AllocateDataFails, OpRecord
    <2>4. CASE MapFails
      BY <2>4, <1>1 DEF MapFails, OpRecord
    <2>5. CASE MapPage
      BY <2>5, <1>1 DEF MapPage, OpRecord
    <2>6. CASE RecordFails
      BY <2>6, <1>1 DEF RecordFails, OpRecord
    <2>7. QED
      BY <2>1, <2>2, <2>3, <2>4, <2>5, <2>6
  <1>3. \A p \in op'.first .. (op'.next - 1) : p \in PagesOf(LivePlaces)
    BY <1>2 DEF CallIsAtomic, RangeIsBacked
  <1>4. QED
    BY <1>1, <1>2, <1>3, QuietCallRefines

LEMMA SkipCommittedRefines ==
  ASSUME MemoryInv, CallIsAtomic, SkipCommitted
  PROVE  Refines
  <1>1. op \in OpRecord /\ UNCHANGED arena /\ op.pc = "page" /\ op.next <= op.last
    BY MemoryParts DEF PagingType, SkipCommitted
  <1>2. op.next \in PagesOf(LivePlaces)
    BY LowestIsMember DEF SkipCommitted, Backing, PagesOf
  <1>3. PICK n \in Nat : n = op.next + 1
    BY <1>1, OpFields
  <1>4. op' = [op EXCEPT !.next = n] \/ op' = [op EXCEPT !.pc = "rollback"]
    BY <1>3 DEF SkipCommitted
  <1>5. /\ op'.fresh = op.fresh /\ op'.slot = op.slot /\ op'.first = op.first
        /\ op'.last = op.last /\ op'.created = op.created
        /\ op'.pc \in {"page", "rollback"}
        /\ op'.pc = "page" => op'.next = n
    BY <1>1, <1>4 DEF OpRecord
  <1>6. \A p \in op.first .. (n - 1) : p \in PagesOf(LivePlaces)
    <2>1. op.next \in Nat /\ op.first \in Nat
      BY <1>1, OpFields DEF Pages
    <2>2. \A p \in op.first .. (n - 1) : p = op.next \/ p \in op.first .. (op.next - 1)
      BY <1>3, <2>1
    <2>3. QED
      BY <1>1, <1>2, <2>2 DEF CallIsAtomic, RangeIsBacked
  <1>7. QED
    BY <1>1, <1>5, <1>6, QuietCallRefines

LEMMA TlbFillRefines ==
  ASSUME MemoryInv, CallIsAtomic, NEW p \in Pages, TlbFill(p)
  PROVE  Refines
  <1>1. UNCHANGED <<arena, op>>
    BY DEF TlbFill
  <1>2. QED
    BY <1>1, QuietCallRefines DEF CallIsAtomic, RangeIsBacked

\* A page that is recorded is created and committed in one step: it does not
\* become visible.
LEMMA RecordCommitmentRefines ==
  ASSUME MemoryInv, CallIsAtomic, RecordCommitment
  PROVE  Refines
  <1> DEFINE made == [page |-> op.next, frame |-> op.frame]
  <1>1. /\ op.pc = "record"
        /\ UNCHANGED <<reservationCount, reservedPages>>
        /\ commitmentCount' = commitmentCount + 1
        /\ committedPages' = committedPages + 1
        /\ op' = [op EXCEPT !.pc = "page", !.next = @ + 1, !.frame = NoFrame,
                            !.created = Append(@, made)]
    BY DEF RecordCommitment
  <1>2. PICK s \in Slots, c \in Places :
          /\ IsLowest(Holding(op.next), s)
          /\ IsLowest(Places \ LivePlaces, c)
          /\ commitments' = [commitments EXCEPT ![c] =
               [live |-> TRUE, slot |-> s, page |-> op.next, frame |-> op.frame]]
          /\ reservations' = [reservations EXCEPT ![s].committed = @ + 1,
                                                  ![s].state = "COMMITTED"]
    BY DEF RecordCommitment
  <1>3. /\ ArenaInv /\ PagingType /\ op \in OpRecord /\ op.next \in Nat
        /\ op.frame \in AnyFrame /\ op.created \in Seq(CreatedRecord)
        /\ op.slot \in Slots /\ op.first \in Nat /\ op.last \in Nat
    BY MemoryParts, OpFields DEF PagingType, Pages
  <1>4. /\ op.frame # NoFrame /\ op.next <= op.last /\ Backing(op.next) = {}
        /\ op.first <= op.next
    BY <1>1, MemoryParts DEF RangeIsReserved
  <1>5. op.next \in Pages
    BY <1>1, <1>4, NextIsPage, MemoryParts
  <1>6. s \in Holding(op.next) /\ c \notin LivePlaces
    BY <1>2, LowestIsMember
  <1>7. /\ SameExtents
        /\ LivePlaces' = LivePlaces \cup {c}
        /\ commitments'[c].page = op.next
        /\ \A d \in LivePlaces : commitments'[d] = commitments[d]
    BY <1>1, <1>2, <1>3, <1>4, <1>5, <1>6, CommitKeepsArena
  <1>8. made \in CreatedRecord /\ made.page = op.next
    BY <1>3, <1>4, <1>5 DEF CreatedRecord, AnyFrame
  <1> HIDE DEF made
  <1>9. PICK q \in Seq(CreatedRecord) : q = Append(op.created, made)
    <2>1. Append(op.created, made) \in Seq(CreatedRecord)
      BY <1>3, <1>8, AppendProperties
    <2>2. QED
      BY <2>1
  <1>10. /\ Len(q) = Len(op.created) + 1 /\ Len(op.created) \in Nat
         /\ q[Len(q)] = made
         /\ \A i \in 1 .. Len(op.created) : q[i] = op.created[i]
    BY <1>3, <1>8, <1>9, AppendProperties
  <1>11. PICK n \in Nat : n = op.next + 1
    BY <1>3
  <1>12. /\ op'.pc = "page" /\ op'.next = n /\ op'.created = q
         /\ op'.slot = op.slot /\ op'.first = op.first /\ op'.last = op.last
         /\ op'.fresh = op.fresh
    <2>1. op' = [op EXCEPT !.pc = "page", !.next = n, !.frame = NoFrame,
                           !.created = q]
      BY <1>1, <1>9, <1>11
    <2>2. QED
      BY <2>1, <1>3 DEF OpRecord
  <1>13. CreatedPages' = CreatedPages \cup {op.next}
    <2>1. CreatedPages' = {q[i].page : i \in 1 .. Len(q)}
      BY <1>12 DEF CreatedPages
    <2>2. 1 .. Len(q) = (1 .. Len(op.created)) \cup {Len(q)}
      BY <1>10
    <2>3. QED
      BY <2>1, <2>2, <1>8, <1>10 DEF CreatedPages
  <1>14. PagesOf(LivePlaces)' = PagesOf(LivePlaces) \cup {op.next}
    <2>1. PagesOf(LivePlaces)' = {commitments'[d].page : d \in LivePlaces'}
      BY DEF PagesOf
    <2>2. QED
      BY <2>1, <1>7 DEF PagesOf
  <1>15. op.next \notin PagesOf(LivePlaces)
    BY <1>4 DEF Backing, PagesOf
  <1>16. Regions' = Regions /\ Backed' = Backed
    BY <1>3, <1>7, <1>12, <1>13, <1>14, <1>15, SameRegions DEF Backed
  <1>17. op'.fresh => PagesOf(PlacesOf(op.slot))' \subseteq CreatedPages'
    <2> SUFFICES ASSUME op'.fresh, NEW p \in PagesOf(PlacesOf(op.slot))'
                 PROVE  p \in CreatedPages'
      OBVIOUS
    <2>1. PICK d \in LivePlaces' : commitments'[d].slot = op.slot /\ commitments'[d].page = p
      BY <1>12 DEF PagesOf, PlacesOf
    <2>2. CASE d = c
      BY <2>1, <2>2, <1>7, <1>13
    <2>3. CASE d \in LivePlaces
      <3>1. p \in PagesOf(PlacesOf(op.slot))
        BY <2>1, <2>3, <1>7 DEF PagesOf, PlacesOf
      <3>2. QED
        BY <3>1, <1>12, <1>13 DEF CallIsAtomic, FreshIsUntouched
    <2>4. QED
      BY <2>2, <2>3, <1>7
  <1>18. FreshIsUntouched'
    BY <1>3, <1>7, <1>12, <1>17, SameRegionsKeepFresh DEF CallIsAtomic
  <1>19. RangeIsBacked'
    <2>1. \A p \in op.first .. (n - 1) : p = op.next \/ p \in op.first .. (op.next - 1)
      BY <1>3, <1>11
    <2>2. \A p \in op.first .. (n - 1) : p \in PagesOf(LivePlaces)'
      BY <2>1, <1>1, <1>14 DEF CallIsAtomic, RangeIsBacked
    <2>3. CreatedPages' \subseteq op.first .. op.last
      <3>1. op.next \in op.first .. op.last
        BY <1>3, <1>4
      <3>2. CreatedPages \subseteq op.first .. op.last
        BY DEF CallIsAtomic, RangeIsBacked
      <3>3. QED
        BY <3>1, <3>2, <1>13
    <2>4. QED
      BY <2>2, <2>3, <1>12 DEF RangeIsBacked
  <1>20. QED
    BY <1>16, <1>18, <1>19, AbstractStutter DEF Refines, CallIsAtomic

\* The rollback of a page undoes its creation.
LEMMA RollbackPageRefines ==
  ASSUME MemoryInv, CallIsAtomic, RollbackPage
  PROVE  Refines
  <1>1. /\ op.pc = "rollback" /\ op.created # <<>>
        /\ op' = [op EXCEPT !.created = SubSeq(@, 1, Len(@) - 1)]
        /\ UNCHANGED <<reservationCount, reservedPages>>
    BY DEF RollbackPage
  <1>2. /\ ArenaInv /\ PagingType /\ op \in OpRecord
        /\ op.created \in Seq(CreatedRecord) /\ op.slot \in Slots
    BY MemoryParts, OpFields DEF PagingType
  <1>3. PICK k \in Nat \ {0} : k = Len(op.created)
    BY <1>1, <1>2
  <1>4. PICK made \in CreatedRecord : made = op.created[k]
    BY <1>2, <1>3
  <1>5. PICK c \in Places :
          /\ IsLowest(Backing(made.page), c)
          /\ DecommitPlaces({c})
          /\ reservations' = Decommitted(commitments[c].slot, {c})
    BY <1>3, <1>4 DEF RollbackPage
  <1>6. c \in LivePlaces /\ commitments[c].page = made.page
    BY <1>5, LowestIsMember DEF Backing
  <1>7. /\ SameExtents
        /\ LivePlaces' = LivePlaces \ {c}
        /\ \A d \in LivePlaces' : commitments'[d] = commitments[d]
    BY <1>1, <1>2, <1>5, <1>6, DecommitKeepsArena
  <1>8. PICK q \in Seq(CreatedRecord) :
           /\ q = SubSeq(op.created, 1, Len(op.created) - 1)
           /\ Len(q) = k - 1
           /\ \A i \in 1 .. Len(q) : q[i] = op.created[i]
    <2>1. k - 1 \in 0 .. Len(op.created) /\ k - 1 = Len(op.created) - 1
      BY <1>3
    <2>2. /\ SubSeq(op.created, 1, k - 1) \in Seq(CreatedRecord)
          /\ Len(SubSeq(op.created, 1, k - 1)) = k - 1
          /\ \A i \in 1 .. (k - 1) : SubSeq(op.created, 1, k - 1)[i] = op.created[i]
      BY <2>1, <1>2, <1>3
    <2>3. QED
      BY <2>1, <2>2
  <1>9. /\ op'.pc = "rollback" /\ op'.created = q
        /\ op'.slot = op.slot /\ op'.first = op.first /\ op'.last = op.last
        /\ op'.fresh = op.fresh
    <2>1. op' = [op EXCEPT !.created = q]
      BY <1>1, <1>8
    <2>2. QED
      BY <2>1, <1>1, <1>2 DEF OpRecord
  <1>10. CreatedPages' = CreatedPages \ {made.page}
    <2>1. CreatedPages' = {op.created[i].page : i \in 1 .. (k - 1)}
      BY <1>8, <1>9 DEF CreatedPages
    <2>2. CreatedPages = {op.created[i].page : i \in 1 .. k}
      BY <1>3 DEF CreatedPages
    <2>3. 1 .. k = (1 .. (k - 1)) \cup {k} /\ \A i \in 1 .. (k - 1) : i # k
      OBVIOUS
    <2>4. \A i \in 1 .. (k - 1) : op.created[i].page # made.page
      BY <2>3, <1>3, <1>4, MemoryParts DEF CreatedAreCommitted
    <2>5. QED
      BY <2>1, <2>2, <2>3, <2>4, <1>4
  <1>11. \A d \in LivePlaces : d # c => commitments[d].page # made.page
    BY <1>2, <1>6 DEF ArenaInv, CommitmentsAreInReservations
  <1>12. PagesOf(LivePlaces)' = PagesOf(LivePlaces) \ {made.page}
    <2>1. PagesOf(LivePlaces)' = {commitments'[d].page : d \in LivePlaces'}
      BY DEF PagesOf
    <2>2. QED
      BY <2>1, <1>6, <1>7, <1>11 DEF PagesOf
  <1>13. made.page \in CreatedPages
    BY <1>3, <1>4 DEF CreatedPages
  <1>14. Regions' = Regions /\ Backed' = Backed
    BY <1>2, <1>7, <1>9, <1>10, <1>12, <1>13, SameRegions DEF Backed
  <1>15. op'.fresh => PagesOf(PlacesOf(op.slot))' \subseteq CreatedPages'
    <2> SUFFICES ASSUME op'.fresh, NEW p \in PagesOf(PlacesOf(op.slot))'
                 PROVE  p \in CreatedPages'
      OBVIOUS
    <2>1. PICK d \in LivePlaces' : commitments'[d].slot = op.slot /\ commitments'[d].page = p
      BY <1>9 DEF PagesOf, PlacesOf
    <2>2. d \in LivePlaces /\ d # c /\ commitments'[d] = commitments[d]
      BY <1>7
    <2>3. p \in PagesOf(PlacesOf(op.slot))
      BY <2>1, <2>2 DEF PagesOf, PlacesOf
    <2>4. p # made.page
      BY <2>1, <2>2, <1>11
    <2>5. QED
      BY <2>3, <2>4, <1>9, <1>10 DEF CallIsAtomic, FreshIsUntouched
  <1>16. FreshIsUntouched'
    BY <1>2, <1>7, <1>9, <1>15, SameRegionsKeepFresh DEF CallIsAtomic
  <1>17. RangeIsBacked'
    BY <1>9, <1>10 DEF CallIsAtomic, RangeIsBacked
  <1>18. QED
    BY <1>14, <1>16, <1>17, AbstractStutter DEF Refines, CallIsAtomic

\* After a call has returned there is nothing in progress.
LEMMA IdleIsAtomic ==
  ASSUME op' = Idle
  PROVE  /\ CallIsAtomic' /\ CreatedPages' = {} /\ VisibleSlots' = LiveSlots'
         /\ Backed' = PagesOf(LivePlaces)'
  <1>1. op'.pc = "idle" /\ op'.created = <<>> /\ ~op'.fresh
    BY IdleFields
  <1>2. CreatedPages' = {}
    BY <1>1 DEF CreatedPages
  <1>3. QED
    BY <1>1, <1>2 DEF CallIsAtomic, RangeIsBacked, FreshIsUntouched, VisibleSlots, Backed

LEMMA RollbackDoneRefines ==
  ASSUME MemoryInv, CallIsAtomic, RollbackDone
  PROVE  Refines
  <1>1. /\ op.created = <<>> /\ ~op.fresh /\ op' = Idle /\ UNCHANGED arena
    BY DEF RollbackDone
  <1>2. /\ UNCHANGED <<reservations, commitments>>
        /\ LivePlaces' = LivePlaces /\ LiveSlots' = LiveSlots
    BY <1>1, UnchangedArena
  <1>3. CreatedPages = {} /\ VisibleSlots = LiveSlots
    BY <1>1 DEF CreatedPages, VisibleSlots
  <1>4. PagesOf(LivePlaces)' = PagesOf(LivePlaces)
    BY <1>2 DEF PagesOf
  <1>5. Backed' = Backed
    BY <1>1, <1>3, <1>4, IdleIsAtomic DEF Backed
  <1>6. VisibleSlots' = VisibleSlots
    BY <1>1, <1>2, <1>3, IdleIsAtomic
  <1>7. Regions' = Regions
    BY <1>2, <1>6 DEF Regions
  <1>8. QED
    BY <1>1, <1>5, <1>7, IdleIsAtomic, AbstractStutter DEF Refines

\* The return of a commit makes its pages visible, and the reservation with
\* them when the same call made it.
LEMMA CommitDoneRefines ==
  ASSUME MemoryInv, CallIsAtomic, CommitDone
  PROVE  Refines
  <1>1. op.pc = "page" /\ op.next > op.last /\ op' = Idle /\ UNCHANGED arena
    BY DEF CommitDone
  <1>2. /\ ArenaInv /\ op \in OpRecord /\ op.slot \in Slots
        /\ op.first \in Pages /\ op.last \in Pages /\ op.next \in Nat
    BY MemoryParts, OpFields DEF PagingType
  <1>3. /\ UNCHANGED <<reservations, commitments>>
        /\ LivePlaces' = LivePlaces /\ LiveSlots' = LiveSlots
    BY <1>1, UnchangedArena
  <1>4. PagesOf(LivePlaces)' = PagesOf(LivePlaces)
    BY <1>3 DEF PagesOf
  <1>5. op.first .. op.last \subseteq PagesOf(LivePlaces)
    <2>1. \A p \in op.first .. op.last : p \in op.first .. (op.next - 1)
      BY <1>1, <1>2 DEF Pages
    <2>2. QED
      BY <2>1, <1>1 DEF CallIsAtomic, RangeIsBacked
  <1>6. CreatedPages \subseteq op.first .. op.last
    BY DEF CallIsAtomic, RangeIsBacked
  <1>7. Backed' = Backed \cup (op.first .. op.last)
    BY <1>1, <1>4, <1>5, <1>6, IdleIsAtomic DEF Backed
  <1>8. /\ reservations[op.slot].live
        /\ op.first \in Extent(reservations[op.slot])
        /\ op.last \in Extent(reservations[op.slot])
    BY <1>1, MemoryParts DEF RangeIsReserved
  <1>9. op.slot \in LiveSlots /\ VisibleSlots' = LiveSlots
    BY <1>1, <1>2, <1>3, <1>8, IdleIsAtomic DEF LiveSlots
  <1>10. Regions' = {[base |-> reservations[s].base, pages |-> reservations[s].pages] :
                       s \in LiveSlots}
    BY <1>3, <1>9 DEF Regions
  <1>11. CASE op.fresh
    <2>1. PICK base \in Pages : base = op.first
      BY <1>2
    <2>2. PICK n \in Int : n = op.last - op.first + 1
      BY <1>2 DEF Pages
    <2>3. /\ reservations[op.slot].base = base /\ reservations[op.slot].pages = n
          /\ Contract!IsLowestFit(base, n)
      BY <2>1, <2>2, <1>11 DEF CallIsAtomic, FreshIsUntouched
    <2>4. LiveSlots = VisibleSlots \cup {op.slot}
      BY <1>9, <1>11 DEF VisibleSlots
    <2>5. Regions' = Regions \cup {[base |-> base, pages |-> n]}
      BY <2>3, <2>4, <1>10 DEF Regions
    <2>6. base + n - 1 = op.last
      BY <2>1, <2>2, <1>2 DEF Pages
    <2>7. n \in 1 .. ArenaPages /\ base \in 0 .. (ArenaPages - 1)
      <3>1. /\ reservations[op.slot].pages # 0 /\ reservations[op.slot].pages \in Nat
            /\ reservations[op.slot].base + reservations[op.slot].pages <= ArenaPages
        BY <1>2, <1>9, ReservationFields DEF ArenaInv, ReservationsAreDisjoint
      <3>2. QED
        BY <3>1, <2>1, <2>3, ConstantsAreNat DEF Pages
    <2>8. Backed' = Backed \cup (base .. (base + n - 1))
      BY <2>1, <2>6, <1>7
    <2>9. Contract!Next
      BY <2>3, <2>5, <2>7, <2>8, AbstractReserveAndCommit
    <2>10. QED
      BY <2>9, <1>1, IdleIsAtomic DEF Refines
  <1>12. CASE ~op.fresh
    <2>1. VisibleSlots = LiveSlots
      BY <1>12 DEF VisibleSlots
    <2>2. Regions' = Regions
      BY <2>1, <1>10 DEF Regions
    <2>3. PICK r \in Regions : r = [base |-> reservations[op.slot].base,
                                    pages |-> reservations[op.slot].pages]
      BY <2>1, <1>9 DEF Regions
    <2>4. Extent(r) = Extent(reservations[op.slot])
      BY <2>3 DEF Extent
    <2>5. PICK first \in Pages, last \in Pages : first = op.first /\ last = op.last
      BY <1>2
    <2>6. Backed' = Backed \cup (first .. last)
      BY <2>5, <1>7
    <2>7. first \in Extent(r) /\ last \in Extent(r)
      BY <2>4, <2>5, <1>8
    <2>8. Contract!Next
      BY <2>2, <2>6, <2>7, AbstractCommit DEF Pages
    <2>9. QED
      BY <2>8, <1>1, IdleIsAtomic DEF Refines
  <1>13. QED
    BY <1>11, <1>12

\* The pages of a reservation are the committed ones in its extent.
LEMMA PagesOfReservation ==
  ASSUME ArenaInv, NEW s \in LiveSlots
  PROVE  PagesOf(PlacesOf(s)) = PagesOf(LivePlaces) \cap Extent(reservations[s])
  <1>1. ASSUME NEW c \in LivePlaces
        PROVE  commitments[c].page \in Extent(reservations[s]) <=> c \in PlacesOf(s)
    <2>1. c \in Places /\ commitments[c].slot \in Slots
      BY CommitmentFields DEF ArenaInv, LivePlaces
    <2>2. /\ commitments[c].slot \in LiveSlots
          /\ commitments[c].page \in Extent(reservations[commitments[c].slot])
      BY <2>1 DEF ArenaInv, CommitmentsAreInReservations, LiveSlots
    <2>3. commitments[c].slot # s =>
            Extent(reservations[commitments[c].slot]) \cap Extent(reservations[s]) = {}
      BY <2>2 DEF ArenaInv, ReservationsAreDisjoint
    <2>4. QED
      BY <2>2, <2>3 DEF PlacesOf
  <1>2. PlacesOf(s) \subseteq LivePlaces
    BY DEF PlacesOf
  <1>3. QED
    BY <1>1, <1>2 DEF PagesOf

\* Giving up a reservation takes away the pages in its extent.
LEMMA ReleaseEffect ==
  ASSUME ArenaInv, NEW s \in LiveSlots, ReleaseReservation(s)
  PROVE  /\ PagesOf(LivePlaces)' = PagesOf(LivePlaces) \ Extent(reservations[s])
         /\ LiveSlots' = LiveSlots \ {s}
         /\ VisibleSlots' = LiveSlots \ {s}
         /\ Regions' = {[base |-> reservations[t].base, pages |-> reservations[t].pages] :
                          t \in LiveSlots \ {s}}
         /\ Backed' = PagesOf(LivePlaces) \ Extent(reservations[s])
         /\ CallIsAtomic'
  <1>1. /\ LivePlaces' = LivePlaces \ PlacesOf(s)
        /\ \A c \in LivePlaces' : commitments'[c] = commitments[c]
        /\ LiveSlots' = LiveSlots \ {s}
        /\ \A t \in LiveSlots' : reservations'[t] = reservations[t]
    BY ReleaseKeepsArena
  <1>2. op' = Idle
    BY DEF ReleaseReservation
  <1>3. PagesOf(LivePlaces)' = {commitments[c].page : c \in LivePlaces \ PlacesOf(s)}
    BY <1>1 DEF PagesOf
  <1>4. \A c \in LivePlaces : commitments[c].page \in PagesOf(PlacesOf(s)) => c \in PlacesOf(s)
    BY DEF PagesOf, PlacesOf, ArenaInv, CommitmentsAreInReservations
  <1>5. PagesOf(LivePlaces)' = PagesOf(LivePlaces) \ PagesOf(PlacesOf(s))
    BY <1>3, <1>4 DEF PagesOf
  <1>6. PagesOf(LivePlaces)' = PagesOf(LivePlaces) \ Extent(reservations[s])
    BY <1>5, PagesOfReservation
  <1>7. CallIsAtomic' /\ VisibleSlots' = LiveSlots' /\ Backed' = PagesOf(LivePlaces)'
    BY <1>2, IdleIsAtomic
  <1>8. Regions' = {[base |-> reservations[t].base, pages |-> reservations[t].pages] :
                      t \in LiveSlots \ {s}}
    BY <1>1, <1>7 DEF Regions
  <1>9. QED
    BY <1>1, <1>6, <1>7, <1>8

LEMMA VirtualFreeRefines ==
  ASSUME MemoryInv, NEW address \in Addresses, VirtualFree(address)
  PROVE  Refines
  <1>1. PICK s \in Slots : /\ IsLowest(Holding(address \div PageSize), s)
                           /\ ReleaseReservation(s)
    BY DEF VirtualFree
  <1>2. s \in LiveSlots /\ ArenaInv
    BY <1>1, LowestIsMember, MemoryParts DEF Holding
  <1>3. op.created = <<>> /\ ~op.fresh
    BY IdleFields DEF VirtualFree
  <1>4. VisibleSlots = LiveSlots /\ Backed = PagesOf(LivePlaces)
    BY <1>3 DEF VisibleSlots, Backed, CreatedPages
  <1>5. PICK r \in Regions : r = [base |-> reservations[s].base,
                                  pages |-> reservations[s].pages]
    BY <1>2, <1>4 DEF Regions
  <1>6. Extent(r) = Extent(reservations[s])
    BY <1>5 DEF Extent
  <1>7. \A t \in LiveSlots \ {s} :
          [base |-> reservations[t].base, pages |-> reservations[t].pages] # r
    <2> SUFFICES ASSUME NEW t \in LiveSlots \ {s},
                        [base |-> reservations[t].base, pages |-> reservations[t].pages] = r
                 PROVE  FALSE
      OBVIOUS
    <2>1. /\ reservations[t].base = reservations[s].base
          /\ reservations[t].pages = reservations[s].pages
      BY <1>5
    <2>2. Extent(reservations[t]) = Extent(reservations[s])
      BY <2>1 DEF Extent
    <2>3. Extent(reservations[t]) \cap Extent(reservations[s]) = {}
      BY <1>2 DEF ArenaInv, ReservationsAreDisjoint
    <2>4. reservations[s].base \in Extent(reservations[s])
      BY <1>2, ReservationFields DEF ArenaInv, ReservationsAreDisjoint, LiveSlots, Extent
    <2>5. QED
      BY <2>2, <2>3, <2>4
  <1>8. Regions' = Regions \ {r}
    <2>1. Regions' = {[base |-> reservations[t].base, pages |-> reservations[t].pages] :
                        t \in LiveSlots \ {s}}
      BY <1>1, <1>2, ReleaseEffect
    <2>2. QED
      BY <2>1, <1>4, <1>5, <1>7 DEF Regions
  <1>9. Backed' = Backed \ Extent(r) /\ CallIsAtomic'
    BY <1>1, <1>2, <1>4, <1>6, ReleaseEffect
  <1>10. QED
    BY <1>8, <1>9, AbstractRelease DEF Refines

\* A reservation that is undone was never visible.
LEMMA UndoReservationRefines ==
  ASSUME MemoryInv, CallIsAtomic, UndoReservation
  PROVE  Refines
  <1>1. /\ op.pc = "rollback" /\ op.created = <<>> /\ op.fresh
        /\ ReleaseReservation(op.slot)
    BY DEF UndoReservation
  <1>2. PICK s \in LiveSlots : s = op.slot
    BY <1>1, OpFields, MemoryParts DEF PagingType, RangeIsReserved, LiveSlots
  <1>3. CreatedPages = {}
    BY <1>1 DEF CreatedPages
  <1>4. ArenaInv
    BY MemoryParts
  <1>5. PagesOf(LivePlaces) \cap Extent(reservations[s]) = {}
    BY <1>1, <1>2, <1>3, <1>4, PagesOfReservation DEF CallIsAtomic, FreshIsUntouched
  <1>6. VisibleSlots = LiveSlots \ {s}
    BY <1>1, <1>2 DEF VisibleSlots
  <1>7. /\ Regions' = {[base |-> reservations[t].base, pages |-> reservations[t].pages] :
                         t \in LiveSlots \ {s}}
        /\ Backed' = PagesOf(LivePlaces) \ Extent(reservations[s])
        /\ CallIsAtomic'
    BY <1>1, <1>2, <1>4, ReleaseEffect
  <1>8. Regions' = Regions /\ Backed' = Backed
    BY <1>3, <1>5, <1>6, <1>7 DEF Regions, Backed
  <1>9. QED
    BY <1>7, <1>8, AbstractStutter DEF Refines

LEMMA VirtualAllocReserveRefines ==
  ASSUME MemoryInv, NEW bytes \in Sizes, VirtualAllocReserve(bytes)
  PROVE  Refines
  <1> DEFINE n == RoundPages(bytes)
             base == Candidate(n)
  <1>1. n \in Nat \ {0}
    BY ConstantsAreNat, RoundPagesIsPositive
  <1>2. PICK s \in Slots : Reserve(s, base, n)
    BY DEF VirtualAllocReserve
  <1>3. op = Idle /\ op' = Idle /\ base # -1
    BY DEF VirtualAllocReserve
  <1>4. ArenaInv
    BY MemoryParts
  <1>5. VisibleSlots = LiveSlots /\ Backed = PagesOf(LivePlaces)
    BY <1>3, IdleFields DEF VisibleSlots, Backed, CreatedPages
  <1>6. Contract!IsLowestFit(base, n)
    BY <1>1, <1>3, <1>4, <1>5, CandidateIsLowestFit
  <1> HIDE DEF n, base
  <1>7. /\ s \notin LiveSlots
        /\ \A t \in LiveSlots : t \in LiveSlots' /\ reservations'[t] = reservations[t]
    BY <1>1, <1>2, <1>4, ReserveKeepsArena
  <1>8. /\ base \in Pages /\ base + n <= ArenaPages /\ UNCHANGED commitments
        /\ reservations' = [reservations EXCEPT ![s] =
             [live |-> TRUE, base |-> base, pages |-> n, committed |-> 0,
              state |-> "RESERVED"]]
    BY <1>2 DEF Reserve
  <1>9. /\ reservations'[s].live /\ reservations'[s].base = base
        /\ reservations'[s].pages = n
        /\ \A t \in Slots : t # s => reservations'[t] = reservations[t]
    BY <1>4, <1>8 DEF ArenaInv, ArenaType
  <1>10. LiveSlots' = LiveSlots \cup {s}
    BY <1>7, <1>9 DEF LiveSlots
  <1>11. CallIsAtomic' /\ VisibleSlots' = LiveSlots' /\ Backed' = PagesOf(LivePlaces)'
    BY <1>3, IdleIsAtomic
  <1>12. Backed' = Backed
    BY <1>5, <1>8, <1>11 DEF PagesOf, LivePlaces
  <1>13. Regions' = Regions \cup {[base |-> base, pages |-> n]}
    BY <1>5, <1>7, <1>9, <1>10, <1>11 DEF Regions
  <1>14. base \in 0 .. (ArenaPages - 1) /\ n \in 1 .. ArenaPages
    BY <1>1, <1>8, ConstantsAreNat DEF Pages
  <1>15. Contract!Next
    BY <1>6, <1>12, <1>13, <1>14, AbstractReserve
  <1>16. QED
    BY <1>11, <1>15 DEF Refines

\* A call that also commits hides its reservation until it returns.
LEMMA VirtualAllocReserveCommitRefines ==
  ASSUME MemoryInv, NEW bytes \in Sizes, VirtualAllocReserveCommit(bytes)
  PROVE  Refines
  <1>1. PICK n \in Nat \ {0} : n = RoundPages(bytes)
    BY ConstantsAreNat, RoundPagesIsPositive
  <1>2. PICK s \in Slots : /\ Reserve(s, Candidate(n), n)
                           /\ op' = CommitOp(s, Candidate(n), Candidate(n) + n - 1, TRUE)
    BY <1>1 DEF VirtualAllocReserveCommit
  <1>3. op = Idle /\ Candidate(n) # -1 /\ ArenaInv
    BY <1>1, MemoryParts DEF VirtualAllocReserveCommit
  <1>4. VisibleSlots = LiveSlots /\ Backed = PagesOf(LivePlaces)
    BY <1>3, IdleFields DEF VisibleSlots, Backed, CreatedPages
  <1>5. PICK base \in Pages :
          base = Candidate(n) /\ Contract!IsLowestFit(base, n)
    BY <1>2, <1>3, <1>4, CandidateIsLowestFit DEF Reserve
  <1>6. /\ Reserve(s, base, n)
        /\ op' = CommitOp(s, base, base + n - 1, TRUE)
    BY <1>2, <1>5
  <1>7. /\ s \notin LiveSlots
        /\ \A t \in LiveSlots : t \in LiveSlots' /\ reservations'[t] = reservations[t]
    BY <1>3, <1>6, ReserveKeepsArena
  <1>8. /\ base + n <= ArenaPages /\ UNCHANGED commitments
        /\ reservations' = [reservations EXCEPT ![s] =
             [live |-> TRUE, base |-> base, pages |-> n, committed |-> 0,
              state |-> "RESERVED"]]
    BY <1>6 DEF Reserve
  <1>9. /\ reservations'[s].live /\ reservations'[s].base = base
        /\ reservations'[s].pages = n
        /\ \A t \in Slots : t # s => reservations'[t] = reservations[t]
    BY <1>3, <1>8 DEF ArenaInv, ArenaType
  <1>10. base + n - 1 \in Pages
    BY <1>8, ConstantsAreNat DEF Pages
  <1>11. /\ op'.pc \in {"page", "rollback"}
         /\ op'.slot = s /\ op'.first = base /\ op'.last = base + n - 1
         /\ op'.next = base /\ op'.created = <<>> /\ op'.fresh
    <2>1. PICK fresh \in BOOLEAN : fresh
      OBVIOUS
    <2>2. PICK last \in Pages : last = base + n - 1
      BY <1>10
    <2>3. op' = CommitOp(s, base, last, fresh)
      BY <2>1, <2>2, <1>6, Zenon
    <2>4. /\ op'.pc \in {"page", "rollback"}
          /\ op'.slot = s /\ op'.first = base /\ op'.last = last
          /\ op'.next = base /\ op'.created = <<>> /\ op'.fresh = fresh
      BY <2>3, CommitOpFields
    <2>5. op'.fresh
      BY <2>1, <2>4, Zenon
    <2>6. QED
      BY <2>2, <2>4, <2>5
  <1>12. VisibleSlots' = LiveSlots /\ LivePlaces' = LivePlaces
    BY <1>7, <1>8, <1>9, <1>11 DEF VisibleSlots, LiveSlots, LivePlaces
  <1>13. CreatedPages' = {}
    BY <1>11 DEF CreatedPages
  <1>14. Regions' = Regions
    BY <1>4, <1>7, <1>12 DEF Regions
  <1>15. Backed' = Backed
    BY <1>4, <1>8, <1>12, <1>13 DEF Backed, PagesOf
  <1>16. Contract!IsLowestFit(base, n)'
    BY <1>5, <1>14, LowestFitStays
  <1>17. op'.last - op'.first + 1 = n
    BY <1>11 DEF Pages
  <1>18. (Contract!IsLowestFit(op.first, op.last - op.first + 1))'
    BY <1>11, <1>16, <1>17
  <1>19. (PagesOf(PlacesOf(op.slot)))' = {}
    <2>1. \A c \in LivePlaces : commitments[c].slot # s
      BY <1>3, <1>7, CommitmentFields
         DEF ArenaInv, CommitmentsAreInReservations, LiveSlots
    <2>2. (PlacesOf(op.slot))' = {}
      BY <2>1, <1>8, <1>11, <1>12 DEF PlacesOf
    <2>3. QED
      BY <2>2 DEF PagesOf
  <1>20. FreshIsUntouched'
    BY <1>9, <1>11, <1>17, <1>18, <1>19 DEF FreshIsUntouched
  <1>21. RangeIsBacked'
    BY <1>11, <1>13 DEF RangeIsBacked, Pages
  <1>22. QED
    BY <1>14, <1>15, <1>20, <1>21, AbstractStutter DEF Refines, CallIsAtomic

LEMMA VirtualAllocCommitRefines ==
  ASSUME MemoryInv, NEW address \in Addresses, NEW bytes \in Sizes,
         VirtualAllocCommit(address, bytes)
  PROVE  Refines
  <1> DEFINE first == address \div PageSize
             last == RoundPages(address + bytes) - 1
  <1>1. PICK s \in Slots : /\ IsLowest(Holding(first), s)
                           /\ last \in Extent(reservations[s])
                           /\ op' = CommitOp(s, first, last, FALSE)
    BY DEF VirtualAllocCommit
  <1>2. op = Idle /\ UNCHANGED arena
    BY DEF VirtualAllocCommit
  <1> HIDE DEF first, last
  <1>3. reservations[s].live /\ first \in Extent(reservations[s])
    BY <1>1, LowestIsMember DEF Holding, LiveSlots
  <1>4. first \in Pages /\ last \in Pages
    BY <1>1, <1>3, ReservedPagesArePages, MemoryParts
  <1>5. /\ op'.pc \in {"page", "rollback"} /\ op'.first = first
        /\ op'.next = first /\ op'.created = <<>> /\ ~op'.fresh
    <2>1. PICK fresh \in BOOLEAN : ~fresh
      OBVIOUS
    <2>2. op' = CommitOp(s, first, last, fresh)
      BY <2>1, <1>1, Zenon
    <2>3. QED
      BY <2>1, <2>2, <1>4, CommitOpFields
  <1>6. /\ UNCHANGED <<reservations, commitments>>
        /\ LivePlaces' = LivePlaces /\ LiveSlots' = LiveSlots
    BY <1>2, UnchangedArena
  <1>7. /\ VisibleSlots' = VisibleSlots
        /\ CreatedPages' = {} /\ CreatedPages = {}
    BY <1>2, <1>5, <1>6, IdleFields DEF VisibleSlots, CreatedPages
  <1>8. Regions' = Regions /\ Backed' = Backed
    BY <1>6, <1>7 DEF Regions, Backed, PagesOf
  <1>9. CallIsAtomic'
    BY <1>4, <1>5, <1>7 DEF CallIsAtomic, RangeIsBacked, FreshIsUntouched, Pages
  <1>10. QED
    BY <1>8, <1>9, AbstractStutter DEF Refines

LEMMA StutterRefines ==
  ASSUME MemoryInv, CallIsAtomic, UNCHANGED vars
  PROVE  Refines
  <1>1. UNCHANGED arena /\ op' = op
    BY DEF vars, arena
  <1>2. QED
    BY <1>1, QuietCallRefines DEF CallIsAtomic, RangeIsBacked

LEMMA InitRefines == Init => CallIsAtomic /\ Contract!Init
  <1> SUFFICES ASSUME Init PROVE CallIsAtomic /\ Contract!Init
    OBVIOUS
  <1>1. /\ op = Idle
        /\ reservations = [s \in Slots |-> NoReservation]
        /\ commitments = [c \in Places |-> NoCommitment]
    BY DEF Init
  <1>2. LiveSlots = {} /\ LivePlaces = {}
    BY <1>1 DEF LiveSlots, LivePlaces, NoReservation, NoCommitment
  <1>3. CreatedPages = {}
    BY <1>1, IdleFields DEF CreatedPages
  <1>4. CallIsAtomic
    BY <1>1, <1>3, IdleFields DEF CallIsAtomic, RangeIsBacked, FreshIsUntouched
  <1>5. Contract!Init
    BY <1>2 DEF Contract!Init, VisibleSlots, PagesOf
  <1>6. QED
    BY <1>4, <1>5

LEMMA StepRefines == MemoryInv /\ CallIsAtomic /\ [Next]_vars => Refines
  <1> SUFFICES ASSUME MemoryInv, CallIsAtomic, [Next]_vars
               PROVE  Refines
    OBVIOUS
  <1>1. ASSUME NEW bytes \in Sizes, VirtualAllocReserve(bytes) PROVE Refines
    BY <1>1, VirtualAllocReserveRefines
  <1>2. ASSUME NEW bytes \in Sizes, VirtualAllocReserveCommit(bytes) PROVE Refines
    BY <1>2, VirtualAllocReserveCommitRefines
  <1>3. ASSUME NEW bytes \in Sizes, NEW address \in Addresses,
               VirtualAllocCommit(address, bytes)
        PROVE  Refines
    BY <1>3, VirtualAllocCommitRefines
  <1>4. ASSUME NEW address \in Addresses, VirtualFree(address) PROVE Refines
    BY <1>4, VirtualFreeRefines
  <1>5. CASE CommitDone
    BY <1>5, CommitDoneRefines
  <1>6. CASE SkipCommitted
    BY <1>6, SkipCommittedRefines
  <1>7. CASE \/ \E f \in Frames : AllocateData(f) \/ AllocateTable(f)
             \/ AllocateDataFails \/ MapFails \/ MapPage \/ RecordFails
    BY <1>7, FrameStepRefines
  <1>8. CASE RecordCommitment
    BY <1>8, RecordCommitmentRefines
  <1>9. CASE RollbackPage
    BY <1>9, RollbackPageRefines
  <1>10. CASE RollbackDone
    BY <1>10, RollbackDoneRefines
  <1>11. CASE UndoReservation
    BY <1>11, UndoReservationRefines
  <1>12. ASSUME NEW p \in Pages, TlbFill(p) PROVE Refines
    BY <1>12, TlbFillRefines
  <1>13. CASE UNCHANGED vars
    BY <1>13, StutterRefines
  <1>14. QED
    BY <1>1, <1>2, <1>3, <1>4, <1>5, <1>6, <1>7, <1>8, <1>9, <1>10, <1>11,
       <1>12, <1>13 DEF Next

-----------------------------------------------------------------------------
(* The theorem.                                                            *)

\* VirtualAlloc and VirtualFree, with their page tables, frames and counters,
\* and with any allocation of a commit refused, implement the address space
\* the runtime relies on: a reservation gets the lowest aligned place that
\* fits, a commit backs all its pages or none, and a release gives back the
\* region and its pages, each in one step.
THEOREM VirtualMemoryImplementsAddressSpace == Spec => ImplementsAddressSpace
  <1>1. Init => CallIsAtomic /\ Contract!Init
    BY InitRefines
  <1>2. MemoryInv /\ CallIsAtomic /\ [Next]_vars =>
          CallIsAtomic' /\ [Contract!Next]_(Contract!vars)
    BY StepRefines DEF Refines
  <1>3. QED
    BY <1>1, <1>2, MemoryInvHolds, PTL DEF Spec, ImplementsAddressSpace, Contract!Spec
===============================================================================
