------------------------------ MODULE CrtProofs -------------------------------
(***************************************************************************)
(* Theorems about the C runtime imports: the heap of CrtHeap, the          *)
(* exception dispatch of Exceptions, the initialiser walks of Initterm and *)
(* the on-exit tables of OnExit. They hold for every capacity, size limit, *)
(* alignment and address space of the heap, for every set of handlers,     *)
(* traps and contexts of the dispatch, for every table and trace limit of  *)
(* the walks, and for every word size, cookie and storage size of the on-  *)
(* exit tables.                                                            *)
(*                                                                         *)
(* The lemmas on division and on induction over numbers come from          *)
(* PlatformProofs.                                                         *)
(***************************************************************************)
EXTENDS CrtHeap, Initterm, Exceptions, OnExit, PlatformProofs

-----------------------------------------------------------------------------
(* The inductive invariant of the heap.                                    *)

\* The block a malloc in progress got from the pool is not one the registry
\* lists, and the tests made before the pool was called still hold.
PendingIsNew ==
  pending # NoBlock =>
    /\ pending.size \in 1 .. MaxRequest
    /\ nextSequence # CounterMax
    /\ Slots # Occupied
    /\ \A s \in Occupied : BlockOf(s) # pending

\* Where the i-th of the last Capacity released pointers is in a full ring.
RingSlot(i) ==
  IF nextRelease + i - 1 < Capacity THEN nextRelease + i - 1
                                    ELSE nextRelease + i - 1 - Capacity

\* The ring holds the history, oldest entry first from nextRelease on.
RingIsHistory ==
  /\ freed \in Seq(Addresses)
  /\ Len(freed) = releaseCount
  /\ releaseCount < Capacity =>
       /\ nextRelease = releaseCount
       /\ \A i \in 1 .. releaseCount : releases[i - 1] = freed[i]
  /\ releaseCount = Capacity =>
       \A i \in 1 .. Capacity : releases[RingSlot(i)] = freed[i]

HeapInv == HeapIsConsistent /\ PendingIsNew /\ RingIsHistory

RecordsAreValid ==
  \A s \in Occupied :
    /\ records[s].pointer # 0 /\ records[s].pointer % Alignment = 0
    /\ records[s].size \in 1 .. MaxRequest
    /\ records[s].sequence \in 1 .. (nextSequence - 1)
    /\ Extent(BlockOf(s)) \subseteq Addresses \ Protected

RecordsAreApart ==
  \A s, t \in Occupied : s # t =>
    /\ Extent(BlockOf(s)) \cap Extent(BlockOf(t)) = {}
    /\ records[s].sequence # records[t].sequence

Bytes == UNION {Extent(BlockOf(s)) : s \in Occupied}

CountersAgree == liveCount = Cardinality(Occupied) /\ total = Cardinality(Bytes)

LargestIsMaximum ==
  /\ \A s \in Occupied : records[s].size <= largest
  /\ largest = 0 \/ \E s \in Occupied : records[s].size = largest

\* RegistryIsValid is the conjunction of these parts, before and after a step.
LEMMA RegistryParts ==
  /\ RegistryIsValid <=> RecordsAreValid /\ RecordsAreApart /\ CountersAgree /\ LargestIsMaximum
  /\ RegistryIsValid' <=>
       RecordsAreValid' /\ RecordsAreApart' /\ CountersAgree' /\ LargestIsMaximum'
  <1>1. RegistryIsValid <=> RecordsAreValid /\ RecordsAreApart /\ CountersAgree /\ LargestIsMaximum
    BY DEF RegistryIsValid, RecordsAreValid, RecordsAreApart, CountersAgree, LargestIsMaximum,
           Bytes
  <1>2. QED
    BY <1>1, PTL

-----------------------------------------------------------------------------
(* Facts about naturals, blocks and the table.                             *)

\* A set of naturals with an upper bound has a greatest element.
LEMMA GreatestExists ==
  ASSUME NEW S \in SUBSET Nat, S # {}, NEW k \in Nat, \A x \in S : x <= k
  PROVE  \E x \in S : \A y \in S : y <= x
  <1> DEFINE T == {k - x : x \in S}
             R == {ss \in Nat \X Nat : ss[1] < ss[2]}
  <1>1. T \in SUBSET Nat /\ T # {}
    <2>1. \A x \in S : k - x \in Nat
      OBVIOUS
    <2>2. QED
      BY <2>1
  <1>2. IsWellFoundedOn(R, Nat)
    BY NatLessThanWellFounded DEF OpToRel
  <1>3. PICK t \in T : \A y \in T : ~(<<y, t>> \in R)
    <2> HIDE DEF R, T
    <2>1. QED
      BY <1>1, <1>2, WFMin
  <1>4. PICK x \in S : t = k - x
    OBVIOUS
  <1>5. ASSUME NEW y \in S PROVE y <= x
    <2>1. k - y \in T /\ k - x \in Nat /\ k - y \in Nat
      OBVIOUS
    <2>2. ~(<<k - y, k - x>> \in R)
      BY <1>3, <1>4, <2>1
    <2>3. ~(k - y < k - x)
      BY <2>1, <2>2
    <2>4. QED
      BY <2>1, <2>3
  <1>6. QED
    BY <1>4, <1>5

\* The bytes of a block, counted.
LEMMA ExtentSize ==
  ASSUME NEW b, b.base \in Nat, b.size \in Nat
  PROVE  IsFiniteSet(Extent(b)) /\ Cardinality(Extent(b)) = b.size
  <1>1. PICK lo \in Int : lo = b.base
    OBVIOUS
  <1>2. PICK hi \in Int : hi = b.base + b.size - 1
    OBVIOUS
  <1>3. IsFiniteSet(lo .. hi) /\ Cardinality(lo .. hi) = IF lo > hi THEN 0 ELSE hi - lo + 1
    BY FS_Interval
  <1>4. Extent(b) = lo .. hi
    BY <1>1, <1>2 DEF Extent
  <1>5. QED
    BY <1>1, <1>2, <1>3, <1>4

\* A block that is not empty holds its first byte.
LEMMA BaseIsInside ==
  ASSUME NEW b, b.base \in Nat, b.size \in Nat, b.size # 0
  PROVE  b.base \in Extent(b)
  BY DEF Extent

LEMMA SlotsAreFinite == IsFiniteSet(Slots) /\ Slots \subseteq Nat /\ Cardinality(Slots) = Capacity
  <1>1. Capacity \in Nat \ {0}
    BY HeapAssumption
  <1>2. 0 \in Int /\ Capacity - 1 \in Int
    BY <1>1
  <1>3. IsFiniteSet(0 .. (Capacity - 1)) /\ Cardinality(0 .. (Capacity - 1)) =
          IF 0 > Capacity - 1 THEN 0 ELSE Capacity - 1 - 0 + 1
    BY <1>2, FS_Interval
  <1>4. QED
    BY <1>1, <1>3 DEF Slots

LEMMA OccupiedIsFinite ==
  /\ IsFiniteSet(Occupied) /\ Occupied \subseteq Slots /\ Cardinality(Occupied) \in Nat
  /\ Cardinality(Occupied) <= Capacity
  <1>1. Occupied \in SUBSET Slots
    BY DEF Occupied
  <1>2. IsFiniteSet(Occupied) /\ Cardinality(Occupied) <= Cardinality(Slots)
    BY <1>1, SlotsAreFinite, FS_Subset
  <1>3. QED
    BY <1>1, <1>2, SlotsAreFinite, FS_CardinalityType

\* What the invariant says of one occupied record.
LEMMA RecordTypes ==
  ASSUME TypeOK, NEW s \in Slots
  PROVE  /\ records[s].pointer \in 0 .. AddressMax /\ records[s].pointer \in Nat
         /\ records[s].size \in Nat /\ records[s].sequence \in Nat
         /\ records[s].occupied \in BOOLEAN
         /\ BlockOf(s).base = records[s].pointer /\ BlockOf(s).size = records[s].size
  <1>1. records[s] \in HeapRecord
    BY DEF TypeOK
  <1>2. AddressMax \in Nat
    BY HeapAssumption
  <1>3. QED
    BY <1>1, <1>2 DEF HeapRecord, BlockOf

LEMMA PendingTypes ==
  ASSUME TypeOK, pending # NoBlock
  PROVE  pending \in Block /\ pending.base \in Addresses /\ pending.base \in Nat
           /\ pending.size \in Nat /\ pending.base # 0
           /\ pending = [base |-> pending.base, size |-> pending.size]
  <1>1. pending \in Block
    BY DEF TypeOK
  <1>2. AddressMax \in Nat
    BY HeapAssumption
  <1>3. QED
    BY <1>1, <1>2 DEF Block, Addresses

\* The bytes of the live blocks are finitely many: all lie in the address space.
LEMMA BytesAreFinite ==
  ASSUME RecordsAreValid
  PROVE  IsFiniteSet(Bytes) /\ Cardinality(Bytes) \in Nat
  <1>1. Bytes \in SUBSET Addresses
    BY DEF RecordsAreValid, Bytes
  <1>2. AddressMax \in Int /\ 1 \in Int
    BY HeapAssumption
  <1>3. IsFiniteSet(Addresses)
    BY <1>2, FS_Interval DEF Addresses
  <1>4. IsFiniteSet(Bytes)
    BY <1>1, <1>3, FS_Subset
  <1>5. QED
    BY <1>4, FS_CardinalityType

-----------------------------------------------------------------------------
(* Steps that leave the registry alone.                                    *)

LEMMA RegistryStays ==
  ASSUME UNCHANGED registry
  PROVE  /\ RegistryIsValid' <=> RegistryIsValid
         /\ Occupied' = Occupied
         /\ \A s \in Slots : BlockOf(s)' = BlockOf(s)
  BY DEF registry, RegistryIsValid, Occupied, BlockOf

LEMMA RingStays ==
  ASSUME UNCHANGED <<ring, freed>>, RingIsHistory
  PROVE  RingIsHistory'
  BY DEF ring, RingIsHistory, RingSlot

LEMMA MallocCallKeeps ==
  ASSUME HeapInv, NEW size \in Sizes, NEW base \in Addresses, MallocCall(size, base)
  PROVE  HeapInv'
  <1> USE DEF HeapInv, HeapIsConsistent
  <1>1. PICK b : b = [base |-> base, size |-> size]
    OBVIOUS
  <1>2. /\ pending = NoBlock /\ size # 0 /\ size <= MaxRequest /\ Slots # Occupied
        /\ nextSequence # CounterMax
        /\ \A c \in pool : Extent(b) \cap Extent(c) = {}
        /\ pool' = pool \cup {b} /\ pending' = b /\ UNCHANGED <<registry, ring, freed>>
    BY <1>1 DEF MallocCall
  <1>3. size \in 1 .. MaxRequest /\ size \in Nat
    BY <1>2, HeapAssumption
  <1>4. b \in Block /\ b.base = base /\ b.size = size /\ b # NoBlock /\ base \in Nat
    BY <1>1, <1>3, HeapAssumption DEF Block, NoBlock, Addresses
  <1>5. TypeOK'
    BY <1>2, <1>4 DEF TypeOK, registry, ring
  <1>6. RegistryIsValid' /\ Occupied' = Occupied /\ \A s \in Slots : BlockOf(s)' = BlockOf(s)
    BY <1>2, RegistryStays
  <1>7. \A s \in Occupied : BlockOf(s)' = BlockOf(s)
    BY <1>6, OccupiedIsFinite
  <1>8. b \notin pool
    <2>1. b.base \in Extent(b)
      BY <1>2, <1>3, <1>4, BaseIsInside
    <2>2. QED
      BY <1>2, <2>1
  <1>9. {BlockOf(s) : s \in Occupied}' = {BlockOf(s) : s \in Occupied}
    BY <1>6, <1>7
  <1>10. PoolMatchesRegistry'
    BY <1>2, <1>4, <1>9 DEF PoolMatchesRegistry
  <1>11. PendingIsNew'
    <2>1. \A s \in Occupied : BlockOf(s) \in pool
      BY DEF PoolMatchesRegistry
    <2>2. \A s \in Occupied' : BlockOf(s)' # b
      BY <1>6, <1>7, <1>8, <2>1
    <2>3. nextSequence' = nextSequence
      BY <1>2 DEF registry
    <2>4. QED
      BY <1>2, <1>3, <1>4, <1>6, <2>2, <2>3 DEF PendingIsNew
  <1>12. RingIsHistory'
    BY <1>2, RingStays
  <1>13. QED
    BY <1>5, <1>6, <1>10, <1>11, <1>12

LEMMA MallocRollbackKeeps ==
  ASSUME HeapInv, MallocRollback
  PROVE  HeapInv'
  <1> USE DEF HeapInv, HeapIsConsistent
  <1>1. /\ pending # NoBlock /\ pool' = pool \ {pending} /\ pending' = NoBlock
        /\ UNCHANGED <<registry, ring, freed>>
    BY DEF MallocRollback
  <1>2. TypeOK'
    BY <1>1 DEF TypeOK, registry, ring
  <1>3. RegistryIsValid' /\ Occupied' = Occupied /\ \A s \in Slots : BlockOf(s)' = BlockOf(s)
    BY <1>1, RegistryStays
  <1>4. {BlockOf(s) : s \in Occupied}' = {BlockOf(s) : s \in Occupied}
    BY <1>3, OccupiedIsFinite
  <1>5. pending \notin {BlockOf(s) : s \in Occupied}
    BY <1>1 DEF PendingIsNew
  <1>6. PoolMatchesRegistry'
    BY <1>1, <1>4, <1>5 DEF PoolMatchesRegistry
  <1>7. PendingIsNew'
    BY <1>1 DEF PendingIsNew
  <1>8. RingIsHistory'
    BY <1>1, RingStays
  <1>9. QED
    BY <1>2, <1>3, <1>6, <1>7, <1>8

-----------------------------------------------------------------------------
(* A malloc that succeeds.                                                 *)

LEMMA MallocSucceedsKeeps ==
  ASSUME HeapInv, MallocSucceeds
  PROVE  HeapInv'
  <1> USE DEF HeapInv, HeapIsConsistent
  <1>1. PICK s \in Slots :
          /\ FindFreeSlot(s)
          /\ records' = [records EXCEPT ![s] =
               [occupied |-> TRUE, pointer |-> pending.base, size |-> pending.size,
                sequence |-> nextSequence]]
    BY DEF MallocSucceeds
  <1>2. /\ pending # NoBlock /\ Acceptable(pending)
        /\ liveCount' = liveCount + 1 /\ total' = total + pending.size
        /\ largest' = IF pending.size > largest THEN pending.size ELSE largest
        /\ nextSequence' = nextSequence + 1 /\ generation' = generation + 1
        /\ pending' = NoBlock /\ UNCHANGED <<ring, pool, freed>>
    BY DEF MallocSucceeds
  <1>3. /\ pending.size \in 1 .. MaxRequest /\ nextSequence # CounterMax
        /\ \A t \in Occupied : BlockOf(t) # pending
    BY <1>2 DEF PendingIsNew
  <1>4. /\ pending \in Block /\ pending.base \in Addresses /\ pending.base \in Nat
        /\ pending.size \in Nat /\ pending.base # 0
        /\ pending = [base |-> pending.base, size |-> pending.size]
    BY <1>2, PendingTypes
  <1>5. s \notin Occupied
    BY <1>1 DEF FindFreeSlot, IsLowest
  <1>6. PICK new : new = [occupied |-> TRUE, pointer |-> pending.base, size |-> pending.size,
                          sequence |-> nextSequence]
    OBVIOUS
  <1>7. nextSequence \in 1 .. CounterMax /\ generation \in 1 .. CounterMax /\ CounterMax \in Nat
        /\ AddressMax \in Nat /\ MaxRequest \in Nat
    BY HeapAssumption DEF TypeOK
  <1>8. new \in HeapRecord /\ new.occupied /\ new.pointer = pending.base
          /\ new.size = pending.size /\ new.sequence = nextSequence
    BY <1>4, <1>6, <1>7 DEF HeapRecord, Addresses
  <1>9. records \in [Slots -> HeapRecord] /\ records' = [records EXCEPT ![s] = new]
    BY <1>1, <1>6 DEF TypeOK
  <1>10. records' \in [Slots -> HeapRecord] /\ records'[s] = new
           /\ \A t \in Slots : t # s => records'[t] = records[t]
    BY <1>8, <1>9
  <1>11. Occupied' = Occupied \cup {s}
    BY <1>8, <1>10 DEF Occupied
  <1>12. BlockOf(s)' = pending
    BY <1>4, <1>8, <1>10 DEF BlockOf
  <1>13. \A t \in Occupied : t # s /\ t \in Slots /\ records'[t] = records[t]
           /\ BlockOf(t)' = BlockOf(t)
    BY <1>5, <1>10, OccupiedIsFinite DEF BlockOf
  <1>14. RecordsAreValid /\ RecordsAreApart /\ CountersAgree /\ LargestIsMaximum
    BY RegistryParts
  <1>15. RecordsAreValid'
    <2>1. ASSUME NEW t \in Occupied'
          PROVE  /\ records'[t].pointer # 0 /\ records'[t].pointer % Alignment = 0
                 /\ records'[t].size \in 1 .. MaxRequest
                 /\ records'[t].sequence \in 1 .. (nextSequence' - 1)
                 /\ Extent(BlockOf(t)') \subseteq Addresses \ Protected
      <3>1. CASE t = s
        <4>1. Extent(pending) \cap Protected = {} /\ pending.base % Alignment = 0
                /\ pending.base <= AddressMax - pending.size
          BY <1>2 DEF Acceptable
        <4>2. Extent(pending) \subseteq Addresses
          BY <4>1, <1>3, <1>4, <1>7 DEF Extent, Addresses
        <4>3. nextSequence \in 1 .. (nextSequence' - 1)
          BY <1>2, <1>7
        <4>4. QED
          BY <3>1, <4>1, <4>2, <4>3, <1>3, <1>4, <1>8, <1>10, <1>12
      <3>2. CASE t # s
        <4>1. t \in Occupied
          BY <3>2, <1>11
        <4>2. records[t].sequence \in 1 .. (nextSequence - 1)
          BY <4>1, <1>14 DEF RecordsAreValid
        <4>3. records[t].sequence \in 1 .. (nextSequence' - 1)
          BY <4>2, <1>2, <1>7
        <4>4. QED
          BY <4>1, <4>3, <1>13, <1>14 DEF RecordsAreValid
      <3>3. QED
        BY <3>1, <3>2
    <2>2. QED
      BY <2>1 DEF RecordsAreValid
  <1>16. RecordsAreApart'
    <2>1. \A t \in Occupied : Extent(BlockOf(t)) \cap Extent(pending) = {}
      BY <1>2 DEF Acceptable
    <2>2. \A t \in Occupied : records[t].sequence # nextSequence
      BY <1>7, <1>14 DEF RecordsAreValid
    <2>3. ASSUME NEW t \in Occupied', NEW u \in Occupied', t # u
          PROVE  /\ Extent(BlockOf(t)') \cap Extent(BlockOf(u)') = {}
                 /\ records'[t].sequence # records'[u].sequence
      <3>1. CASE t = s
        <4>1. u \in Occupied
          BY <2>3, <3>1, <1>11
        <4>2. QED
          BY <4>1, <3>1, <2>1, <2>2, <1>8, <1>10, <1>12, <1>13
      <3>2. CASE u = s
        <4>1. t \in Occupied
          BY <2>3, <3>2, <1>11
        <4>2. QED
          BY <4>1, <3>2, <2>1, <2>2, <1>8, <1>10, <1>12, <1>13
      <3>3. CASE t # s /\ u # s
        <4>1. t \in Occupied /\ u \in Occupied
          BY <3>3, <1>11
        <4>2. QED
          BY <4>1, <2>3, <1>13, <1>14 DEF RecordsAreApart
      <3>4. QED
        BY <3>1, <3>2, <3>3
    <2>4. QED
      BY <2>3 DEF RecordsAreApart
  <1>17. CountersAgree'
    <2>1. liveCount' = Cardinality(Occupied')
      <3>1. Cardinality(Occupied \cup {s}) = Cardinality(Occupied) + 1
        BY <1>5, OccupiedIsFinite, FS_AddElement
      <3>2. QED
        BY <3>1, <1>2, <1>11, <1>14 DEF CountersAgree
    <2>2. Bytes' = Bytes \cup Extent(pending)
      <3>1. ASSUME NEW a PROVE a \in Bytes' <=> a \in Bytes \/ a \in Extent(pending)
        <4>1. a \in Bytes' <=> \E t \in Occupied' : a \in Extent(BlockOf(t)')
          BY DEF Bytes
        <4>2. a \in Bytes <=> \E t \in Occupied : a \in Extent(BlockOf(t))
          BY DEF Bytes
        <4>3. QED
          BY <4>1, <4>2, <1>11, <1>12, <1>13
      <3>2. QED
        BY <3>1
    <2>3. Bytes \cap Extent(pending) = {}
      BY <1>2 DEF Bytes, Acceptable
    <2>4. IsFiniteSet(Extent(pending)) /\ Cardinality(Extent(pending)) = pending.size
      BY <1>4, ExtentSize
    <2>5. IsFiniteSet(Bytes) /\ Cardinality(Bytes) \in Nat
      BY <1>14, BytesAreFinite
    <2>6. Cardinality(Bytes \cup Extent(pending)) =
            Cardinality(Bytes) + Cardinality(Extent(pending))
              - Cardinality(Bytes \cap Extent(pending))
      BY <2>4, <2>5, FS_Union
    <2>7. Cardinality(Bytes \cap Extent(pending)) = 0
      BY <2>3, FS_EmptySet
    <2>8. total' = Cardinality(Bytes')
      BY <2>2, <2>4, <2>5, <2>6, <2>7, <1>2, <1>4, <1>14 DEF CountersAgree
    <2>9. QED
      BY <2>1, <2>8 DEF CountersAgree
  <1>18. LargestIsMaximum'
    <2>1. largest \in Nat /\ \A t \in Occupied : records[t].size \in Nat
      BY <1>7, OccupiedIsFinite, RecordTypes DEF TypeOK
    <2>2. ASSUME NEW t \in Occupied' PROVE records'[t].size <= largest'
      <3>1. CASE t = s
        BY <3>1, <2>1, <1>2, <1>4, <1>8, <1>10
      <3>2. CASE t # s
        <4>1. t \in Occupied
          BY <3>2, <1>11
        <4>2. records[t].size <= largest
          BY <4>1, <1>14 DEF LargestIsMaximum
        <4>3. QED
          BY <4>1, <4>2, <2>1, <1>2, <1>4, <1>13
      <3>3. QED
        BY <3>1, <3>2
    <2>3. largest' = 0 \/ \E t \in Occupied' : records'[t].size = largest'
      <3>1. CASE pending.size > largest
        BY <3>1, <1>2, <1>8, <1>10, <1>11
      <3>2. CASE ~(pending.size > largest)
        BY <3>2, <1>2, <1>11, <1>13, <1>14 DEF LargestIsMaximum
      <3>3. QED
        BY <3>1, <3>2
    <2>4. QED
      BY <2>2, <2>3 DEF LargestIsMaximum
  <1>19. RegistryIsValid'
    BY <1>15, <1>16, <1>17, <1>18, RegistryParts
  <1>20. TypeOK'
    <2>1. liveCount' \in 0 .. Capacity
      <3>1. Cardinality(Occupied \cup {s}) <= Capacity
        <4>1. Occupied \cup {s} \in SUBSET Slots
          BY OccupiedIsFinite
        <4>2. QED
          BY <4>1, SlotsAreFinite, FS_Subset
      <3>2. liveCount' = Cardinality(Occupied \cup {s})
        BY <1>11, <1>17 DEF CountersAgree
      <3>3. liveCount' = liveCount + 1 /\ liveCount \in Nat /\ Capacity \in Nat
        BY <1>2, HeapAssumption DEF TypeOK
      <3>4. QED
        BY <3>1, <3>2, <3>3
    <2>2. total' \in Nat /\ largest' \in 0 .. MaxRequest
      BY <1>2, <1>3, <1>4, <1>7 DEF TypeOK
    <2>3. generation # CounterMax
      BY <1>2 DEF Acceptable
    <2>4. nextSequence' \in 1 .. CounterMax /\ generation' \in 1 .. CounterMax
      BY <2>3, <1>2, <1>3, <1>7
    <2>5. QED
      BY <2>1, <2>2, <2>4, <1>2, <1>10 DEF TypeOK, ring
  <1>21. PoolMatchesRegistry'
    <2>1. {BlockOf(t) : t \in Occupied}' = {BlockOf(t) : t \in Occupied} \cup {pending}
      <3>1. ASSUME NEW c
            PROVE  c \in {BlockOf(t) : t \in Occupied}'
                     <=> c \in {BlockOf(t) : t \in Occupied} \/ c = pending
        <4>1. c \in {BlockOf(t) : t \in Occupied}' <=> \E t \in Occupied' : c = BlockOf(t)'
          OBVIOUS
        <4>2. QED
          BY <4>1, <1>11, <1>12, <1>13
      <3>2. QED
        BY <3>1
    <2>2. QED
      BY <2>1, <1>2 DEF PoolMatchesRegistry
  <1>22. PendingIsNew'
    BY <1>2 DEF PendingIsNew
  <1>23. RingIsHistory'
    BY <1>2, RingStays
  <1>24. QED
    BY <1>19, <1>20, <1>21, <1>22, <1>23

-----------------------------------------------------------------------------
(* free.                                                                   *)

\* The scan of gxos_crt_free_recompute_largest finds the greatest live size.
LEMMA RecomputedIsGreatest ==
  ASSUME NEW rs \in [Slots -> HeapRecord],
         \A s \in Slots : rs[s].occupied => rs[s].size <= MaxRequest
  PROVE  /\ RecomputeLargest(rs) \in 0 .. MaxRequest
         /\ \A s \in Slots : rs[s].occupied => rs[s].size <= RecomputeLargest(rs)
         /\ \/ RecomputeLargest(rs) = 0
            \/ \E s \in Slots : rs[s].occupied /\ rs[s].size = RecomputeLargest(rs)
  <1> DEFINE sizes == {0} \cup {rs[s].size : s \in {s \in Slots : rs[s].occupied}}
  <1>1. MaxRequest \in Nat
    BY HeapAssumption
  <1>2. \A s \in Slots : rs[s].size \in Nat
    BY DEF HeapRecord
  <1>3. sizes \in SUBSET Nat /\ sizes # {} /\ \A n \in sizes : n <= MaxRequest
    BY <1>1, <1>2
  <1>4. \E m \in sizes : \A n \in sizes : n <= m
    <2> HIDE DEF sizes
    <2>1. QED
      BY <1>1, <1>3, GreatestExists
  <1>5. PICK m : m = RecomputeLargest(rs)
    OBVIOUS
  <1>6. m \in sizes /\ \A n \in sizes : n <= m
    <2>1. m = CHOOSE x \in sizes : \A n \in sizes : n <= x
      BY <1>5 DEF RecomputeLargest
    <2> HIDE DEF sizes
    <2>2. QED
      BY <2>1, <1>4
  <1>7. m \in 0 .. MaxRequest
    <2> HIDE DEF sizes
    <2>1. QED
      BY <1>1, <1>3, <1>6
  <1>8. \A s \in Slots : rs[s].occupied => rs[s].size <= m
    BY <1>6
  <1>9. m = 0 \/ \E s \in Slots : rs[s].occupied /\ rs[s].size = m
    BY <1>6
  <1>10. QED
    BY <1>5, <1>7, <1>8, <1>9

\* (s + 1) % Capacity, without the remainder.
LEMMA NextSlot ==
  ASSUME NEW s \in Slots
  PROVE  /\ NextReleaseSlot(s) \in Slots
         /\ NextReleaseSlot(s) = IF s + 1 < Capacity THEN s + 1 ELSE 0
  <1>1. Capacity \in Nat \ {0} /\ s \in Nat /\ s + 1 <= Capacity
    BY HeapAssumption DEF Slots
  <1>2. CASE s + 1 < Capacity
    <2>1. (s + 1) % Capacity = s + 1
      BY <1>1, <1>2
    <2>2. QED
      BY <2>1, <1>1, <1>2 DEF NextReleaseSlot, Slots
  <1>3. CASE s + 1 = Capacity
    <2>1. Capacity % Capacity = 0
      BY <1>1
    <2>2. QED
      BY <2>1, <1>1, <1>3 DEF NextReleaseSlot, Slots
  <1>4. QED
    BY <1>1, <1>2, <1>3

\* Remembering a pointer keeps the ring in step with the history.
LEMMA RingAdvances ==
  ASSUME TypeOK, RingIsHistory, NEW p \in Addresses,
         releases' = [releases EXCEPT ![ReleaseSlot] = p],
         releaseCount' = IF releaseCount < Capacity THEN releaseCount + 1 ELSE releaseCount,
         nextRelease' = NextReleaseSlot(ReleaseSlot),
         freed' = Latest(p)
  PROVE  /\ RingIsHistory'
         /\ releases' \in [Slots -> 0 .. AddressMax] /\ releaseCount' \in 0 .. Capacity
         /\ nextRelease' \in Slots
  <1>1. /\ Capacity \in Nat \ {0} /\ releases \in [Slots -> 0 .. AddressMax]
        /\ releaseCount \in 0 .. Capacity /\ nextRelease \in Slots
        /\ freed \in Seq(Addresses) /\ Len(freed) = releaseCount
        /\ AddressMax \in Nat /\ p \in 0 .. AddressMax
    BY HeapAssumption DEF TypeOK, RingIsHistory, Addresses
  <1>2. PICK r \in Slots : r = ReleaseSlot
    BY <1>1 DEF ReleaseSlot, Slots
  <1>3. nextRelease' \in Slots /\ nextRelease' = IF r + 1 < Capacity THEN r + 1 ELSE 0
    BY <1>2, NextSlot
  <1>4. /\ releases' \in [Slots -> 0 .. AddressMax] /\ releases'[r] = p
        /\ \A i \in Slots : i # r => releases'[i] = releases[i]
    BY <1>1, <1>2
  <1>5. /\ Append(freed, p) \in Seq(Addresses) /\ Len(Append(freed, p)) = releaseCount + 1
        /\ Append(freed, p)[releaseCount + 1] = p
        /\ \A i \in 1 .. releaseCount : Append(freed, p)[i] = freed[i]
    BY <1>1
  <1>6. CASE releaseCount < Capacity
    <2>1. r = releaseCount /\ releaseCount' = releaseCount + 1
      BY <1>2, <1>6 DEF ReleaseSlot
    <2>2. freed' = Append(freed, p)
      BY <1>1, <1>5, <1>6 DEF Latest
    <2>3. /\ freed' \in Seq(Addresses) /\ Len(freed') = releaseCount + 1
          /\ freed'[releaseCount + 1] = p
          /\ \A i \in 1 .. releaseCount : freed'[i] = freed[i]
      BY <1>5, <2>2
    <2>4. \A i \in 1 .. releaseCount : releases[i - 1] = freed[i]
      BY <1>6 DEF RingIsHistory
    <2>5. \A i \in 1 .. (releaseCount + 1) : releases'[i - 1] = freed'[i]
      <3>1. ASSUME NEW i \in 1 .. (releaseCount + 1) PROVE releases'[i - 1] = freed'[i]
        <4>1. CASE i = releaseCount + 1
          BY <4>1, <2>1, <2>3, <1>1, <1>4
        <4>2. CASE i # releaseCount + 1
          <5>1. i \in 1 .. releaseCount /\ i - 1 \in Slots /\ i - 1 # r
            BY <4>2, <2>1, <1>1, <1>6 DEF Slots
          <5>2. QED
            BY <5>1, <2>3, <2>4, <1>4
        <4>3. QED
          BY <4>1, <4>2
      <3>2. QED
        BY <3>1
    <2>6. CASE releaseCount + 1 < Capacity
      <3>1. nextRelease' = releaseCount'
        BY <2>1, <2>6, <1>3
      <3>2. releaseCount' # Capacity
        BY <2>1, <2>6, <1>1
      <3>3. QED
        BY <3>1, <3>2, <2>1, <2>3, <2>5, <1>1, <1>3, <1>4, <1>6 DEF RingIsHistory
    <2>7. CASE releaseCount + 1 = Capacity
      <3>1. nextRelease' = 0
        BY <2>1, <2>7, <1>3
      <3>2. \A i \in 1 .. Capacity : RingSlot(i)' = i - 1
        BY <3>1, <1>1 DEF RingSlot
      <3>3. \A i \in 1 .. Capacity : releases'[RingSlot(i)'] = freed'[i]
        BY <3>2, <2>5, <2>7
      <3>4. ~(releaseCount' < Capacity) /\ releaseCount' = Capacity
        BY <2>1, <2>7, <1>1
      <3>5. QED
        BY <3>3, <3>4, <2>1, <2>3, <1>1, <1>3, <1>4 DEF RingIsHistory
    <2>8. QED
      BY <2>6, <2>7, <1>1, <1>6
  <1>7. CASE releaseCount = Capacity
    <2>1. r = nextRelease /\ releaseCount' = Capacity
      BY <1>1, <1>2, <1>7 DEF ReleaseSlot
    <2>2. freed' = Tail(Append(freed, p))
      BY <1>1, <1>5, <1>7 DEF Latest
    <2>3. PICK all \in Seq(Addresses) : all = Append(freed, p)
      BY <1>5
    <2>4. Len(all) = Capacity + 1 /\ all[Capacity + 1] = p /\ all # <<>>
            /\ \A i \in 1 .. Capacity : all[i] = freed[i]
      BY <1>1, <1>5, <1>7, <2>3
    <2>5. /\ Tail(all) \in Seq(Addresses) /\ Len(Tail(all)) = Capacity
          /\ \A i \in 1 .. Capacity : Tail(all)[i] = all[i + 1]
      BY <1>1, <2>3, <2>4
    <2>6. /\ freed' \in Seq(Addresses) /\ Len(freed') = Capacity /\ freed'[Capacity] = p
          /\ \A i \in 1 .. (Capacity - 1) : freed'[i] = freed[i + 1]
      <3>1. freed' = Tail(all)
        BY <2>2, <2>3
      <3>2. freed'[Capacity] = all[Capacity + 1]
        BY <3>1, <2>5, <1>1
      <3>3. \A i \in 1 .. (Capacity - 1) : i \in 1 .. Capacity /\ i + 1 \in 1 .. Capacity
        BY <1>1
      <3>4. \A i \in 1 .. (Capacity - 1) : freed'[i] = freed[i + 1]
        BY <3>1, <3>3, <2>4, <2>5
      <3>5. QED
        BY <3>1, <3>2, <3>4, <2>4, <2>5
    <2>7. \A i \in 1 .. Capacity : releases[RingSlot(i)] = freed[i]
      BY <1>7 DEF RingIsHistory
    <2>8. ASSUME NEW i \in 1 .. Capacity PROVE releases'[RingSlot(i)'] = freed'[i]
      <3>1. CASE i = Capacity
        <4>1. RingSlot(i)' = r
          BY <3>1, <2>1, <1>1, <1>3 DEF RingSlot, Slots
        <4>2. QED
          BY <4>1, <3>1, <2>6, <1>4
      <3>2. CASE i # Capacity
        <4>1. i \in 1 .. (Capacity - 1) /\ i + 1 \in 1 .. Capacity
          BY <3>2, <1>1
        <4>2. RingSlot(i)' = RingSlot(i + 1) /\ RingSlot(i + 1) \in Slots /\ RingSlot(i + 1) # r
          BY <4>1, <2>1, <1>1, <1>3 DEF RingSlot, Slots
        <4>3. releases[RingSlot(i + 1)] = freed[i + 1]
          BY <4>1, <2>7
        <4>4. QED
          BY <4>1, <4>2, <4>3, <2>6, <1>4
      <3>3. QED
        BY <3>1, <3>2
    <2>9. ~(releaseCount' < Capacity)
      BY <2>1, <1>1
    <2>10. QED
      BY <2>1, <2>6, <2>8, <2>9, <1>1, <1>3, <1>4 DEF RingIsHistory
  <1>8. QED
    BY <1>1, <1>6, <1>7

LEMMA FreeKeeps ==
  ASSUME HeapInv, NEW p \in Addresses, Free(p)
  PROVE  HeapInv'
  <1> USE DEF HeapInv, HeapIsConsistent
  <1>1. PICK s \in Slots :
          /\ IsLowest(Holding(p), s)
          /\ liveCount # 0 /\ total >= records[s].size
          /\ BlockOf(s) \in pool
          /\ pool' = pool \ {BlockOf(s)}
          /\ records' = [records EXCEPT ![s] = NoRecord]
          /\ total' = total - records[s].size
    BY DEF Free
  <1>2. /\ pending = NoBlock /\ generation # CounterMax
        /\ liveCount' = liveCount - 1 /\ largest' = RecomputeLargest(records')
        /\ generation' = generation + 1 /\ UNCHANGED <<nextSequence, pending>>
    BY DEF Free
  <1>3. /\ releases' = [releases EXCEPT ![ReleaseSlot] = p]
        /\ releaseCount' = IF releaseCount < Capacity THEN releaseCount + 1 ELSE releaseCount
        /\ nextRelease' = NextReleaseSlot(ReleaseSlot)
        /\ freed' = Latest(p)
    BY DEF Free
  <1>4. s \in Occupied
    BY <1>1 DEF IsLowest, Holding
  <1>5. NoRecord \in HeapRecord /\ ~NoRecord.occupied
    BY HeapAssumption DEF NoRecord, HeapRecord
  <1>6. records \in [Slots -> HeapRecord]
    BY DEF TypeOK
  <1>7. records' \in [Slots -> HeapRecord] /\ records'[s] = NoRecord
          /\ \A t \in Slots : t # s => records'[t] = records[t]
    BY <1>1, <1>5, <1>6
  <1>8. Occupied' = Occupied \ {s}
    BY <1>5, <1>7 DEF Occupied
  <1>9. \A t \in Occupied' : t \in Occupied /\ t # s /\ t \in Slots /\ records'[t] = records[t]
          /\ BlockOf(t)' = BlockOf(t)
    BY <1>7, <1>8, OccupiedIsFinite DEF BlockOf
  <1>10. RecordsAreValid /\ RecordsAreApart /\ CountersAgree /\ LargestIsMaximum
    BY RegistryParts
  <1>11. /\ records[s].size \in Nat /\ records[s].size # 0 /\ BlockOf(s).base \in Nat
         /\ BlockOf(s).size = records[s].size
    <2>1. records[s].size \in 1 .. MaxRequest
      BY <1>4, <1>10 DEF RecordsAreValid
    <2>2. QED
      BY <2>1, RecordTypes, HeapAssumption
  <1>12. RecordsAreValid'
    <2>1. ASSUME NEW t \in Occupied'
          PROVE  /\ records'[t].pointer # 0 /\ records'[t].pointer % Alignment = 0
                 /\ records'[t].size \in 1 .. MaxRequest
                 /\ records'[t].sequence \in 1 .. (nextSequence' - 1)
                 /\ Extent(BlockOf(t)') \subseteq Addresses \ Protected
      BY <1>2, <1>9, <1>10 DEF RecordsAreValid
    <2>2. QED
      BY <2>1 DEF RecordsAreValid
  <1>13. RecordsAreApart'
    <2>1. ASSUME NEW t \in Occupied', NEW u \in Occupied', t # u
          PROVE  /\ Extent(BlockOf(t)') \cap Extent(BlockOf(u)') = {}
                 /\ records'[t].sequence # records'[u].sequence
      BY <2>1, <1>9, <1>10 DEF RecordsAreApart
    <2>2. QED
      BY <2>1 DEF RecordsAreApart
  <1>14. CountersAgree'
    <2>1. liveCount' = Cardinality(Occupied')
      <3>1. Cardinality(Occupied \ {s}) = Cardinality(Occupied) - 1
        BY <1>4, OccupiedIsFinite, FS_RemoveElement
      <3>2. QED
        BY <3>1, <1>2, <1>8, <1>10 DEF CountersAgree
    <2>2. Bytes = Bytes' \cup Extent(BlockOf(s))
      <3>1. ASSUME NEW a PROVE a \in Bytes <=> a \in Bytes' \/ a \in Extent(BlockOf(s))
        <4>1. a \in Bytes' <=> \E t \in Occupied' : a \in Extent(BlockOf(t)')
          BY DEF Bytes
        <4>2. a \in Bytes <=> \E t \in Occupied : a \in Extent(BlockOf(t))
          BY DEF Bytes
        <4>3. QED
          BY <4>1, <4>2, <1>4, <1>8, <1>9
      <3>2. QED
        BY <3>1
    <2>3. Bytes' \cap Extent(BlockOf(s)) = {}
      <3>1. \A t \in Occupied' : Extent(BlockOf(t)') \cap Extent(BlockOf(s)) = {}
        BY <1>4, <1>9, <1>10 DEF RecordsAreApart
      <3>2. QED
        BY <3>1 DEF Bytes
    <2>4. PICK B : B = Bytes'
      OBVIOUS
    <2>5. IsFiniteSet(Bytes) /\ Cardinality(Bytes) \in Nat
      BY <1>10, BytesAreFinite
    <2>6. IsFiniteSet(B) /\ Cardinality(B) \in Nat
      <3>1. B \in SUBSET Bytes
        BY <2>2, <2>4
      <3>2. IsFiniteSet(B)
        BY <3>1, <2>5, FS_Subset
      <3>3. QED
        BY <3>2, FS_CardinalityType
    <2>7. IsFiniteSet(Extent(BlockOf(s))) /\ Cardinality(Extent(BlockOf(s))) = records[s].size
      BY <1>11, ExtentSize
    <2>8. Cardinality(B \cup Extent(BlockOf(s))) =
            Cardinality(B) + Cardinality(Extent(BlockOf(s)))
              - Cardinality(B \cap Extent(BlockOf(s)))
      BY <2>6, <2>7, FS_Union
    <2>9. Cardinality(B \cap Extent(BlockOf(s))) = 0
      BY <2>3, <2>4, FS_EmptySet
    <2>10. Cardinality(Bytes) = Cardinality(B) + records[s].size
      BY <2>2, <2>4, <2>6, <2>7, <2>8, <2>9, <1>11
    <2>11. total' = Cardinality(B)
      BY <2>6, <2>10, <1>1, <1>10, <1>11 DEF CountersAgree
    <2>12. QED
      BY <2>1, <2>4, <2>11 DEF CountersAgree
  <1>15. PICK rs \in [Slots -> HeapRecord] : rs = records'
    BY <1>7
  <1>16. Occupied' = {t \in Slots : rs[t].occupied}
    BY <1>15 DEF Occupied
  <1>17. \A t \in Slots : rs[t].occupied => rs[t].size <= MaxRequest
    BY <1>12, <1>15, <1>16, HeapAssumption DEF RecordsAreValid
  <1>18. largest' = RecomputeLargest(rs)
    BY <1>2, <1>15
  <1>19. /\ largest' \in 0 .. MaxRequest
         /\ \A t \in Slots : rs[t].occupied => rs[t].size <= largest'
         /\ largest' = 0 \/ \E t \in Slots : rs[t].occupied /\ rs[t].size = largest'
    BY <1>17, <1>18, RecomputedIsGreatest
  <1>20. LargestIsMaximum'
    BY <1>15, <1>16, <1>19 DEF LargestIsMaximum
  <1>21. RegistryIsValid'
    BY <1>12, <1>13, <1>14, <1>20, RegistryParts
  <1>22. /\ RingIsHistory'
         /\ releases' \in [Slots -> 0 .. AddressMax] /\ releaseCount' \in 0 .. Capacity
         /\ nextRelease' \in Slots
    BY <1>3, RingAdvances
  <1>23. TypeOK'
    <2>1. liveCount' \in 0 .. Capacity
      BY <1>1, <1>2, HeapAssumption DEF TypeOK
    <2>2. total' \in Nat
      BY <1>1, <1>11 DEF TypeOK
    <2>3. generation' \in 1 .. CounterMax
      BY <1>2, HeapAssumption DEF TypeOK
    <2>4. nextSequence' \in 1 .. CounterMax /\ pool' \subseteq Block
            /\ pending' \in Block \cup {NoBlock}
      BY <1>1, <1>2 DEF TypeOK
    <2>5. QED
      BY <2>1, <2>2, <2>3, <2>4, <1>7, <1>19, <1>22 DEF TypeOK
  <1>24. PoolMatchesRegistry'
    <2>1. \A t \in Occupied' : BlockOf(t) # BlockOf(s)
      <3>1. BlockOf(s).base \in Extent(BlockOf(s))
        BY <1>11, BaseIsInside
      <3>2. QED
        BY <3>1, <1>4, <1>9, <1>10 DEF RecordsAreApart
    <2>2. {BlockOf(t) : t \in Occupied}' = {BlockOf(t) : t \in Occupied} \ {BlockOf(s)}
      <3>1. ASSUME NEW c
            PROVE  c \in {BlockOf(t) : t \in Occupied}'
                     <=> c \in {BlockOf(t) : t \in Occupied} /\ c # BlockOf(s)
        <4>1. c \in {BlockOf(t) : t \in Occupied}' <=> \E t \in Occupied' : c = BlockOf(t)'
          OBVIOUS
        <4>2. QED
          BY <4>1, <2>1, <1>4, <1>8, <1>9
      <3>2. QED
        BY <3>1
    <2>3. QED
      BY <2>2, <1>1, <1>2 DEF PoolMatchesRegistry
  <1>25. PendingIsNew'
    BY <1>2 DEF PendingIsNew
  <1>26. QED
    BY <1>21, <1>22, <1>23, <1>24, <1>25

-----------------------------------------------------------------------------
(* The theorems about the heap.                                            *)

LEMMA HeapInvInitially == Init => HeapInv
  <1> SUFFICES ASSUME Init PROVE HeapInv
    OBVIOUS
  <1>1. Occupied = {}
    BY DEF Init, Occupied, NoRecord
  <1>2. TypeOK
    <2>1. NoRecord \in HeapRecord
      BY HeapAssumption DEF NoRecord, HeapRecord
    <2>2. 0 \in Slots /\ 0 \in 0 .. AddressMax /\ 0 \in 0 .. Capacity /\ 0 \in 0 .. MaxRequest
            /\ 1 \in 1 .. CounterMax
      BY HeapAssumption DEF Slots
    <2>3. QED
      BY <2>1, <2>2 DEF Init, TypeOK
  <1>3. RegistryIsValid
    <2>1. Bytes = {}
      BY <1>1 DEF Bytes
    <2>2. CountersAgree
      BY <1>1, <2>1, FS_EmptySet DEF CountersAgree, Init
    <2>3. RecordsAreValid /\ RecordsAreApart /\ LargestIsMaximum
      BY <1>1 DEF RecordsAreValid, RecordsAreApart, LargestIsMaximum, Init
    <2>4. QED
      BY <2>2, <2>3, RegistryParts
  <1>4. PoolMatchesRegistry /\ PendingIsNew
    BY <1>1 DEF Init, PoolMatchesRegistry, PendingIsNew
  <1>5. RingIsHistory
    BY HeapAssumption DEF Init, RingIsHistory
  <1>6. QED
    BY <1>2, <1>3, <1>4, <1>5 DEF HeapInv, HeapIsConsistent

LEMMA HeapInvStep == HeapInv /\ [Next]_vars => HeapInv'
  <1> SUFFICES ASSUME HeapInv, [Next]_vars PROVE HeapInv'
    OBVIOUS
  <1>1. CASE \E size \in Sizes, base \in Addresses : MallocCall(size, base)
    BY <1>1, MallocCallKeeps
  <1>2. CASE MallocSucceeds
    BY <1>2, MallocSucceedsKeeps
  <1>3. CASE MallocRollback
    BY <1>3, MallocRollbackKeeps
  <1>4. CASE \E p \in Addresses : Free(p)
    BY <1>4, FreeKeeps
  <1>5. CASE UNCHANGED vars
    BY <1>5 DEF vars, HeapInv, HeapIsConsistent, TypeOK, RegistryIsValid, PoolMatchesRegistry,
                PendingIsNew, RingIsHistory, RingSlot, Occupied, BlockOf
  <1>6. QED
    BY <1>1, <1>2, <1>3, <1>4, <1>5 DEF Next

\* The inductive invariant of malloc and free holds in every reachable state.
THEOREM HeapInvHolds == Spec => []HeapInv
  BY HeapInvInitially, HeapInvStep, PTL DEF Spec

\* Registry, counters and pool agree after every step of malloc and free
\* (HeapIsConsistent): the blocks are disjoint and outside the protected
\* addresses, total_requested_bytes is the number of bytes they cover,
\* largest_request the greatest of them, and the pool has exactly these blocks
\* and the one in progress outstanding, for every capacity and address space.
THEOREM RegistryAgreesWithPool == Spec => []HeapIsConsistent
  <1>1. HeapInv => HeapIsConsistent
    BY DEF HeapInv
  <1>2. QED
    BY <1>1, HeapInvHolds, PTL

\* A pointer that is not live is called a double free exactly when it is among
\* the last Capacity pointers freed (DoubleFreesAreRecognised), however often
\* the ring of release records has wrapped.
THEOREM ReleasedPointersAreRemembered == Spec => []DoubleFreesAreRecognised
  <1>1. HeapInv => DoubleFreesAreRecognised
    <2> SUFFICES ASSUME HeapInv, NEW p \in Addresses, Holding(p) = {}, Containing(p) = {}
                 PROVE  Verdict(p) = "DOUBLE_FREE" <=> \E i \in 1 .. Len(freed) : freed[i] = p
      BY DEF DoubleFreesAreRecognised
    <2>1. Verdict(p) = "DOUBLE_FREE" <=> Remembered(p)
      BY DEF Verdict
    <2>2. /\ Capacity \in Nat \ {0} /\ releaseCount \in 0 .. Capacity /\ nextRelease \in Slots
          /\ Len(freed) = releaseCount
      BY HeapAssumption DEF HeapInv, HeapIsConsistent, TypeOK, RingIsHistory
    <2>3. CASE releaseCount < Capacity
      <3>1. \A i \in 1 .. releaseCount : releases[i - 1] = freed[i]
        BY <2>3 DEF HeapInv, RingIsHistory
      <3>2. ASSUME Remembered(p) PROVE \E i \in 1 .. Len(freed) : freed[i] = p
        <4>1. PICK j \in 0 .. (releaseCount - 1) : releases[j] = p
          BY <3>2 DEF Remembered
        <4>2. j + 1 \in 1 .. releaseCount /\ (j + 1) - 1 = j
          BY <2>2
        <4>3. freed[j + 1] = p
          BY <4>1, <4>2, <3>1
        <4>4. QED
          BY <4>2, <4>3, <2>2
      <3>3. ASSUME NEW i \in 1 .. Len(freed), freed[i] = p PROVE Remembered(p)
        <4>1. i \in 1 .. releaseCount /\ i - 1 \in 0 .. (releaseCount - 1)
          BY <2>2
        <4>2. QED
          BY <4>1, <3>1, <3>3 DEF Remembered
      <3>4. QED
        BY <3>2, <3>3, <2>1
    <2>4. CASE releaseCount = Capacity
      <3>1. \A i \in 1 .. Capacity : releases[RingSlot(i)] = freed[i]
        BY <2>4 DEF HeapInv, RingIsHistory
      <3>2. ASSUME Remembered(p) PROVE \E i \in 1 .. Len(freed) : freed[i] = p
        <4>1. PICK j \in 0 .. (releaseCount - 1) : releases[j] = p
          BY <3>2 DEF Remembered
        <4>2. PICK i \in 1 .. Capacity : RingSlot(i) = j
          <5>1. nextRelease \in Nat /\ nextRelease < Capacity /\ j \in Nat /\ j < Capacity
            BY <2>2, <2>4 DEF Slots
          <5>2. CASE nextRelease <= j
            <6>1. j - nextRelease + 1 \in 1 .. Capacity /\ RingSlot(j - nextRelease + 1) = j
              BY <5>1, <5>2, <2>2 DEF RingSlot
            <6>2. QED
              BY <6>1
          <5>3. CASE j < nextRelease
            <6>1. /\ j - nextRelease + 1 + Capacity \in 1 .. Capacity
                  /\ RingSlot(j - nextRelease + 1 + Capacity) = j
              BY <5>1, <5>3, <2>2 DEF RingSlot
            <6>2. QED
              BY <6>1
          <5>4. QED
            BY <5>1, <5>2, <5>3
        <4>3. QED
          BY <4>1, <4>2, <3>1, <2>2, <2>4
      <3>3. ASSUME NEW i \in 1 .. Len(freed), freed[i] = p PROVE Remembered(p)
        <4>1. i \in 1 .. Capacity /\ RingSlot(i) \in 0 .. (releaseCount - 1)
          BY <2>2, <2>4 DEF RingSlot, Slots
        <4>2. QED
          BY <4>1, <3>1, <3>3 DEF Remembered
      <3>4. QED
        BY <3>2, <3>3, <2>1
    <2>5. QED
      BY <2>2, <2>3, <2>4
  <1>2. QED
    BY <1>1, HeapInvHolds, PTL

-----------------------------------------------------------------------------
(* The inductive invariant of the exception dispatch.                      *)

VehTypes ==
  /\ vehRecords \in Seq([callback : Handlers, sequence : Nat])
  /\ log \in Seq([callback : Handlers, first : BOOLEAN])
  /\ vehOrder \in Seq(Nat) /\ asked \in Seq(Nat) /\ unasked \in Seq(Nat)
  /\ registryActive \in BOOLEAN /\ entryActive \in BOOLEAN
  /\ vehMode \in {"boot", "running", "handler", "halted"}

\* Slots, sequence numbers and the history count registrations alike.
RegistrationsAreCounted ==
  /\ Len(vehRecords) = Len(log) /\ Len(vehOrder) = Len(log) /\ vehSequence = Len(log) + 1
  /\ Len(log) <= VehCapacity
  /\ \A i \in 1 .. Len(log) :
       vehRecords[i].callback = log[i].callback /\ vehRecords[i].sequence = i

\* An order array that lists every slot of a history, and in the order it
\* should.
Before(entries, a, b) ==
  IF entries[a].first THEN entries[b].first => b < a ELSE ~entries[b].first /\ a < b

IsOrderFor(entries, order) ==
  /\ \A i \in 1 .. Len(entries) : order[i] \in 1 .. Len(entries)
  /\ \A m \in 1 .. Len(entries) : \E i \in 1 .. Len(entries) : order[i] = m
  /\ \A i, j \in 1 .. Len(entries) : i < j => Before(entries, order[i], order[j])

OrderIsAsAsked == IsOrderFor(log, vehOrder)

\* The handlers that were asked and those that will be are the whole order.
SnapshotIsTheOrder == vehMode = "handler" => asked \o unasked = vehOrder

\* No guard is up before the registry is configured; until a context is
\* applied the frame is what the processor saved.
FrameIsTheTrap ==
  /\ vehMode = "boot" => ~entryActive /\ ~registryActive /\ frame = NoFrame
  /\ vehMode = "handler" =>
       /\ frame \in Traps /\ interrupted = frame
       /\ context.rip \in Nat /\ context.rsp \in Nat

VehInv ==
  /\ VehTypes /\ RegistrationsAreCounted /\ OrderIsAsAsked /\ SnapshotIsTheOrder
  /\ FrameIsTheTrap /\ GuardsFollowTheDispatch /\ OnlyApprovedContextsResume

-----------------------------------------------------------------------------
(* Registration.                                                           *)

RegistryPart == RegistrationsAreCounted /\ OrderIsAsAsked

LEMMA RegistrySame ==
  ASSUME UNCHANGED registryVars, RegistryPart
  PROVE  RegistryPart'
  BY DEF registryVars, RegistryPart, RegistrationsAreCounted, OrderIsAsAsked

\* The slot that a registration puts at the front, or at the end.
LEMMA OrderGrows ==
  ASSUME NEW order \in Seq(Nat), NEW slot \in Nat, NEW n \in Nat, Len(order) = n
  PROVE  /\ <<slot>> \o order \in Seq(Nat) /\ Len(<<slot>> \o order) = n + 1
         /\ (<<slot>> \o order)[1] = slot
         /\ \A i \in 2 .. (n + 1) : (<<slot>> \o order)[i] = order[i - 1]
         /\ Append(order, slot) \in Seq(Nat) /\ Len(Append(order, slot)) = n + 1
         /\ Append(order, slot)[n + 1] = slot
         /\ \A i \in 1 .. n : Append(order, slot)[i] = order[i]
  <1>1. <<slot>> \in Seq(Nat) /\ Len(<<slot>>) = 1 /\ <<slot>>[1] = slot
    OBVIOUS
  <1>2. PICK one \in Seq(Nat) : one = <<slot>>
    BY <1>1
  <1>3. one \o order \in Seq(Nat) /\ Len(one \o order) = n + 1 /\ (one \o order)[1] = slot
          /\ \A i \in 2 .. (n + 1) : (one \o order)[i] = order[i - 1]
    BY <1>1, <1>2
  <1>4. /\ Append(order, slot) \in Seq(Nat) /\ Len(Append(order, slot)) = n + 1
        /\ Append(order, slot)[n + 1] = slot
        /\ \A i \in 1 .. n : Append(order, slot)[i] = order[i]
    OBVIOUS
  <1>5. QED
    BY <1>2, <1>3, <1>4

\* Entry n + 1 of the history is added at the front of the order, or at the end.
ExtendsOrder(n, entries, order, entries1, order1) ==
  /\ Len(entries) = n /\ Len(entries1) = n + 1
  /\ \A i \in 1 .. n : entries1[i] = entries[i]
  /\ \/ /\ entries1[n + 1].first
        /\ order1[1] = n + 1 /\ \A i \in 2 .. (n + 1) : order1[i] = order[i - 1]
     \/ /\ ~entries1[n + 1].first
        /\ order1[n + 1] = n + 1 /\ \A i \in 1 .. n : order1[i] = order[i]

LEMMA OrderExtends ==
  ASSUME NEW n \in Nat, NEW entries, NEW order, NEW entries1, NEW order1,
         IsOrderFor(entries, order), ExtendsOrder(n, entries, order, entries1, order1)
  PROVE  IsOrderFor(entries1, order1)
  <1> USE DEF ExtendsOrder
  <1>1. /\ \A i \in 1 .. n : order[i] \in 1 .. n
        /\ \A m \in 1 .. n : \E i \in 1 .. n : order[i] = m
        /\ \A i, j \in 1 .. n : i < j => Before(entries, order[i], order[j])
    BY DEF IsOrderFor
  <1>2. \A a, b \in 1 .. n : Before(entries, a, b) => Before(entries1, a, b)
    BY DEF Before
  <1>3. \A i \in 1 .. n : i \in 1 .. (n + 1) /\ i < n + 1
    OBVIOUS
  <1>4. CASE /\ entries1[n + 1].first
             /\ order1[1] = n + 1 /\ \A i \in 2 .. (n + 1) : order1[i] = order[i - 1]
    <2>1. \A b \in 1 .. n : Before(entries1, n + 1, b)
      BY <1>3, <1>4 DEF Before
    <2>2. ASSUME NEW i \in 1 .. (n + 1), i # 1
          PROVE  i - 1 \in 1 .. n /\ order1[i] = order[i - 1] /\ order1[i] \in 1 .. n
      <3>1. i \in 2 .. (n + 1) /\ i - 1 \in 1 .. n
        BY <2>2
      <3>2. QED
        BY <3>1, <1>1, <1>4
    <2>3. ASSUME NEW i \in 1 .. (n + 1) PROVE order1[i] \in 1 .. (n + 1)
      <3>1. CASE i = 1
        BY <3>1, <1>4
      <3>2. CASE i # 1
        BY <3>2, <2>2, <1>3
      <3>3. QED
        BY <3>1, <3>2
    <2>4. ASSUME NEW m \in 1 .. (n + 1) PROVE \E i \in 1 .. (n + 1) : order1[i] = m
      <3>1. CASE m = n + 1
        BY <3>1, <1>4
      <3>2. CASE m # n + 1
        <4>1. m \in 1 .. n
          BY <3>2
        <4>2. PICK i \in 1 .. n : order[i] = m
          BY <4>1, <1>1
        <4>3. i + 1 \in 2 .. (n + 1) /\ (i + 1) - 1 = i /\ i + 1 \in 1 .. (n + 1)
          OBVIOUS
        <4>4. order1[i + 1] = m
          BY <4>2, <4>3, <1>4
        <4>5. QED
          BY <4>3, <4>4
      <3>3. QED
        BY <3>1, <3>2
    <2>5. ASSUME NEW i \in 1 .. (n + 1), NEW j \in 1 .. (n + 1), i < j
          PROVE  Before(entries1, order1[i], order1[j])
      <3>1. j # 1
        BY <2>5
      <3>2. j - 1 \in 1 .. n /\ order1[j] = order[j - 1] /\ order1[j] \in 1 .. n
        BY <3>1, <2>2
      <3>3. CASE i = 1
        BY <3>2, <3>3, <2>1, <1>4
      <3>4. CASE i # 1
        <4>1. i - 1 \in 1 .. n /\ order1[i] = order[i - 1] /\ order1[i] \in 1 .. n
          BY <3>4, <2>2
        <4>2. i - 1 < j - 1
          BY <2>5
        <4>3. Before(entries, order[i - 1], order[j - 1])
          BY <4>1, <4>2, <3>2, <1>1
        <4>4. QED
          BY <4>1, <4>3, <3>2, <1>2
      <3>5. QED
        BY <3>3, <3>4
    <2>6. QED
      BY <2>3, <2>4, <2>5 DEF IsOrderFor
  <1>5. CASE /\ ~entries1[n + 1].first
             /\ order1[n + 1] = n + 1 /\ \A i \in 1 .. n : order1[i] = order[i]
    <2>1. \A a \in 1 .. n : Before(entries1, a, n + 1)
      BY <1>3, <1>5 DEF Before
    <2>2. ASSUME NEW i \in 1 .. (n + 1), i # n + 1
          PROVE  i \in 1 .. n /\ order1[i] = order[i] /\ order1[i] \in 1 .. n
      <3>1. i \in 1 .. n
        BY <2>2
      <3>2. QED
        BY <3>1, <1>1, <1>5
    <2>3. ASSUME NEW i \in 1 .. (n + 1) PROVE order1[i] \in 1 .. (n + 1)
      <3>1. CASE i = n + 1
        BY <3>1, <1>5
      <3>2. CASE i # n + 1
        BY <3>2, <2>2, <1>3
      <3>3. QED
        BY <3>1, <3>2
    <2>4. ASSUME NEW m \in 1 .. (n + 1) PROVE \E i \in 1 .. (n + 1) : order1[i] = m
      <3>1. CASE m = n + 1
        BY <3>1, <1>5
      <3>2. CASE m # n + 1
        <4>1. m \in 1 .. n
          BY <3>2
        <4>2. PICK i \in 1 .. n : order[i] = m
          BY <4>1, <1>1
        <4>3. QED
          BY <4>2, <1>3, <1>5
      <3>3. QED
        BY <3>1, <3>2
    <2>5. ASSUME NEW i \in 1 .. (n + 1), NEW j \in 1 .. (n + 1), i < j
          PROVE  Before(entries1, order1[i], order1[j])
      <3>1. i # n + 1
        BY <2>5
      <3>2. i \in 1 .. n /\ order1[i] = order[i] /\ order1[i] \in 1 .. n
        BY <3>1, <2>2
      <3>3. CASE j = n + 1
        BY <3>2, <3>3, <2>1, <1>5
      <3>4. CASE j # n + 1
        <4>1. j \in 1 .. n /\ order1[j] = order[j] /\ order1[j] \in 1 .. n
          BY <3>4, <2>2
        <4>2. Before(entries, order[i], order[j])
          BY <4>1, <3>2, <2>5, <1>1
        <4>3. QED
          BY <4>1, <4>2, <3>2, <1>2
      <3>5. QED
        BY <3>3, <3>4
    <2>6. QED
      BY <2>3, <2>4, <2>5 DEF IsOrderFor
  <1>6. QED
    BY <1>4, <1>5

LEMMA RegisterKeeps ==
  ASSUME VehTypes, RegistryPart, NEW first \in BOOLEAN, NEW callback \in Handlers,
         Len(vehOrder) # VehCapacity, Register(first, callback)
  PROVE  /\ RegistryPart'
         /\ vehRecords' \in Seq([callback : Handlers, sequence : Nat])
         /\ log' \in Seq([callback : Handlers, first : BOOLEAN])
         /\ vehOrder' \in Seq(Nat)
  <1>1. PICK n \in Nat : n = Len(log)
    BY DEF VehTypes
  <1>2. /\ vehRecords \in Seq([callback : Handlers, sequence : Nat]) /\ Len(vehRecords) = n
        /\ log \in Seq([callback : Handlers, first : BOOLEAN]) /\ Len(log) = n
        /\ vehOrder \in Seq(Nat) /\ Len(vehOrder) = n
        /\ vehSequence = n + 1 /\ n <= VehCapacity /\ VehCapacity \in Nat
    BY <1>1, VehAssumption DEF VehTypes, RegistryPart, RegistrationsAreCounted
  <1>3. PICK slot \in Nat : slot = n + 1
    OBVIOUS
  <1>4. PICK record \in [callback : Handlers, sequence : Nat] :
          record = [callback |-> callback, sequence |-> slot]
    <2>1. [callback |-> callback, sequence |-> slot] \in [callback : Handlers, sequence : Nat]
      OBVIOUS
    <2>2. QED
      BY <2>1
  <1>5. PICK entry \in [callback : Handlers, first : BOOLEAN] :
          entry = [callback |-> callback, first |-> first]
    <2>1. [callback |-> callback, first |-> first] \in [callback : Handlers, first : BOOLEAN]
      OBVIOUS
    <2>2. QED
      BY <2>1
  <1>6. record.callback = callback /\ record.sequence = slot /\ entry.callback = callback
          /\ entry.first = first
    BY <1>4, <1>5
  <1>7. /\ vehRecords' = Append(vehRecords, record) /\ log' = Append(log, entry)
        /\ vehSequence' = n + 2
        /\ vehOrder' = IF first THEN <<slot>> \o vehOrder ELSE Append(vehOrder, slot)
    BY <1>2, <1>3, <1>4, <1>5 DEF Register
  <1>8. /\ vehRecords' \in Seq([callback : Handlers, sequence : Nat])
        /\ Len(vehRecords') = n + 1 /\ vehRecords'[n + 1] = record
        /\ \A i \in 1 .. n : vehRecords'[i] = vehRecords[i]
    BY <1>2, <1>7
  <1>9. /\ log' \in Seq([callback : Handlers, first : BOOLEAN])
        /\ Len(log') = n + 1 /\ log'[n + 1] = entry
        /\ \A i \in 1 .. n : log'[i] = log[i]
    BY <1>2, <1>7
  <1>10. /\ <<slot>> \o vehOrder \in Seq(Nat) /\ Len(<<slot>> \o vehOrder) = n + 1
         /\ (<<slot>> \o vehOrder)[1] = slot
         /\ \A i \in 2 .. (n + 1) : (<<slot>> \o vehOrder)[i] = vehOrder[i - 1]
         /\ Append(vehOrder, slot) \in Seq(Nat) /\ Len(Append(vehOrder, slot)) = n + 1
         /\ Append(vehOrder, slot)[n + 1] = slot
         /\ \A i \in 1 .. n : Append(vehOrder, slot)[i] = vehOrder[i]
    BY <1>2, OrderGrows
  <1>11. PICK o : o = vehOrder'
    OBVIOUS
  <1>12. /\ o \in Seq(Nat) /\ Len(o) = n + 1
         /\ \/ /\ first
               /\ o[1] = n + 1 /\ \A i \in 2 .. (n + 1) : o[i] = vehOrder[i - 1]
            \/ /\ ~first
               /\ o[n + 1] = n + 1 /\ \A i \in 1 .. n : o[i] = vehOrder[i]
    <2>1. CASE first
      <3>1. o = <<slot>> \o vehOrder
        BY <2>1, <1>7, <1>11
      <3>2. QED
        BY <3>1, <2>1, <1>3, <1>10
    <2>2. CASE ~first
      <3>1. o = Append(vehOrder, slot)
        BY <2>2, <1>7, <1>11
      <3>2. QED
        BY <3>1, <2>2, <1>3, <1>10
    <2>3. QED
      BY <2>1, <2>2
  <1>13. RegistrationsAreCounted'
    <2>1. ASSUME NEW i \in 1 .. (n + 1)
          PROVE  vehRecords'[i].callback = log'[i].callback /\ vehRecords'[i].sequence = i
      <3>1. CASE i = n + 1
        BY <3>1, <1>3, <1>6, <1>8, <1>9
      <3>2. CASE i # n + 1
        <4>1. i \in 1 .. n
          BY <3>2
        <4>2. vehRecords[i].callback = log[i].callback /\ vehRecords[i].sequence = i
          BY <4>1, <1>2 DEF RegistryPart, RegistrationsAreCounted
        <4>3. QED
          BY <4>1, <4>2, <1>8, <1>9
      <3>3. QED
        BY <3>1, <3>2
    <2>2. n + 1 <= VehCapacity
      BY <1>2
    <2>3. vehSequence' = Len(log') + 1
      BY <1>7, <1>9
    <2>4. QED
      BY <2>1, <2>2, <2>3, <1>8, <1>9, <1>11, <1>12 DEF RegistrationsAreCounted
  <1>14. PICK entries : entries = log'
    OBVIOUS
  <1>15. Len(entries) = n + 1 /\ (\A i \in 1 .. n : entries[i] = log[i])
           /\ entries[n + 1].first = first
    BY <1>6, <1>9, <1>14
  <1>16. \/ /\ entries[n + 1].first
            /\ o[1] = n + 1 /\ \A i \in 2 .. (n + 1) : o[i] = vehOrder[i - 1]
         \/ /\ ~entries[n + 1].first
            /\ o[n + 1] = n + 1 /\ \A i \in 1 .. n : o[i] = vehOrder[i]
    BY <1>12, <1>15, Zenon
  <1>17. IsOrderFor(log, vehOrder)
    BY DEF RegistryPart, OrderIsAsAsked
  <1>18. IsOrderFor(entries, o)
    <2>1. PICK old, order : old = log /\ order = vehOrder
      OBVIOUS
    <2>2. Len(old) = n /\ IsOrderFor(old, order)
      BY <2>1, <1>2, <1>17
    <2>3. \A i \in 1 .. n : entries[i] = old[i]
      BY <2>1, <1>15
    <2>4. \/ /\ entries[n + 1].first
             /\ o[1] = n + 1 /\ \A i \in 2 .. (n + 1) : o[i] = order[i - 1]
          \/ /\ ~entries[n + 1].first
             /\ o[n + 1] = n + 1 /\ \A i \in 1 .. n : o[i] = order[i]
      BY <2>1, <1>16, Zenon
    <2>5. Len(entries) = n + 1
      BY <1>15
    <2>6. QED
      <3>1. ExtendsOrder(n, old, order, entries, o)
        BY <2>2, <2>3, <2>4, <2>5, Zenon DEF ExtendsOrder
      <3>2. QED
        BY <3>1, <2>2, OrderExtends
  <1>19. OrderIsAsAsked'
    BY <1>11, <1>14, <1>18 DEF OrderIsAsAsked
  <1>20. QED
    BY <1>8, <1>9, <1>11, <1>12, <1>13, <1>19 DEF RegistryPart

-----------------------------------------------------------------------------
(* Dispatch.                                                               *)

\* Asking the next handler moves it from one part of the order to the other.
LEMMA AskingKeepsTheOrder ==
  ASSUME NEW s \in Seq(Nat), NEW t \in Seq(Nat), t # <<>>
  PROVE  /\ Append(s, Head(t)) \in Seq(Nat) /\ Tail(t) \in Seq(Nat)
         /\ Append(s, Head(t)) \o Tail(t) = s \o t
  <1>1. Head(t) \in Nat /\ Tail(t) \in Seq(Nat) /\ Len(t) \in Nat /\ Len(t) > 0
          /\ Len(Tail(t)) = Len(t) - 1 /\ Head(t) = t[1]
    OBVIOUS
  <1>2. PICK h \in Nat : h = Head(t)
    BY <1>1
  <1>3. PICK u \in Seq(Nat) : u = Append(s, h)
    <2>1. Append(s, h) \in Seq(Nat)
      OBVIOUS
    <2>2. QED
      BY <2>1
  <1>4. PICK v \in Seq(Nat) : v = Tail(t)
    BY <1>1
  <1>5. Len(s) \in Nat /\ Len(u) = Len(s) + 1 /\ u[Len(s) + 1] = t[1]
          /\ \A i \in 1 .. Len(s) : u[i] = s[i]
    BY <1>1, <1>2, <1>3
  <1>6. Len(v) \in Nat /\ Len(v) = Len(t) - 1 /\ \A i \in 1 .. Len(v) : v[i] = t[i + 1]
    BY <1>1, <1>4
  <1>7. /\ u \o v \in Seq(Nat) /\ Len(u \o v) = Len(u) + Len(v)
        /\ \A i \in 1 .. (Len(u) + Len(v)) :
             (u \o v)[i] = IF i <= Len(u) THEN u[i] ELSE v[i - Len(u)]
    OBVIOUS
  <1>8. /\ s \o t \in Seq(Nat) /\ Len(s \o t) = Len(s) + Len(t)
        /\ \A i \in 1 .. (Len(s) + Len(t)) :
             (s \o t)[i] = IF i <= Len(s) THEN s[i] ELSE t[i - Len(s)]
    OBVIOUS
  <1>9. PICK x \in Seq(Nat) : x = u \o v
    BY <1>7
  <1>10. PICK y \in Seq(Nat) : y = s \o t
    BY <1>8
  <1>11. PICK n \in Nat : n = Len(s)
    BY <1>5
  <1>12. PICK k \in Nat : k = Len(t)
    BY <1>1
  <1>13. Len(u) = n + 1 /\ Len(v) = k - 1 /\ k > 0
    BY <1>1, <1>5, <1>6, <1>11, <1>12
  <1>14. /\ Len(x) = n + k
         /\ \A i \in 1 .. (n + k) : x[i] = IF i <= n + 1 THEN u[i] ELSE v[i - (n + 1)]
    <2>1. (n + 1) + (k - 1) = n + k
      OBVIOUS
    <2>2. QED
      BY <2>1, <1>7, <1>9, <1>13
  <1>15. /\ Len(y) = n + k
         /\ \A i \in 1 .. (n + k) : y[i] = IF i <= n THEN s[i] ELSE t[i - n]
    BY <1>8, <1>10, <1>11, <1>12
  <1>16. ASSUME NEW i \in 1 .. (n + k) PROVE x[i] = y[i]
    <2>1. CASE i <= n
      <3>1. i \in 1 .. n /\ i <= n + 1
        BY <2>1
      <3>2. u[i] = s[i]
        BY <3>1, <1>5, <1>11
      <3>3. QED
        BY <3>1, <3>2, <2>1, <1>14, <1>15
    <2>2. CASE i = n + 1
      <3>1. ~(i <= n) /\ i <= n + 1 /\ i - n = 1
        BY <2>2
      <3>2. u[i] = t[1]
        BY <2>2, <1>5, <1>11
      <3>3. QED
        BY <3>1, <3>2, <1>14, <1>15
    <2>3. CASE i > n + 1
      <3>1. ~(i <= n) /\ ~(i <= n + 1) /\ i - (n + 1) \in 1 .. (k - 1)
              /\ (i - (n + 1)) + 1 = i - n
        BY <2>3
      <3>2. v[i - (n + 1)] = t[i - n]
        BY <3>1, <1>6, <1>13
      <3>3. QED
        BY <3>1, <3>2, <1>14, <1>15
    <2>4. i <= n \/ i = n + 1 \/ i > n + 1
      OBVIOUS
    <2>5. QED
      BY <2>1, <2>2, <2>3, <2>4, Zenon
  <1>17. x = y
    <2>1. Len(x) = Len(y) /\ \A i \in 1 .. Len(x) : x[i] = y[i]
      BY <1>14, <1>15, <1>16
    <2>2. QED
      BY <2>1, SeqEqual
  <1>18. QED
    BY <1>1, <1>2, <1>3, <1>4, <1>9, <1>10, <1>17

\* A trap, whole, and the context that handlers see first.
LEMMA TrapTypes ==
  ASSUME NEW t \in Traps
  PROVE  /\ t = [vector |-> t.vector, rip |-> t.rip, rsp |-> t.rsp, flags |-> t.flags,
                 regs |-> t.regs, rest |-> t.rest]
         /\ ContextOf(t).rip \in Nat /\ ContextOf(t).rsp \in Nat
  BY VehAssumption DEF ContextOf

LEMMA ConfigureKeeps ==
  ASSUME VehInv, NEW payload \in PayloadImages, ConfigureVehRegistry(payload)
  PROVE  VehInv'
  <1> USE DEF VehInv
  <1>1. /\ vehMode = "boot" /\ vehMode' \in {"running", "halted"}
        /\ UNCHANGED <<vehRecords, vehOrder, vehSequence, log, dispatchVars>>
    BY DEF ConfigureVehRegistry
  <1>2. ~entryActive /\ ~registryActive /\ frame = NoFrame
    BY <1>1 DEF FrameIsTheTrap
  <1>3. VehTypes'
    BY <1>1 DEF VehTypes, dispatchVars
  <1>4. RegistrationsAreCounted' /\ OrderIsAsAsked'
    BY <1>1 DEF RegistrationsAreCounted, OrderIsAsAsked
  <1>5. SnapshotIsTheOrder' /\ FrameIsTheTrap'
    BY <1>1 DEF SnapshotIsTheOrder, FrameIsTheTrap
  <1>6. GuardsFollowTheDispatch'
    BY <1>1, <1>2 DEF GuardsFollowTheDispatch, dispatchVars
  <1>7. OnlyApprovedContextsResume'
    BY <1>1, <1>2 DEF OnlyApprovedContextsResume, dispatchVars
  <1>8. QED
    BY <1>3, <1>4, <1>5, <1>6, <1>7

LEMMA AddKeeps ==
  ASSUME VehInv, NEW first \in BOOLEAN, NEW callback \in Handlers,
         AddVectoredExceptionHandler(first, callback)
  PROVE  VehInv'
  <1> USE DEF VehInv
  <1>1. UNCHANGED <<vehImages, dispatchVars, vehMode>>
    BY DEF AddVectoredExceptionHandler
  <1>2. GuardsFollowTheDispatch' /\ OnlyApprovedContextsResume' /\ FrameIsTheTrap'
    BY <1>1 DEF dispatchVars, GuardsFollowTheDispatch, OnlyApprovedContextsResume, FrameIsTheTrap
  <1>3. CASE UNCHANGED <<vehRecords, vehOrder, vehSequence, log>>
    <2>1. VehTypes' /\ RegistrationsAreCounted' /\ OrderIsAsAsked' /\ SnapshotIsTheOrder'
      BY <1>1, <1>3 DEF dispatchVars, VehTypes, RegistrationsAreCounted, OrderIsAsAsked,
                        SnapshotIsTheOrder
    <2>2. QED
      BY <2>1, <1>2
  <1>4. CASE /\ ~registryActive /\ Len(vehOrder) # VehCapacity
             /\ Register(first, callback)
    <2>1. /\ RegistryPart'
          /\ vehRecords' \in Seq([callback : Handlers, sequence : Nat])
          /\ log' \in Seq([callback : Handlers, first : BOOLEAN])
          /\ vehOrder' \in Seq(Nat)
      BY <1>4, RegisterKeeps DEF RegistryPart
    <2>2. VehTypes'
      BY <2>1, <1>1 DEF VehTypes, dispatchVars
    <2>3. SnapshotIsTheOrder'
      <3>1. vehMode # "handler"
        BY <1>4 DEF GuardsFollowTheDispatch
      <3>2. QED
        BY <3>1, <1>1 DEF SnapshotIsTheOrder
    <2>4. QED
      BY <2>1, <2>2, <2>3, <1>2 DEF RegistryPart
  <1>5. QED
    BY <1>3, <1>4 DEF AddVectoredExceptionHandler

LEMMA ExceptionKeeps ==
  ASSUME VehInv, NEW trap \in Traps, Exception(trap)
  PROVE  VehInv'
  <1> USE DEF VehInv
  <1>1. /\ vehMode = "running" /\ entryActive' = TRUE /\ frame' = trap /\ interrupted' = trap
        /\ UNCHANGED registryVars
    BY DEF Exception
  <1>2. RegistrationsAreCounted' /\ OrderIsAsAsked'
    BY <1>1, RegistrySame DEF RegistryPart
  <1>3. ~registryActive
    BY <1>1 DEF GuardsFollowTheDispatch
  <1>4. CASE /\ vehOrder # <<>> /\ context' = ContextOf(trap) /\ registryActive' = TRUE
             /\ asked' = <<Head(vehOrder)>> /\ unasked' = Tail(vehOrder)
             /\ vehMode' = "handler"
    <2>1. vehOrder \in Seq(Nat)
      BY DEF VehTypes
    <2>2. /\ Append(<<>>, Head(vehOrder)) \in Seq(Nat) /\ Tail(vehOrder) \in Seq(Nat)
          /\ Append(<<>>, Head(vehOrder)) \o Tail(vehOrder) = <<>> \o vehOrder
      <3>1. <<>> \in Seq(Nat)
        OBVIOUS
      <3>2. QED
        BY <3>1, <2>1, <1>4, AskingKeepsTheOrder
    <2>3. Append(<<>>, Head(vehOrder)) = <<Head(vehOrder)>> /\ <<>> \o vehOrder = vehOrder
      BY <2>1, <1>4
    <2>4. asked' \in Seq(Nat) /\ unasked' \in Seq(Nat) /\ asked' \o unasked' = vehOrder
      BY <2>2, <2>3, <1>4
    <2>5. VehTypes'
      BY <2>4, <1>1, <1>4 DEF VehTypes, registryVars
    <2>6. SnapshotIsTheOrder'
      BY <2>4, <1>1 DEF SnapshotIsTheOrder, registryVars
    <2>7. FrameIsTheTrap'
      BY <1>1, <1>4, TrapTypes DEF FrameIsTheTrap
    <2>8. GuardsFollowTheDispatch' /\ OnlyApprovedContextsResume'
      BY <1>1, <1>4 DEF GuardsFollowTheDispatch, OnlyApprovedContextsResume
    <2>9. QED
      BY <2>5, <2>6, <2>7, <2>8, <1>2
  <1>5. CASE vehMode' = "halted" /\ UNCHANGED <<context, registryActive, asked, unasked>>
    <2>1. VehTypes'
      BY <1>1, <1>5 DEF VehTypes, registryVars
    <2>2. SnapshotIsTheOrder' /\ FrameIsTheTrap'
      BY <1>5 DEF SnapshotIsTheOrder, FrameIsTheTrap
    <2>3. GuardsFollowTheDispatch' /\ OnlyApprovedContextsResume'
      BY <1>3, <1>5 DEF GuardsFollowTheDispatch, OnlyApprovedContextsResume
    <2>4. QED
      BY <2>1, <2>2, <2>3, <1>2
  <1>6. QED
    BY <1>4, <1>5 DEF Exception

LEMMA NestedKeeps ==
  ASSUME VehInv, NestedException
  PROVE  VehInv'
  <1> USE DEF VehInv
  <1>1. /\ registryActive' = FALSE /\ vehMode' = "halted"
        /\ UNCHANGED <<registryVars, entryActive, frame, context, asked, unasked, interrupted>>
    BY DEF NestedException
  <1>2. RegistrationsAreCounted' /\ OrderIsAsAsked'
    BY <1>1, RegistrySame DEF RegistryPart
  <1>3. VehTypes'
    BY <1>1 DEF VehTypes, registryVars
  <1>4. SnapshotIsTheOrder' /\ FrameIsTheTrap' /\ GuardsFollowTheDispatch'
          /\ OnlyApprovedContextsResume'
    BY <1>1 DEF SnapshotIsTheOrder, FrameIsTheTrap, GuardsFollowTheDispatch,
                OnlyApprovedContextsResume
  <1>5. QED
    BY <1>2, <1>3, <1>4

LEMMA HandlerChangesKeeps ==
  ASSUME VehInv, NEW c \in Changes, HandlerChangesContext(c)
  PROVE  VehInv'
  <1> USE DEF VehInv
  <1>1. /\ vehMode = "handler" /\ context' = c
        /\ UNCHANGED <<registryVars, vehMode, registryActive, entryActive, frame, asked,
                       unasked, interrupted>>
    BY DEF HandlerChangesContext
  <1>2. RegistrationsAreCounted' /\ OrderIsAsAsked'
    BY <1>1, RegistrySame DEF RegistryPart
  <1>3. VehTypes'
    BY <1>1 DEF VehTypes, registryVars
  <1>4. SnapshotIsTheOrder' /\ GuardsFollowTheDispatch' /\ OnlyApprovedContextsResume'
    BY <1>1 DEF SnapshotIsTheOrder, GuardsFollowTheDispatch, OnlyApprovedContextsResume,
                registryVars
  <1>5. FrameIsTheTrap'
    BY <1>1, VehAssumption DEF FrameIsTheTrap
  <1>6. QED
    BY <1>2, <1>3, <1>4, <1>5

LEMMA ContinueSearchKeeps ==
  ASSUME VehInv, ContinueSearch
  PROVE  VehInv'
  <1> USE DEF VehInv
  <1>1. /\ vehMode = "handler"
        /\ UNCHANGED <<registryVars, entryActive, frame, context, interrupted>>
    BY DEF ContinueSearch
  <1>2. RegistrationsAreCounted' /\ OrderIsAsAsked'
    BY <1>1, RegistrySame DEF RegistryPart
  <1>3. CASE /\ registryActive' = FALSE /\ vehMode' = "halted" /\ UNCHANGED <<asked, unasked>>
    <2>1. VehTypes'
      BY <1>1, <1>3 DEF VehTypes, registryVars
    <2>2. SnapshotIsTheOrder' /\ FrameIsTheTrap' /\ GuardsFollowTheDispatch'
            /\ OnlyApprovedContextsResume'
      BY <1>3 DEF SnapshotIsTheOrder, FrameIsTheTrap, GuardsFollowTheDispatch,
                  OnlyApprovedContextsResume
    <2>3. QED
      BY <2>1, <2>2, <1>2
  <1>4. CASE /\ unasked # <<>> /\ asked' = Append(asked, Head(unasked))
             /\ unasked' = Tail(unasked) /\ UNCHANGED <<registryActive, vehMode>>
    <2>1. asked \in Seq(Nat) /\ unasked \in Seq(Nat) /\ asked \o unasked = vehOrder
      BY <1>1 DEF VehTypes, SnapshotIsTheOrder
    <2>2. asked' \in Seq(Nat) /\ unasked' \in Seq(Nat) /\ asked' \o unasked' = vehOrder
      BY <2>1, <1>4, AskingKeepsTheOrder
    <2>3. VehTypes'
      BY <2>2, <1>1, <1>4 DEF VehTypes, registryVars
    <2>4. SnapshotIsTheOrder'
      BY <2>2, <1>1 DEF SnapshotIsTheOrder, registryVars
    <2>5. FrameIsTheTrap' /\ GuardsFollowTheDispatch' /\ OnlyApprovedContextsResume'
      BY <1>1, <1>4 DEF FrameIsTheTrap, GuardsFollowTheDispatch, OnlyApprovedContextsResume
    <2>6. QED
      BY <2>3, <2>4, <2>5, <1>2
  <1>5. QED
    BY <1>3, <1>4 DEF ContinueSearch

\* What is applied of an approved context.
LEMMA AppliedIsApproved ==
  ASSUME NEW f, NEW c, frame = f, f \in Traps, c.rip \in Nat, c.rsp \in Nat,
         ContextIsApproved(c)
  PROVE  /\ Applied(c).rip \in Int3 .. (ApprovedEnd - 1)
         /\ Applied(c).rsp \in BootLower .. (BootUpper - 1)
         /\ Changed(Applied(c).flags, f.flags) \subseteq AllowedFlags
         /\ Applied(c).rest = f.rest
  <1>1. f = [vector |-> f.vector, rip |-> f.rip, rsp |-> f.rsp, flags |-> f.flags,
             regs |-> f.regs, rest |-> f.rest]
    BY TrapTypes
  <1>2. PICK mixed : mixed = (f.flags \ AllowedFlags) \cup (c.flags \cap AllowedFlags)
    OBVIOUS
  <1>3. Applied(c) = [vector |-> f.vector, rip |-> c.rip, rsp |-> c.rsp, flags |-> mixed,
                      regs |-> c.regs, rest |-> f.rest]
    <2>1. PICK vector, rip, rsp, flags, regs, rest :
            f = [vector |-> vector, rip |-> rip, rsp |-> rsp, flags |-> flags,
                 regs |-> regs, rest |-> rest]
      BY <1>1
    <2>2. Applied(c) = [f EXCEPT !.rip = c.rip, !.rsp = c.rsp, !.regs = c.regs,
                                 !.flags = mixed]
      <3>1. f.flags = flags
        BY <2>1
      <3>2. [f EXCEPT !.rip = c.rip, !.rsp = c.rsp, !.regs = c.regs].flags = flags
        BY <2>1
      <3>3. QED
        BY <3>1, <3>2, <2>1, <1>2 DEF Applied
    <2>3. f.vector = vector /\ f.rest = rest
      BY <2>1
    <2>4. QED
      BY <2>1, <2>2, <2>3
  <1>4. c.rip \in Int3 .. (ApprovedEnd - 1) /\ c.rsp \in BootLower .. (BootUpper - 1)
    BY VehAssumption DEF ContextIsApproved
  <1>5. Changed(mixed, f.flags) \subseteq AllowedFlags
    BY <1>2 DEF Changed
  <1>6. /\ Applied(c).rip = c.rip /\ Applied(c).rsp = c.rsp /\ Applied(c).flags = mixed
        /\ Applied(c).rest = f.rest
    BY <1>3
  <1>7. QED
    BY <1>4, <1>5, <1>6

LEMMA ContinueExecutionKeeps ==
  ASSUME VehInv, ContinueExecution
  PROVE  VehInv'
  <1> USE DEF VehInv
  <1>1. /\ vehMode = "handler" /\ registryActive' = FALSE
        /\ UNCHANGED <<registryVars, context, asked, unasked, interrupted>>
    BY DEF ContinueExecution
  <1>2. RegistrationsAreCounted' /\ OrderIsAsAsked'
    BY <1>1, RegistrySame DEF RegistryPart
  <1>3. CASE vehMode' = "halted" /\ UNCHANGED <<entryActive, frame>>
    <2>1. VehTypes'
      BY <1>1, <1>3 DEF VehTypes, registryVars
    <2>2. SnapshotIsTheOrder' /\ FrameIsTheTrap' /\ GuardsFollowTheDispatch'
            /\ OnlyApprovedContextsResume'
      BY <1>1, <1>3 DEF SnapshotIsTheOrder, FrameIsTheTrap, GuardsFollowTheDispatch,
                        OnlyApprovedContextsResume
    <2>3. QED
      BY <2>1, <2>2, <1>2
  <1>4. CASE /\ ContextIsApproved(context) /\ frame' = Applied(context)
             /\ entryActive' = FALSE /\ vehMode' = "running"
    <2>1. frame \in Traps /\ interrupted = frame /\ context.rip \in Nat /\ context.rsp \in Nat
      BY <1>1 DEF FrameIsTheTrap
    <2>2. PICK f, c : f = frame /\ c = context
      OBVIOUS
    <2>3. /\ Applied(c).rip \in Int3 .. (ApprovedEnd - 1)
          /\ Applied(c).rsp \in BootLower .. (BootUpper - 1)
          /\ Changed(Applied(c).flags, f.flags) \subseteq AllowedFlags
          /\ Applied(c).rest = f.rest
      BY <2>1, <2>2, <1>4, AppliedIsApproved
    <2>4. frame' = Applied(c) /\ interrupted' = f
      BY <2>1, <2>2, <1>1, <1>4
    <2>5. OnlyApprovedContextsResume'
      BY <2>3, <2>4 DEF OnlyApprovedContextsResume
    <2>6. VehTypes'
      BY <1>1, <1>4 DEF VehTypes, registryVars
    <2>7. SnapshotIsTheOrder' /\ FrameIsTheTrap' /\ GuardsFollowTheDispatch'
      BY <1>1, <1>4 DEF SnapshotIsTheOrder, FrameIsTheTrap, GuardsFollowTheDispatch
    <2>8. QED
      BY <2>5, <2>6, <2>7, <1>2
  <1>5. QED
    BY <1>3, <1>4 DEF ContinueExecution

-----------------------------------------------------------------------------
(* The theorems about exceptions.                                          *)

LEMMA VehInvInitially == VehInit => VehInv
  <1> SUFFICES ASSUME VehInit PROVE VehInv
    OBVIOUS
  <1>1. VehTypes
    <2>1. /\ <<>> \in Seq(Nat) /\ <<>> \in Seq([callback : Handlers, sequence : Nat])
          /\ <<>> \in Seq([callback : Handlers, first : BOOLEAN])
      OBVIOUS
    <2>2. QED
      BY <2>1 DEF VehInit, VehTypes
  <1>2. RegistrationsAreCounted /\ OrderIsAsAsked
    <2>1. Len(log) = 0 /\ 1 .. Len(log) = {}
      BY DEF VehInit
    <2>2. QED
      BY <2>1, VehAssumption DEF VehInit, RegistrationsAreCounted, OrderIsAsAsked, IsOrderFor
  <1>3. SnapshotIsTheOrder /\ FrameIsTheTrap /\ GuardsFollowTheDispatch
          /\ OnlyApprovedContextsResume
    BY DEF VehInit, SnapshotIsTheOrder, FrameIsTheTrap, GuardsFollowTheDispatch,
           OnlyApprovedContextsResume
  <1>4. QED
    BY <1>1, <1>2, <1>3 DEF VehInv

LEMMA VehInvStep == VehInv /\ [VehNext]_vehVars => VehInv'
  <1> SUFFICES ASSUME VehInv, [VehNext]_vehVars PROVE VehInv'
    OBVIOUS
  <1>1. CASE \E payload \in PayloadImages : ConfigureVehRegistry(payload)
    BY <1>1, ConfigureKeeps
  <1>2. CASE \E first \in BOOLEAN, callback \in Handlers :
               AddVectoredExceptionHandler(first, callback)
    BY <1>2, AddKeeps
  <1>3. CASE \E trap \in Traps : Exception(trap)
    BY <1>3, ExceptionKeeps
  <1>4. CASE NestedException
    BY <1>4, NestedKeeps
  <1>5. CASE \E c \in Changes : HandlerChangesContext(c)
    BY <1>5, HandlerChangesKeeps
  <1>6. CASE ContinueSearch
    BY <1>6, ContinueSearchKeeps
  <1>7. CASE ContinueExecution
    BY <1>7, ContinueExecutionKeeps
  <1>8. CASE UNCHANGED vehVars
    BY <1>8 DEF vehVars, registryVars, dispatchVars, VehInv, VehTypes, RegistrationsAreCounted,
                OrderIsAsAsked, SnapshotIsTheOrder, FrameIsTheTrap, GuardsFollowTheDispatch,
                OnlyApprovedContextsResume
  <1>9. QED
    BY <1>1, <1>2, <1>3, <1>4, <1>5, <1>6, <1>7, <1>8 DEF VehNext

\* The inductive invariant of registration and dispatch holds in every reachable
\* state.
THEOREM VehInvHolds == VehSpec => []VehInv
  BY VehInvInitially, VehInvStep, PTL DEF VehSpec

\* Neither the guard of the exception entry nor that of the registry outlives
\* its dispatch, on the terminal paths too (GuardsFollowTheDispatch).
THEOREM DispatchGuardsAreBalanced == VehSpec => []GuardsFollowTheDispatch
  <1>1. VehInv => GuardsFollowTheDispatch
    BY DEF VehInv
  <1>2. QED
    BY <1>1, VehInvHolds, PTL

\* Whatever handlers leave in the context, code goes on only in the approved
\* range, on the boot stack and with the flags it may not set unchanged
\* (OnlyApprovedContextsResume).
THEOREM ResumedContextsAreApproved == VehSpec => []OnlyApprovedContextsResume
  <1>1. VehInv => OnlyApprovedContextsResume
    BY DEF VehInv
  <1>2. QED
    BY <1>1, VehInvHolds, PTL

\* Every registered handler is asked once and in the order the registrations
\* ask for, whatever is registered meanwhile (HandlersRunInOrder).
THEOREM HandlersAreAskedInOrder == VehSpec => []HandlersRunInOrder
  <1>1. VehInv => HandlersRunInOrder
    <2> SUFFICES ASSUME VehInv PROVE HandlersRunInOrder
      OBVIOUS
    <2>1. /\ DOMAIN log = 1 .. Len(log) /\ DOMAIN vehRecords = 1 .. Len(log)
          /\ DOMAIN vehOrder = 1 .. Len(log)
      BY DEF VehInv, VehTypes, RegistrationsAreCounted
    <2>2. Callbacks(vehRecords) = Callbacks(log)
      <3>1. \A i \in 1 .. Len(log) : vehRecords[i].callback = log[i].callback
        BY DEF VehInv, RegistrationsAreCounted
      <3>2. QED
        BY <3>1, <2>1 DEF Callbacks
    <2>3. ToSet(vehOrder) = DOMAIN log
      BY <2>1 DEF VehInv, OrderIsAsAsked, IsOrderFor, ToSet
    <2>4. \A i, j \in DOMAIN vehOrder : i < j => Precedes(vehOrder[i], vehOrder[j])
      BY <2>1 DEF VehInv, OrderIsAsAsked, IsOrderFor, Precedes, Before
    <2>5. QED
      BY <2>2, <2>3, <2>4 DEF HandlersRunInOrder, VehInv, SnapshotIsTheOrder
  <1>2. QED
    BY <1>1, VehInvHolds, PTL

\* gxos_veh_registry_valid holds whenever it is asked, so that neither a
\* registration nor a dispatch ever fails because of it.
THEOREM HandlerRegistryIsSound == VehSpec => []RegistryIsSound
  <1>1. VehInv => RegistryIsSound
    <2> SUFFICES ASSUME VehInv PROVE RegistryIsSound
      OBVIOUS
    <2>1. /\ DOMAIN log = 1 .. Len(log) /\ DOMAIN vehRecords = 1 .. Len(log)
          /\ DOMAIN vehOrder = 1 .. Len(log) /\ Len(log) \in Nat
          /\ vehSequence = Len(log) + 1 /\ Len(vehOrder) = Len(log) /\ Len(log) <= VehCapacity
      BY DEF VehInv, VehTypes, RegistrationsAreCounted
    <2>2. \A i \in 1 .. Len(log) : vehRecords[i].sequence = i
      BY DEF VehInv, RegistrationsAreCounted
    <2>3. ToSet(vehOrder) = DOMAIN vehRecords
      BY <2>1 DEF VehInv, OrderIsAsAsked, IsOrderFor, ToSet
    <2>4. IsInjective(vehOrder)
      <3>1. ASSUME NEW i \in 1 .. Len(log), NEW j \in 1 .. Len(log), vehOrder[i] = vehOrder[j],
                   i < j
            PROVE  FALSE
        <4>1. PICK m \in 1 .. Len(log) : m = vehOrder[i] /\ m = vehOrder[j]
          BY <3>1 DEF VehInv, OrderIsAsAsked, IsOrderFor
        <4>2. Before(log, m, m)
          BY <4>1, <3>1 DEF VehInv, OrderIsAsAsked, IsOrderFor
        <4>3. ~(m < m)
          BY <2>1
        <4>4. QED
          BY <4>2, <4>3 DEF Before
      <3>2. ASSUME NEW i \in 1 .. Len(log), NEW j \in 1 .. Len(log), vehOrder[i] = vehOrder[j]
            PROVE  i = j
        BY <3>1, <3>2, <2>1
      <3>3. QED
        BY <3>2, <2>1 DEF IsInjective
    <2>5. QED
      BY <2>1, <2>2, <2>3, <2>4 DEF RegistryIsSound
  <1>2. QED
    BY <1>1, VehInvHolds, PTL

-----------------------------------------------------------------------------
(* The inductive invariant of the initialiser walks.                       *)

Results == Nat \X (0 .. 1)
WalkRecords ==
  [fn : {"none", "initterm", "initterm_e"}, first : Nat, last : Nat, index : Nat,
   in : BOOLEAN, trace : Nat, truncated : BOOLEAN, result : 0 .. 1]

WalkTypes ==
  /\ walk \in WalkRecords
  /\ active \in BOOLEAN /\ current \in Int
  /\ stopped \in {"no", "validation", "fault"}
  /\ invoked \in Seq(Results)

\* The entry i of the table at first, and what an initialiser is.
EntryOf(first, i) ==
  IF first + i * PointerSize \in DOMAIN InitTable
    THEN InitTable[first + i * PointerSize] ELSE 0
IsInitialiser(first, i) == EntryOf(first, i) # 0 /\ IsExecutable(EntryOf(first, i))

\* Where the walk is: at an initialiser while one runs, at the end after a
\* failure, and nowhere between the calls.
WalkIsSomewhere ==
  /\ Entries \in Int /\ walk.index <= Entries
  /\ walk.fn = "none" => ~walk.in
  /\ walk.in => /\ walk.index < Entries /\ walk.result = 0
                /\ IsInitialiser(walk.first, walk.index)
  /\ walk.result # 0 => walk.index = Entries

\* Every entry of the table at first below n that is not null is in the list.
AllInvoked(first, n, list) ==
  \A i \in Nat : i < n /\ EntryOf(first, i) # 0 =>
    \E k \in 1 .. Len(list) : list[k][1] = i

\* The list is what a walk that stands at index must have invoked: initialisers
\* of the table in its order, all of those that it passed, the last of them
\* with the result.
IsPast(first, size, index, result, list) ==
  /\ \A k \in 1 .. Len(list) :
       /\ list[k][1] < size /\ IsInitialiser(first, list[k][1])
       /\ result = 0 => list[k][1] < index /\ list[k][2] = 0
  /\ \A k \in 1 .. (Len(list) - 1) : list[k][1] < list[k + 1][1] /\ list[k][2] = 0
  /\ result = 0 => AllInvoked(first, index, list)
  /\ result # 0 => /\ Len(list) # 0 /\ list[Len(list)][2] = result
                   /\ AllInvoked(first, list[Len(list)][1], list)

\* The globals of the trace callback say which initialiser of _initterm runs,
\* unless an event was dropped, and a fault keeps what they say.
GlobalsFollowTheWalk ==
  /\ ~walk.truncated =>
       /\ active <=> (walk.in /\ walk.fn = "initterm")
       /\ active => current = walk.index
  /\ stopped = "fault" =>
       fault = [active |-> active, index |-> IF active THEN current ELSE NoCallback]

WalkInv ==
  /\ WalkTypes
  /\ stopped # "validation" =>
       WalkIsSomewhere /\ IsPast(walk.first, Entries, walk.index, walk.result, invoked)
  /\ GlobalsFollowTheWalk

LEMMA PastAtTheStart ==
  ASSUME NEW first, NEW size
  PROVE  IsPast(first, size, 0, 0, << >>)
  BY DEF IsPast, AllInvoked

\* A null entry is passed without a call.
LEMMA PastOfNull ==
  ASSUME NEW first \in Nat, NEW size \in Int, NEW index \in Nat, NEW list \in Seq(Results),
         IsPast(first, size, index, 0, list), EntryOf(first, index) = 0
  PROVE  IsPast(first, size, index + 1, 0, list)
  <1>1. AllInvoked(first, index + 1, list)
    BY DEF IsPast, AllInvoked
  <1>2. \A k \in 1 .. Len(list) : list[k][1] \in Nat
    BY DEF Results
  <1>3. QED
    BY <1>1, <1>2 DEF IsPast

\* An initialiser that ran is the next of the list.
LEMMA PastOfCall ==
  ASSUME NEW first \in Nat, NEW size \in Int, NEW index \in Nat, NEW list \in Seq(Results),
         NEW result \in 0 .. 1,
         IsPast(first, size, index, 0, list), index < size, IsInitialiser(first, index)
  PROVE  LET more == Append(list, <<index, result>>) IN
           /\ more \in Seq(Results)
           /\ result = 0 => IsPast(first, size, index + 1, 0, more)
           /\ result # 0 => IsPast(first, size, size, result, more)
  <1> DEFINE more == Append(list, <<index, result>>)
  <1> DEFINE n == Len(list)
  <1>1. <<index, result>> \in Results
    BY DEF Results
  <1>2. /\ more \in Seq(Results) /\ Len(more) = n + 1 /\ n \in Nat
        /\ more[n + 1] = <<index, result>>
        /\ \A k \in 1 .. n : more[k] = list[k]
    BY <1>1, AppendProperties
  <1>3. \A k \in 1 .. n : list[k][1] \in Nat /\ list[k][2] \in 0 .. 1
    BY DEF Results
  <1>4. /\ more[n + 1][1] = index /\ more[n + 1][2] = result
    BY <1>2
  <1> HIDE DEF more, n
  <1>5. \A k \in 1 .. n : /\ list[k][1] < size /\ IsInitialiser(first, list[k][1])
                          /\ list[k][1] < index /\ list[k][2] = 0
    BY DEF IsPast, n
  <1>6. \A k \in 1 .. (n - 1) : list[k][1] < list[k + 1][1]
    BY DEF IsPast, n
  <1>7. \A i \in Nat : i < index /\ EntryOf(first, i) # 0 => \E k \in 1 .. n : list[k][1] = i
    BY DEF IsPast, n, AllInvoked
  <1>8. \A k \in 1 .. (n + 1) :
           more[k][1] < size /\ IsInitialiser(first, more[k][1]) /\ more[k][1] < index + 1
    <2> TAKE k \in 1 .. (n + 1)
    <2>1. CASE k = n + 1
      BY <2>1, <1>4
    <2>2. CASE k # n + 1
      <3>1. k \in 1 .. n
        BY <2>2, <1>2
      <3>2. QED
        BY <3>1, <1>2, <1>3, <1>5
    <2>3. QED
      BY <2>1, <2>2
  <1>9. \A k \in 1 .. n : more[k][1] < more[k + 1][1] /\ more[k][2] = 0
    <2> TAKE k \in 1 .. n
    <2>1. CASE k = n
      BY <2>1, <1>2, <1>4, <1>5
    <2>2. CASE k # n
      <3>1. k \in 1 .. (n - 1) /\ k + 1 \in 1 .. n
        BY <2>2, <1>2
      <3>2. QED
        BY <3>1, <1>2, <1>5, <1>6
    <2>3. QED
      BY <2>1, <2>2
  <1>10. AllInvoked(first, index, more)
    <2> SUFFICES ASSUME NEW i \in Nat, i < index, EntryOf(first, i) # 0
                 PROVE  \E k \in 1 .. (n + 1) : more[k][1] = i
      BY <1>2 DEF AllInvoked
    <2>1. PICK k \in 1 .. n : list[k][1] = i
      BY <1>7
    <2>2. k \in 1 .. (n + 1) /\ more[k] = list[k]
      BY <1>2
    <2>3. QED
      BY <2>1, <2>2
  <1>11. result = 0 => IsPast(first, size, index + 1, 0, more)
    <2> SUFFICES ASSUME result = 0 PROVE IsPast(first, size, index + 1, 0, more)
      OBVIOUS
    <2>1. AllInvoked(first, index + 1, more)
      <3> SUFFICES ASSUME NEW i \in Nat, i < index + 1, EntryOf(first, i) # 0
                   PROVE  \E k \in 1 .. (n + 1) : more[k][1] = i
        BY <1>2 DEF AllInvoked
      <3>1. CASE i = index
        BY <3>1, <1>2, <1>4
      <3>2. CASE i # index
        BY <3>2, <1>2, <1>10 DEF AllInvoked
      <3>3. QED
        BY <3>1, <3>2
    <2>2. \A k \in 1 .. (n + 1) : more[k][2] = 0
      <3> TAKE k \in 1 .. (n + 1)
      <3>1. CASE k = n + 1
        BY <3>1, <1>4
      <3>2. CASE k # n + 1
        BY <3>2, <1>2, <1>5
      <3>3. QED
        BY <3>1, <3>2
    <2>3. QED
      BY <2>1, <2>2, <1>2, <1>8, <1>9 DEF IsPast
  <1>12. result # 0 => IsPast(first, size, size, result, more)
    <2>1. AllInvoked(first, more[Len(more)][1], more)
      BY <1>2, <1>4, <1>10
    <2>2. QED
      BY <2>1, <1>2, <1>4, <1>8, <1>9 DEF IsPast
  <1>13. QED
    BY <1>2, <1>11, <1>12 DEF more

\* The table of a walk, whose bounds the walk keeps.
LEMMA TableOfTheWalk ==
  ASSUME WalkTypes
  PROVE  /\ Entries \in Int
         /\ \A i \in Int : Entry(i) = EntryOf(walk.first, i)
         /\ walk'.first = walk.first /\ walk'.last = walk.last => Entries' = Entries
  <1>1. PointerSize \in Nat \ {0} /\ walk.first \in Nat /\ walk.last \in Nat
    BY ImageAssumption DEF WalkTypes, WalkRecords
  <1>2. Entries \in Int
    BY <1>1, SMT DEF Entries
  <1>3. QED
    BY <1>1, <1>2 DEF Entry, EntryOf, Slot, Entries

\* The trace is all that an event changes.
LEMMA TraceOfEvents ==
  ASSUME WalkTypes, NEW n \in Nat
  PROVE  /\ Traced(n) \in WalkRecords
         /\ Traced(n).fn = walk.fn /\ Traced(n).first = walk.first
         /\ Traced(n).last = walk.last /\ Traced(n).index = walk.index
         /\ Traced(n).in = walk.in /\ Traced(n).result = walk.result
         /\ Traced(n).truncated = (walk.truncated \/ ~Fits(n))
         /\ Fits(n) \in BOOLEAN
  <1> DEFINE t == IF Fits(n) THEN walk.trace + n ELSE MaxTrace
  <1> DEFINE u == walk.truncated \/ ~Fits(n)
  <1>1. t \in Nat
    BY InittermAssumption DEF WalkTypes, WalkRecords
  <1>2. u \in BOOLEAN /\ Fits(n) \in BOOLEAN
    BY DEF Fits
  <1>3. Traced(n) = [walk EXCEPT !.trace = t, !.truncated = u]
    BY DEF WalkTypes, Traced
  <1> HIDE DEF t, u
  <1>4. QED
    <2>1. /\ [walk EXCEPT !.trace = t, !.truncated = u].truncated = u
          /\ [walk EXCEPT !.trace = t, !.truncated = u] \in WalkRecords
      BY <1>1, <1>2 DEF WalkTypes, WalkRecords
    <2>2. QED
      BY <2>1, <1>2, <1>3 DEF u, WalkTypes, WalkRecords

LEMMA WalkInvInitially == InittermInit => WalkInv
  <1> SUFFICES ASSUME InittermInit PROVE WalkInv
    OBVIOUS
  <1>1. WalkTypes
    <2>1. invoked \in Seq(Results) /\ walk \in WalkRecords
      BY DEF InittermInit, NoWalk, WalkRecords
    <2>2. current \in Int
      BY SMT DEF InittermInit, NoCallback
    <2>3. active \in BOOLEAN /\ stopped \in {"no", "validation", "fault"}
      BY Zenon DEF InittermInit
    <2>4. QED
      BY <2>1, <2>2, <2>3 DEF WalkTypes
  <1>2. Entries = 0
    BY ImageAssumption, SMT DEF InittermInit, NoWalk, Entries
  <1>3. QED
    BY <1>1, <1>2, PastAtTheStart
       DEF InittermInit, NoWalk, WalkInv, WalkIsSomewhere, GlobalsFollowTheWalk

LEMMA CallInittermKeeps ==
  ASSUME WalkInv, NEW fn \in {"initterm", "initterm_e"},
         NEW first \in InitBounds, NEW last \in InitBounds, CallInitterm(fn, first, last)
  PROVE  WalkInv'
  <1>1. first \in Nat /\ last \in Nat /\ PointerSize \in Nat \ {0}
    BY InittermAssumption, ImageAssumption DEF WordMax
  <1> DEFINE cut == fn # "initterm" /\ walk.truncated
  <1>2. cut \in BOOLEAN
    BY DEF WalkInv, WalkTypes, WalkRecords
  <1>3. walk' = [fn |-> fn, first |-> first, last |-> last, index |-> 0, in |-> FALSE,
                 trace |-> 0, truncated |-> cut, result |-> 0]
    BY DEF CallInitterm, NoWalk
  <1> HIDE DEF cut
  <1>4. WalkTypes'
    <2>1. walk' \in WalkRecords
      BY <1>1, <1>2, <1>3 DEF WalkRecords
    <2>2. invoked' \in Seq(Results) /\ stopped' \in {"no", "validation"}
      BY DEF CallInitterm
    <2>3. NoCallback \in Int
      BY DEF NoCallback
    <2>4. current' = NoCallback \/ current' = current
      BY DEF CallInitterm
    <2>5. active' \in BOOLEAN
      BY Zenon DEF CallInitterm, WalkInv, WalkTypes
    <2>6. QED
      BY <2>1, <2>2, <2>3, <2>4, <2>5 DEF WalkInv, WalkTypes
  <1>5. stopped' # "validation" =>
          /\ WalkIsSomewhere'
          /\ IsPast(walk.first, Entries, walk.index, walk.result, invoked)'
    <2> SUFFICES ASSUME stopped' # "validation"
                 PROVE  /\ WalkIsSomewhere'
                        /\ IsPast(walk.first, Entries, walk.index, walk.result, invoked)'
      OBVIOUS
    <2>1. first <= last
      BY DEF CallInitterm, AcceptsTable
    <2>2. (last - first) \div PointerSize \in Nat
      BY <1>1, <2>1, SMT
    <2>3. Entries' = (last - first) \div PointerSize
      BY <1>3 DEF Entries
    <2>4. WalkIsSomewhere'
      BY <2>2, <2>3, <1>3 DEF WalkIsSomewhere
    <2>5. invoked' = << >>
      BY DEF CallInitterm
    <2>6. QED
      BY <2>4, <2>5, <1>3, PastAtTheStart
  <1>6. GlobalsFollowTheWalk'
    <2>1. CASE fn = "initterm"
      <3>1. ~active'
        BY <2>1 DEF CallInitterm
      <3>2. ~walk'.in
        BY <1>3
      <3>3. stopped' # "fault"
        BY DEF CallInitterm
      <3>4. QED
        BY <3>1, <3>2, <3>3 DEF GlobalsFollowTheWalk
    <2>2. CASE fn # "initterm"
      BY <2>2, <1>3 DEF CallInitterm, GlobalsFollowTheWalk, WalkInv, WalkIsSomewhere, cut
    <2>3. QED
      BY <2>1, <2>2
  <1>7. QED
    BY <1>4, <1>5, <1>6 DEF WalkInv

LEMMA SkipNullKeeps ==
  ASSUME WalkInv, SkipNull
  PROVE  WalkInv'
  <1>1. WalkTypes /\ WalkIsSomewhere
        /\ IsPast(walk.first, Entries, walk.index, walk.result, invoked)
        /\ stopped = "no" /\ ~walk.in /\ walk.index < Entries /\ Entry(walk.index) = 0
    BY DEF WalkInv, SkipNull, Walking
  <1>2. walk \in WalkRecords /\ Traced(1) \in WalkRecords
    BY <1>1, TraceOfEvents DEF WalkTypes
  <1>3. /\ walk' \in WalkRecords /\ walk'.index = walk.index + 1 /\ walk'.in = walk.in
        /\ walk'.fn = walk.fn /\ walk'.first = walk.first /\ walk'.last = walk.last
        /\ walk'.result = walk.result /\ walk'.truncated = (walk.truncated \/ ~Fits(1))
    BY <1>1, <1>2, TraceOfEvents DEF SkipNull, WalkRecords
  <1>4. WalkTypes'
    BY <1>1, <1>3 DEF SkipNull, WalkTypes
  <1>5. walk.result = 0 /\ EntryOf(walk.first, walk.index) = 0 /\ Entries \in Int
        /\ Entries' = Entries /\ walk.index \in Nat /\ walk.first \in Nat
    BY <1>1, <1>2, <1>3, TableOfTheWalk DEF WalkIsSomewhere, WalkRecords
  <1>6. WalkIsSomewhere'
    BY <1>1, <1>3, <1>5 DEF WalkIsSomewhere
  <1>7. IsPast(walk.first, Entries, walk.index + 1, 0, invoked)
    BY <1>1, <1>5, PastOfNull DEF WalkTypes
  <1>8. IsPast(walk.first, Entries, walk.index, walk.result, invoked)'
    BY <1>3, <1>5, <1>7 DEF SkipNull
  <1>9. GlobalsFollowTheWalk'
    BY <1>1, <1>3 DEF SkipNull, WalkInv, GlobalsFollowTheWalk
  <1>10. QED
    BY <1>4, <1>6, <1>8, <1>9 DEF WalkInv

LEMMA BadTargetKeeps ==
  ASSUME WalkInv, BadTarget
  PROVE  WalkInv'
  <1>1. WalkTypes /\ stopped' = "validation" /\ ~walk.in /\ stopped = "no"
    BY DEF WalkInv, BadTarget, Walking
  <1>2. /\ walk' \in WalkRecords /\ walk'.in = walk.in /\ walk'.fn = walk.fn
        /\ walk'.index = walk.index
        /\ walk'.truncated = (walk.truncated \/ ~Fits(2))
    BY <1>1, TraceOfEvents DEF BadTarget
  <1>3. WalkTypes'
    BY <1>1, <1>2 DEF BadTarget, WalkTypes
  <1>4. GlobalsFollowTheWalk'
    BY <1>1, <1>2 DEF BadTarget, WalkInv, GlobalsFollowTheWalk
  <1>5. QED
    BY <1>1, <1>3, <1>4 DEF WalkInv

LEMMA BeginCallbackKeeps ==
  ASSUME WalkInv, BeginCallback
  PROVE  WalkInv'
  <1>1. WalkTypes /\ WalkIsSomewhere
        /\ IsPast(walk.first, Entries, walk.index, walk.result, invoked)
        /\ stopped = "no" /\ ~walk.in /\ walk.index < Entries /\ walk.fn # "none"
        /\ Entry(walk.index) # 0 /\ IsExecutable(Entry(walk.index))
    BY DEF WalkInv, BeginCallback, Walking
  <1>2. walk \in WalkRecords /\ Traced(2) \in WalkRecords
    BY <1>1, TraceOfEvents DEF WalkTypes
  <1>3. /\ walk' \in WalkRecords /\ walk'.index = walk.index /\ walk'.in = TRUE
        /\ walk'.fn = walk.fn /\ walk'.first = walk.first /\ walk'.last = walk.last
        /\ walk'.result = walk.result /\ walk'.truncated = (walk.truncated \/ ~Fits(2))
    BY <1>1, <1>2, TraceOfEvents DEF BeginCallback, WalkRecords
  <1>4. walk.result = 0 /\ IsInitialiser(walk.first, walk.index) /\ Entries \in Int
        /\ Entries' = Entries /\ walk.index \in Nat
    BY <1>1, <1>2, <1>3, TableOfTheWalk DEF WalkIsSomewhere, WalkRecords, IsInitialiser
  <1>5. WalkTypes'
    <2>1. (current' = walk.index \/ current' = current) /\ active' \in BOOLEAN
      BY <1>1, Zenon DEF BeginCallback, WalkTypes
    <2>2. QED
      BY <2>1, <1>1, <1>3, <1>4 DEF BeginCallback, WalkTypes
  <1>6. WalkIsSomewhere'
    BY <1>1, <1>3, <1>4 DEF WalkIsSomewhere
  <1>7. IsPast(walk.first, Entries, walk.index, walk.result, invoked)'
    BY <1>1, <1>3, <1>4 DEF BeginCallback
  <1>8. GlobalsFollowTheWalk'
    BY <1>1, <1>3 DEF BeginCallback, WalkInv, GlobalsFollowTheWalk
  <1>9. QED
    BY <1>5, <1>6, <1>7, <1>8 DEF WalkInv

LEMMA CallbackReturnsKeeps ==
  ASSUME WalkInv, NEW result \in 0 .. 1, CallbackReturns(result)
  PROVE  WalkInv'
  <1>1. WalkTypes /\ WalkIsSomewhere
        /\ IsPast(walk.first, Entries, walk.index, walk.result, invoked)
        /\ stopped = "no" /\ walk.in /\ stopped' = "no"
    BY DEF WalkInv, CallbackReturns, Running
  <1>2. walk \in WalkRecords /\ Traced(1) \in WalkRecords
    BY <1>1, TraceOfEvents DEF WalkTypes
  <1>3. /\ walk.index < Entries /\ walk.result = 0 /\ IsInitialiser(walk.first, walk.index)
        /\ Entries \in Int /\ walk.index \in Nat /\ walk.first \in Nat /\ Entries \in Nat
    BY <1>1, <1>2 DEF WalkIsSomewhere, WalkRecords
  <1> DEFINE next == IF result # 0 THEN Entries ELSE walk.index + 1
  <1>4. next \in Nat /\ next <= Entries
    BY <1>3
  <1>5. walk' = IF result # 0
                  THEN [Traced(1) EXCEPT !.in = FALSE, !.result = result, !.index = next]
                  ELSE [Traced(1) EXCEPT !.in = FALSE, !.index = next]
    <2>1. [Traced(1) EXCEPT !.in = FALSE, !.index = @ + 1]
            = [Traced(1) EXCEPT !.in = FALSE, !.index = walk.index + 1]
      BY <1>1, <1>2, TraceOfEvents DEF WalkRecords
    <2>2. QED
      BY <2>1 DEF CallbackReturns
  <1> HIDE DEF next
  <1>6. /\ walk' \in WalkRecords /\ walk'.index = next /\ walk'.in = FALSE
        /\ walk'.fn = walk.fn /\ walk'.first = walk.first /\ walk'.last = walk.last
        /\ walk'.result = result /\ walk'.truncated = (walk.truncated \/ ~Fits(1))
    <2>1. CASE result # 0
      BY <2>1, <1>1, <1>2, <1>5, <1>4, TraceOfEvents DEF WalkRecords
    <2>2. CASE result = 0
      BY <2>2, <1>1, <1>2, <1>3, <1>5, <1>4, TraceOfEvents DEF WalkRecords
    <2>3. QED
      BY <2>1, <2>2
  <1>7. Entries' = Entries
    BY <1>1, <1>6, TableOfTheWalk
  <1> DEFINE more == Append(invoked, <<walk.index, result>>)
  <1>8. /\ more \in Seq(Results)
        /\ result = 0 => IsPast(walk.first, Entries, walk.index + 1, 0, more)
        /\ result # 0 => IsPast(walk.first, Entries, Entries, result, more)
    BY <1>1, <1>3, PastOfCall DEF WalkTypes
  <1>9. invoked' = more
    BY DEF CallbackReturns
  <1> HIDE DEF more
  <1>10. WalkTypes'
    BY <1>1, <1>6, <1>8, <1>9 DEF CallbackReturns, WalkTypes
  <1>11. WalkIsSomewhere'
    BY <1>3, <1>4, <1>6, <1>7 DEF WalkIsSomewhere, next
  <1>12. IsPast(walk.first, Entries, walk.index, walk.result, invoked)'
    BY <1>6, <1>7, <1>8, <1>9 DEF next
  <1>13. GlobalsFollowTheWalk'
    BY <1>1, <1>6 DEF CallbackReturns, WalkInv, GlobalsFollowTheWalk
  <1>14. QED
    BY <1>10, <1>11, <1>12, <1>13 DEF WalkInv

LEMMA FinishWalkKeeps ==
  ASSUME WalkInv, FinishWalk
  PROVE  WalkInv'
  <1>1. WalkTypes /\ WalkIsSomewhere
        /\ IsPast(walk.first, Entries, walk.index, walk.result, invoked)
        /\ stopped = "no" /\ ~walk.in /\ walk \in WalkRecords
    BY DEF WalkInv, FinishWalk, Walking, WalkTypes
  <1>2. /\ walk' \in WalkRecords /\ walk'.index = walk.index /\ walk'.in = walk.in
        /\ walk'.first = walk.first /\ walk'.last = walk.last /\ walk'.fn = "none"
        /\ walk'.result = walk.result /\ walk'.truncated = walk.truncated
    BY <1>1 DEF FinishWalk, WalkRecords
  <1>3. Entries' = Entries
    BY <1>1, <1>2, TableOfTheWalk
  <1>4. WalkTypes'
    BY <1>1, <1>2 DEF FinishWalk, WalkTypes
  <1>5. WalkIsSomewhere'
    BY <1>1, <1>2, <1>3 DEF WalkIsSomewhere
  <1>6. IsPast(walk.first, Entries, walk.index, walk.result, invoked)'
    BY <1>1, <1>2, <1>3 DEF FinishWalk
  <1>7. GlobalsFollowTheWalk'
    BY <1>1, <1>2 DEF FinishWalk, WalkInv, GlobalsFollowTheWalk
  <1>8. QED
    BY <1>4, <1>5, <1>6, <1>7 DEF WalkInv

LEMMA FaultHandlerKeeps ==
  ASSUME WalkInv, FaultHandler
  PROVE  WalkInv'
  <1>1. Entries' = Entries
    BY DEF WalkInv, FaultHandler, Entries
  <1>2. QED
    BY <1>1 DEF WalkInv, FaultHandler, WalkTypes, WalkIsSomewhere, GlobalsFollowTheWalk

\* Every step of a walk keeps the invariant.
LEMMA WalkInvStep == WalkInv /\ [InittermNext]_inittermVars => WalkInv'
  <1> SUFFICES ASSUME WalkInv, [InittermNext]_inittermVars PROVE WalkInv'
    OBVIOUS
  <1>1. ASSUME NEW fn \in {"initterm", "initterm_e"}, NEW first \in InitBounds,
               NEW last \in InitBounds, CallInitterm(fn, first, last)
        PROVE  WalkInv'
    BY <1>1, CallInittermKeeps
  <1>2. CASE SkipNull
    BY <1>2, SkipNullKeeps
  <1>3. CASE BadTarget
    BY <1>3, BadTargetKeeps
  <1>4. CASE BeginCallback
    BY <1>4, BeginCallbackKeeps
  <1>5. ASSUME NEW result \in 0 .. 1, CallbackReturns(result)
        PROVE  WalkInv'
    BY <1>5, CallbackReturnsKeeps
  <1>6. CASE FinishWalk
    BY <1>6, FinishWalkKeeps
  <1>7. CASE FaultHandler
    BY <1>7, FaultHandlerKeeps
  <1>8. CASE UNCHANGED inittermVars
    BY <1>8 DEF WalkInv, inittermVars, WalkTypes, WalkIsSomewhere, GlobalsFollowTheWalk, Entries
  <1>9. QED
    BY <1>1, <1>2, <1>3, <1>4, <1>5, <1>6, <1>7, <1>8 DEF InittermNext

\* A walk over a table of initialisers keeps its place: it has called the entries
\* before it and no others, and the globals that a fault prints follow it as long
\* as the trace is not cut off (gxos_crt_initterm, gxos_crt_initterm_e).
THEOREM WalkInvHolds == InittermSpec => []WalkInv
  BY WalkInvInitially, WalkInvStep, PTL DEF InittermSpec

\* _initterm and _initterm_e run the initialisers of their table in its order,
\* each once and none left out up to the first failure, for every table, every
\* bounds and every limit of the trace; and a fault is attributed to the
\* initialiser that ran, as long as the trace was not cut off.
THEOREM WalksRunTheTable == InittermSpec => []WalksAreFaithful
  <1>1. WalkInv => WalksAreFaithful
    <2> SUFFICES ASSUME WalkInv PROVE WalksAreFaithful
      OBVIOUS
    <2>1. FaultNamesInitialiser
      BY DEF WalkInv, GlobalsFollowTheWalk, FaultNamesInitialiser
    <2>2. InitialisersRunInOrder
      <3> SUFFICES ASSUME stopped # "validation" PROVE InitialisersRunInOrder
        BY DEF InitialisersRunInOrder
      <3>1. WalkTypes /\ WalkIsSomewhere
            /\ IsPast(walk.first, Entries, walk.index, walk.result, invoked)
        BY DEF WalkInv
      <3>2. Entries \in Int /\ \A i \in Int : Entry(i) = EntryOf(walk.first, i)
        BY <3>1, TableOfTheWalk
      <3> DEFINE n == Len(invoked)
      <3> DEFINE indexes == [i \in 1 .. n |-> invoked[i][1]]
      <3>3. n \in Nat /\ (\A k \in 1 .. n : invoked[k][1] \in Nat /\ indexes[k] = invoked[k][1])
        BY <3>1 DEF WalkTypes, Results
      <3> HIDE DEF indexes
      <3>4. \A k \in 1 .. (n - 1) : indexes[k] < indexes[k + 1] /\ invoked[k][2] = 0
        BY <3>1, <3>3 DEF IsPast
      <3>5. \A k \in 1 .. n : IsExecutable(Entry(indexes[k]))
        BY <3>1, <3>2, <3>3 DEF IsPast, IsInitialiser
      <3>6. ASSUME walk.result = 0
            PROVE  {indexes[i] : i \in 1 .. n} =
                     {i \in 0 .. (Entries - 1) :
                        Entry(i) # 0 /\ i < walk.index /\ walk.result = 0}
        <4>1. \A k \in 1 .. n : /\ indexes[k] \in 0 .. (Entries - 1) /\ Entry(indexes[k]) # 0
                                /\ indexes[k] < walk.index
          BY <3>1, <3>2, <3>3, <3>6 DEF IsPast, IsInitialiser
        <4>2. \A i \in 0 .. (Entries - 1) : Entry(i) # 0 /\ i < walk.index =>
                \E k \in 1 .. n : indexes[k] = i
          BY <3>1, <3>2, <3>3, <3>6 DEF IsPast, AllInvoked
        <4>3. QED
          BY <4>1, <4>2, <3>6
      <3>7. ASSUME walk.result # 0
            PROVE  /\ invoked[n][2] = walk.result
                   /\ \A i \in 0 .. (indexes[n] - 1) :
                        Entry(i) # 0 => \E k \in 1 .. n : indexes[k] = i
        <4>1. n \in 1 .. n /\ invoked[n][2] = walk.result
              /\ AllInvoked(walk.first, indexes[n], invoked)
          BY <3>1, <3>3, <3>7 DEF IsPast
        <4>2. QED
          <5> SUFFICES ASSUME NEW i \in 0 .. (indexes[n] - 1), Entry(i) # 0
                       PROVE  \E k \in 1 .. n : indexes[k] = i
            BY <4>1
          <5>1. i \in Nat /\ i < indexes[n] /\ EntryOf(walk.first, i) # 0
            BY <4>1, <3>2, <3>3
          <5>2. PICK k \in 1 .. n : invoked[k][1] = i
            BY <4>1, <5>1 DEF AllInvoked
          <5>3. QED
            BY <5>2, <3>3
      <3>8. QED
        BY <3>4, <3>5, <3>6, <3>7 DEF InitialisersRunInOrder, indexes
    <2>3. QED
      BY <2>1, <2>2 DEF WalksAreFaithful
  <1>2. QED
    BY <1>1, WalkInvHolds, PTL

-----------------------------------------------------------------------------
(* Words.                                                                  *)

Places == 0 .. (WordBits - 1)
Pow(b) == 2^b

LEMMA WordBitsIsNumber == WordBits \in Nat \ {0}
  BY ImageAssumption

LEMMA PowersDouble ==
  /\ Pow(0) = 1
  /\ \A b \in 0 .. WordBits : Pow(b) \in Nat /\ Pow(b + 1) = 2 * Pow(b)
  <1>1. Pow(0) = 1
    BY DEF Pow
  <1>2. QED
    BY <1>1, PowersOfTwo, Zenon DEF Pow

LEMMA PowersArePositive == \A b \in 0 .. WordBits : Pow(b) \in Nat \ {0}
  <1> DEFINE G == {b \in Nat : Pow(b) \in Nat \ {0}}
  <1>1. WordBits \in Nat
    BY WordBitsIsNumber
  <1>2. 0 \in G
    BY PowersDouble
  <1>3. ASSUME NEW b \in 0 .. (WordBits - 1), b \in G PROVE b + 1 \in G
    <2>1. b \in 0 .. WordBits /\ b + 1 \in Nat
      BY <1>1
    <2>2. Pow(b + 1) = 2 * Pow(b) /\ Pow(b) \in Nat \ {0}
      BY <1>3, <2>1, PowersDouble
    <2>3. Pow(b + 1) \in Nat \ {0}
      BY <2>2
    <2>4. QED
      BY <2>1, <2>3
  <1>4. QED
    <2> HIDE DEF G
    <2>1. \A b \in 0 .. WordBits : b \in G
      BY <1>1, <1>2, <1>3, NumberInduction
    <2>2. QED
      BY <2>1 DEF G

\* A bit is a remainder.
LEMMA BitIs ==
  ASSUME NEW w \in Nat, NEW b \in 0 .. WordBits
  PROVE  Bit(w, b) = (w \div Pow(b)) % 2 /\ Bit(w, b) \in {0, 1} /\ w \div Pow(b) \in Int
  <1>1. Pow(b) \in Nat \ {0}
    BY PowersArePositive
  <1>2. w \div Pow(b) \in Int
    BY <1>1, Division
  <1>3. (w \div Pow(b)) % 2 \in Nat /\ (w \div Pow(b)) % 2 < 2
    BY <1>2, Division
  <1>4. Bit(w, b) = (w \div Pow(b)) % 2
    BY Zenon DEF Bit, Pow
  <1>5. QED
    BY <1>2, <1>3, <1>4

\* The sums of the lowest bits.
BitSumStep(g, f, b) == IF b = 0 THEN 0 ELSE g[b - 1] + f[b - 1] * Pow(b - 1)
IsSumOfBits(g, f, n) == g = [b \in 0 .. n |-> BitSumStep(g, f, b)]

LEMMA SumsOfBitsExist ==
  ASSUME NEW n \in Nat, NEW f
  PROVE  \E g : IsSumOfBits(g, f, n)
  <1> DEFINE G == {m \in Nat : \E g : IsSumOfBits(g, f, m)}
  <1>1. 0 \in G
    <2> DEFINE g == [i \in 0 .. 0 |-> 0]
    <2>1. IsSumOfBits(g, f, 0)
      BY DEF IsSumOfBits, BitSumStep
    <2>2. QED
      BY <2>1
  <1>2. ASSUME NEW m \in 0 .. (n - 1), m \in G PROVE m + 1 \in G
    <2>1. PICK g : IsSumOfBits(g, f, m)
      BY <1>2
    <2> DEFINE h == [i \in 0 .. (m + 1) |-> BitSumStep(g, f, i)]
    <2>2. ASSUME NEW i \in 0 .. m PROVE h[i] = g[i]
      <3>1. g[i] = BitSumStep(g, f, i)
        BY <2>1 DEF IsSumOfBits
      <3>2. QED
        BY <3>1
    <2>3. ASSUME NEW i \in 0 .. (m + 1) PROVE BitSumStep(g, f, i) = BitSumStep(h, f, i)
      <3>1. CASE i = 0
        BY <3>1 DEF BitSumStep
      <3>2. CASE i # 0
        <4>1. i - 1 \in 0 .. m
          BY <3>2
        <4> HIDE DEF h
        <4>2. h[i - 1] = g[i - 1]
          BY <2>2, <4>1
        <4>3. QED
          BY <4>2, <3>2 DEF BitSumStep
      <3>3. QED
        BY <3>1, <3>2
    <2>4. IsSumOfBits(h, f, m + 1)
      BY <2>3 DEF IsSumOfBits
    <2> HIDE DEF h
    <2>5. m + 1 \in Nat
      OBVIOUS
    <2>6. QED
      BY <2>4, <2>5
  <1>3. n \in G
    <2> HIDE DEF G
    <2>1. \A i \in 0 .. n : i \in G
      BY <1>1, <1>2, NumberInduction
    <2>2. QED
      BY <2>1
  <1>4. QED
    BY <1>3

LEMMA WordIsSum ==
  ASSUME NEW f
  PROVE  \E g : IsSumOfBits(g, f, WordBits) /\ Word(f) = g[WordBits]
  <1> DEFINE B(g) == [b \in 0 .. WordBits |->
                        IF b = 0 THEN 0 ELSE g[b - 1] + f[b - 1] * 2^(b - 1)]
             chosen == CHOOSE g : g = B(g)
  <1>1. \A g : IsSumOfBits(g, f, WordBits) <=> g = B(g)
    BY Zenon DEF IsSumOfBits, BitSumStep, Pow
  <1>2. \E g : g = B(g)
    <2>1. \E g : IsSumOfBits(g, f, WordBits)
      BY WordBitsIsNumber, SumsOfBitsExist
    <2> HIDE DEF B
    <2>2. QED
      BY <2>1, <1>1, Zenon
  <1>3. chosen = B(chosen)
    <2> HIDE DEF B
    <2>1. QED
      BY <1>2, Zenon
  <1>4. Word(f) = chosen[WordBits]
    BY Zenon DEF Word
  <1>5. IsSumOfBits(chosen, f, WordBits)
    <2> HIDE DEF B, chosen
    <2>1. QED
      BY <1>1, <1>3, Zenon
  <1>6. QED
    BY <1>4, <1>5, Zenon

LEMMA BitSumSteps ==
  ASSUME NEW f \in [Places -> {0, 1}], NEW g, IsSumOfBits(g, f, WordBits)
  PROVE  /\ g[0] = 0
         /\ \A b \in Places : g[b + 1] = g[b] + f[b] * Pow(b)
         /\ \A b \in 0 .. WordBits : g[b] \in Nat /\ g[b] < Pow(b)
  <1> DEFINE G == {b \in Nat : g[b] \in Nat /\ g[b] < Pow(b)}
  <1>1. WordBits \in Nat \ {0}
    BY WordBitsIsNumber
  <1>2. \A b \in 0 .. WordBits : g[b] = BitSumStep(g, f, b)
    BY DEF IsSumOfBits
  <1>3. g[0] = 0
    <2>1. 0 \in 0 .. WordBits
      BY <1>1
    <2>2. QED
      BY <1>2, <2>1 DEF BitSumStep
  <1>4. ASSUME NEW b \in Places PROVE g[b + 1] = g[b] + f[b] * Pow(b)
    <2>1. b + 1 \in 0 .. WordBits /\ (b + 1) - 1 = b /\ b + 1 # 0
      BY <1>1 DEF Places
    <2>2. QED
      BY <1>2, <2>1 DEF BitSumStep
  <1>5. 0 \in G
    BY <1>3, PowersDouble
  <1>6. ASSUME NEW b \in 0 .. (WordBits - 1), b \in G PROVE b + 1 \in G
    <2>1. b \in Places /\ b + 1 \in Nat /\ b \in 0 .. WordBits
      BY <1>1 DEF Places
    <2>2. g[b] \in Nat /\ g[b] < Pow(b)
      BY <1>6
    <2>3. Pow(b) \in Nat /\ Pow(b + 1) = 2 * Pow(b)
      BY <2>1, PowersDouble
    <2>4. f[b] = 0 \/ f[b] = 1
      BY <2>1
    <2>5. f[b] * Pow(b) = 0 \/ f[b] * Pow(b) = Pow(b)
      BY <2>3, <2>4
    <2>6. g[b + 1] = g[b] + f[b] * Pow(b)
      BY <1>4, <2>1
    <2>7. g[b + 1] \in Nat /\ g[b + 1] < Pow(b + 1)
      BY <2>2, <2>3, <2>5, <2>6
    <2>8. QED
      BY <2>1, <2>7
  <1>7. \A b \in 0 .. WordBits : g[b] \in Nat /\ g[b] < Pow(b)
    <2> HIDE DEF G
    <2>1. \A b \in 0 .. WordBits : b \in G
      BY <1>1, <1>5, <1>6, NumberInduction
    <2>2. QED
      BY <2>1 DEF G
  <1>8. QED
    BY <1>3, <1>4, <1>7

\* The bits of a word are the bits it was made of.
LEMMA BitsOfWord ==
  ASSUME NEW f \in [Places -> {0, 1}]
  PROVE  Word(f) \in Nat /\ Word(f) < Pow(WordBits) /\ \A b \in Places : Bit(Word(f), b) = f[b]
  <1>1. PICK g : IsSumOfBits(g, f, WordBits) /\ Word(f) = g[WordBits]
    BY WordIsSum
  <1>2. WordBits \in Nat \ {0}
    BY WordBitsIsNumber
  <1>3. /\ \A b \in Places : g[b + 1] = g[b] + f[b] * Pow(b)
        /\ \A b \in 0 .. WordBits : g[b] \in Nat /\ g[b] < Pow(b)
    BY <1>1, BitSumSteps
  <1>4. Word(f) \in Nat /\ Word(f) < Pow(WordBits)
    BY <1>1, <1>2, <1>3
  <1>5. ASSUME NEW b \in Places PROVE Bit(Word(f), b) = f[b]
    <2> DEFINE P == Pow(b)
               n == WordBits - (b + 1)
               Above(k) == \E m \in Nat, q \in Nat :
                             /\ g[b + 1 + k] = g[b] + f[b] * P + (2 * P) * m
                             /\ Pow(b + 1 + k) = (2 * P) * q
               G == {k \in Nat : Above(k)}
    <2>1. b \in 0 .. WordBits /\ b \in Nat /\ b + 1 \in 0 .. WordBits /\ n \in Nat
      BY <1>2 DEF Places
    <2>2. P \in Nat \ {0} /\ Pow(b + 1) = 2 * P
      BY <2>1, PowersDouble, PowersArePositive
    <2>3. f[b] \in {0, 1} /\ g[b] \in Nat /\ g[b] < P
      BY <1>3, <2>1
    <2>4. 0 \in G
      <3>1. b + 1 + 0 = b + 1
        BY <2>1
      <3>2. g[b + 1] = g[b] + f[b] * P + (2 * P) * 0 /\ Pow(b + 1) = (2 * P) * 1
        BY <1>3, <2>2, <2>3
      <3>3. Above(0)
        BY <3>1, <3>2
      <3>4. QED
        BY <3>3
    <2>5. ASSUME NEW k \in 0 .. (n - 1), k \in G PROVE k + 1 \in G
      <3> DEFINE c == b + 1 + k
      <3>1. c \in Places /\ c \in 0 .. WordBits /\ b + 1 + (k + 1) = c + 1 /\ k + 1 \in Nat
        BY <1>2, <2>1 DEF Places
      <3>2. PICK m \in Nat, q \in Nat :
              g[c] = g[b] + f[b] * P + (2 * P) * m /\ Pow(c) = (2 * P) * q
        BY <2>5
      <3>3. f[c] \in {0, 1} /\ g[c + 1] = g[c] + f[c] * Pow(c) /\ Pow(c + 1) = 2 * Pow(c)
        BY <1>3, <3>1, PowersDouble
      <3> HIDE DEF P, c
      <3>4. Pow(c + 1) = (2 * P) * (2 * q)
        <4>1. 2 * ((2 * P) * q) = (2 * P) * (2 * q)
          BY <2>2, SMT
        <4>2. QED
          BY <3>2, <3>3, <4>1
      <3>5. g[c + 1] = g[b] + f[b] * P + (2 * P) * (m + f[c] * q)
        <4>1. CASE f[c] = 0
          <5>1. f[c] * Pow(c) = 0 /\ m + f[c] * q = m
            BY <2>2, <3>2, <4>1
          <5>2. g[c + 1] = g[c] /\ g[c] \in Nat
            BY <1>3, <3>1, <3>3, <5>1
          <5>3. QED
            BY <3>2, <5>1, <5>2
        <4>2. CASE f[c] = 1
          <5>1. f[c] * Pow(c) = (2 * P) * q /\ m + f[c] * q = m + q
            BY <2>2, <3>2, <4>2
          <5>2. (2 * P) * (m + q) = (2 * P) * m + (2 * P) * q
            BY <2>2, SMT
          <5>3. f[b] * P \in Int /\ (2 * P) * m \in Int /\ (2 * P) * q \in Int
            BY <2>2, <2>3, SMT
          <5> DEFINE x == f[b] * P
                     y == (2 * P) * m
                     z == (2 * P) * q
          <5>4. g[c + 1] = (g[b] + x + y) + z /\ (2 * P) * (m + q) = y + z
            BY <3>2, <3>3, <5>1, <5>2
          <5>5. g[b] \in Int /\ x \in Int /\ y \in Int /\ z \in Int
            BY <2>3, <5>3
          <5> HIDE DEF x, y, z
          <5>6. g[c + 1] = g[b] + x + (2 * P) * (m + q)
            BY <5>4, <5>5
          <5>7. QED
            BY <5>1, <5>6 DEF x
        <4>3. QED
          BY <3>3, <4>1, <4>2
      <3>6. m + f[c] * q \in Nat /\ 2 * q \in Nat
        BY <3>3
      <3>7. Above(k + 1)
        BY <3>1, <3>4, <3>5, <3>6
      <3>8. QED
        BY <3>1, <3>7
    <2>6. Above(n)
      <3> HIDE DEF G, n
      <3>1. \A k \in 0 .. n : k \in G
        BY <2>1, <2>4, <2>5, NumberInduction
      <3>2. n \in G
        BY <2>1, <3>1
      <3>3. QED
        BY <3>2 DEF G
    <2>7. b + 1 + n = WordBits
      BY <1>2, <2>1
    <2>8. PICK m \in Nat : g[WordBits] = g[b] + f[b] * P + (2 * P) * m
      BY <2>6, <2>7
    <2> HIDE DEF P
    <2>9. Word(f) = P * (2 * m + f[b]) + g[b]
      <3>1. P * (2 * m + f[b]) = f[b] * P + (2 * P) * m
        BY <2>2, <2>3, SMT
      <3>2. f[b] * P \in Int /\ (2 * P) * m \in Int
        BY <2>2, <2>3, SMT
      <3>3. QED
        BY <1>1, <2>3, <2>8, <3>1, <3>2
    <2>10. Word(f) \div P = 2 * m + f[b]
      <3>1. 2 * m + f[b] \in Int
        BY <2>3
      <3>2. QED
        <4> DEFINE x == 2 * m + f[b]
        <4>1. x \in Int /\ Word(f) = P * x + g[b] /\ g[b] \in Int /\ 0 <= g[b] /\ g[b] < P
          BY <2>3, <2>9, <3>1
        <4> HIDE DEF x
        <4>2. (P * x + g[b]) \div P = x
          BY <2>2, <4>1, RemainderOf
        <4>3. QED
          BY <4>1, <4>2 DEF x
    <2>11. (2 * m + f[b]) % 2 = f[b]
      BY <2>3, RemainderOf
    <2>12. QED
      BY <1>4, <2>1, <2>10, <2>11, BitIs DEF P
  <1>6. QED
    BY <1>4, <1>5

BitsOf(w) == [b \in Places |-> Bit(w, b)]

\* A word is made of its bits.
LEMMA WordOfBits ==
  ASSUME NEW w \in Nat, w < Pow(WordBits)
  PROVE  BitsOf(w) \in [Places -> {0, 1}] /\ Word(BitsOf(w)) = w
  <1> DEFINE f == BitsOf(w)
  <1>1. WordBits \in Nat \ {0}
    BY WordBitsIsNumber
  <1>2. f \in [Places -> {0, 1}]
    <2>1. \A b \in Places : b \in 0 .. WordBits
      BY <1>1 DEF Places
    <2>2. \A b \in Places : Bit(w, b) \in {0, 1}
      BY <2>1, BitIs
    <2>3. QED
      BY <2>2 DEF BitsOf
  <1>3. \A b \in Places : f[b] = Bit(w, b)
    BY DEF BitsOf
  <1> HIDE DEF f
  <1>4. PICK g : IsSumOfBits(g, f, WordBits) /\ Word(f) = g[WordBits]
    BY WordIsSum
  <1>5. /\ g[0] = 0
        /\ \A b \in Places : g[b + 1] = g[b] + f[b] * Pow(b)
        /\ \A b \in 0 .. WordBits : g[b] \in Nat /\ g[b] < Pow(b)
    BY <1>2, <1>4, BitSumSteps
  <1> DEFINE G == {b \in Nat : w = Pow(b) * (w \div Pow(b)) + g[b]}
  <1>6. 0 \in G
    <2>1. Pow(0) = 1
      BY PowersDouble
    <2>2. 1 * (w \div 1) + 0 = w
      BY SMT
    <2>3. QED
      BY <1>5, <2>1, <2>2
  <1>7. ASSUME NEW b \in 0 .. (WordBits - 1), b \in G PROVE b + 1 \in G
    <2> DEFINE P == Pow(b)
               d == w \div P
               e == d \div 2
    <2>1. b \in Places /\ b \in 0 .. WordBits /\ b + 1 \in 0 .. WordBits /\ b + 1 \in Nat
      BY <1>1 DEF Places
    <2>2. P \in Nat \ {0} /\ Pow(b + 1) = 2 * P
      BY <2>1, PowersDouble, PowersArePositive
    <2>3. w = P * d + g[b]
      BY <1>7
    <2>4. d \in Int /\ f[b] = d % 2
      BY <1>3, <2>1, BitIs
    <2> HIDE DEF d, P
    <2>5. e \in Int /\ d = 2 * e + f[b] /\ f[b] \in Nat
      BY <2>4, Division
    <2> HIDE DEF e
    <2>6. g[b + 1] = g[b] + f[b] * P /\ g[b + 1] \in Nat /\ g[b + 1] < 2 * P /\ g[b] \in Nat
      BY <1>5, <2>1, <2>2 DEF P
    <2>7. w = (2 * P) * e + g[b + 1]
      <3>1. P * (2 * e + f[b]) = (2 * P) * e + f[b] * P
        BY <2>2, <2>5, SMT
      <3>2. (2 * P) * e \in Int /\ f[b] * P \in Int
        BY <2>2, <2>5, SMT
      <3>3. P * d = (2 * P) * e + f[b] * P
        BY <2>5, <3>1
      <3>4. QED
        BY <2>3, <2>6, <3>2, <3>3
    <2>8. w \div (2 * P) = e
      <3>1. 2 * P \in Nat \ {0} /\ g[b + 1] \in Int /\ 0 <= g[b + 1]
        BY <2>2, <2>6
      <3>2. ((2 * P) * e + g[b + 1]) \div (2 * P) = e
        BY <2>5, <2>6, <3>1, RemainderOf
      <3>3. QED
        BY <2>7, <3>2
    <2>9. QED
      BY <2>1, <2>2, <2>7, <2>8
  <1>8. w = Pow(WordBits) * (w \div Pow(WordBits)) + g[WordBits]
    <2> HIDE DEF G
    <2>1. \A b \in 0 .. WordBits : b \in G
      BY <1>1, <1>6, <1>7, NumberInduction
    <2>2. QED
      BY <1>1, <2>1 DEF G
  <1>9. w \div Pow(WordBits) = 0
    <2>1. Pow(WordBits) \in Nat \ {0}
      BY <1>1, PowersArePositive
    <2>2. Pow(WordBits) * 0 + w = w
      BY <2>1
    <2>3. (Pow(WordBits) * 0 + w) \div Pow(WordBits) = 0
      BY <2>1, RemainderOf
    <2>4. QED
      BY <2>2, <2>3
  <1>10. w = g[WordBits]
    <2>1. Pow(WordBits) \in Nat /\ g[WordBits] \in Nat
      BY <1>1, <1>5, PowersArePositive
    <2>2. QED
      BY <1>8, <1>9, <2>1
  <1>11. QED
    BY <1>2, <1>4, <1>10 DEF f

\* A place counted around the word.
LEMMA AroundTheWord ==
  ASSUME NEW x \in Nat, x < 2 * WordBits
  PROVE  /\ x % WordBits \in Places
         /\ x % WordBits = IF x < WordBits THEN x ELSE x - WordBits
  <1>1. WordBits \in Nat \ {0}
    BY WordBitsIsNumber
  <1>2. CASE x < WordBits
    <2>1. (WordBits * 0 + x) % WordBits = x
      BY <1>1, <1>2, RemainderOf
    <2>2. WordBits * 0 + x = x
      BY <1>1
    <2>3. QED
      BY <1>1, <1>2, <2>1, <2>2 DEF Places
  <1>3. CASE ~(x < WordBits)
    <2> DEFINE y == x - WordBits
    <2>1. y \in Int /\ 0 <= y /\ y < WordBits
      BY <1>1, <1>3
    <2> HIDE DEF y
    <2>2. (WordBits * 1 + y) % WordBits = y
      BY <1>1, <2>1, RemainderOf
    <2>3. WordBits * 1 + y = x
      BY <1>1 DEF y
    <2>4. QED
      BY <1>1, <1>3, <2>1, <2>2, <2>3 DEF Places, y
  <1>4. QED
    BY <1>2, <1>3

LEMMA BitIsBit ==
  ASSUME NEW w \in Nat, NEW b \in Places
  PROVE  Bit(w, b) \in {0, 1}
  <1>1. b \in 0 .. WordBits
    BY WordBitsIsNumber DEF Places
  <1>2. QED
    BY <1>1, BitIs

LEMMA XorBits ==
  ASSUME NEW v \in Nat, NEW w \in Nat
  PROVE  /\ Xor(v, w) \in Nat /\ Xor(v, w) < Pow(WordBits)
         /\ \A b \in Places : Bit(Xor(v, w), b) = (Bit(v, b) + Bit(w, b)) % 2
  <1> DEFINE f == [b \in Places |-> (Bit(v, b) + Bit(w, b)) % 2]
  <1>1. ASSUME NEW b \in Places PROVE (Bit(v, b) + Bit(w, b)) % 2 \in {0, 1}
    BY BitIsBit
  <1>2. f \in [Places -> {0, 1}]
    BY <1>1
  <1>3. \A b \in Places : f[b] = (Bit(v, b) + Bit(w, b)) % 2
    OBVIOUS
  <1>4. Xor(v, w) = Word(f)
    BY Zenon DEF Xor, Places
  <1> HIDE DEF f
  <1>5. QED
    BY <1>2, <1>3, <1>4, BitsOfWord

LEMMA RotateBits ==
  ASSUME NEW w \in Nat, NEW n \in Places
  PROVE  /\ RotateRight(w, n) \in Nat /\ RotateRight(w, n) < Pow(WordBits)
         /\ \A b \in Places : Bit(RotateRight(w, n), b) = Bit(w, (b + n) % WordBits)
  <1> DEFINE f == [b \in Places |-> Bit(w, (b + n) % WordBits)]
  <1>1. ASSUME NEW b \in Places PROVE Bit(w, (b + n) % WordBits) \in {0, 1}
    <2>1. b + n \in Nat /\ b + n < 2 * WordBits
      BY WordBitsIsNumber DEF Places
    <2>2. (b + n) % WordBits \in Places
      BY <2>1, AroundTheWord
    <2>3. QED
      BY <2>2, BitIsBit
  <1>2. f \in [Places -> {0, 1}]
    BY <1>1
  <1>3. \A b \in Places : f[b] = Bit(w, (b + n) % WordBits)
    OBVIOUS
  <1>4. RotateRight(w, n) = Word(f)
    BY Zenon DEF RotateRight, Places
  <1> HIDE DEF f
  <1>5. QED
    BY <1>2, <1>3, <1>4, BitsOfWord

\* Words with the same bits are the same.
LEMMA SameBits ==
  ASSUME NEW v \in Nat, v < Pow(WordBits), NEW w \in Nat, w < Pow(WordBits),
         \A b \in Places : Bit(v, b) = Bit(w, b)
  PROVE  v = w
  <1>1. BitsOf(v) = BitsOf(w)
    BY DEF BitsOf
  <1>2. QED
    BY <1>1, WordOfBits

\* The cookie is a word, and what it is rotated by a place.
IsCookie == cookie \in Nat /\ cookie < Pow(WordBits) /\ Shift \in Places

LEMMA CookiesAreWords ==
  ASSUME cookie \in Cookies
  PROVE  IsCookie
  <1>1. cookie \in 1 .. (Pow(WordBits) - 1)
    BY OnExitAssumption, Zenon DEF Pow
  <1>2. Pow(WordBits) \in Nat /\ WordBits \in Nat \ {0}
    BY WordBitsIsNumber, PowersArePositive
  <1>3. cookie \in Nat /\ cookie < Pow(WordBits)
    BY <1>1, <1>2
  <1>4. cookie % WordBits \in Nat /\ cookie % WordBits < WordBits
    BY <1>2, <1>3, Division
  <1>5. Shift \in Places
    BY <1>2, <1>4 DEF Shift, Places
  <1>6. QED
    BY <1>3, <1>5 DEF IsCookie

\* Decoding undoes encoding, for every cookie and every word.
LEMMA DecodingUndoesEncoding ==
  ASSUME IsCookie, NEW p \in Nat, p < Pow(WordBits)
  PROVE  DecodePointer(EncodePointer(p)) = p
  <1> DEFINE back == (WordBits - Shift) % WordBits
             turned == RotateRight(p, back)
             code == Xor(turned, cookie)
             plain == Xor(code, cookie)
             answer1 == RotateRight(plain, Shift)
  <1>1. cookie \in Nat /\ Shift \in Places /\ WordBits \in Nat \ {0}
    BY WordBitsIsNumber DEF IsCookie
  <1>2. /\ back \in Places
        /\ back = IF Shift = 0 THEN 0 ELSE WordBits - Shift
    <2>1. WordBits - Shift \in Nat /\ WordBits - Shift < 2 * WordBits
      BY <1>1 DEF Places
    <2>2. /\ (WordBits - Shift) % WordBits \in Places
          /\ (WordBits - Shift) % WordBits
               = IF WordBits - Shift < WordBits THEN WordBits - Shift ELSE WordBits - Shift - WordBits
      BY <2>1, AroundTheWord
    <2>3. QED
      BY <1>1, <2>2 DEF Places
  <1>3. DecodePointer(EncodePointer(p)) = answer1
    BY Zenon DEF DecodePointer, EncodePointer
  <1> HIDE DEF back
  <1>4. turned \in Nat /\ \A b \in Places : Bit(turned, b) = Bit(p, (b + back) % WordBits)
    BY <1>2, RotateBits
  <1> HIDE DEF turned
  <1>5. code \in Nat /\ \A b \in Places : Bit(code, b) = (Bit(turned, b) + Bit(cookie, b)) % 2
    BY <1>1, <1>4, XorBits
  <1> HIDE DEF code
  <1>6. plain \in Nat /\ \A b \in Places : Bit(plain, b) = (Bit(code, b) + Bit(cookie, b)) % 2
    BY <1>1, <1>5, XorBits
  <1> HIDE DEF plain
  <1>7. ASSUME NEW b \in Places PROVE Bit(plain, b) = Bit(turned, b)
    <2>1. Bit(turned, b) \in {0, 1} /\ Bit(cookie, b) \in {0, 1}
      BY <1>1, <1>4, BitIsBit
    <2>2. Bit(plain, b) = (((Bit(turned, b) + Bit(cookie, b)) % 2) + Bit(cookie, b)) % 2
      BY <1>5, <1>6
    <2>3. QED
      BY <2>1, <2>2
  <1>8. /\ answer1 \in Nat /\ answer1 < Pow(WordBits)
        /\ \A b \in Places : Bit(answer1, b) = Bit(plain, (b + Shift) % WordBits)
    BY <1>1, <1>6, RotateBits
  <1> HIDE DEF answer1
  <1>9. ASSUME NEW b \in Places PROVE Bit(answer1, b) = Bit(p, b)
    <2> DEFINE c == (b + Shift) % WordBits
    <2>1. b + Shift \in Nat /\ b + Shift < 2 * WordBits /\ b \in Nat /\ Shift \in Nat
      BY <1>1 DEF Places
    <2>2. c \in Places /\ c = IF b + Shift < WordBits THEN b + Shift ELSE (b + Shift) - WordBits
      <3> DEFINE x == b + Shift
      <3>1. x \in Nat /\ x < 2 * WordBits
        BY <2>1
      <3> HIDE DEF x
      <3>2. x % WordBits \in Places /\ x % WordBits = IF x < WordBits THEN x ELSE x - WordBits
        BY <3>1, AroundTheWord
      <3>3. QED
        BY <3>2 DEF x
    <2>3. Bit(answer1, b) = Bit(plain, c)
      BY <1>8
    <2> HIDE DEF c
    <2>4. Bit(answer1, b) = Bit(p, (c + back) % WordBits)
      BY <1>4, <1>7, <2>2, <2>3
    <2>5. c + back \in Nat /\ c + back < 2 * WordBits
      BY <1>1, <1>2, <2>2 DEF Places
    <2>6. (c + back) % WordBits = IF c + back < WordBits THEN c + back ELSE (c + back) - WordBits
      <3> DEFINE x == c + back
      <3>1. x \in Nat /\ x < 2 * WordBits
        BY <2>5
      <3> HIDE DEF x
      <3>2. x % WordBits = IF x < WordBits THEN x ELSE x - WordBits
        BY <3>1, AroundTheWord
      <3>3. QED
        BY <3>2 DEF x
    <2>7. b < WordBits /\ Shift < WordBits
      BY <1>1 DEF Places
    <2>8. (c + back) % WordBits = b
      BY <1>1, <1>2, <2>1, <2>2, <2>6, <2>7
    <2>9. QED
      BY <2>4, <2>8
  <1>10. answer1 = p
    BY <1>8, <1>9, SameBits
  <1>11. QED
    BY <1>3, <1>10

\* The cookie itself encodes the null pointer.
LEMMA CookieIsNull ==
  ASSUME IsCookie
  PROVE  DecodePointer(cookie) = 0
  <1> DEFINE blank == Xor(cookie, cookie)
             turned == RotateRight(blank, Shift)
  <1>1. cookie \in Nat /\ Shift \in Places /\ WordBits \in Nat \ {0}
    BY WordBitsIsNumber DEF IsCookie
  <1>2. blank \in Nat /\ \A b \in Places : Bit(blank, b) = (Bit(cookie, b) + Bit(cookie, b)) % 2
    BY <1>1, XorBits
  <1>3. DecodePointer(cookie) = turned
    BY DEF DecodePointer
  <1> HIDE DEF blank
  <1>4. \A b \in Places : Bit(blank, b) = 0
    <2>1. \A b \in Places : Bit(cookie, b) \in {0, 1}
      BY <1>1, BitIsBit
    <2>2. QED
      BY <1>2, <2>1
  <1>5. /\ turned \in Nat /\ turned < Pow(WordBits)
        /\ \A b \in Places : Bit(turned, b) = Bit(blank, (b + Shift) % WordBits)
    BY <1>1, <1>2, RotateBits
  <1> HIDE DEF turned
  <1>6. ASSUME NEW b \in Places PROVE Bit(turned, b) = Bit(0, b)
    <2>1. b + Shift \in Nat /\ b + Shift < 2 * WordBits
      BY <1>1 DEF Places
    <2>2. (b + Shift) % WordBits \in Places
      BY <2>1, AroundTheWord
    <2>3. Bit(turned, b) = 0
      BY <1>4, <1>5, <2>2
    <2>4. Bit(0, b) = 0
      <3>1. b \in 0 .. WordBits
        BY <1>1 DEF Places
      <3>2. Pow(b) \in Nat \ {0}
        BY <3>1, PowersArePositive
      <3>3. 0 \div Pow(b) = 0
        <4>1. (Pow(b) * 0 + 0) \div Pow(b) = 0
          BY <3>2, RemainderOf
        <4>2. Pow(b) * 0 + 0 = 0
          BY <3>2
        <4>3. QED
          BY <4>1, <4>2
      <3>4. Bit(0, b) = (0 \div Pow(b)) % 2
        BY <3>1, BitIs
      <3>5. QED
        BY <3>3, <3>4
    <2>5. QED
      BY <2>3, <2>4
  <1>7. turned = 0
    <2>1. 0 < Pow(WordBits)
      BY <1>1, PowersArePositive
    <2>2. QED
      BY <1>5, <1>6, <2>1, SameBits
  <1>8. QED
    BY <1>3, <1>7

-----------------------------------------------------------------------------
(* The invariant of the on-exit tables.                                    *)

\* The storage of a table with the encoded pointers w, of a table that has none,
\* and of one with the functions R in the memory s.
Base(w) == DecodePointer(w.first)
Top(w) == DecodePointer(w.last)
Limit(w) == DecodePointer(w.end)

IsUnused(t, w, R) ==
  /\ t \notin DOMAIN Preset /\ R = <<>>
  /\ \/ w.first = 0 /\ w.last = 0 /\ w.end = 0
     \/ w.first = cookie /\ w.last = cookie /\ w.end = cookie

UsesStorage(t, w, R, s) ==
  /\ Base(w) \in Nat \ {0} /\ Limit(w) \in Nat /\ Limit(w) <= WordMax /\ Base(w) < Limit(w)
  /\ Top(w) = Base(w) + Len(R) * PointerSize /\ Top(w) <= Limit(w)
  /\ w.first = EncodePointer(Base(w))
  /\ R # <<>> => w.first # 0
  /\ \A i \in 1 .. Len(R) : DecodePointer(s[Base(w) + (i - 1) * PointerSize]) = R[i]
  /\ t \in DOMAIN Preset => Base(w) = Preset[t][1] /\ Limit(w) = Preset[t][2]
  /\ t \notin DOMAIN Preset => Limit(w) = Base(w) + StorageBytes /\ R # <<>>

Apart(v, w) == Limit(v) <= Base(w) \/ Limit(w) <= Base(v)

Pointers == [first : Nat, last : Nat, end : Nat]
HasBlock(t) == registered[t] # <<>> /\ t \notin DOMAIN Preset

ExitInv ==
  /\ cookie \in Cookies
  /\ tables \in [Tables -> Pointers]
  /\ registered \in [Tables -> Seq(OnExitFunctions)]
  /\ slots \in [SlotAddresses -> Nat]
  /\ \A t \in Tables : \/ IsUnused(t, tables[t], registered[t])
                       \/ UsesStorage(t, tables[t], registered[t], slots)
  /\ \A t, u \in Tables : /\ t # u
                          /\ UsesStorage(t, tables[t], registered[t], slots)
                          /\ UsesStorage(u, tables[u], registered[u], slots)
                          => Apart(tables[t], tables[u])
  /\ storage = {Base(tables[t]) : t \in {u \in Tables : HasBlock(u)}}

LEMMA WordMaxIs == WordMax = Pow(WordBits) - 1 /\ WordMax \in Nat /\ Pow(WordBits) \in Nat
  <1>1. WordMax = Pow(WordBits) - 1
    BY Zenon DEF WordMax, Pow
  <1>2. Pow(WordBits) \in Nat \ {0}
    BY WordBitsIsNumber, PowersArePositive
  <1>3. QED
    BY <1>1, <1>2

LEMMA StorageSizes == PointerSize \in Nat \ {0} /\ StorageBytes \in Nat /\ StorageBytes >= PointerSize
  <1>1. PointerSize \in Nat \ {0} /\ StorageSlots \in Nat \ {0}
    BY ImageAssumption, OnExitAssumption
  <1>2. StorageSlots * PointerSize \in Nat /\ StorageSlots * PointerSize >= PointerSize
    BY <1>1, SMT
  <1>3. QED
    BY <1>1, <1>2 DEF StorageBytes

\* Encoded pointers are words.
LEMMA EncodedIsWord ==
  ASSUME IsCookie, NEW p \in Nat
  PROVE  EncodePointer(p) \in Nat
  <1> DEFINE back == (WordBits - Shift) % WordBits
  <1>1. cookie \in Nat /\ Shift \in Places /\ WordBits \in Nat \ {0}
    BY WordBitsIsNumber DEF IsCookie
  <1>2. back \in Places
    <2> DEFINE x == WordBits - Shift
    <2>1. x \in Nat /\ x < 2 * WordBits
      BY <1>1 DEF Places
    <2> HIDE DEF x
    <2>2. x % WordBits \in Places
      BY <2>1, AroundTheWord
    <2>3. QED
      BY <2>2 DEF x
  <1>3. EncodePointer(p) = Xor(RotateRight(p, back), cookie)
    BY DEF EncodePointer
  <1> HIDE DEF back
  <1>4. RotateRight(p, back) \in Nat
    BY <1>2, RotateBits
  <1>5. Xor(RotateRight(p, back), cookie) \in Nat
    BY <1>1, <1>4, XorBits
  <1>6. QED
    BY <1>3, <1>5

\* While the cookie stays, so does what the pointers mean.
LEMMA MeaningStays ==
  ASSUME cookie' = cookie
  PROVE  /\ \A x : DecodePointer(x)' = DecodePointer(x) /\ EncodePointer(x)' = EncodePointer(x)
         /\ \A w : Base(w)' = Base(w) /\ Top(w)' = Top(w) /\ Limit(w)' = Limit(w)
         /\ \A t, w, R : IsUnused(t, w, R)' <=> IsUnused(t, w, R)
         /\ \A t, w, R, s : UsesStorage(t, w, R, s)' <=> UsesStorage(t, w, R, s)
         /\ \A v, w : Apart(v, w)' <=> Apart(v, w)
  <1>1. \A x : DecodePointer(x)' = DecodePointer(x) /\ EncodePointer(x)' = EncodePointer(x)
    BY DEF DecodePointer, EncodePointer, Shift
  <1>2. \A w : Base(w)' = Base(w) /\ Top(w)' = Top(w) /\ Limit(w)' = Limit(w)
    BY <1>1 DEF Base, Top, Limit
  <1>3. \A t, w, R : IsUnused(t, w, R)' <=> IsUnused(t, w, R)
    BY DEF IsUnused
  <1>4. ASSUME NEW t, NEW w, NEW R, NEW s PROVE UsesStorage(t, w, R, s)' <=> UsesStorage(t, w, R, s)
    BY <1>1, <1>2 DEF UsesStorage
  <1>5. \A v, w : Apart(v, w)' <=> Apart(v, w)
    BY <1>2 DEF Apart
  <1>6. QED
    BY <1>1, <1>2, <1>3, <1>4, <1>5

LEMMA UnusedHasNoStorage ==
  ASSUME NEW t, NEW w, NEW R, NEW s, w.first = w.end
  PROVE  ~UsesStorage(t, w, R, s)
  BY DEF UsesStorage, Base, Limit

\* Places of the registered functions.
LEMMA EntriesAreInStorage ==
  ASSUME NEW t, NEW w, NEW R, NEW s, UsesStorage(t, w, R, s), Len(R) \in Nat, NEW i \in 1 .. Len(R)
  PROVE  /\ Base(w) + (i - 1) * PointerSize \in Base(w) .. (Limit(w) - 1)
         /\ Base(w) + (i - 1) * PointerSize < Top(w)
  <1>1. PointerSize \in Nat \ {0}
    BY StorageSizes
  <1>2. (i - 1) * PointerSize \in Nat /\ (i - 1) * PointerSize + PointerSize <= Len(R) * PointerSize
        /\ Len(R) * PointerSize \in Nat
    <2>1. (Len(R) - i) * PointerSize >= 0 /\ i - 1 \in Nat
      BY <1>1, SMT
    <2>2. (Len(R) - i) * PointerSize = Len(R) * PointerSize - ((i - 1) * PointerSize + PointerSize)
      BY <1>1, SMT
    <2>3. (i - 1) * PointerSize \in Nat /\ Len(R) * PointerSize \in Nat
      BY <1>1, <2>1, SMT
    <2>4. QED
      BY <1>1, <2>1, <2>2, <2>3
  <1>3. /\ Base(w) \in Nat /\ Limit(w) \in Nat
        /\ Top(w) = Base(w) + Len(R) * PointerSize /\ Top(w) <= Limit(w)
    BY DEF UsesStorage
  <1>4. QED
    BY <1>1, <1>2, <1>3

LEMMA StorageUntouched ==
  ASSUME NEW t, NEW w, NEW R, NEW s, NEW r, UsesStorage(t, w, R, s), Len(R) \in Nat,
         \A a \in Base(w) .. (Limit(w) - 1) : r[a] = s[a]
  PROVE  UsesStorage(t, w, R, r)
  <1>1. ASSUME NEW i \in 1 .. Len(R) PROVE DecodePointer(r[Base(w) + (i - 1) * PointerSize]) = R[i]
    <2>1. r[Base(w) + (i - 1) * PointerSize] = s[Base(w) + (i - 1) * PointerSize]
      BY EntriesAreInStorage
    <2>2. DecodePointer(s[Base(w) + (i - 1) * PointerSize]) = R[i]
      BY DEF UsesStorage
    <2>3. QED
      BY <2>1, <2>2
  <1>2. QED
    BY <1>1 DEF UsesStorage

\* A step that changes one table: what is to be shown of it.
LEMMA OneTableChanges ==
  ASSUME ExitInv, NEW t \in Tables, NEW w \in Pointers, NEW R \in Seq(OnExitFunctions),
         NEW s \in [SlotAddresses -> Nat],
         cookie' = cookie, tables' = [tables EXCEPT ![t] = w],
         registered' = [registered EXCEPT ![t] = R], slots' = s,
         IsUnused(t, w, R) \/ UsesStorage(t, w, R, s),
         \A u \in Tables \ {t} :
           UsesStorage(u, tables[u], registered[u], slots) =>
             /\ \A a \in Base(tables[u]) .. (Limit(tables[u]) - 1) : s[a] = slots[a]
             /\ UsesStorage(t, w, R, s) => Apart(tables[u], w),
         HasBlock(t) => R # <<>> /\ Base(w) = Base(tables[t]),
         storage' = IF R # <<>> /\ t \notin DOMAIN Preset THEN storage \cup {Base(w)} ELSE storage
  PROVE  ExitInv'
  <1>1. /\ tables'[t] = w /\ registered'[t] = R
        /\ \A u \in Tables \ {t} : tables'[u] = tables[u] /\ registered'[u] = registered[u]
    BY DEF ExitInv
  <1>2. tables' \in [Tables -> Pointers] /\ registered' \in [Tables -> Seq(OnExitFunctions)]
    BY DEF ExitInv
  <1>3. slots' \in [SlotAddresses -> Nat] /\ cookie' \in Cookies
    BY DEF ExitInv
  <1>4. ASSUME NEW u \in Tables \ {t}, UsesStorage(u, tables[u], registered[u], slots)
        PROVE  UsesStorage(u, tables[u], registered[u], s)
    <2>1. registered[u] \in Seq(OnExitFunctions)
      BY DEF ExitInv
    <2>2. Len(registered[u]) \in Nat
      BY <2>1, LenProperties
    <2>3. QED
      BY <1>4, <2>2, StorageUntouched
  <1>5. ASSUME NEW u \in Tables
        PROVE  \/ IsUnused(u, tables'[u], registered'[u])
               \/ UsesStorage(u, tables'[u], registered'[u], s)
    <2>1. CASE u = t
      BY <1>1, <2>1
    <2>2. CASE u # t
      <3>1. tables'[u] = tables[u] /\ registered'[u] = registered[u] /\ u \in Tables \ {t}
        BY <1>1, <2>2
      <3>2. \/ IsUnused(u, tables[u], registered[u])
            \/ UsesStorage(u, tables[u], registered[u], slots)
        BY DEF ExitInv
      <3>3. QED
        BY <1>4, <3>1, <3>2
    <2>3. QED
      BY <2>1, <2>2
  <1>6. ASSUME NEW u \in Tables \ {t}, UsesStorage(u, tables'[u], registered'[u], s)
        PROVE  UsesStorage(u, tables[u], registered[u], slots)
    <2>1. UsesStorage(u, tables[u], registered[u], s)
      BY <1>1, <1>6
    <2>2. \/ IsUnused(u, tables[u], registered[u])
          \/ UsesStorage(u, tables[u], registered[u], slots)
      BY DEF ExitInv
    <2>3. IsUnused(u, tables[u], registered[u]) => tables[u].first = tables[u].end
      BY DEF IsUnused
    <2>4. QED
      BY <2>1, <2>2, <2>3, UnusedHasNoStorage
  <1>7. ASSUME NEW u \in Tables, NEW v \in Tables, u # v,
               UsesStorage(u, tables'[u], registered'[u], s),
               UsesStorage(v, tables'[v], registered'[v], s)
        PROVE  Apart(tables'[u], tables'[v])
    <2>1. CASE u = t
      <3>1. v \in Tables \ {t}
        BY <1>7, <2>1
      <3>2. UsesStorage(v, tables[v], registered[v], slots)
        BY <1>6, <1>7, <3>1
      <3>3. Apart(tables[v], w)
        BY <1>1, <1>7, <2>1, <3>1, <3>2
      <3>4. QED
        BY <1>1, <2>1, <3>1, <3>3 DEF Apart
    <2>2. CASE v = t
      <3>1. u \in Tables \ {t}
        BY <1>7, <2>2
      <3>2. UsesStorage(u, tables[u], registered[u], slots)
        BY <1>6, <1>7, <3>1
      <3>3. Apart(tables[u], w)
        BY <1>1, <1>7, <2>2, <3>1, <3>2
      <3>4. QED
        BY <1>1, <2>2, <3>1, <3>3 DEF Apart
    <2>3. CASE u # t /\ v # t
      <3>1. u \in Tables \ {t} /\ v \in Tables \ {t}
        BY <2>3
      <3>2. /\ UsesStorage(u, tables[u], registered[u], slots)
            /\ UsesStorage(v, tables[v], registered[v], slots)
        BY <1>6, <1>7, <3>1
      <3>3. Apart(tables[u], tables[v])
        BY <1>7, <3>2 DEF ExitInv
      <3>4. QED
        BY <1>1, <3>1, <3>3
    <2>4. QED
      BY <2>1, <2>2, <2>3
  <1>8. storage' = {Base(tables'[u]) : u \in {v \in Tables : registered'[v] # <<>> /\ v \notin DOMAIN Preset}}
    <2> DEFINE Old == {u \in Tables : registered[u] # <<>> /\ u \notin DOMAIN Preset}
               New == {u \in Tables : registered'[u] # <<>> /\ u \notin DOMAIN Preset}
    <2>1. storage = {Base(tables[u]) : u \in Old}
      BY DEF ExitInv, HasBlock
    <2>2. t \in Old => R # <<>> /\ Base(w) = Base(tables[t])
      BY DEF HasBlock
    <2>3. \A u \in Tables \ {t} : u \in Old <=> u \in New
      BY <1>1
    <2>4. t \in New <=> R # <<>> /\ t \notin DOMAIN Preset
      BY <1>1
    <2>5. ASSUME NEW x \in storage' PROVE x \in {Base(tables'[u]) : u \in New}
      <3>1. CASE x \in storage
        <4>1. PICK u \in Old : x = Base(tables[u])
          BY <2>1, <3>1
        <4>2. CASE u = t
          BY <1>1, <2>2, <2>4, <4>1, <4>2
        <4>3. CASE u # t
          <5>1. u \in New /\ tables'[u] = tables[u]
            BY <1>1, <2>3, <4>1, <4>3
          <5>2. QED
            BY <4>1, <5>1
        <4>4. QED
          BY <4>2, <4>3
      <3>2. CASE x \notin storage
        <4>1. R # <<>> /\ t \notin DOMAIN Preset /\ x = Base(w)
          BY <2>5, <3>2
        <4>2. QED
          BY <1>1, <2>4, <4>1
      <3>3. QED
        BY <3>1, <3>2
    <2>6. ASSUME NEW u \in New PROVE Base(tables'[u]) \in storage'
      <3>1. CASE u = t
        BY <1>1, <2>4, <3>1
      <3>2. CASE u # t
        <4>1. u \in Old /\ tables'[u] = tables[u]
          BY <1>1, <2>3, <3>2
        <4>2. Base(tables[u]) \in storage
          BY <2>1, <4>1
        <4>3. QED
          BY <4>1, <4>2
      <3>3. QED
        BY <3>1, <3>2
    <2>7. QED
      BY <2>5, <2>6
  <1>9. /\ \A x : DecodePointer(x)' = DecodePointer(x)
        /\ \A x : Base(x)' = Base(x)
        /\ \A x, y, z : IsUnused(x, y, z)' <=> IsUnused(x, y, z)
        /\ \A x, y, z, v : UsesStorage(x, y, z, v)' <=> UsesStorage(x, y, z, v)
        /\ \A x, y : Apart(x, y)' <=> Apart(x, y)
    BY MeaningStays
  <1>10. (\A u \in Tables : \/ IsUnused(u, tables[u], registered[u])
                            \/ UsesStorage(u, tables[u], registered[u], slots))'
    BY <1>5, <1>9
  <1>11. (\A u, v \in Tables : /\ u # v
                               /\ UsesStorage(u, tables[u], registered[u], slots)
                               /\ UsesStorage(v, tables[v], registered[v], slots)
                               => Apart(tables[u], tables[v]))'
    BY <1>7, <1>9
  <1>12. (storage = {Base(tables[u]) : u \in {v \in Tables : HasBlock(v)}})'
    BY <1>8, <1>9 DEF HasBlock
  <1>13. QED
    BY <1>2, <1>3, <1>10, <1>11, <1>12 DEF ExitInv

LEMMA CookieFacts ==
  ASSUME ExitInv
  PROVE  IsCookie /\ cookie \in Nat
  BY CookiesAreWords DEF ExitInv, IsCookie

\* Initialising a table that has storage leaves it alone, and one that has none
\* without any.
LEMMA InitializeKeeps ==
  ASSUME ExitInv, NEW t \in Tables, InitializeTable(t)
  PROVE  ExitInv'
  <1> DEFINE old == tables[t]
             R == registered[t]
             none == [first |-> cookie, last |-> cookie, end |-> cookie]
             w == IF old.first # old.end THEN old ELSE none
  <1>1. /\ old \in Pointers /\ R \in Seq(OnExitFunctions) /\ none \in Pointers
        /\ slots \in [SlotAddresses -> Nat]
    BY CookieFacts DEF ExitInv, Pointers
  <1>2. /\ cookie' = cookie /\ tables' = [tables EXCEPT ![t] = w]
        /\ slots' = slots /\ storage' = storage
    BY DEF InitializeTable, ExitInv
  <1>3. registered' = [registered EXCEPT ![t] = R]
    BY DEF InitializeTable, ExitInv
  <1>4. w \in Pointers
    BY <1>1
  <1>5. \/ IsUnused(t, old, R) /\ w = none /\ R = <<>>
        \/ UsesStorage(t, old, R, slots) /\ w = old
    <2>1. IsUnused(t, old, R) \/ UsesStorage(t, old, R, slots)
      BY DEF ExitInv
    <2>2. CASE IsUnused(t, old, R)
      BY <2>2 DEF IsUnused
    <2>3. CASE UsesStorage(t, old, R, slots)
      BY <2>3, UnusedHasNoStorage
    <2>4. QED
      BY <2>1, <2>2, <2>3
  <1>6. none.first = none.end
    OBVIOUS
  <1>7. IsUnused(t, none, <<>>) \/ t \in DOMAIN Preset
    BY DEF IsUnused
  <1>8. IsUnused(t, old, R) => t \notin DOMAIN Preset
    BY DEF IsUnused
  <1> HIDE DEF w, none, old, R
  <1>9. IsUnused(t, w, R) \/ UsesStorage(t, w, R, slots)
    BY <1>5, <1>7, <1>8
  <1>10. ASSUME NEW u \in Tables \ {t}, UsesStorage(u, tables[u], registered[u], slots)
         PROVE  UsesStorage(t, w, R, slots) => Apart(tables[u], w)
    <2> SUFFICES ASSUME UsesStorage(t, w, R, slots) PROVE Apart(tables[u], w)
      OBVIOUS
    <2>1. w = old /\ UsesStorage(t, old, R, slots)
      BY <1>5, <1>6, UnusedHasNoStorage
    <2>2. QED
      BY <1>10, <2>1 DEF ExitInv, old, R
  <1>11. HasBlock(t) => R # <<>> /\ Base(w) = Base(tables[t])
    BY <1>5 DEF HasBlock, old, R
  <1>12. storage' = IF R # <<>> /\ t \notin DOMAIN Preset THEN storage \cup {Base(w)} ELSE storage
    <2>1. CASE R # <<>> /\ t \notin DOMAIN Preset
      <3>1. HasBlock(t) /\ Base(w) = Base(tables[t])
        BY <1>11, <2>1 DEF HasBlock, R
      <3>2. Base(tables[t]) \in storage
        BY <3>1 DEF ExitInv
      <3>3. QED
        BY <1>2, <2>1, <3>1, <3>2
    <2>2. QED
      BY <1>2, <2>1
  <1>13. QED
    BY <1>1, <1>2, <1>3, <1>4, <1>9, <1>10, <1>11, <1>12, OneTableChanges

LEMMA Refusals ==
  ASSUME ExitInv, NEW t \in Tables, NEW f, NEW base \in Nat, RegisterRefused(t, f, base)
  PROVE  UNCHANGED <<cookie, tables, slots, storage, registered>>
  <1>1. base \notin storage
    <2> SUFFICES ASSUME base \in storage PROVE FALSE
      OBVIOUS
    <2>1. base < base + StorageBytes
      BY StorageSizes
    <2>2. Outstanding(base)
      BY <2>1 DEF Outstanding
    <2>3. QED
      BY <2>2 DEF RegisterRefused
  <1>2. QED
    BY <1>1 DEF RegisterRefused

\* The first function of a table: the block is nobody's, neither another
\* table's nor in the image.
LEMMA FirstKeeps ==
  ASSUME ExitInv, NEW t \in Tables, NEW f \in OnExitFunctions, NEW base \in PoolBases,
         RegisterFirst(t, f, base)
  PROVE  ExitInv'
  <1> DEFINE w == [first |-> EncodePointer(base), last |-> EncodePointer(base + PointerSize),
                   end |-> EncodePointer(base + StorageBytes)]
             R == Append(registered[t], f)
             s == [a \in SlotAddresses |->
                     IF a = base THEN EncodePointer(f)
                     ELSE IF a > base /\ a < base + StorageBytes /\ a % PointerSize = 0
                            THEN cookie ELSE slots[a]]
             limit == base + StorageBytes
  <1>1. /\ base \in Nat /\ f \in Nat /\ IsCookie /\ cookie \in Nat
        /\ slots \in [SlotAddresses -> Nat] /\ registered[t] \in Seq(OnExitFunctions)
        /\ PointerSize \in Nat \ {0} /\ StorageBytes \in Nat /\ StorageBytes >= PointerSize
        /\ WordMax \in Nat
    BY CookieFacts, StorageSizes, WordMaxIs, OnExitAssumption DEF ExitInv
  <1>2. IsUnused(t, tables[t], registered[t])
    <2>1. IsEmpty(t)
      BY DEF RegisterFirst, RegisterStatus
    <2>2. Base(tables[t]) = 0
      BY <2>1 DEF IsEmpty, FirstOf, Base
    <2>3. ~UsesStorage(t, tables[t], registered[t], slots)
      BY <2>2 DEF UsesStorage
    <2>4. QED
      BY <2>3 DEF ExitInv
  <1>3. t \notin DOMAIN Preset /\ registered[t] = <<>>
    BY <1>2 DEF IsUnused
  <1>4. R \in Seq(OnExitFunctions) /\ Len(R) = 1 /\ R[1] = f /\ R # <<>>
    BY <1>3
  <1>5. /\ EncodePointer(base) \in Nat /\ EncodePointer(base + PointerSize) \in Nat
        /\ EncodePointer(limit) \in Nat /\ EncodePointer(f) \in Nat
    <2>1. base + PointerSize \in Nat /\ limit \in Nat
      BY <1>1
    <2> HIDE DEF limit
    <2>2. QED
      BY <1>1, <2>1, EncodedIsWord
  <1>6. w \in Pointers
    BY <1>5 DEF Pointers
  <1>7. s \in [SlotAddresses -> Nat]
    BY <1>1, <1>5
  <1>8. /\ base # 0 /\ limit <= WordMax
        /\ \A r \in ImageRegions : ~RangesOverlap(base, limit, r)
        /\ Encodable({f, base, base + PointerSize, limit})
    <2>1. UsableStorage(base, f)
      BY DEF RegisterFirst
    <2>2. base <= WordMax - StorageBytes /\ IsRange(base, limit)
      BY <2>1 DEF UsableStorage
    <2>3. base # 0 /\ limit <= WordMax
      BY <1>1, <2>2 DEF IsRange
    <2>4. QED
      BY <2>1, <2>3 DEF UsableStorage
  <1>9. /\ Base(w) = base /\ Top(w) = base + PointerSize /\ Limit(w) = limit
        /\ w.first = EncodePointer(base) /\ w.first # 0 /\ DecodePointer(EncodePointer(f)) = f
    BY <1>8 DEF Encodable, Base, Top, Limit
  <1>10. base < limit /\ limit \in Nat /\ base + PointerSize <= limit
    BY <1>1
  <1>11. DecodePointer(s[base]) = f
    <2>1. base \in SlotAddresses
      BY <1>1, <1>8, <1>10 DEF SlotAddresses
    <2>2. s[base] = EncodePointer(f)
      BY <2>1
    <2>3. QED
      BY <1>9, <2>2
  <1>12. /\ cookie' = cookie /\ tables' = [tables EXCEPT ![t] = w] /\ slots' = s
         /\ registered' = [registered EXCEPT ![t] = R] /\ storage' = storage \cup {base}
    BY DEF RegisterFirst, ExitInv
  <1>13. \A a \in SlotAddresses : a < base \/ a >= limit => s[a] = slots[a]
    BY <1>1, <1>10 DEF SlotAddresses
  <1> HIDE DEF w, R, s
  <1>14. UsesStorage(t, w, R, s)
    <2>1. /\ Base(w) \in Nat \ {0} /\ Limit(w) \in Nat /\ Limit(w) <= WordMax
          /\ Base(w) < Limit(w) /\ Top(w) <= Limit(w)
      BY <1>1, <1>8, <1>9, <1>10
    <2>2. Top(w) = Base(w) + Len(R) * PointerSize
      BY <1>1, <1>4, <1>9
    <2>3. ASSUME NEW i \in 1 .. Len(R)
          PROVE  DecodePointer(s[Base(w) + (i - 1) * PointerSize]) = R[i]
      <3>1. i = 1
        BY <1>4
      <3>2. (i - 1) * PointerSize = 0
        BY <1>1, <3>1
      <3>3. Base(w) + (i - 1) * PointerSize = base
        BY <1>1, <1>9, <3>2
      <3>4. QED
        BY <1>4, <1>11, <3>1, <3>3
    <2>4. Limit(w) = Base(w) + StorageBytes
      BY <1>9
    <2>5. QED
      BY <1>3, <1>4, <1>9, <2>1, <2>2, <2>3, <2>4 DEF UsesStorage
  <1>15. ASSUME NEW u \in Tables \ {t}, UsesStorage(u, tables[u], registered[u], slots)
         PROVE  /\ \A a \in Base(tables[u]) .. (Limit(tables[u]) - 1) : s[a] = slots[a]
                /\ Apart(tables[u], w)
    <2> DEFINE b == Base(tables[u])
               l == Limit(tables[u])
    <2>1. b \in Nat /\ l \in Nat /\ b < l /\ l <= WordMax
      BY <1>15 DEF UsesStorage
    <2>2. l <= base \/ limit <= b
      <3>1. CASE u \in DOMAIN Preset
        <4>1. b = Preset[u][1] /\ l = Preset[u][2]
          BY <1>15, <3>1 DEF UsesStorage
        <4>2. PICK r \in ImageRegions : r.base <= Preset[u][1] /\ Preset[u][2] <= r.end
          BY <3>1, OnExitAssumption
        <4>3. ~(base < r.end /\ r.base < limit)
          BY <1>8 DEF RangesOverlap
        <4>4. r.base \in Nat /\ r.end \in Nat
          BY ImageAssumption
        <4> HIDE DEF limit, b, l
        <4>5. r.base <= b /\ l <= r.end
          BY <4>1, <4>2
        <4>6. QED
          BY <1>1, <1>10, <2>1, <4>3, <4>4, <4>5
      <3>2. CASE u \notin DOMAIN Preset
        <4>1. l = b + StorageBytes /\ registered[u] # <<>>
          BY <1>15, <3>2 DEF UsesStorage
        <4>2. b \in storage
          <5>1. HasBlock(u) /\ u \in Tables
            BY <3>2, <4>1 DEF HasBlock
          <5>2. storage = {Base(tables[v]) : v \in {x \in Tables : HasBlock(x)}}
            BY DEF ExitInv
          <5>3. QED
            BY <5>1, <5>2
        <4>3. ~(base < b + StorageBytes /\ b < limit)
          BY <4>2 DEF RegisterFirst, Outstanding
        <4> HIDE DEF limit, b, l
        <4>4. QED
          BY <1>1, <1>10, <2>1, <4>1, <4>3
      <3>3. QED
        BY <3>1, <3>2
    <2>3. \A a \in b .. (l - 1) : a \in SlotAddresses /\ (a < base \/ a >= limit)
      <3> HIDE DEF b, l, limit
      <3>1. QED
        BY <1>1, <1>10, <2>1, <2>2 DEF SlotAddresses
    <2>4. QED
      BY <1>9, <1>13, <2>2, <2>3 DEF Apart
  <1>16. ~HasBlock(t)
    BY <1>3 DEF HasBlock
  <1>17. storage' = IF R # <<>> /\ t \notin DOMAIN Preset THEN storage \cup {Base(w)} ELSE storage
    BY <1>3, <1>4, <1>9, <1>12
  <1>18. QED
    BY <1>4, <1>6, <1>7, <1>12, <1>14, <1>15, <1>16, <1>17, OneTableChanges

\* Between two aligned addresses there is room for a pointer.
LEMMA AlignedRoom ==
  ASSUME NEW p \in Nat \ {0}, NEW a \in Nat, NEW b \in Nat, a < b, a % p = 0, b % p = 0
  PROVE  a + p <= b
  <1> DEFINE m == a \div p
             n == b \div p
  <1>1. m \in Int /\ n \in Int /\ a = p * m /\ b = p * n
    BY Division
  <1> HIDE DEF m, n
  <1>2. n >= m + 1
    <2> SUFFICES ASSUME n <= m PROVE FALSE
      BY <1>1
    <2>1. p * (m - n) >= 0
      BY <1>1, SMT
    <2>2. p * (m - n) = p * m - p * n
      BY <1>1, SMT
    <2>3. QED
      BY <1>1, <2>1, <2>2
  <1>3. p * (n - (m + 1)) >= 0
    BY <1>1, <1>2, SMT
  <1>4. p * (n - (m + 1)) = p * n - (p * m + p)
    BY <1>1, SMT
  <1>5. QED
    BY <1>1, <1>3, <1>4

LEMMA AppendStatus ==
  ASSUME NEW t, NEW f, RegisterAppend(t, f)
  PROVE  /\ Top(tables[t]) # Limit(tables[t])
         /\ Top(tables[t]) % PointerSize = 0 /\ Limit(tables[t]) % PointerSize = 0
  <1>1. RegisterStatus(t, f) = "APPEND"
    BY DEF RegisterAppend
  <1>2. LastOf(t) # EndOf(t) /\ LastOf(t) % PointerSize = 0 /\ EndOf(t) % PointerSize = 0
    BY <1>1 DEF RegisterStatus
  <1>3. QED
    BY <1>2 DEF LastOf, EndOf, Top, Limit

\* Another function behind the last one.
LEMMA AppendKeeps ==
  ASSUME ExitInv, NEW t \in Tables, NEW f \in OnExitFunctions, RegisterAppend(t, f)
  PROVE  ExitInv'
  <1> DEFINE old == tables[t]
             Q == registered[t]
             top == Top(old)
             code == EncodePointer(top + PointerSize)
             w == [old EXCEPT !.last = code]
             R == Append(Q, f)
             s == [slots EXCEPT ![top] = EncodePointer(f)]
  <1>1. /\ f \in Nat /\ IsCookie /\ old \in Pointers
        /\ slots \in [SlotAddresses -> Nat] /\ Q \in Seq(OnExitFunctions)
        /\ PointerSize \in Nat \ {0} /\ WordMax \in Nat
    BY CookieFacts, StorageSizes, WordMaxIs, OnExitAssumption DEF ExitInv
  <1>2. top # Limit(old) /\ top % PointerSize = 0 /\ Limit(old) % PointerSize = 0
    BY AppendStatus
  <1>3. UsesStorage(t, old, Q, slots)
    <2>1. ~IsUnused(t, old, Q)
      BY <1>2 DEF IsUnused, Top, Limit
    <2>2. QED
      BY <2>1 DEF ExitInv
  <1>4. Len(Q) \in Nat /\ Len(Q) * PointerSize \in Nat
    <2>1. Len(Q) \in Nat
      BY <1>1, LenProperties
    <2>2. QED
      BY <1>1, <2>1, SMT
  <1>5. /\ Base(old) \in Nat \ {0} /\ Limit(old) \in Nat /\ Limit(old) <= WordMax
        /\ Base(old) < Limit(old)
        /\ top = Base(old) + Len(Q) * PointerSize /\ top <= Limit(old)
        /\ old.first = EncodePointer(Base(old))
    BY <1>3 DEF UsesStorage
  <1>6. /\ top \in Nat /\ Base(old) <= top /\ top < Limit(old)
    BY <1>2, <1>4, <1>5
  <1>7. top + PointerSize <= Limit(old)
    BY <1>1, <1>2, <1>5, <1>6, AlignedRoom
  <1>8. top \in SlotAddresses
    BY <1>1, <1>5, <1>6 DEF SlotAddresses
  <1>9. /\ DecodePointer(code) = top + PointerSize /\ DecodePointer(EncodePointer(f)) = f
        /\ old.first # 0
    <2>1. Encodable({f, FirstOf(t), LastOf(t) + PointerSize, EndOf(t)})
      BY DEF RegisterAppend
    <2>2. FirstOf(t) = Base(old) /\ LastOf(t) = top
      BY DEF FirstOf, LastOf, Base, Top
    <2>3. QED
      BY <1>5, <2>1, <2>2 DEF Encodable
  <1>10. EncodePointer(f) \in Nat /\ code \in Nat
    <2>1. top + PointerSize \in Nat
      BY <1>1, <1>6
    <2>2. QED
      BY <1>1, <2>1, EncodedIsWord
  <1>11. w \in Pointers /\ w.first = old.first /\ w.last = code /\ w.end = old.end
    BY <1>1, <1>10 DEF Pointers
  <1>12. s \in [SlotAddresses -> Nat]
    BY <1>1, <1>8, <1>10
  <1>13. /\ R \in Seq(OnExitFunctions) /\ Len(R) = Len(Q) + 1 /\ R[Len(R)] = f /\ R # <<>>
         /\ \A i \in 1 .. Len(Q) : R[i] = Q[i]
    <2>1. R \in Seq(OnExitFunctions) /\ Len(R) = Len(Q) + 1
      BY <1>1
    <2>2. \A i \in 1 .. Len(Q) : R[i] = Q[i]
      BY <1>1, <1>4
    <2>3. R[Len(Q) + 1] = f
      BY <1>1, <1>4
    <2>4. R # <<>>
      BY <1>4, <2>1
    <2>5. QED
      BY <2>1, <2>2, <2>3, <2>4
  <1>14. /\ cookie' = cookie /\ tables' = [tables EXCEPT ![t] = w] /\ slots' = s
         /\ registered' = [registered EXCEPT ![t] = R] /\ storage' = storage
    BY DEF RegisterAppend, ExitInv, LastOf, Top
  <1>15. s[top] = EncodePointer(f) /\ \A a \in SlotAddresses : a # top => s[a] = slots[a]
    BY <1>1, <1>8
  <1>16. Base(w) = Base(old) /\ Limit(w) = Limit(old) /\ Top(w) = top + PointerSize
    BY <1>9, <1>11 DEF Base, Top, Limit
  <1> HIDE DEF w, R, s, Q, old, top, code
  <1>17. UsesStorage(t, w, R, s)
    <2>1. Top(w) = Base(w) + Len(R) * PointerSize
      <3>1. (Len(Q) + 1) * PointerSize = Len(Q) * PointerSize + PointerSize
        BY <1>1, <1>4, SMT
      <3> DEFINE x == Len(Q) * PointerSize
      <3>2. Len(R) * PointerSize = x + PointerSize
        BY <1>13, <3>1
      <3>3. /\ x \in Nat /\ Base(old) \in Nat /\ PointerSize \in Nat
            /\ top = Base(old) + x /\ Top(w) = top + PointerSize
        BY <1>1, <1>4, <1>5, <1>16
      <3> HIDE DEF x
      <3>4. Top(w) = Base(old) + (x + PointerSize)
        BY <3>3
      <3>5. QED
        BY <1>16, <3>2, <3>4
    <2>2. ASSUME NEW i \in 1 .. Len(R)
          PROVE  DecodePointer(s[Base(w) + (i - 1) * PointerSize]) = R[i]
      <3>1. CASE i = Len(R)
        <4>1. i - 1 = Len(Q)
          BY <1>4, <1>13, <3>1
        <4>2. Base(w) + (i - 1) * PointerSize = top
          BY <1>5, <1>16, <4>1
        <4>3. QED
          BY <1>9, <1>13, <1>15, <3>1, <4>2
      <3>2. CASE i # Len(R)
        <4> DEFINE place == Base(old) + (i - 1) * PointerSize
        <4>1. i \in 1 .. Len(Q)
          BY <1>4, <1>13, <3>2
        <4>2. place \in Base(old) .. (Limit(old) - 1) /\ place < Top(old)
          BY <1>3, <1>4, <4>1, EntriesAreInStorage
        <4>3. DecodePointer(slots[place]) = Q[i]
          BY <1>3, <4>1 DEF UsesStorage
        <4> HIDE DEF place
        <4>4. place \in SlotAddresses /\ place # top
          BY <1>1, <1>5, <1>6, <4>2 DEF SlotAddresses, top
        <4>5. DecodePointer(s[place]) = R[i]
          BY <1>13, <1>15, <4>1, <4>3, <4>4
        <4>6. QED
          BY <1>16, <4>5 DEF place
      <3>3. QED
        BY <3>1, <3>2
    <2>3. /\ t \in DOMAIN Preset => Base(w) = Preset[t][1] /\ Limit(w) = Preset[t][2]
          /\ t \notin DOMAIN Preset => Limit(w) = Base(w) + StorageBytes
      BY <1>3, <1>16 DEF UsesStorage
    <2>4. QED
      BY <1>5, <1>7, <1>9, <1>11, <1>13, <1>16, <2>1, <2>2, <2>3 DEF UsesStorage
  <1>18. ASSUME NEW u \in Tables \ {t}, UsesStorage(u, tables[u], registered[u], slots)
         PROVE  /\ \A a \in Base(tables[u]) .. (Limit(tables[u]) - 1) : s[a] = slots[a]
                /\ Apart(tables[u], w)
    <2> DEFINE b == Base(tables[u])
               l == Limit(tables[u])
    <2>1. b \in Nat /\ l \in Nat /\ b < l /\ l <= WordMax
      BY <1>18 DEF UsesStorage
    <2>2. Apart(tables[u], old)
      BY <1>3, <1>18 DEF ExitInv, old, Q
    <2>3. l <= Base(old) \/ Limit(old) <= b
      BY <2>2 DEF Apart
    <2>4. Apart(tables[u], w)
      BY <1>16, <2>2 DEF Apart
    <2> HIDE DEF b, l
    <2>5. \A a \in b .. (l - 1) : a \in SlotAddresses /\ a # top
      BY <1>1, <1>5, <1>6, <2>1, <2>3, SMTT(30) DEF SlotAddresses
    <2>6. QED
      BY <1>15, <2>4, <2>5 DEF b, l
  <1>19. HasBlock(t) => R # <<>> /\ Base(w) = Base(tables[t])
    BY <1>13, <1>16 DEF old
  <1>20. storage' = IF R # <<>> /\ t \notin DOMAIN Preset THEN storage \cup {Base(w)} ELSE storage
    <2>1. CASE t \notin DOMAIN Preset
      <3>1. HasBlock(t)
        BY <1>3, <2>1 DEF UsesStorage, HasBlock, Q
      <3>2. storage = {Base(tables[v]) : v \in {x \in Tables : HasBlock(x)}}
        BY DEF ExitInv
      <3>3. Base(w) \in storage
        BY <1>19, <3>1, <3>2
      <3>4. QED
        BY <1>13, <1>14, <2>1, <3>3
    <2>2. QED
      BY <1>14, <2>1
  <1>21. QED
    BY <1>11, <1>12, <1>13, <1>14, <1>17, <1>18, <1>19, <1>20, OneTableChanges

LEMMA PresetTables ==
  ASSUME IsCookie, NEW t \in DOMAIN Preset, NEW s
  PROVE  LET w == [first |-> EncodePointer(Preset[t][1]), last |-> EncodePointer(Preset[t][1]),
                   end |-> EncodePointer(Preset[t][2])]
         IN /\ w \in Pointers /\ UsesStorage(t, w, <<>>, s)
            /\ Base(w) = Preset[t][1] /\ Limit(w) = Preset[t][2]
  <1> DEFINE a == Preset[t][1]
             b == Preset[t][2]
             w == [first |-> EncodePointer(a), last |-> EncodePointer(a), end |-> EncodePointer(b)]
  <1>1. /\ a \in 0 .. WordMax /\ b \in 0 .. WordMax /\ a < b
        /\ \E r \in ImageRegions : r.base <= a /\ b <= r.end
    BY OnExitAssumption
  <1>2. WordMax = Pow(WordBits) - 1 /\ WordMax \in Nat /\ Pow(WordBits) \in Nat
    BY WordMaxIs
  <1>3. a > 0
    <2>1. PICK r \in ImageRegions : r.base <= a
      BY <1>1
    <2>2. r.base \in Nat /\ ImageBase <= r.base /\ ImageBase \in 1 .. (2^WordBits - 1)
      BY ImageAssumption
    <2>3. 2^WordBits - 1 \in Nat
      BY <1>2 DEF WordMax
    <2> HIDE DEF a
    <2>4. QED
      BY <1>1, <1>2, <2>1, <2>2, <2>3
  <1> HIDE DEF a, b
  <1>4. a \in Nat \ {0} /\ b \in Nat /\ a < Pow(WordBits) /\ b < Pow(WordBits)
    BY <1>1, <1>2, <1>3
  <1>5. DecodePointer(EncodePointer(a)) = a /\ DecodePointer(EncodePointer(b)) = b
    BY <1>4, DecodingUndoesEncoding
  <1>6. EncodePointer(a) \in Nat /\ EncodePointer(b) \in Nat
    BY <1>4, EncodedIsWord
  <1>7. w \in Pointers /\ Base(w) = a /\ Top(w) = a /\ Limit(w) = b /\ w.first = EncodePointer(a)
    BY <1>5, <1>6 DEF Pointers, Base, Top, Limit
  <1> HIDE DEF w
  <1>8. UsesStorage(t, w, <<>>, s)
    <2>1. Len(<<>>) = 0 /\ Len(<<>>) * PointerSize = 0
      BY StorageSizes
    <2>2. Top(w) = Base(w) + Len(<<>>) * PointerSize /\ Top(w) <= Limit(w)
      BY <1>1, <1>2, <1>4, <1>7, <2>1
    <2>3. \A i \in 1 .. Len(<<>>) : FALSE
      BY <2>1
    <2>4. Base(w) = Preset[t][1] /\ Limit(w) = Preset[t][2]
      BY <1>7 DEF a, b
    <2>5. Limit(w) <= WordMax
      BY <1>1, <1>2, <1>7
    <2>6. QED
      BY <1>1, <1>4, <1>7, <2>2, <2>3, <2>4, <2>5 DEF UsesStorage
  <1>9. QED
    BY <1>7, <1>8 DEF w, a, b

LEMMA ExitInitially == OnExitInit => ExitInv
  <1> SUFFICES ASSUME OnExitInit PROVE ExitInv
    OBVIOUS
  <1> DEFINE none == [first |-> 0, last |-> 0, end |-> 0]
  <1>1. IsCookie /\ cookie \in Cookies
    BY CookiesAreWords DEF OnExitInit
  <1>2. \A t \in Tables : registered[t] = <<>>
    BY DEF OnExitInit
  <1>3. registered \in [Tables -> Seq(OnExitFunctions)] /\ slots \in [SlotAddresses -> Nat]
    BY DEF OnExitInit
  <1>4. ASSUME NEW t \in DOMAIN Preset
        PROVE  /\ t \in Tables /\ tables[t] \in Pointers
               /\ UsesStorage(t, tables[t], <<>>, slots)
               /\ Base(tables[t]) = Preset[t][1] /\ Limit(tables[t]) = Preset[t][2]
    <2>1. t \in Tables
      BY OnExitAssumption
    <2>2. tables[t] = [first |-> EncodePointer(Preset[t][1]), last |-> EncodePointer(Preset[t][1]),
                       end |-> EncodePointer(Preset[t][2])]
      BY <2>1 DEF OnExitInit
    <2>3. QED
      BY <1>1, <2>1, <2>2, PresetTables
  <1>5. ASSUME NEW t \in Tables \ DOMAIN Preset
        PROVE  tables[t] = none /\ none \in Pointers /\ IsUnused(t, tables[t], <<>>)
    <2>1. tables[t] = none
      BY DEF OnExitInit
    <2>2. none \in Pointers
      BY DEF Pointers
    <2>3. IsUnused(t, none, <<>>)
      BY DEF IsUnused
    <2>4. QED
      BY <2>1, <2>2, <2>3
  <1>6. tables \in [Tables -> Pointers]
    <2>1. \A t \in Tables : tables[t] \in Pointers
      BY <1>4, <1>5
    <2>2. tables = [t \in Tables |-> tables[t]]
      BY DEF OnExitInit
    <2>3. QED
      BY <2>1, <2>2
  <1>7. \A t \in Tables : IsUnused(t, tables[t], registered[t])
                          \/ UsesStorage(t, tables[t], registered[t], slots)
    BY <1>2, <1>4, <1>5
  <1>8. ASSUME NEW t \in Tables, NEW u \in Tables, t # u,
               UsesStorage(t, tables[t], registered[t], slots),
               UsesStorage(u, tables[u], registered[u], slots)
        PROVE  Apart(tables[t], tables[u])
    <2>1. t \in DOMAIN Preset /\ u \in DOMAIN Preset
      <3>1. \A x \in Tables \ DOMAIN Preset : tables[x].first = tables[x].end
        BY <1>5
      <3>2. QED
        BY <1>8, <3>1, UnusedHasNoStorage
    <2>2. Preset[t][2] <= Preset[u][1] \/ Preset[u][2] <= Preset[t][1]
      BY <1>8, <2>1, OnExitAssumption
    <2>3. QED
      BY <1>4, <2>1, <2>2 DEF Apart
  <1>9. storage = {Base(tables[t]) : t \in {u \in Tables : HasBlock(u)}}
    BY <1>2 DEF OnExitInit, HasBlock
  <1>10. QED
    BY <1>1, <1>3, <1>6, <1>7, <1>8, <1>9 DEF ExitInv

LEMMA ExitStep == ExitInv /\ [OnExitNext]_onexitVars => ExitInv'
  <1> SUFFICES ASSUME ExitInv, [OnExitNext]_onexitVars PROVE ExitInv'
    OBVIOUS
  <1>1. CASE UNCHANGED <<cookie, tables, slots, storage, registered>>
    <2>1. cookie' = cookie /\ tables' = tables /\ slots' = slots /\ storage' = storage
          /\ registered' = registered
      BY <1>1
    <2>2. /\ \A x : Base(x)' = Base(x)
          /\ \A x, y, z : IsUnused(x, y, z)' <=> IsUnused(x, y, z)
          /\ \A x, y, z, v : UsesStorage(x, y, z, v)' <=> UsesStorage(x, y, z, v)
          /\ \A x, y : Apart(x, y)' <=> Apart(x, y)
      BY <2>1, MeaningStays
    <2>3. (\A t \in Tables : \/ IsUnused(t, tables[t], registered[t])
                             \/ UsesStorage(t, tables[t], registered[t], slots))'
      BY <2>1, <2>2 DEF ExitInv
    <2>4. (\A t, u \in Tables : /\ t # u
                                /\ UsesStorage(t, tables[t], registered[t], slots)
                                /\ UsesStorage(u, tables[u], registered[u], slots)
                                => Apart(tables[t], tables[u]))'
      BY <2>1, <2>2 DEF ExitInv
    <2>5. (storage = {Base(tables[t]) : t \in {u \in Tables : HasBlock(u)}})'
      BY <2>1, <2>2 DEF ExitInv, HasBlock
    <2>6. QED
      BY <2>1, <2>3, <2>4, <2>5 DEF ExitInv
  <1>2. ASSUME NEW t \in Tables, InitializeTable(t) PROVE ExitInv'
    BY <1>2, InitializeKeeps
  <1>3. ASSUME NEW t \in Tables, NEW f \in OnExitFunctions, RegisterAppend(t, f) PROVE ExitInv'
    BY <1>3, AppendKeeps
  <1>4. ASSUME NEW t \in Tables, NEW f \in OnExitFunctions, NEW base \in PoolBases,
               RegisterFirst(t, f, base)
        PROVE  ExitInv'
    BY <1>4, FirstKeeps
  <1>5. ASSUME NEW t \in Tables, NEW f \in OnExitFunctions, NEW base \in PoolBases,
               RegisterRefused(t, f, base)
        PROVE  ExitInv'
    <2>1. base \in Nat
      BY OnExitAssumption
    <2>2. QED
      BY <1>1, <1>5, <2>1, Refusals
  <1>6. QED
    BY <1>1, <1>2, <1>3, <1>4, <1>5 DEF OnExitNext, onexitVars

\* The invariant of the on-exit tables (gxos_crt_onexit_register_checked and
\* gxos_crt_onexit_initialize): a table is untouched or null, or it holds what
\* was registered in storage that is its own.
THEOREM ExitInvHolds == OnExitSpec => []ExitInv
  BY ExitInitially, ExitStep, PTL DEF OnExitSpec

LEMMA RegistrationsInOrder == ExitInv => RegisteredInOrder
  <1> SUFFICES ASSUME ExitInv, NEW t \in Tables
               PROVE  LET n == IF IsEmpty(t) \/ tables[t].first = 0 THEN 0
                               ELSE (LastOf(t) - FirstOf(t)) \div PointerSize
                      IN /\ n = Len(registered[t])
                         /\ \A i \in 1 .. n :
                              DecodePointer(slots[FirstOf(t) + (i - 1) * PointerSize])
                                = registered[t][i]
    BY DEF RegisteredInOrder
  <1> DEFINE w == tables[t]
             R == registered[t]
             n == IF IsEmpty(t) \/ tables[t].first = 0 THEN 0
                  ELSE (LastOf(t) - FirstOf(t)) \div PointerSize
  <1>1. FirstOf(t) = Base(w) /\ LastOf(t) = Top(w) /\ EndOf(t) = Limit(w)
    BY DEF FirstOf, LastOf, EndOf, Base, Top, Limit
  <1>2. CASE IsUnused(t, w, R)
    <2>1. R = <<>> /\ Len(R) = 0
      BY <1>2 DEF IsUnused
    <2>2. IsEmpty(t) \/ w.first = 0
      <3>1. CASE w.first = 0
        BY <3>1
      <3>2. CASE w.first # 0
        <4>1. w.first = cookie /\ w.last = cookie /\ w.end = cookie
          BY <1>2, <3>2 DEF IsUnused
        <4>2. DecodePointer(cookie) = 0
          BY CookieFacts, CookieIsNull
        <4>3. QED
          BY <4>1, <4>2 DEF IsEmpty, FirstOf, LastOf, EndOf
      <3>3. QED
        BY <3>1, <3>2
    <2>3. n = 0
      BY <2>2
    <2>4. QED
      BY <2>1, <2>3
  <1>3. CASE UsesStorage(t, w, R, slots)
    <2>1. /\ Base(w) \in Nat \ {0} /\ Top(w) = Base(w) + Len(R) * PointerSize
          /\ R # <<>> => w.first # 0
          /\ \A i \in 1 .. Len(R) : DecodePointer(slots[Base(w) + (i - 1) * PointerSize]) = R[i]
      BY <1>3 DEF UsesStorage
    <2>2. ~IsEmpty(t)
      BY <1>1, <2>1 DEF IsEmpty
    <2>3. Len(R) \in Nat /\ PointerSize \in Nat \ {0}
      <3>1. R \in Seq(OnExitFunctions)
        BY DEF ExitInv
      <3>2. QED
        BY <3>1, StorageSizes, LenProperties
    <2>4. n = Len(R)
      <3>1. CASE w.first = 0
        <4>1. n = 0 /\ R = <<>>
          BY <2>1, <3>1
        <4>2. QED
          BY <4>1
      <3>2. CASE w.first # 0
        <4> DEFINE k == Len(R)
                   x == PointerSize * k
        <4>1. x \in Nat /\ Len(R) * PointerSize = x
          BY <2>3, SMT
        <4>2. (PointerSize * k + 0) \div PointerSize = k
          <5> HIDE DEF k
          <5>1. k \in Int
            BY <2>3 DEF k
          <5>2. QED
            BY <2>3, <5>1, RemainderOf
        <4>3. x + 0 = x
          BY <4>1
        <4>4. x \div PointerSize = Len(R)
          BY <4>2, <4>3
        <4> HIDE DEF x, k
        <4>5. Top(w) - Base(w) = x
          BY <2>1, <4>1
        <4>6. n = (Top(w) - Base(w)) \div PointerSize
          BY <1>1, <2>2, <3>2
        <4>7. QED
          BY <4>4, <4>5, <4>6
      <3>3. QED
        BY <3>1, <3>2
    <2>5. QED
      BY <1>1, <2>1, <2>4
  <1>4. IsUnused(t, w, R) \/ UsesStorage(t, w, R, slots)
    BY DEF ExitInv
  <1>5. QED
    BY <1>2, <1>3, <1>4

LEMMA StorageIsOwned == ExitInv => StorageHasOneTable
  <1> SUFFICES ASSUME ExitInv PROVE StorageHasOneTable
    OBVIOUS
  <1>1. \A t : FirstOf(t) = Base(tables[t]) /\ EndOf(t) = Limit(tables[t])
    BY DEF FirstOf, EndOf, Base, Limit
  <1>2. storage = {FirstOf(t) : t \in {u \in Tables : HasBlock(u)}}
    BY <1>1 DEF ExitInv
  <1>3. ASSUME NEW t \in Tables, NEW u \in Tables, t # u, HasBlock(t), HasBlock(u)
        PROVE  EndOf(t) <= FirstOf(u) \/ EndOf(u) <= FirstOf(t)
    <2>1. /\ UsesStorage(t, tables[t], registered[t], slots)
          /\ UsesStorage(u, tables[u], registered[u], slots)
      BY <1>3 DEF ExitInv, IsUnused, HasBlock
    <2>2. Apart(tables[t], tables[u])
      BY <1>3, <2>1 DEF ExitInv
    <2>3. QED
      BY <1>1, <2>2 DEF Apart
  <1>4. QED
    BY <1>2, <1>3 DEF StorageHasOneTable, HasBlock

\* A table keeps what was registered with _register_onexit_function, in order
\* and in storage of its own, for every cookie and every word size.
THEOREM TablesStayFaithful == OnExitSpec => []TablesAreFaithful
  <1>1. ExitInv => TablesAreFaithful
    BY RegistrationsInOrder, StorageIsOwned DEF TablesAreFaithful
  <1>2. QED
    BY <1>1, ExitInvHolds, PTL
===============================================================================
