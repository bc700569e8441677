------------------------------- MODULE OnExit -------------------------------
(***************************************************************************)
(* The on-exit tables of src/src/Gate4Harness/crt_onexit.c and the two     *)
(* imports of gate4_loader.c in front of them.  A table is a triple of     *)
(* pointers in the image, encoded with the security cookie; its storage is *)
(* in the image or comes from the pool.                                    *)
(*                                                                         *)
(* The payload sets the cookie before its first call (external), so it is  *)
(* constant here.  The payload may also have given a table storage in its  *)
(* own image (external).                                                   *)
(***************************************************************************)
EXTENDS ImageMemory, Sequences

CONSTANTS
  Cookies,        \* values of the security cookie, not 0 (checked by efi_main)
  Tables,         \* addresses of the tables in the image
  Preset,         \* the tables that have storage in the image, as <<first, end>>
  OnExitFunctions,      \* what callers register, 0 included
  StorageSlots,   \* GXOS_CRT_ONEXIT_INITIAL_STORAGE_SLOTS, 32
  MaxInitialized, \* GXOS_CRT_ONEXIT_MAX_INITIALIZED_TABLES, 4
  PoolBases       \* the addresses the pool may return

ASSUME OnExitAssumption ==
  /\ Cookies \subseteq 1 .. (2^WordBits - 1)
  /\ StorageSlots \in Nat \ {0}
  /\ MaxInitialized \in Nat \ {0}
  /\ PoolBases \subseteq Nat /\ OnExitFunctions \subseteq Nat
  /\ DOMAIN Preset \subseteq Tables
  /\ \A t \in DOMAIN Preset :
       /\ Preset[t] \in (0 .. WordMax) \X (0 .. WordMax) /\ Preset[t][1] < Preset[t][2]
       /\ \E r \in ImageRegions : r.base <= Preset[t][1] /\ Preset[t][2] <= r.end
       /\ \A u \in DOMAIN Preset :
            t # u => Preset[t][2] <= Preset[u][1] \/ Preset[u][2] <= Preset[t][1]

\* What is used of exponentiation, which the provers know no law of.
ASSUME PowersOfTwo ==
  \A b \in 0 .. WordBits : 2^b \in Nat /\ 2^(b + 1) = 2 * 2^b

VARIABLES
  cookie,         \* *g_encoded_null_address
  tables,         \* the three encoded pointers of each table
  slots,          \* the words of the storage, by address
  initialized,    \* g_crt_onexit_initialized_tables
  storage,        \* the pool blocks that were not given back
  registered      \* history: the functions whose registration returned 0

onexitVars == <<cookie, tables, slots, initialized, storage, registered>>

-----------------------------------------------------------------------------
(* Words and the pointer encoding.                                         *)

Bit(w, b) == (w \div 2^b) % 2

\* The word with the bits f.
Word(f) ==
  LET sum[b \in 0 .. WordBits] ==
        IF b = 0 THEN 0 ELSE sum[b - 1] + f[b - 1] * 2^(b - 1)
  IN sum[WordBits]

Xor(v, w) == Word([b \in 0 .. (WordBits - 1) |-> (Bit(v, b) + Bit(w, b)) % 2])
RotateRight(w, n) ==
  Word([b \in 0 .. (WordBits - 1) |-> Bit(w, (b + n) % WordBits)])

Shift == cookie % WordBits

EncodePointer(p) == Xor(RotateRight(p, (WordBits - Shift) % WordBits), cookie)
DecodePointer(p) == RotateRight(Xor(p, cookie), Shift)

-----------------------------------------------------------------------------
(* The tables.                                                             *)

StorageBytes == StorageSlots * PointerSize
SlotAddresses == 0 .. WordMax

\* A table that has never been touched is zero, as .bss is.
OnExitInit ==
  /\ cookie \in Cookies
  /\ tables = [t \in Tables |->
       IF t \in DOMAIN Preset
         THEN [first |-> EncodePointer(Preset[t][1]),
               last |-> EncodePointer(Preset[t][1]),
               end |-> EncodePointer(Preset[t][2])]
         ELSE [first |-> 0, last |-> 0, end |-> 0]]
  /\ slots = [a \in SlotAddresses |-> 0]
  /\ initialized = <<>>
  /\ storage = {}
  /\ registered = [t \in Tables |-> <<>>]

-----------------------------------------------------------------------------
(* _initialize_onexit_table.                                               *)

\* platform_initialize_onexit_table records every table it returns 0 for, one
\* that it has recorded before included, as long as the list has room.
InitializeTable(t) ==
  /\ tables' = [tables EXCEPT ![t] =
       IF @.first # @.end THEN @
       ELSE [first |-> cookie, last |-> cookie, end |-> cookie]]
  /\ initialized' = IF Len(initialized) < MaxInitialized
                      THEN Append(initialized, t) ELSE initialized
  /\ UNCHANGED <<cookie, slots, storage, registered>>

-----------------------------------------------------------------------------
(* _register_onexit_function.                                              *)

FirstOf(t) == DecodePointer(tables[t].first)
LastOf(t) == DecodePointer(tables[t].last)
EndOf(t) == DecodePointer(tables[t].end)
IsEmpty(t) == FirstOf(t) = 0 /\ LastOf(t) = 0 /\ EndOf(t) = 0

\* The tests of gxos_crt_onexit_register_checked before the storage is used.
RegisterStatus(t, f) ==
  LET object == FindRange(t, t + 3 * PointerSize) IN
  IF ~IsCanonical(t) THEN "NONCANONICAL_TABLE"
  ELSE IF t > WordMax - 3 * PointerSize THEN "POINTER_OVERFLOW"
  ELSE IF object = {} THEN "UNREADABLE_TABLE"
  ELSE IF \A r \in object : ~r.writable THEN "UNWRITABLE_TABLE"
  ELSE IF initialized # <<>> /\ \A i \in 1 .. Len(initialized) : initialized[i] # t THEN
         "TABLE_NOT_INITIALIZED"
  ELSE IF f # 0 /\ ~IsCanonical(f) THEN "NONCANONICAL_CALLBACK"
  ELSE IF f # 0 /\ \A r \in FindAddress(f) : ~r.executable THEN "NONEXECUTABLE_CALLBACK"
  ELSE IF IsEmpty(t) THEN "EMPTY"
  ELSE IF 0 \in {FirstOf(t), LastOf(t), EndOf(t)} THEN "INVALID_TABLE_STATE"
  ELSE IF \E a \in {FirstOf(t), LastOf(t), EndOf(t)} : ~IsCanonical(a) THEN
         "NONCANONICAL_STORAGE"
  ELSE IF \E a \in {FirstOf(t), LastOf(t), EndOf(t)} : a % PointerSize # 0 THEN
         "UNALIGNED_STORAGE"
  ELSE IF FirstOf(t) > LastOf(t) \/ LastOf(t) > EndOf(t) THEN "INVALID_TABLE_STATE"
  ELSE IF \A r \in FindRange(FirstOf(t), EndOf(t)) : ~r.writable THEN
         "STORAGE_RANGE_INVALID"
  ELSE IF LastOf(t) = EndOf(t) THEN "GROWTH_REQUIRED"
  ELSE "APPEND"

\* gxos_crt_onexit_encoded_pointer_matches refuses a pointer that encodes to 0.
Encodable(S) == \A p \in S : EncodePointer(p) # 0 /\ DecodePointer(EncodePointer(p)) = p

\* The tests on what the pool returned for the first block of a table.
UsableStorage(base, f) ==
  /\ IsCanonical(base) /\ base % PointerSize = 0
  /\ base <= WordMax - StorageBytes
  /\ IsRange(base, base + StorageBytes)
  /\ \A r \in ImageRegions : ~RangesOverlap(base, base + StorageBytes, r)
  /\ Encodable({f, base, base + PointerSize, base + StorageBytes})

\* The pool (external) returns a block nobody has.
Outstanding(base) ==
  \E s \in storage : base < s + StorageBytes /\ s < base + StorageBytes

RegisterFirst(t, f, base) ==
  /\ RegisterStatus(t, f) = "EMPTY"
  /\ ~Outstanding(base)
  /\ UsableStorage(base, f)
  /\ storage' = storage \cup {base}
  /\ slots' = [a \in SlotAddresses |->
       IF a = base THEN EncodePointer(f)
       ELSE IF a > base /\ a < base + StorageBytes /\ a % PointerSize = 0
              THEN cookie ELSE slots[a]]
  /\ tables' = [tables EXCEPT ![t] =
       [first |-> EncodePointer(base),
        last |-> EncodePointer(base + PointerSize),
        end |-> EncodePointer(base + StorageBytes)]]
  /\ registered' = [registered EXCEPT ![t] = Append(@, f)]
  /\ UNCHANGED <<cookie, initialized>>

\* Mutant: a block that cannot be used is not given back.
RegisterRefusedLeaking(t, f, base) ==
  /\ RegisterStatus(t, f) = "EMPTY"
  /\ ~Outstanding(base)
  /\ ~UsableStorage(base, f)
  /\ storage' = storage \cup {base}
  /\ UNCHANGED <<cookie, tables, slots, initialized, registered>>

\* gxos_crt_onexit_release_allocation: the call fails with -1 and the block
\* goes back to the pool.
RegisterRefused(t, f, base) ==
  /\ RegisterStatus(t, f) = "EMPTY"
  /\ ~Outstanding(base)
  /\ ~UsableStorage(base, f)
  /\ storage' = (storage \cup {base}) \ {base}
  /\ UNCHANGED <<cookie, tables, slots, initialized, registered>>

\* Mutant: the slot behind the last one is written.
RegisterAppendBehind(t, f) ==
  /\ RegisterStatus(t, f) = "APPEND"
  /\ Encodable({f, FirstOf(t), LastOf(t) + PointerSize, EndOf(t)})
  /\ slots' = [slots EXCEPT ![LastOf(t) + PointerSize] = EncodePointer(f)]
  /\ tables' = [tables EXCEPT ![t].last = EncodePointer(LastOf(t) + PointerSize)]
  /\ registered' = [registered EXCEPT ![t] = Append(@, f)]
  /\ UNCHANGED <<cookie, initialized, storage>>

\* The rest of gxos_crt_onexit_register_checked.
RegisterAppend(t, f) ==
  /\ RegisterStatus(t, f) = "APPEND"
  /\ Encodable({f, FirstOf(t), LastOf(t) + PointerSize, EndOf(t)})
  /\ slots' = [slots EXCEPT ![LastOf(t)] = EncodePointer(f)]
  /\ tables' = [tables EXCEPT ![t].last = EncodePointer(LastOf(t) + PointerSize)]
  /\ registered' = [registered EXCEPT ![t] = Append(@, f)]
  /\ UNCHANGED <<cookie, initialized, storage>>

OnExitNext ==
  \/ \E t \in Tables :
       \/ InitializeTable(t)
       \/ \E f \in OnExitFunctions :
            \/ RegisterAppend(t, f)
            \/ \E base \in PoolBases :
                 RegisterFirst(t, f, base) \/ RegisterRefused(t, f, base)

OnExitSpec == OnExitInit /\ [][OnExitNext]_onexitVars

-----------------------------------------------------------------------------
(* Safety.                                                                 *)

\* What a table holds is what was registered: decoding the slots between first
\* and last gives, in order, the functions whose registration returned 0, for
\* every cookie, whatever calls failed or initialised the table again between.
RegisteredInOrder ==
  \A t \in Tables :
    LET n == IF IsEmpty(t) \/ tables[t].first = 0 THEN 0
             ELSE (LastOf(t) - FirstOf(t)) \div PointerSize
    IN /\ n = Len(registered[t])
       /\ \A i \in 1 .. n :
            DecodePointer(slots[FirstOf(t) + (i - 1) * PointerSize])
              = registered[t][i]

\* The storage of a table is its own: the pool blocks outstanding are the
\* storage of tables that have any outside the image, one each, and no two
\* tables share one.
StorageHasOneTable ==
  LET own(t) == registered[t] # <<>> /\ t \notin DOMAIN Preset IN
    /\ storage = {FirstOf(t) : t \in {t \in Tables : own(t)}}
    /\ \A t, u \in Tables : t # u /\ own(t) /\ own(u) =>
         EndOf(t) <= FirstOf(u) \/ EndOf(u) <= FirstOf(t)

\* A table keeps what was registered in storage of its own, through refusals
\* and repeated initialisations (gxos_crt_onexit_register_checked).
TablesAreFaithful == RegisteredInOrder /\ StorageHasOneTable
=============================================================================
