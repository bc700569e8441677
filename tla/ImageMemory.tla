---------------------------- MODULE ImageMemory ----------------------------
(***************************************************************************)
(* The address space as the imports see it: words of WordBits bits, a hole *)
(* of addresses that are not canonical, and the memory regions of the      *)
(* payload's image that load_pe_image of gate4_loader.c records.  Every    *)
(* import that follows a pointer of the payload tests it against these.    *)
(***************************************************************************)
EXTENDS Integers

CONSTANTS
  WordBits,       \* 64
  PointerSize,    \* sizeof(uintptr_t), 8
  Hole,           \* the addresses that are not canonical
  ImageBase,      \* actual_base
  ImageEnd,       \* actual_base + loaded_size
  ImageRegions    \* the sections: [base, end, readable, writable, executable]

ASSUME ImageAssumption ==
  /\ WordBits \in Nat \ {0}
  /\ PointerSize \in Nat \ {0}
  /\ ImageBase \in 1 .. (2^WordBits - 1)
  /\ ImageEnd \in (ImageBase + 1) .. (2^WordBits - 1)
  /\ \A r \in ImageRegions :
       /\ r.base \in Nat /\ r.end \in Nat
       /\ ImageBase <= r.base /\ r.base < r.end /\ r.end <= ImageEnd
       /\ r.readable \in BOOLEAN /\ r.writable \in BOOLEAN /\ r.executable \in BOOLEAN

WordMax == 2^WordBits - 1

IsCanonical(a) == a \notin Hole

\* A range with an upper end, neither end in the hole.
IsRange(base, end) ==
  base # 0 /\ end > base /\ IsCanonical(base) /\ IsCanonical(end)

\* The regions that hold a range, and an address.
FindRange(base, end) ==
  {r \in ImageRegions : base >= r.base /\ end >= base /\ end <= r.end}
FindAddress(a) == {r \in ImageRegions : a >= r.base /\ a < r.end /\ a # 0}

RangesOverlap(base, end, r) == base < r.end /\ r.base < end
=============================================================================
