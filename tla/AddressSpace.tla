---------------------------- MODULE AddressSpace ----------------------------
(***************************************************************************)
(* What VirtualAlloc and VirtualFree promise the runtime that calls them   *)
(* (virtual_memory.c, docs/VM_FOUNDATION.md): a set of disjoint regions at *)
(* granule-aligned bases, the pages of them that are backed, and calls     *)
(* that take effect as a whole or not at all.  Page tables, frames, slots  *)
(* and counters are not visible here.                                      *)
(***************************************************************************)
EXTENDS Integers

CONSTANTS ArenaPages, Granule

VARIABLES
  regions,   \* the reserved regions, as [base, pages]
  backed     \* the pages that can be read and written

vars == <<regions, backed>>

Extent(r) == r.base .. (r.base + r.pages - 1)

\* An aligned place where n pages overlap no region.
Fits(base, n) ==
  /\ base % Granule = 0
  /\ base + n <= ArenaPages
  /\ \A r \in regions : Extent(r) \cap (base .. (base + n - 1)) = {}

\* The place a reservation without an address gets.
IsLowestFit(base, n) ==
  /\ Fits(base, n)
  /\ \A b \in 0 .. (base - 1) : ~Fits(b, n)

Init == regions = {} /\ backed = {}

Reserve(base, n) ==
  /\ IsLowestFit(base, n)
  /\ regions' = regions \cup {[base |-> base, pages |-> n]}
  /\ UNCHANGED backed

ReserveAndCommit(base, n) ==
  /\ IsLowestFit(base, n)
  /\ regions' = regions \cup {[base |-> base, pages |-> n]}
  /\ backed' = backed \cup (base .. (base + n - 1))

\* Pages that are backed already stay as they are.
Commit(first, last) ==
  /\ \E r \in regions : first \in Extent(r) /\ last \in Extent(r)
  /\ backed' = backed \cup (first .. last)
  /\ UNCHANGED regions

Release(r) ==
  /\ r \in regions
  /\ regions' = regions \ {r}
  /\ backed' = backed \ Extent(r)

Next ==
  \/ \E base \in 0 .. (ArenaPages - 1), n \in 1 .. ArenaPages :
       Reserve(base, n) \/ ReserveAndCommit(base, n)
  \/ \E first, last \in 0 .. (ArenaPages - 1) : Commit(first, last)
  \/ \E r \in regions : Release(r)

Spec == Init /\ [][Next]_vars
=============================================================================
