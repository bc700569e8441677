-------------------------- MODULE MCThreadResources --------------------------
(* Small instances of the thread memory for TLC.                           *)
EXTENDS ThreadResources

\* Free pages are interchangeable, so it is enough to explore the behaviours
\* in which the firmware hands out the lowest ones that fit.
LowestFit ==
  LET held == UNION {Extent(b) : b \in ledger} IN
    \A b \in ledger' \ ledger : \A f \in 1 .. (b.base - 1) :
      \E g \in f .. (f + b.pages - 1) : g \in held
=============================================================================
