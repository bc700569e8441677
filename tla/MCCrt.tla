-------------------------------- MODULE MCCrt --------------------------------
(***************************************************************************)
(* The C runtime imports and the exception handlers for TLC: the heap, the *)
(* onexit tables, the initialiser walks and the handler registry.  The     *)
(* heap takes the image and the onexit tables for protected addresses and  *)
(* they share nothing else, so each behaviour uses one of the four.        *)
(***************************************************************************)
EXTENDS CrtHeap, OnExit, Initterm, Exceptions, TLC

\* Addresses 2 .. 21 are the image: data, code, and a page without section.
CrtRegions ==
  {[base |-> 2, end |-> 18, readable |-> TRUE, writable |-> TRUE, executable |-> FALSE],
   [base |-> 18, end |-> 20, readable |-> TRUE, writable |-> FALSE, executable |-> TRUE]}

\* A table without storage, and one whose storage is in the image.
CrtTables == {2, 8}
CrtPreset == 8 :> <<14, 18>>

\* Initialisers at 4, 8, 10 and 12, an empty entry at 6, and data at 14.
CrtInitTable ==
  [a \in {4, 6, 8, 10, 12, 14} |-> CASE a = 6 -> 0 [] a = 14 -> 16 [] OTHER -> 18]

\* The payload, one with a section beyond its end, and one that reaches into
\* the hole; the harness has the probe at 24 .. 27.
Section(rva, virtual, raw, writable) ==
  [rva |-> rva, virtual |-> virtual, raw |-> raw, readable |-> TRUE,
   writable |-> writable, executable |-> ~writable]
CrtPayloads ==
  {[base |-> 2, size |-> size, sections |-> <<Section(0, 16, 8, TRUE), Section(16, 1, 3, FALSE)>>] :
     size \in {18, 20, 27}}
CrtHarness == [base |-> 23, size |-> 5, sections |-> <<Section(1, 4, 2, FALSE)>>]
CrtTraps ==
  [vector : {3}, rip : {18, 24, 25}, rsp : {15, 29}, flags : {{}, {"IF"}}, regs : {0}, rest : {0}]
    \cup [vector : {14}, rip : {18}, rsp : {29}, flags : {{}}, regs : {0}, rest : {0}]
CrtChanges ==
  {[rip |-> rip, rsp |-> rsp, flags |-> flags, regs |-> r, rest |-> r] :
     rip \in {18, 24, 27, 28}, rsp \in {15, 29}, flags \in {{}, {"CF"}, {"IF"}}, r \in {0, 1}}

VARIABLE focus
crtVars == <<focus, vars, onexitVars, inittermVars, vehVars>>

\* What is not in focus starts in one of its initial states and stays there.
CrtInit ==
  /\ focus \in {"heap", "onexit", "initterm", "exceptions"}
  /\ Init /\ OnExitInit /\ InittermInit /\ VehInit
  /\ focus # "onexit" => cookie = 5

CrtNext ==
  \/ focus = "heap" /\ Next /\ UNCHANGED <<focus, onexitVars, inittermVars, vehVars>>
  \/ focus = "onexit" /\ OnExitNext /\ UNCHANGED <<focus, vars, inittermVars, vehVars>>
  \/ focus = "initterm" /\ InittermNext /\ UNCHANGED <<focus, vars, onexitVars, vehVars>>
  \/ focus = "exceptions" /\ VehNext /\ UNCHANGED <<focus, vars, onexitVars, inittermVars>>

CrtSpec == CrtInit /\ [][CrtNext]_crtVars
=============================================================================
