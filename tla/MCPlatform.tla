----------------------------- MODULE MCPlatform -----------------------------
(***************************************************************************)
(* The platform imports for TLC: machine queries, names and strings,       *)
(* streams, the clocks and the memory status, over one small image.  They  *)
(* share no state beside the image, so each behaviour uses the imports of  *)
(* one of them.                                                            *)
(***************************************************************************)
EXTENDS Queries, Modules, Streams, PlatformTime, MemoryAccounting

\* Addresses 2 .. 17 are the image, with the headers first: data, constants,
\* code that cannot be read, code that can, and a page without section.
PlatformRegions ==
  {[base |-> 4, end |-> 13, readable |-> TRUE, writable |-> TRUE, executable |-> FALSE],
   [base |-> 13, end |-> 14, readable |-> TRUE, writable |-> FALSE, executable |-> FALSE],
   [base |-> 14, end |-> 16, readable |-> FALSE, writable |-> FALSE, executable |-> TRUE],
   [base |-> 16, end |-> 17, readable |-> TRUE, writable |-> FALSE, executable |-> TRUE]}
PlatformStack == [base |-> 20, end |-> 24, readable |-> TRUE, writable |-> TRUE]
PlatformWorkerStack == [base |-> 24, end |-> 27]
PlatformHeap == {[base |-> 18, end |-> 20]}

-----------------------------------------------------------------------------
(* Machine queries: one and two processors, and snapshots that are wrong.  *)

PlatformHandles == {CurrentProcess, 0}
PlatformAllocations == {[base |-> 24, end |-> 27]}
OneProcessor ==
  [generation |-> 1, numbers |-> <<0>>, active |-> {0}, cores |-> <<{0}>>,
   nodes |-> <<[mask |-> {0}, number |-> 0]>>, packages |-> <<{0}>>, caches |-> <<>>,
   groups |-> 1, domains |-> 1, highestNode |-> 0, process |-> {0}]
TwoProcessors ==
  [OneProcessor EXCEPT !.numbers = <<0, 1>>, !.active = {0, 1}, !.cores = <<{0}, {1}>>,
     !.nodes = <<[mask |-> {0, 1}, number |-> 0]>>, !.packages = <<{0, 1}>>, !.process = {1}]
PlatformSnapshots ==
  {OneProcessor, TwoProcessors, [TwoProcessors EXCEPT !.groups = 2],
   [TwoProcessors EXCEPT !.cores = <<{0, 1}, {1}>>],
   [TwoProcessors EXCEPT !.packages = <<{0}>>],
   [TwoProcessors EXCEPT !.numbers = <<0, 0>>],
   [OneProcessor EXCEPT !.generation = 0]}
\* Jobs of the builds (none, without limit, a cap of 5000) and of the tests.
NoJob == [supported |-> 0, associated |-> 0, flags |-> {}, rate |-> 0, weight |-> 0,
          min |-> 0, max |-> 0]
AnyJob == [NoJob EXCEPT !.associated = 1]
PlatformJobs ==
  {NoJob, AnyJob, [NoJob EXCEPT !.weight = 1], [AnyJob EXCEPT !.associated = 2],
   [AnyJob EXCEPT !.supported = 1], [AnyJob EXCEPT !.flags = {"enable", "reserved"}],
   [AnyJob EXCEPT !.flags = {"enable"}, !.rate = 7],
   [AnyJob EXCEPT !.flags = {"weight"}, !.weight = 5],
   [AnyJob EXCEPT !.flags = {"enable", "cap", "minmax"}, !.rate = 5000, !.max = 5]}
    \cup {[AnyJob EXCEPT !.flags = {"enable", "cap"}, !.rate = n] : n \in {0, 5000, 10001}}
    \cup {[AnyJob EXCEPT !.flags = {"enable", "weight", "notify"}, !.weight = n, !.rate = 20000] :
            n \in {0, 9, 10}}
    \cup {[AnyJob EXCEPT !.flags = {"enable", "minmax"}, !.min = n, !.max = m] :
            n \in {0, 2500, 7501}, m \in {0, 7500, 10001}}

-----------------------------------------------------------------------------
(* Names: at 4 a wide name of KERNEL32, at 7 the empty string, at 10 one   *)
(* letter, at 12 a string that runs into code that cannot be read.         *)

PlatformText ==
  [a \in 2 .. 17 |->
     CASE a = 4 -> 1 [] a = 6 -> 4 [] a = 10 -> 2 [] a \in {12, 13} -> 1 [] a = 16 -> 4
       [] OTHER -> 0]
LoadedModule ==
  [headerEnd |-> 4, preferred |-> 8, relocated |-> TRUE, signature |-> TRUE, entry |-> 16,
   imports |-> 4, importSize |-> 2, iat |-> 6, delta |-> 26]
PlatformModules ==
  {LoadedModule, [LoadedModule EXCEPT !.signature = FALSE], [LoadedModule EXCEPT !.delta = 6]}
PlatformKernel32Names == {<<1, 4>>, <<4>>}
PlatformNtdllName == <<4, 1>>
\* Around the image: nothing, zeros behind it, or letters on both sides.
PlatformSurroundings ==
  {<<>>, [a \in 18 .. 27 |-> 0], [a \in (0 .. 1) \cup (18 .. 27) \cup (29 .. 31) |-> 4]}
PlatformEnvironment == {[name |-> 1, length |-> 0], [name |-> 2, length |-> 2]}

-----------------------------------------------------------------------------
(* Streams: the edges of every length of UTF-8.                            *)

PlatformSources ==
  {<<0>>, <<65, 0>>, <<65, 195, 128, 0>>}
    \cup {<<f, b>> : f \in {193, 194, 223}, b \in {65, 127, 128, 191, 192}}
    \cup {<<f, b, 128>> : f \in {224, 237, 239}, b \in {128, 159, 160, 191}}
    \cup {<<f, b, 128, 191>> : f \in {240, 244, 245}, b \in {128, 143, 144, 191}}
    \cup {<<239, 160, 65>>, <<240, 144, 128, 65>>, <<240, 144, 65, 128>>}

-----------------------------------------------------------------------------
(* Clocks: days around leap days, and processors with and without the      *)
(* numbers that give the frequency.                                        *)

Date(y, m, d) == [year |-> y, month |-> m, day |-> d]
PlatformDates ==
  {Date(1999, 12, 31), Date(2000, 1, 1), Date(2000, 2, 28), Date(2000, 2, 29),
   Date(2000, 3, 1), Date(2023, 2, 29), Date(2099, 12, 31), Date(2100, 2, 28),
   Date(2100, 3, 1), Date(2100, 13, 1), Date(1899, 12, 31)}
PlatformZones == {-3, 0, 2, 9}
PlatformProcessors ==
  {[invariant |-> i, denominator |-> d, numerator |-> 6, crystal |-> c] :
     i \in BOOLEAN, d \in {0, 1, 2, 5}, c \in {0, 4}}

-----------------------------------------------------------------------------
(* Memory: maps that grow between two calls, past the buffer and past      *)
(* every buffer, and maps that are refused.                                *)

Descriptor(start, pages, type) == [start |-> start, pages |-> pages, type |-> type]
SmallMap == <<Descriptor(0, 2, "loader"), Descriptor(4, 3, "conventional")>>
GrownMap == [i \in 1 .. 6 |-> Descriptor(2 * i, 1, IF i < 5 THEN "loader" ELSE "conventional")]
PlatformMaps ==
  {<<>>, SmallMap, GrownMap, Append(GrownMap, Descriptor(20, 1, "loader")),
   <<Descriptor(0, 2, "loader"), Descriptor(4, 4, "conventional"), Descriptor(12, 1, "acpi"),
     Descriptor(14, 1, "device")>>,
   <<Descriptor(0, 2, "loader"), Descriptor(2, 4, "conventional")>>,
   Append(SmallMap, Descriptor(20, 0, "loader")), Append(SmallMap, Descriptor(250, 4, "loader"))}
PlatformStatusRegions ==
  {[base |-> 2, end |-> 6, writable |-> TRUE], [base |-> 6, end |-> 8, writable |-> FALSE]}

-----------------------------------------------------------------------------

VARIABLE focus
platformVars == <<focus, queryVars, moduleVars, streamVars, timeVars, accountingVars>>

\* What is not in focus starts in one of its initial states and stays there.  The
\* facts of a job matter to one query only.
PlatformInit ==
  /\ focus \in {"queries", "jobs", "names", "streams", "calendar", "counter", "memory"}
  /\ QueryInit /\ ModulesInit /\ StreamsInit /\ TimeInit /\ AccountingInit
  /\ focus # "queries" => \A a \in Writable : bytes[a] = 0
  /\ focus # "jobs" => job = NoJob
  /\ focus # "names" => main = LoadedModule
  /\ focus # "streams" => \A a \in StreamAddresses : memory[a] = 0
  /\ focus # "counter" => ticks = 0

PlatformNext ==
  \/ /\ focus = "queries" /\ QueryNext
     /\ UNCHANGED <<focus, moduleVars, streamVars, timeVars, accountingVars>>
  \/ /\ focus = "jobs"
     /\ \/ ConfigureSystemInfo(OneProcessor)
        \/ \E q \in Calls : PlatformQueryInformationJobObject(q)
     /\ UNCHANGED <<focus, moduleVars, streamVars, timeVars, accountingVars>>
  \/ /\ focus = "names" /\ ModulesNext
     /\ UNCHANGED <<focus, queryVars, streamVars, timeVars, accountingVars>>
  \/ /\ focus = "streams" /\ StreamsNext
     /\ UNCHANGED <<focus, queryVars, moduleVars, timeVars, accountingVars>>
  \/ /\ focus = "calendar" /\ CalendarNext
     /\ UNCHANGED <<focus, queryVars, moduleVars, streamVars, accountingVars>>
  \/ /\ focus = "counter" /\ CounterNext
     /\ UNCHANGED <<focus, queryVars, moduleVars, streamVars, accountingVars>>
  \/ /\ focus = "memory" /\ AccountingNext
     /\ UNCHANGED <<focus, queryVars, moduleVars, streamVars, timeVars>>

PlatformSpec == PlatformInit /\ [][PlatformNext]_platformVars
=============================================================================
