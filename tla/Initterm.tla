------------------------------ MODULE Initterm ------------------------------
(***************************************************************************)
(* _initterm and _initterm_e (crt_initterm.c, crt_initterm_e.c) with the   *)
(* wrappers of gate4_loader.c around them: the walk over a table of        *)
(* function pointers, and the globals that fault_handler prints when an    *)
(* initialiser faults.  Those globals are set by the trace callback, and   *)
(* the trace stops after MaxTrace events of a call.                        *)
(***************************************************************************)
EXTENDS ImageMemory, Sequences

CONSTANTS
  InitTable,      \* the function pointers in the image, by address
  InitBounds,     \* the values first and last are called with
  MaxEntries,     \* GXOS_CRT_INITTERM_MAX_ENTRIES, 4096
  MaxTrace,       \* GXOS_CRT_INITTERM_MAX_TRACE_ENTRIES, 128 (64 for _e)
  MaxCalls        \* bound on the number of calls

ASSUME InittermAssumption ==
  /\ MaxEntries \in Nat /\ MaxTrace \in Nat /\ MaxCalls \in Nat
  /\ DOMAIN InitTable \subseteq 0 .. WordMax /\ InitBounds \subseteq 0 .. WordMax

VARIABLES
  walk,           \* the call in progress
  active,         \* g_crt_initterm_callback_active
  current,        \* g_crt_initterm_current_index
  phase,          \* g_phase: where fault_handler says the machine was
  stopped,        \* "no", "validation" or "fault": fail and fault_handler halt
  fault,          \* what fault_handler printed: [active, index]
  invoked,        \* history: index and result of each initialiser of the call
  initCalls       \* bound

inittermVars ==
  <<walk, active, current, phase, stopped, fault, invoked, initCalls>>

\* truncated (history): an event was dropped since _initterm last cleared the
\* globals.
NoWalk == [fn |-> "none", first |-> 0, last |-> 0, index |-> 0, in |-> FALSE,
           trace |-> 0, truncated |-> FALSE, result |-> 0]
NoCallback == -1

InittermInit ==
  /\ walk = NoWalk
  /\ active = FALSE /\ current = NoCallback
  /\ phase = "AFTER_SECURITY_COOKIE_INIT"
  /\ stopped = "no"
  /\ fault = [active |-> FALSE, index |-> NoCallback]
  /\ invoked = <<>>
  /\ initCalls = 0

-----------------------------------------------------------------------------
(* The tests before the walk.                                              *)

\* gxos_crt_initterm_table_is_readable; an empty table may end a region.
TableIsReadable(first, last) ==
  \E r \in ImageRegions : first >= r.base /\ first <= last /\ last <= r.end

AcceptsTable(fn, first, last) ==
  /\ IsCanonical(first) /\ IsCanonical(last)
  /\ first % PointerSize = 0 /\ last % PointerSize = 0
  /\ first <= last /\ first >= ImageBase /\ last <= ImageEnd
  /\ fn = "initterm" => TableIsReadable(first, last)
  /\ (last - first) \div PointerSize <= MaxEntries

\* platform_initterm clears what an earlier call left; platform_initterm_e does
\* not touch it.  Both halt when the table is refused.
CallInitterm(fn, first, last) ==
  /\ stopped = "no" /\ walk.fn = "none" /\ initCalls < MaxCalls
  /\ initCalls' = initCalls + 1
  /\ stopped' = IF AcceptsTable(fn, first, last) THEN "no" ELSE "validation"
  /\ walk' = [NoWalk EXCEPT !.fn = fn, !.first = first, !.last = last,
                           !.truncated = fn # "initterm" /\ walk.truncated]
  /\ invoked' = <<>>
  /\ IF fn = "initterm"
       THEN active' = FALSE /\ current' = NoCallback /\ phase' = "IN_CRT_INITTERM"
       ELSE UNCHANGED <<active, current, phase>>
  /\ UNCHANGED fault

-----------------------------------------------------------------------------
(* The walk.                                                               *)

Walking == stopped = "no" /\ walk.fn # "none" /\ ~walk.in
Entries == (walk.last - walk.first) \div PointerSize
Slot(i) == walk.first + i * PointerSize
Entry(i) == IF Slot(i) \in DOMAIN InitTable THEN InitTable[Slot(i)] ELSE 0
IsExecutable(target) ==
  IsCanonical(target) /\ \E r \in FindAddress(target) : r.executable

\* gxos_crt_initterm_trace for n events in a row: the trace callback sees those
\* that still fit.
Fits(n) == walk.trace + n <= MaxTrace
Traced(n) ==
  [walk EXCEPT !.trace = IF Fits(n) THEN @ + n ELSE MaxTrace,
               !.truncated = @ \/ ~Fits(n)]

SkipNull ==
  /\ Walking /\ walk.index < Entries /\ Entry(walk.index) = 0
  /\ walk' = [Traced(1) EXCEPT !.index = @ + 1]
  /\ UNCHANGED <<active, current, phase, stopped, fault, invoked, initCalls>>

\* Mutant: the target is called without the test.
BadTargetCalled ==
  /\ Walking /\ walk.index < Entries
  /\ Entry(walk.index) # 0 /\ ~IsExecutable(Entry(walk.index))
  /\ walk' = [Traced(2) EXCEPT !.index = @ + 1]
  /\ invoked' = Append(invoked, <<walk.index, 0>>)
  /\ UNCHANGED <<active, current, phase, stopped, fault, initCalls>>

BadTarget ==
  /\ Walking /\ walk.index < Entries
  /\ Entry(walk.index) # 0 /\ ~IsExecutable(Entry(walk.index))
  /\ stopped' = "validation"
  /\ walk' = Traced(2)
  /\ UNCHANGED <<active, current, phase, fault, invoked, initCalls>>

BeginCallback ==
  /\ Walking /\ walk.index < Entries
  /\ Entry(walk.index) # 0 /\ IsExecutable(Entry(walk.index))
  /\ walk' = [Traced(2) EXCEPT !.in = TRUE]
  /\ IF walk.fn = "initterm" /\ Fits(2)
       THEN active' = TRUE /\ current' = walk.index
       ELSE UNCHANGED <<active, current>>
  /\ UNCHANGED <<phase, stopped, fault, invoked, initCalls>>

Running == stopped = "no" /\ walk.in

\* Mutant: the globals are not cleared when an initialiser returns.
CallbackReturnsActive(result) ==
  /\ Running /\ (walk.fn = "initterm" => result = 0)
  /\ invoked' = Append(invoked, <<walk.index, result>>)
  /\ walk' = IF result # 0
               THEN [Traced(1) EXCEPT !.in = FALSE, !.result = result, !.index = Entries]
               ELSE [Traced(1) EXCEPT !.in = FALSE, !.index = @ + 1]
  /\ UNCHANGED <<active, current, phase, stopped, fault, initCalls>>

\* The initialisers of _initterm have no result; one of _initterm_e that
\* returns another than 0 ends the walk.
CallbackReturns(result) ==
  /\ Running /\ (walk.fn = "initterm" => result = 0)
  /\ invoked' = Append(invoked, <<walk.index, result>>)
  /\ walk' = IF result # 0
               THEN [Traced(1) EXCEPT !.in = FALSE, !.result = result, !.index = Entries]
               ELSE [Traced(1) EXCEPT !.in = FALSE, !.index = @ + 1]
  /\ active' = IF walk.fn = "initterm" /\ Fits(1) THEN FALSE ELSE active
  /\ UNCHANGED <<current, phase, stopped, fault, initCalls>>

FinishWalk ==
  /\ Walking /\ walk.index = Entries
  /\ walk' = [walk EXCEPT !.fn = "none"]
  /\ phase' = IF walk.fn = "initterm" THEN "AFTER_SECURITY_COOKIE_INIT" ELSE phase
  /\ UNCHANGED <<active, current, stopped, fault, invoked, initCalls>>

\* fault_handler, for a fault of the initialiser or of the payload between the
\* calls; it prints and halts.
FaultHandler ==
  /\ stopped = "no"
  /\ stopped' = "fault"
  /\ fault' = [active |-> active, index |-> IF active THEN current ELSE NoCallback]
  /\ UNCHANGED <<walk, active, current, phase, invoked, initCalls>>

InittermNext ==
  \/ \E fn \in {"initterm", "initterm_e"}, first, last \in InitBounds :
       CallInitterm(fn, first, last)
  \/ SkipNull \/ BadTarget \/ BeginCallback
  \/ \E result \in 0 .. 1 : CallbackReturns(result)
  \/ FinishWalk \/ FaultHandler

InittermSpec == InittermInit /\ [][InittermNext]_inittermVars

-----------------------------------------------------------------------------
(* Safety.                                                                 *)

\* Initialisers run in table order, each once, none left out: those invoked so
\* far are the non-null entries below the index, every one of them is
\* executable, and only the last may have failed.  A call that ended without a
\* failure has run them all.
InitialisersRunInOrder ==
  LET indexes == [i \in 1 .. Len(invoked) |-> invoked[i][1]]
      below == {i \in 0 .. (Entries - 1) :
                  Entry(i) # 0 /\ i < walk.index /\ walk.result = 0}
  IN stopped # "validation" =>
       /\ \A i \in 1 .. (Len(invoked) - 1) :
            indexes[i] < indexes[i + 1] /\ invoked[i][2] = 0
       /\ walk.result = 0 => {indexes[i] : i \in 1 .. Len(invoked)} = below
       /\ walk.result # 0 =>
            /\ invoked[Len(invoked)][2] = walk.result
            /\ \A i \in 0 .. (indexes[Len(invoked)] - 1) :
                 Entry(i) # 0 => \E k \in 1 .. Len(invoked) : indexes[k] = i
       /\ \A i \in 1 .. Len(invoked) : IsExecutable(Entry(indexes[i]))

\* As long as the trace was not cut off, a fault is attributed to an initialiser
\* exactly when one of _initterm is running, and to that one.
FaultNamesInitialiser ==
  stopped = "fault" /\ ~walk.truncated =>
    /\ fault.active <=> (walk.in /\ walk.fn = "initterm")
    /\ fault.active => fault.index = walk.index

\* A walk runs what the table says, and what it records of the walk is what a
\* fault needs (platform_initterm, platform_initterm_trace).
WalksAreFaithful == InitialisersRunInOrder /\ FaultNamesInitialiser
=============================================================================
