----------------------------- MODULE Exceptions -----------------------------
(***************************************************************************)
(* Vectored exception handlers: the registry of vectored_handler.c, the    *)
(* entry of exception_entry.S, the bounded contexts of exception_context.c *)
(* and the dispatch in gate4_loader.c.  A handler is code of the payload   *)
(* or of the harness: it may change the context, register handlers, raise  *)
(* an exception, let another thread do so, and return what it likes.       *)
(*                                                                         *)
(* In 64-bit mode the processor always pushes RSP and SS; the branch of    *)
(* the entry for a frame without them is left out.  `rest` stands for the  *)
(* registers of the context that no handler may set.                       *)
(***************************************************************************)
EXTENDS ImageMemory, SequencesExt

CONSTANTS
  PayloadImages,   \* what the payload's section headers may be
  HarnessImage,    \* the harness: [base, size, sections]
  MaxSections,     \* GXOS_VEH_MAX_IMAGE_SECTIONS, 32
  VehCapacity,     \* GXOS_VEH_REGISTRY_CAPACITY, 8
  SequenceMax,     \* UINT64_MAX
  Handlers,        \* addresses passed to AddVectoredExceptionHandler
  Int3,            \* gxos_exception_probe_int3
  ApprovedEnd,     \* gxos_exception_probe_landing + 32
  BootLower,       \* g_stack_lower
  BootUpper,       \* g_stack_upper
  AllowedFlags,    \* GXOS_EXCEPTION_ALLOWED_RFLAGS_MASK
  Traps,           \* processor states at an exception: [vector, rip, rsp, flags, regs, rest]
  Changes          \* contexts a handler may leave behind: [rip, rsp, flags, regs, rest]

ASSUME VehAssumption ==
  /\ VehCapacity \in Nat /\ SequenceMax \in Nat
  /\ Int3 \in Nat /\ ApprovedEnd \in Nat /\ BootLower \in Nat /\ BootUpper \in Nat
  /\ \A t \in Traps :
       /\ t = [vector |-> t.vector, rip |-> t.rip, rsp |-> t.rsp, flags |-> t.flags,
               regs |-> t.regs, rest |-> t.rest]
       /\ t.rip \in Nat /\ t.rsp \in Nat
  /\ \A c \in Changes : c.rip \in Nat /\ c.rsp \in Nat

VARIABLES
  vehImages,       \* registry->images
  vehRecords,      \* the occupied records: [callback, sequence] by slot
  vehOrder,        \* the first live_count entries of registry->order
  vehSequence,    \* next_registration_sequence
  registryActive,  \* registry->dispatch_active
  entryActive,     \* gxos_exception_dispatch_active of the entry
  vehMode,         \* "boot", "running", "handler" or "halted"
  frame,           \* the trap frame of the exception in progress, or of the last
  context,         \* the context its handlers share
  asked,           \* slots of the snapshot whose handler was called
  unasked,         \* slots of the snapshot still to call
  interrupted,     \* history: the frame as the processor made it
  log              \* history: the successful registrations, [callback, first]

registryVars == <<vehImages, vehRecords, vehOrder, vehSequence, log>>
dispatchVars == <<registryActive, entryActive, frame, context, asked, unasked, interrupted>>
vehVars == <<registryVars, dispatchVars, vehMode>>

NoFrame == [vector |-> 0]

\* gxos_veh_registry_init.
VehInit ==
  /\ vehImages = <<>>
  /\ vehRecords = <<>>
  /\ vehOrder = <<>>
  /\ vehSequence = 1
  /\ registryActive = FALSE /\ entryActive = FALSE
  /\ vehMode = "boot"
  /\ frame = NoFrame /\ context = NoFrame /\ interrupted = NoFrame
  /\ asked = <<>> /\ unasked = <<>>
  /\ log = <<>>

-----------------------------------------------------------------------------
(* Images.  A section is [rva, virtual, raw, readable, writable,           *)
(* executable].                                                            *)

SectionExtent(s) == IF s.virtual > s.raw THEN s.virtual ELSE s.raw
SectionBase(image, s) == image.base + s.rva
SectionEnd(image, s) == image.base + s.rva + SectionExtent(s)

\* gxos_veh_image_parse_pe.
ParsesAsPe(image) ==
  /\ image.base # 0 /\ image.base + image.size <= WordMax
  /\ Len(image.sections) \in 1 .. MaxSections
  /\ \A i \in DOMAIN image.sections :
       SectionExtent(image.sections[i]) # 0
         /\ image.sections[i].rva + SectionExtent(image.sections[i]) <= image.size

\* configure_veh_registry; what does not parse halts the machine.
ConfigureVehRegistry(payload) ==
  /\ vehMode = "boot"
  /\ IF ParsesAsPe(payload) /\ ParsesAsPe(HarnessImage)
       THEN vehImages' = <<payload, HarnessImage>> /\ vehMode' = "running"
       ELSE vehMode' = "halted" /\ UNCHANGED vehImages
  /\ UNCHANGED <<vehRecords, vehOrder, vehSequence, log, dispatchVars>>

\* gxos_veh_image_bounds and the test of every section before a lookup.
BoundsAreCanonical(image) ==
  /\ IsCanonical(image.base) /\ IsCanonical(image.base + image.size - 1)
  /\ \A i \in DOMAIN image.sections :
       LET s == image.sections[i]
       IN IsCanonical(SectionBase(image, s)) /\ IsCanonical(SectionEnd(image, s) - 1)

IsFirst(S, i) == i \in S /\ \A j \in S : i <= j

\* gxos_veh_find_callback: the first image that holds the address, and the
\* first of its sections, decide; images before it must be sound.
FindCallback(a) ==
  LET holding == {i \in DOMAIN vehImages :
                    vehImages[i].base <= a /\ a < vehImages[i].base + vehImages[i].size}
  IN /\ a # 0 /\ IsCanonical(a)
     /\ \E i \in DOMAIN vehImages :
          LET image == vehImages[i]
              within == {n \in DOMAIN image.sections :
                           /\ SectionBase(image, image.sections[n]) <= a
                           /\ a < SectionEnd(image, image.sections[n])}
          IN /\ IsFirst(holding, i)
             /\ \A j \in 1 .. i : BoundsAreCanonical(vehImages[j])
             /\ \E n \in within :
                  /\ IsFirst(within, n)
                  /\ image.sections[n].executable /\ image.sections[n].readable
                  /\ ~image.sections[n].writable

-----------------------------------------------------------------------------
(* Registration.                                                           *)

\* gxos_veh_registry_valid.
RegistryIsSound ==
  /\ vehSequence # 0
  /\ Len(vehOrder) <= VehCapacity
  /\ \A i \in DOMAIN vehRecords :
       /\ vehRecords[i].sequence \in 1 .. (vehSequence - 1)
       /\ \A j \in DOMAIN vehRecords :
            vehRecords[i].sequence = vehRecords[j].sequence => i = j
  /\ ToSet(vehOrder) = DOMAIN vehRecords
  /\ IsInjective(vehOrder)

\* Records are never vacated, so the first free slot follows the live ones.
Register(first, callback) ==
  LET slot == Len(vehRecords) + 1 IN
    /\ vehRecords' = Append(vehRecords, [callback |-> callback, sequence |-> vehSequence])
    /\ vehOrder' = IF first THEN <<slot>> \o vehOrder ELSE Append(vehOrder, slot)
    /\ vehSequence' = vehSequence + 1
    /\ log' = Append(log, [callback |-> callback, first |-> first])

\* Mutant: a registration while handlers run is accepted.
AddHandlerDuringDispatch(first, callback) ==
  /\ vehMode \in {"running", "handler"}
  /\ IF /\ RegistryIsSound /\ FindCallback(callback)
        /\ Len(vehOrder) # VehCapacity /\ vehSequence # SequenceMax
       THEN Register(first, callback)
       ELSE UNCHANGED <<vehRecords, vehOrder, vehSequence, log>>
  /\ UNCHANGED <<vehImages, dispatchVars, vehMode>>

\* gxos_veh_registry_add, of the running thread or of a handler.
AddVectoredExceptionHandler(first, callback) ==
  /\ vehMode \in {"running", "handler"}
  /\ IF /\ RegistryIsSound /\ ~registryActive /\ FindCallback(callback)
        /\ Len(vehOrder) # VehCapacity /\ vehSequence # SequenceMax
       THEN Register(first, callback)
       ELSE UNCHANGED <<vehRecords, vehOrder, vehSequence, log>>
  /\ UNCHANGED <<vehImages, dispatchVars, vehMode>>

-----------------------------------------------------------------------------
(* Dispatch.                                                               *)

\* breakpoint_exception_address: the processor reports the byte after INT3, or
\* the INT3 itself.
IsBreakpoint(trap) == trap.vector = 3 /\ trap.rip \in {Int3, Int3 + 1}

\* fill_exception_context.
ContextOf(trap) ==
  [rip |-> trap.rip, rsp |-> trap.rsp, flags |-> trap.flags, regs |-> trap.regs,
   rest |-> trap.rest]

\* gxos_fault_common outside of a dispatch, gxos_exception_dispatch and the
\* start of gxos_veh_dispatch, up to the call of the first handler.  What is
\* not the breakpoint, or has no handler, is fatal.
Exception(trap) ==
  /\ vehMode = "running" /\ ~entryActive
  /\ entryActive' = TRUE
  /\ frame' = trap /\ interrupted' = trap
  /\ IF IsBreakpoint(trap) /\ RegistryIsSound /\ ~registryActive /\ vehOrder # <<>>
       THEN /\ context' = ContextOf(trap)
            /\ registryActive' = TRUE
            /\ asked' = <<Head(vehOrder)>> /\ unasked' = Tail(vehOrder)
            /\ vehMode' = "handler"
       ELSE vehMode' = "halted" /\ UNCHANGED <<context, registryActive, asked, unasked>>
  /\ UNCHANGED registryVars

\* gxos_fault_common while a dispatch is active and
\* gxos_exception_nested_terminal, whatever the exception is.
NestedException ==
  /\ vehMode \in {"running", "handler"} /\ entryActive
  /\ registryActive' = FALSE
  /\ vehMode' = "halted"
  /\ UNCHANGED <<registryVars, entryActive, frame, context, asked, unasked, interrupted>>

HandlerChangesContext(c) ==
  /\ vehMode = "handler"
  /\ context' = c
  /\ UNCHANGED <<registryVars, vehMode, registryActive, entryActive, frame, asked, unasked,
                 interrupted>>

\* A return that is not CONTINUE_EXECUTION: the next handler, or the fatal path.
ContinueSearch ==
  /\ vehMode = "handler"
  /\ IF unasked = <<>>
       THEN registryActive' = FALSE /\ vehMode' = "halted" /\ UNCHANGED <<asked, unasked>>
       ELSE /\ asked' = Append(asked, Head(unasked)) /\ unasked' = Tail(unasked)
            /\ UNCHANGED <<registryActive, vehMode>>
  /\ UNCHANGED <<registryVars, entryActive, frame, context, interrupted>>

Changed(A, B) == (A \ B) \cup (B \ A)

\* Mutant: any stack will do.
ContextIsApprovedAnyStack(c) ==
  /\ IsCanonical(c.rip) /\ Int3 <= c.rip /\ c.rip < ApprovedEnd
  /\ IsCanonical(c.rsp)
  /\ Changed(frame.flags, c.flags) \subseteq AllowedFlags

\* gxos_exception_validate_context_modifications.
ContextIsApproved(c) ==
  /\ IsCanonical(c.rip) /\ Int3 <= c.rip /\ c.rip < ApprovedEnd
  /\ IsCanonical(c.rsp) /\ BootLower <= c.rsp /\ c.rsp < BootUpper
  /\ Changed(frame.flags, c.flags) \subseteq AllowedFlags

\* gxos_exception_apply_context_modifications.
Applied(c) ==
  [frame EXCEPT !.rip = c.rip, !.rsp = c.rsp, !.regs = c.regs,
                !.flags = (@ \ AllowedFlags) \cup (c.flags \cap AllowedFlags)]

\* Mutant: the entry still counts as active after the return.
ContinueExecutionActive ==
  /\ vehMode = "handler"
  /\ registryActive' = FALSE
  /\ IF ContextIsApproved(context)
       THEN frame' = Applied(context) /\ vehMode' = "running"
       ELSE vehMode' = "halted" /\ UNCHANGED frame
  /\ UNCHANGED <<registryVars, entryActive, context, asked, unasked, interrupted>>

\* The handler returns CONTINUE_EXECUTION: no other is asked, and the context
\* is applied and returned to, or refused, which is fatal.
ContinueExecution ==
  /\ vehMode = "handler"
  /\ registryActive' = FALSE
  /\ IF ContextIsApproved(context)
       THEN frame' = Applied(context) /\ entryActive' = FALSE /\ vehMode' = "running"
       ELSE vehMode' = "halted" /\ UNCHANGED <<entryActive, frame>>
  /\ UNCHANGED <<registryVars, context, asked, unasked, interrupted>>

VehNext ==
  \/ \E payload \in PayloadImages : ConfigureVehRegistry(payload)
  \/ \E first \in BOOLEAN, callback \in Handlers : AddVectoredExceptionHandler(first, callback)
  \/ \E trap \in Traps : Exception(trap)
  \/ NestedException
  \/ \E c \in Changes : HandlerChangesContext(c)
  \/ ContinueSearch
  \/ ContinueExecution

VehSpec == VehInit /\ [][VehNext]_vehVars

-----------------------------------------------------------------------------
(* Safety.                                                                 *)

Callbacks(entries) == [i \in DOMAIN entries |-> entries[i].callback]

\* Registration a is asked before b: those that want to be first before the
\* others, the latest of them before the earlier; the others as they came.
Precedes(a, b) ==
  IF log[a].first THEN log[b].first => b < a ELSE ~log[b].first /\ a < b

\* Every registration is asked once, in the order that the registrations ask
\* for; the order does not change while handlers are asked, whatever a handler
\* registers (gxos_veh_registry_add, gxos_veh_dispatch).
HandlersRunInOrder ==
  /\ Callbacks(vehRecords) = Callbacks(log)
  /\ ToSet(vehOrder) = DOMAIN log
  /\ \A i, j \in DOMAIN vehOrder : i < j => Precedes(vehOrder[i], vehOrder[j])
  /\ vehMode = "handler" => asked \o unasked = vehOrder

\* Whatever the handlers asked before left in the context they share, code
\* goes on only in the approved range, on the boot stack, with the flags and
\* the registers it may not set as they were
\* (gxos_exception_validate_context_modifications and _apply_).
OnlyApprovedContextsResume ==
  vehMode = "running" /\ frame # NoFrame =>
    /\ frame.rip \in Int3 .. (ApprovedEnd - 1) /\ frame.rsp \in BootLower .. (BootUpper - 1)
    /\ Changed(frame.flags, interrupted.flags) \subseteq AllowedFlags
    /\ frame.rest = interrupted.rest

\* Neither guard outlives its dispatch: after a return from an exception the
\* next one is dispatched and handlers can be registered, while a handler runs
\* both guards are up, and a terminal path leaves the registry unlocked
\* (gxos_exception_dispatch, gxos_exception_nested_terminal, gxos_veh_dispatch).
GuardsFollowTheDispatch ==
  /\ vehMode = "running" => ~entryActive /\ ~registryActive
  /\ vehMode = "handler" => entryActive /\ registryActive
  /\ vehMode = "halted" => ~registryActive
=============================================================================
