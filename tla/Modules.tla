------------------------------ MODULE Modules ------------------------------
(***************************************************************************)
(* The imports that follow a name of the payload: GetModuleHandleW,        *)
(* GetModuleHandleExW, LoadLibraryExW, GetProcAddress,                     *)
(* GetEnvironmentVariableW, strlen, _stricmp and strcmp.  There are two    *)
(* modules, the payload's image and a built-in KERNEL32 without exports.   *)
(*                                                                         *)
(* The image holds small characters: 0 ends a string, Upper folds to       *)
(* Lower, Separator makes a name a path.  Most imports test every address  *)
(* before they read it.  strcmp and GetEnvironmentVariableW do not: they   *)
(* follow any pointer, out of the image and into what lies around it.      *)
(***************************************************************************)
EXTENDS ImageMemory, Sequences

CONSTANTS
  Text,           \* the character at each address of the image
  NamePointers,   \* the names and the addresses that callers pass
  OutputPointers, \* the outputs that callers of GetModuleHandleExW pass
  StackLower, StackUpper,        \* g_stack_lower, g_stack_upper
  MainModules,    \* main module facts, of the loader and of the tests
  WideSize,       \* 2, of a wide character
  NameLimit,      \* characters of a name that are read
  ScanLimit,      \* characters of a string that are read
  Surroundings,   \* what may be mapped outside of the image: characters by address
  PreviewLimit,   \* 64, characters of each string that strcmp reports
  EnvironmentPreview,            \* 256, characters of a name that is reported
  MaxOrdinal,     \* 0xFFFF
  Kernel32Names, NtdllName,      \* folded
  Kernel32,       \* address of the built-in descriptor
  EnvironmentEntries,            \* [name, value length], of the tests
  MaxNameCalls

Lower == 1
Upper == 2
Separator == 3
Fault == -1       \* what the read of an address that is not mapped gives

ASSUME ModulesAssumption ==
  /\ DOMAIN Text = ImageBase .. (ImageEnd - 1) /\ \A a \in DOMAIN Text : Text[a] \in Nat
  /\ 0 \in NamePointers /\ NamePointers \subseteq 0 .. WordMax
  /\ StackLower <= StackUpper
  /\ WideSize \in Nat \ {0} /\ NameLimit \in Nat \ {0} /\ ScanLimit \in Nat \ {0}
  /\ PreviewLimit \in Nat \ {0} /\ EnvironmentPreview \in Nat \ {0}
  /\ \A m \in Surroundings : DOMAIN m \subseteq 0 .. WordMax /\ \A a \in DOMAIN m : m[a] \in Nat
  /\ Kernel32 \notin (DOMAIN Text) \cup {0}
  /\ \A m \in MainModules : m.headerEnd \in Nat
  /\ \A e \in EnvironmentEntries : e.length \in Nat

VARIABLES
  main,        \* g_main_module_facts
  nameError,   \* g_platform_last_error
  held,        \* the handles that were given: [handle, by, argument]
  answer,      \* the last call, and what it returned
  touched,     \* the addresses that the last call read
  namesHalted, nameCalls

moduleVars == <<main, nameError, held, answer, touched, namesHalted, nameCalls>>

NoAnswer == [kind |-> "none", a |-> 0, b |-> 0, result |-> 0]

ModulesInit ==
  /\ main \in MainModules
  /\ nameError = 0 /\ held = {} /\ answer = NoAnswer /\ touched = {}
  /\ namesHalted = FALSE /\ nameCalls = 0

-----------------------------------------------------------------------------
(* Readable memory and scans.                                              *)

\* Mutant: only the first byte is looked up.
ImageReadableFirst(a, size) == \E r \in FindRange(a, a + 1) : r.readable

\* The region that holds the range is readable (load_library_find_region,
\* get_proc_address_range_readable, strlen_find_region).
ImageReadable(a, size) == \E r \in FindRange(a, a + size) : r.readable

\* gxos_module_readable_range: the headers are readable too.
ModuleReadable(a, size) ==
  /\ a >= ImageBase /\ a + size <= ImageEnd
  /\ a + size <= main.headerEnd \/ ImageReadable(a, size)

Char(a, size) == IF size = 1 THEN Text[a] ELSE Text[a] + 16 * Text[a + 1]

\* The loop of every scan: the first of the limit, the end of the address
\* space, a character that cannot be read, and the terminator.  (A scan of wide
\* characters tests only its first address for the hole, which no region meets.)
\* GetModuleHandleW accepts names in the headers, the others do not.
Scan(p, size, limit, headers) ==
  LET At(i) == p + i * size
      Readable(a) == IF headers THEN ModuleReadable(a, size) ELSE ImageReadable(a, size)
      Why(i) == IF i = limit THEN "limit"
                ELSE IF At(i) > WordMax THEN "overflow"
                ELSE IF ~IsCanonical(At(i)) THEN "noncanonical"
                ELSE IF ~Readable(At(i)) THEN "unreadable"
                ELSE IF Char(At(i), size) = 0 THEN "ok"
                ELSE "more"
      n == CHOOSE i \in 0 .. limit : Why(i) # "more" /\ \A j \in 0 .. (i - 1) : Why(j) = "more"
  IN [status |-> IF p = 0 THEN "null" ELSE Why(n),
      length |-> n,
      read   |-> IF p = 0 THEN {}
                 ELSE p .. (At(n) - 1 + (IF Why(n) = "ok" THEN size ELSE 0)),
      chars  |-> IF p # 0 /\ Why(n) = "ok" THEN [i \in 1 .. n |-> Char(At(i - 1), size)]
                                           ELSE <<>>]

Fold(c) == IF c = Upper THEN Lower ELSE c
FoldIf(fold, c) == IF fold THEN Fold(c) ELSE c
Folded(s) == [i \in DOMAIN s |-> Fold(s[i])]
IsPath(s) == \E i \in DOMAIN s : s[i] = Separator
\* gxos_module_registry_kernel32_name_matches.
NamesKernel32(s) == ~IsPath(s) /\ Folded(s) \in Kernel32Names

-----------------------------------------------------------------------------
(* Modules.                                                                *)

\* gxos_module_validate_facts, and validate_image of GetModuleHandleExW.
FactsAreValid ==
  /\ main.preferred # 0 /\ main.relocated
  /\ IsCanonical(main.preferred) /\ IsCanonical(ImageBase)
  /\ main.headerEnd > ImageBase /\ main.headerEnd <= ImageEnd
  /\ main.signature
  /\ ModuleReadable(main.entry, 1)
  /\ ModuleReadable(main.imports, main.importSize) /\ main.importSize # 0
  /\ ModuleReadable(main.iat, PointerSize)
  /\ main.delta = (ImageBase - main.preferred) % (WordMax + 1)
ImageIsValid ==
  /\ main.preferred # 0 /\ main.relocated
  /\ main.headerEnd > ImageBase /\ main.headerEnd <= ImageEnd
  /\ IsCanonical(main.preferred) /\ IsCanonical(ImageBase)
  /\ main.entry >= ImageBase /\ main.entry < ImageEnd

\* gxos_get_module_handle_checked: [handle, error, read].
ModuleHandle(p) ==
  LET s == Scan(p, WideSize, NameLimit, TRUE)
  IN IF s.status = "null" THEN
            [handle |-> IF FactsAreValid THEN ImageBase ELSE 0, read |-> {},
             error |-> IF FactsAreValid THEN 0 ELSE 87]
     ELSE IF s.status = "ok" /\ NamesKernel32(s.chars) THEN
            [handle |-> Kernel32, read |-> s.read, error |-> 0]
     ELSE IF s.status = "ok" /\ ~IsPath(s.chars) /\ Folded(s.chars) = NtdllName THEN
            [handle |-> 0, read |-> s.read, error |-> 126]
     ELSE [handle |-> 0, read |-> s.read, error |-> 87]

\* Mutant: the payload's own handle, as the named-main experiment of the code.
LibraryHandleMain(p, exact) ==
  LET s == Scan(p, WideSize, NameLimit, FALSE)
  IN IF exact /\ s.status = "ok" /\ NamesKernel32(s.chars)
       THEN [handle |-> ImageBase, read |-> s.read, error |-> 0]
       ELSE [handle |-> 0, read |-> s.read, error |-> 126]

\* gxos_load_library_ex_checked; exact: no file and the SYSTEM32 flag alone.
LibraryHandle(p, exact) ==
  LET s == Scan(p, WideSize, NameLimit, FALSE)
  IN IF ~exact THEN [handle |-> 0, read |-> {}, error |-> 87]
     ELSE IF s.status # "ok" THEN [handle |-> 0, read |-> s.read, error |-> 87]
     ELSE IF NamesKernel32(s.chars) THEN [handle |-> Kernel32, read |-> s.read, error |-> 0]
     ELSE [handle |-> 0, read |-> s.read, error |-> 126]

\* gxos_get_proc_address_checked: the name is read before the module is
\* tested, and no procedure is ever found.
ProcedureError(h, id) ==
  IF id <= MaxOrdinal THEN 127
  ELSE IF Scan(id, 1, NameLimit, FALSE).status # "ok" THEN 127
  ELSE IF h \in {0, Kernel32} THEN 127
  ELSE 6

\* gxos_get_module_handle_ex_checked; exact: the two expected flags.
AddressHandle(exact, a, out) ==
  IF /\ out # 0 /\ out >= StackLower /\ out + PointerSize <= StackUpper
     /\ exact
     /\ a # 0 /\ IsCanonical(a)
     /\ ImageIsValid
     /\ a >= ImageBase /\ a < ImageEnd
    THEN ImageBase ELSE 0

CallNames(kind, a, b, result, error, read) ==
  /\ ~namesHalted /\ nameCalls < MaxNameCalls /\ nameCalls' = nameCalls + 1
  /\ answer' = [kind |-> kind, a |-> a, b |-> b, result |-> result]
  /\ nameError' = IF error = 0 THEN nameError ELSE error
  /\ touched' = read
  /\ UNCHANGED main

Hold(handle, by, argument) ==
  /\ held' = IF handle = 0 THEN held
             ELSE held \cup {[handle |-> handle, by |-> by, argument |-> argument]}
  /\ UNCHANGED namesHalted

GetModuleHandleW(p) ==
  LET r == ModuleHandle(p)
  IN CallNames("module", p, 0, r.handle, r.error, r.read) /\ Hold(r.handle, "module", p)

LoadLibraryExW(p, exact) ==
  LET r == LibraryHandle(p, exact)
  IN CallNames("library", p, 0, r.handle, r.error, r.read) /\ Hold(r.handle, "library", p)

GetModuleHandleExW(exact, a, out) ==
  LET h == AddressHandle(exact, a, out)
  IN CallNames("address", a, out, h, 0, {}) /\ Hold(h, "address", a)

GetProcAddress(h, id) ==
  /\ CallNames("procedure", h, id, 0, ProcedureError(h, id),
               IF id <= MaxOrdinal THEN {} ELSE Scan(id, 1, NameLimit, FALSE).read)
  /\ UNCHANGED <<held, namesHalted>>

-----------------------------------------------------------------------------
(* Strings.  An invalid string ends the payload.                           *)

\* gxos_crt_strlen_checked, which first tests that the limit does not wrap.
ScanString(p) ==
  IF p # 0 /\ IsCanonical(p) /\ p + ScanLimit - 1 > WordMax
    THEN [status |-> "overflow", length |-> 0, read |-> {}, chars |-> <<>>]
    ELSE Scan(p, 1, ScanLimit, FALSE)

Strlen(p) ==
  LET s == ScanString(p)
  IN /\ CallNames("strlen", p, 0, s.length, 0, s.read)
     /\ namesHalted' = (s.status # "ok")
     /\ UNCHANGED held

\* Mutant: the end of the first string ends the comparison.
ComparePrefix(p, q, fold) ==
  LET n == CHOOSE i \in 0 .. ScanLimit :
             /\ Char(p + i, 1) = 0 \/ FoldIf(fold, Char(p + i, 1)) # FoldIf(fold, Char(q + i, 1))
             /\ \A j \in 0 .. (i - 1) : FoldIf(fold, Char(p + j, 1)) = FoldIf(fold, Char(q + j, 1))
  IN IF Char(p + n, 1) = 0 THEN 0 ELSE FoldIf(fold, Char(p + n, 1)) - FoldIf(fold, Char(q + n, 1))

\* The first position where two strings differ, or both end.
Compare(p, q, fold) ==
  LET At(s, i) == FoldIf(fold, Char(s + i, 1))
      n == CHOOSE i \in 0 .. ScanLimit :
             /\ At(p, i) # At(q, i) \/ At(p, i) = 0
             /\ \A j \in 0 .. (i - 1) : At(p, j) = At(q, j) /\ At(p, j) # 0
  IN At(p, n) - At(q, n)

\* platform_stricmp: both strings must also end within the limit, whatever the
\* comparison found.
Stricmp(p, q) ==
  LET s == ScanString(p)
      t == ScanString(q)
      ok == s.status = "ok" /\ t.status = "ok"
  IN /\ CallNames("stricmp", p, q, IF ok THEN Compare(p, q, TRUE) ELSE 0, 0,
                  s.read \cup t.read)
     /\ namesHalted' = ~ok
     /\ UNCHANGED held

\* A read that nothing checks: of the image, of what is mapped around it, or of
\* an address that faults (nothing is mapped at the end of the address space).
Load(m, a) == IF a \in DOMAIN Text THEN Text[a] ELSE IF a \in DOMAIN m THEN m[a] ELSE Fault
LoadUnit(m, a, size) ==
  IF \E i \in 0 .. (size - 1) : Load(m, a + i) = Fault THEN Fault
  ELSE IF size = 1 THEN Load(m, a) ELSE Load(m, a) + 16 * Load(m, a + 1)

\* The loop that measures a string for the report: until the terminator, a
\* fault or the limit.
Preview(m, p, size, limit) ==
  LET At(i) == LoadUnit(m, p + i * size, size)
      n == CHOOSE i \in 0 .. limit :
             /\ i = limit \/ At(i) \in {0, Fault}
             /\ \A j \in 0 .. (i - 1) : At(j) \notin {0, Fault}
  IN [fault |-> n < limit /\ At(n) = Fault,
      read  |-> p .. (p + n * size - 1 + (IF n < limit THEN size ELSE 0))]

\* Mutant: the comparison does not stop where both strings end.
CompareUncheckedOnward(m, p, q) ==
  LET L(i) == Load(m, p + i)
      R(i) == Load(m, q + i)
      n == CHOOSE i \in 0 .. (WordMax + 1) :
             /\ L(i) # R(i) \/ L(i) = Fault
             /\ \A j \in 0 .. (i - 1) : L(j) = R(j) /\ L(j) # Fault
  IN [fault |-> L(n) = Fault \/ R(n) = Fault,
      result |-> IF L(n) = R(n) THEN 0 ELSE IF L(n) < R(n) THEN -1 ELSE 1,
      read |-> (p .. (p + n)) \cup (q .. (q + n - (IF L(n) = Fault THEN 1 ELSE 0)))]

\* gxos_crt_strcmp, which has no limit: the first position where the characters
\* differ, both strings end or a read faults.
CompareUnchecked(m, p, q) ==
  LET L(i) == Load(m, p + i)
      R(i) == Load(m, q + i)
      n == CHOOSE i \in 0 .. (WordMax + 1) :
             /\ L(i) # R(i) \/ L(i) \in {0, Fault}
             /\ \A j \in 0 .. (i - 1) : L(j) = R(j) /\ L(j) \notin {0, Fault}
  IN [fault |-> L(n) = Fault \/ R(n) = Fault,
      result |-> IF L(n) = R(n) THEN 0 ELSE IF L(n) < R(n) THEN -1 ELSE 1,
      read |-> (p .. (p + n)) \cup (q .. (q + n - (IF L(n) = Fault THEN 1 ELSE 0)))]

\* platform_strcmp: both strings are measured, then compared, whatever they
\* point to.  A fault ends the payload.
Strcmp(m, p, q) ==
  LET l == Preview(m, p, 1, PreviewLimit)
      r == Preview(m, q, 1, PreviewLimit)
      c == CompareUnchecked(m, p, q)
  IN /\ CallNames("strcmp", p, q, c.result, 0,
                  l.read \cup (IF l.fault THEN {} ELSE r.read)
                         \cup (IF l.fault \/ r.fault THEN {} ELSE c.read))
     /\ namesHalted' = (l.fault \/ r.fault \/ c.fault)
     /\ UNCHANGED held

\* platform_get_environment_variable_w: the name is measured for the report, and
\* no variable is ever found.
GetEnvironmentVariableW(m, p) ==
  LET s == IF p = 0 THEN [fault |-> FALSE, read |-> {}]
           ELSE Preview(m, p, WideSize, EnvironmentPreview)
  IN /\ CallNames("environment", p, 0, 0, IF s.fault THEN 0 ELSE 203, s.read)
     /\ namesHalted' = s.fault
     /\ UNCHANGED held

\* Mutant: the reported size leaves out the terminator.
EnvironmentValueShort(name, present, size) ==
  LET found == {e \in EnvironmentEntries : e.name = name}
      length == (CHOOSE e \in found : TRUE).length
  IN IF found = {} THEN [result |-> 0, written |-> 0]
     ELSE IF size < length THEN [result |-> length, written |-> 0]
     ELSE [result |-> length, written |-> IF present THEN length + 1 ELSE 0]

\* gxos_get_environment_variable_w_checked, with the table of the tests: the
\* value it returns, and the characters it writes.
EnvironmentValue(name, present, size) ==
  LET found == {e \in EnvironmentEntries : e.name = name}
      required == (CHOOSE e \in found : TRUE).length + 1
  IN IF found = {} THEN [result |-> 0, written |-> 0]
     ELSE IF size < required THEN [result |-> required, written |-> 0]
     ELSE [result |-> required - 1, written |-> IF present THEN required ELSE 0]

\* The table lookup, which only the tests call.  A context, name, table or
\* buffer that is not valid is refused, and so is a size past 32 bits.
ReadEnvironment(name, present, size) ==
  /\ CallNames("value", name, size, EnvironmentValue(name, present, size), 0, {})
  /\ UNCHANGED <<held, namesHalted>>

EnvironmentRefused(name, size) ==
  /\ CallNames("value", name, size, [result |-> 0, written |-> 0], 0, {})
  /\ UNCHANGED <<held, namesHalted>>

ModulesNext ==
  \/ \E p \in NamePointers :
       \/ GetModuleHandleW(p)
       \/ \E exact \in BOOLEAN : LoadLibraryExW(p, exact)
       \/ \E exact \in BOOLEAN, out \in OutputPointers : GetModuleHandleExW(exact, p, out)
       \/ \E h \in {g.handle : g \in held} \cup {0, ImageBase + 1} : GetProcAddress(h, p)
       \/ Strlen(p)
       \/ \E q \in NamePointers : Stricmp(p, q)
       \/ \E m \in Surroundings :
            \/ GetEnvironmentVariableW(m, p)
            \/ \E q \in NamePointers : Strcmp(m, p, q)
  \/ \E e \in EnvironmentEntries, size \in 0 .. NameLimit :
       \/ \E present \in BOOLEAN : ReadEnvironment(e.name, present, size)
       \/ EnvironmentRefused(e.name, size)

ModulesSpec == ModulesInit /\ [][ModulesNext]_moduleVars

-----------------------------------------------------------------------------
(* Safety.                                                                 *)

\* No scan that checks its addresses reads outside the headers and the readable
\* sections of the image, whatever pointer the payload passed (the bounds of
\* every scan_name loop, of crt_strlen.c and of crt_stricmp.c).
ScansStayInTheImage ==
  answer.kind \notin {"strcmp", "environment"} =>
    \A a \in touched :
      \/ a >= ImageBase /\ a < main.headerEnd
      \/ \E r \in FindAddress(a) : r.readable

\* What the calls without checks read depends on their pointers.  strcmp reads
\* two strings of the image up to their terminators and no further, and of
\* other pointers it may read anything (platform_strcmp).
\* GetEnvironmentVariableW reads no more than its limit, and only the name when
\* this ends in the image (platform_getenv_bounded_name_length).
UncheckedReadsEnd ==
  LET name == Scan(answer.a, WideSize, EnvironmentPreview, FALSE)
  IN /\ answer.kind = "strcmp" /\ {ScanString(answer.a).status, ScanString(answer.b).status} = {"ok"} =>
          ~namesHalted /\ touched \subseteq ScanString(answer.a).read \cup ScanString(answer.b).read
     /\ answer.kind = "environment" =>
          /\ touched \subseteq answer.a .. (answer.a + EnvironmentPreview * WideSize - 1)
          /\ name.status \in {"ok", "null"} => ~namesHalted /\ touched \subseteq name.read

\* The lookups agree on what a handle is: what LoadLibraryExW gave for a name,
\* GetModuleHandleW gives too and GetProcAddress accepts; what
\* GetModuleHandleExW gave for an address is what GetModuleHandleW(NULL) gives
\* (one registry behind platform_load_library.c, _get_module_handle.c and
\* _get_proc_address.c).
HandlesNameOneModule ==
  \A g \in held :
    /\ g.by = "library" => ModuleHandle(g.argument).handle = g.handle
    /\ g.handle = Kernel32 => \A id \in NamePointers : ProcedureError(g.handle, id) = 127
    /\ g.by = "address" /\ FactsAreValid => ModuleHandle(0).handle = g.handle

\* A comparison of strings of the image is zero for equal strings only, equal up
\* to case for _stricmp, although it never measures them first (crt_stricmp.c,
\* crt_strcmp.c).
ComparisonsSeeWholeStrings ==
  /\ answer.kind = "strcmp" /\ {ScanString(answer.a).status, ScanString(answer.b).status} = {"ok"} =>
       (answer.result = 0 <=> ScanString(answer.a).chars = ScanString(answer.b).chars)
  /\ answer.kind = "stricmp" /\ ~namesHalted =>
       (answer.result = 0 <=>
          Folded(ScanString(answer.a).chars) = Folded(ScanString(answer.b).chars))

\* A caller that retries with the size it was told gets the value, and no call
\* writes more characters than the buffer has (platform_environment.c).
EnvironmentRetrySucceeds ==
  answer.kind = "value" =>
    LET r == answer.result
        retry == EnvironmentValue(answer.a, TRUE, r.result)
    IN /\ r.written <= answer.b
       /\ r.result > answer.b => retry.written = r.result /\ retry.result = r.result - 1

\* Strings are read to their end and no further: no scan that checks its
\* addresses leaves the image, the calls without checks leave it only when their
\* string does, and no comparison is decided by a prefix.
StringsAreReadWhole ==
  ScansStayInTheImage /\ UncheckedReadsEnd /\ ComparisonsSeeWholeStrings

\* What one call answered a later call confirms: handles of the lookups, and
\* sizes of the environment.
AnswersAreConfirmed == HandlesNameOneModule /\ EnvironmentRetrySucceeds
=============================================================================
