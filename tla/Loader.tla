------------------------------- MODULE Loader -------------------------------
(***************************************************************************)
(* How efi_main of gate4_loader.c brings the payload into memory: sections *)
(* are mapped, pointers moved to where the firmware put the image, imports *)
(* bound, and the thread-local block of the boot thread is made.  A word   *)
(* of file and image stands for a pointer; an RVA counts words.  fail()    *)
(* prints and halts, so whatever a failed phase had changed is lost.       *)
(***************************************************************************)
EXTENDS Integers, Sequences, FiniteSets, SequencesExt

CONSTANTS
  Payloads,           \* the files that may be on the boot volume
  Bases,              \* where the firmware may place the image
  AddressSpan,        \* 2^64
  MaxRegions,         \* GXOS_CRT_INITTERM_MAX_MEMORY_REGIONS
  MaxExecutables,     \* GXOS_CRT_INITTERM_E_MAX_EXECUTABLE_REGIONS
  MaxImportSymbols,   \* MAX_IMPORT_SYMBOLS
  ImportTargets,      \* <<module, symbol>> to the address of its function
  StubPage,           \* g_import_stub_pages
  StubsPerPage,       \* EFI_PAGE_SIZE / 32
  StubCode,           \* what the start of a stub is, read as a word
  OrdinalFlag,        \* bit 63 of a lookup entry
  MaxRva,             \* 2^32 - 1
  MaxTemplate,        \* 0x100000
  TlsVectorLength,    \* 512
  TlsBlocks,          \* where the firmware may place the page of the TLS block
  TlsPage             \* the words of that page

\* An image lies within the address space, and no two allocations share a page
\* (AllocatePages, external).
ASSUME LoaderAssumption ==
  /\ {MaxRegions, MaxExecutables, MaxImportSymbols, TlsVectorLength} \subseteq Nat \ {0}
  /\ {StubsPerPage, TlsPage} \subseteq Nat \ {0}
  /\ {StubPage, StubCode, OrdinalFlag, MaxRva, MaxTemplate} \subseteq Nat
  /\ TlsBlocks \subseteq Nat
  /\ AddressSpan \in Nat \ {0}
  /\ Bases \subseteq 1 .. (AddressSpan - 1) /\ \A b \in Bases : b + MaxRva < AddressSpan
  /\ \A b \in Bases, p \in Payloads :
       StubPage + StubsPerPage <= b \/ b + p.size <= StubPage
  /\ \A b \in TlsBlocks : StubPage + StubsPerPage <= b \/ b + TlsPage <= StubPage

VARIABLES
  payload,         \* the file, with the fields of its headers decoded
  image,           \* PE_IMAGE: base, words, regions, executables, relocated, TLS fields
  loading,         \* the phase, and the section, block or descriptor and entry it is at
  importRecords,   \* g_import_records
  importStubs,     \* what the stubs of the stub page hand to import_failfast
  tlsArea,         \* the block of the boot thread: where, what, and its place in the vector
  strays           \* the addresses behind the page of stubs or of the block that were written

loaderVars == <<payload, image, loading, importRecords, importStubs, tlsArea, strays>>

NoImage ==
  [base |-> 0, words |-> <<>>, regions |-> <<>>, executables |-> <<>>, relocated |-> FALSE,
   template |-> 0, templateSize |-> 0, index |-> 0, callbacks |-> 0]
At(phase, n, i) == [phase |-> phase, n |-> n, i |-> i]

LoaderInit ==
  /\ payload \in Payloads
  /\ image = NoImage /\ loading = At("read", 1, 0)
  /\ importRecords = <<>> /\ importStubs = <<>>
  /\ tlsArea = [start |-> 0, block |-> <<>>, index |-> 0] /\ strays = {}

Fail ==
  /\ loading' = At("failed", 0, 0)
  /\ UNCHANGED <<payload, image, importRecords, importStubs, tlsArea, strays>>

-----------------------------------------------------------------------------
(* Addresses in the file and in the image.                                 *)

NotFound == -1
FileSize(p) == Len(p.file)
FileWord(p, offset) == p.file[offset + 1]

\* The raw data of section s holds the range.
Holds(p, s, rva, size) ==
  /\ rva >= s.va /\ rva + size <= s.va + s.rawSize
  /\ (s.raw + (rva - s.va)) + size <= FileSize(p)
\* rva_to_file: the headers, or the first section that holds the range.
RvaToFile(p, rva, size) ==
  LET found == {k \in DOMAIN p.sections : Holds(p, p.sections[k], rva, size)}
      first == p.sections[Min(found)]
  IN IF rva + size <= p.headers
       THEN IF rva + size <= FileSize(p) THEN rva ELSE NotFound
       ELSE IF found = {} THEN NotFound ELSE first.raw + (rva - first.va)
\* rva_to_loaded.
InImage(rva, size) == rva + size <= payload.size

-----------------------------------------------------------------------------
(* load_pe_image.                                                          *)

\* Headers, load configuration, memory for the image, and the headers in it.
HeadersAreValid ==
  /\ payload.signature
  /\ payload.cookie = 0 \/ (payload.cookie >= payload.preferred
                             /\ payload.cookie - payload.preferred <= MaxRva)
  /\ payload.size # 0 /\ payload.headers <= FileSize(payload)
AllocateImage(base) ==
  /\ loading.phase = "read"
  /\ HeadersAreValid
  /\ image' = [NoImage EXCEPT !.base = base,
       !.words = [rva \in 0 .. (payload.size - 1) |->
                    IF rva < payload.headers THEN FileWord(payload, rva) ELSE 0]]
  /\ loading' = At("map", 1, 0)
  /\ UNCHANGED <<payload, importRecords, importStubs, tlsArea, strays>>
\* The headers are bad, or the firmware has no memory.
LoadRefused == loading.phase = "read" /\ Fail

Section == payload.sections[loading.n]
ImageExtent(s) == IF s.virtualSize > s.rawSize THEN s.virtualSize ELSE s.rawSize
CodeExtent(s) == IF s.virtualSize = 0 THEN s.rawSize ELSE s.virtualSize
IsCode(s) == s.executable /\ s.rawSize # 0
SectionIsValid(s) ==
  /\ ImageExtent(s) # 0 =>
       Len(image.regions) < MaxRegions /\ s.va + ImageExtent(s) <= payload.size
  /\ s.rawSize # 0 =>
       s.raw + s.rawSize <= FileSize(payload) /\ s.va + s.rawSize <= payload.size
  /\ IsCode(s) =>
       Len(image.executables) < MaxExecutables /\ s.va + CodeExtent(s) <= payload.size

\* One section: its region, its executable region, its raw data.
MapSection ==
  /\ loading.phase = "map" /\ loading.n <= Len(payload.sections)
  /\ SectionIsValid(Section)
  /\ LET s == Section
         start == image.base + s.va
     IN image' = [image EXCEPT
          !.regions = IF ImageExtent(s) = 0 THEN @
                      ELSE Append(@, [base |-> start, end |-> start + ImageExtent(s)]),
          !.executables = IF IsCode(s)
                            THEN Append(@, [base |-> start, end |-> start + CodeExtent(s)])
                            ELSE @,
          !.words = [rva \in DOMAIN @ |-> IF rva \in s.va .. (s.va + s.rawSize - 1)
                                            THEN FileWord(payload, s.raw + (rva - s.va)) ELSE @[rva]]]
  /\ loading' = At("map", loading.n + 1, 0)
  /\ UNCHANGED <<payload, importRecords, importStubs, tlsArea, strays>>
SectionRefused ==
  /\ loading.phase = "map" /\ loading.n <= Len(payload.sections)
  /\ ~SectionIsValid(Section)
  /\ Fail

\* Mutant: the difference the wrong way round.
DeltaReversed == (payload.preferred - image.base) % AddressSpan

\* apply_relocations: unsigned, so an image may move down.
Delta == (image.base - payload.preferred) % AddressSpan
StartRelocations ==
  /\ loading.phase = "map" /\ loading.n > Len(payload.sections)
  /\ IF Delta = 0
       THEN /\ image' = [image EXCEPT !.relocated = TRUE]
            /\ loading' = At("directories", 1, 0)
            /\ UNCHANGED <<payload, importRecords, importStubs, tlsArea, strays>>
       ELSE IF payload.relocations = <<>> THEN Fail
       ELSE /\ loading' = At("relocate", 1, 0)
            /\ UNCHANGED <<payload, image, importRecords, importStubs, tlsArea, strays>>

DIR64 == 10
ABSOLUTE == 0
RelocationBlock == payload.relocations[loading.n]
BlockIsValid(b) ==
  /\ b.inDirectory
  /\ \A i \in DOMAIN b.entries :
       /\ b.entries[i].type \in {DIR64, ABSOLUTE}
       /\ b.entries[i].type = DIR64 => InImage(b.page + b.entries[i].offset, 1)
\* The entries of a block that move the word at an RVA.
Moves(b, rva) ==
  Cardinality({i \in DOMAIN b.entries :
                 b.entries[i].type = DIR64 /\ b.page + b.entries[i].offset = rva})
RelocateBlock ==
  /\ loading.phase = "relocate" /\ loading.n <= Len(payload.relocations)
  /\ BlockIsValid(RelocationBlock)
  /\ image' = [image EXCEPT
       !.words = [rva \in DOMAIN @ |-> (@[rva] + Moves(RelocationBlock, rva) * Delta) % AddressSpan],
       !.relocated = loading.n = Len(payload.relocations)]
  /\ loading' = IF loading.n = Len(payload.relocations) THEN At("directories", 1, 0)
                ELSE At("relocate", loading.n + 1, 0)
  /\ UNCHANGED <<payload, importRecords, importStubs, tlsArea, strays>>
BlockRefused ==
  /\ loading.phase = "relocate" /\ loading.n <= Len(payload.relocations)
  /\ ~BlockIsValid(RelocationBlock)
  /\ Fail

\* Mutant: the directory is read where it was loaded, after its relocation.
TlsWordLoaded(i) == image.words[payload.tls + i]

\* The words of the TLS directory, as the file has them: start and end of the
\* template, the index, the callbacks.
TlsWord(i) == FileWord(payload, RvaToFile(payload, payload.tls, 4) + i)
TlsIsValid ==
  /\ RvaToFile(payload, payload.tls, 4) # NotFound
  /\ TlsWord(0) >= payload.preferred /\ TlsWord(0) - payload.preferred <= MaxRva
  /\ TlsWord(1) \in TlsWord(0) .. (TlsWord(0) + MaxTemplate)
  /\ TlsWord(2) >= payload.preferred /\ TlsWord(2) - payload.preferred <= MaxRva
  /\ TlsWord(3) # 0 => TlsWord(3) >= payload.preferred
                       /\ TlsWord(3) - payload.preferred <= MaxRva
\* find_managed_main, find_managed_callback, find_managed_gc_probe and the TLS
\* directory.
ReadDirectories ==
  /\ loading.phase = "directories"
  /\ IF payload.exported /\ (payload.tls # 0 => TlsIsValid)
       THEN /\ image' = IF payload.tls = 0 THEN image ELSE
                 [image EXCEPT !.template = TlsWord(0) - payload.preferred,
                               !.templateSize = TlsWord(1) - TlsWord(0),
                               !.index = TlsWord(2) - payload.preferred,
                               !.callbacks = IF TlsWord(3) = 0 THEN 0
                                             ELSE TlsWord(3) - payload.preferred]
            /\ loading' = At("bind", 1, 0)
            /\ UNCHANGED <<payload, importRecords, importStubs, tlsArea, strays>>
       ELSE Fail

-----------------------------------------------------------------------------
(* resolve_imports: entry i of descriptor n.                               *)

Descriptor == payload.imports[loading.n]
LookupRva(d) == IF d.lookup = 0 THEN d.thunk ELSE d.lookup
DescriptorIsValid(d) ==
  RvaToFile(payload, d.name, 1) # NotFound /\ LookupRva(d) # 0 /\ d.thunk # 0
Lookup(p, d, i) == RvaToFile(p, LookupRva(d) + i, 1)
LookupWord(p, d, i) == FileWord(p, Lookup(p, d, i))
\* Mutant of LookupIsValid too: the table of records has no end.
LookupNamesSymbol(d, i) ==
  LET word == LookupWord(payload, d, i)
  IN /\ word < OrdinalFlag /\ word <= MaxRva
     /\ RvaToFile(payload, word, 1) # NotFound /\ InImage(d.thunk + i, 1)
LookupIsValid(d, i) == LookupNamesSymbol(d, i) /\ Len(importRecords) < MaxImportSymbols
AtEntry == loading.phase = "bind" /\ loading.n <= Len(payload.imports)
EntryIsReadable ==
  DescriptorIsValid(Descriptor) /\ Lookup(payload, Descriptor, loading.i) # NotFound

\* platform_import_target: the function of a symbol, or none.
IsImplemented(r) == <<r.module, r.symbol>> \in DOMAIN ImportTargets
StubAddress(n) == StubPage + n

\* Mutant: stubs are numbered within a module.
StubNumberInModule == loading.i

\* Where emit_import_failfast_stub writes: symbols counts across modules.
StubNumber == Len(importRecords)

\* A stub is written wherever its number puts it, behind the page too.
StrayStub(r) ==
  IF IsImplemented(r) \/ StubNumber < StubsPerPage THEN {} ELSE {StubAddress(StubNumber)}
\* The image with the stub in it, should it lie there.
AfterStub(r) ==
  [rva \in DOMAIN image.words |->
     IF image.base + rva \in StrayStub(r) THEN StubCode ELSE image.words[rva]]

BindSymbol ==
  /\ AtEntry /\ EntryIsReadable
  /\ LookupWord(payload, Descriptor, loading.i) # 0 /\ LookupIsValid(Descriptor, loading.i)
  /\ LET d == Descriptor
         r == [module |-> FileWord(payload, RvaToFile(payload, d.name, 1)),
               symbol |-> FileWord(payload, RvaToFile(payload, LookupWord(payload, d, loading.i), 1)),
               iat |-> d.thunk + loading.i]
     IN /\ importRecords' = Append(importRecords, r)
        /\ image' = [image EXCEPT !.words = [AfterStub(r) EXCEPT ![r.iat] =
             IF IsImplemented(r) THEN ImportTargets[<<r.module, r.symbol>>]
             ELSE StubAddress(StubNumber)]]
        /\ strays' = strays \cup StrayStub(r)
        /\ importStubs' = Append(importStubs,
                                 IF IsImplemented(r) THEN 0 ELSE Len(importRecords) + 1)
  /\ loading' = At("bind", loading.n, loading.i + 1)
  /\ UNCHANGED <<payload, tlsArea>>

NextDescriptor ==
  /\ AtEntry /\ EntryIsReadable
  /\ LookupWord(payload, Descriptor, loading.i) = 0
  /\ loading' = At("bind", loading.n + 1, 0)
  /\ UNCHANGED <<payload, image, importRecords, importStubs, tlsArea, strays>>

BindRefused ==
  /\ AtEntry
  /\ EntryIsReadable =>
       LookupWord(payload, Descriptor, loading.i) # 0 /\ ~LookupIsValid(Descriptor, loading.i)
  /\ Fail

-----------------------------------------------------------------------------
(* initialize_nativeaot_tls.                                               *)

\* The index is read without a test of its RVA; beyond the image any word may
\* be found.
TlsIndexes ==
  IF InImage(image.index, 1) THEN {image.words[image.index]} ELSE 0 .. TlsVectorLength
AtTls == loading.phase = "bind" /\ loading.n > Len(payload.imports)
\* copy_bytes takes the whole template, whatever the page of the block holds; the
\* pages of the vector, the gs area and the TEB may lie over a stub or a word of the
\* copy that is behind its page, and the last two are cleared (0) after the copy.
InitializeTls ==
  /\ AtTls
  /\ image.templateSize # 0 /\ image.index # 0
  /\ InImage(image.template, image.templateSize)
  /\ \E i \in TlsIndexes, start \in TlsBlocks :
       LET tail == (start + TlsPage) .. (start + image.templateSize - 1)
           copied == [k \in 1 .. image.templateSize |-> image.words[image.template + k - 1]]
       IN /\ i < TlsVectorLength
          /\ start + TlsPage <= image.base \/ image.base + payload.size <= start
          /\ \E cleared \in SUBSET {k \in DOMAIN copied : start + k - 1 \in tail} :
               tlsArea' = [start |-> start, index |-> i,
                           block |-> [k \in DOMAIN copied |-> IF k \in cleared THEN 0 ELSE copied[k]]]
          /\ \E cleared \in SUBSET {n \in DOMAIN importStubs : StubAddress(n - 1) \in strays} :
               importStubs' = [n \in DOMAIN importStubs |->
                 IF n \in cleared \/ StubAddress(n - 1) \in tail THEN 0 ELSE importStubs[n]]
          /\ image' = [image EXCEPT !.words = [rva \in DOMAIN @ |->
               IF image.base + rva \in tail THEN copied[image.base + rva - start + 1] ELSE @[rva]]]
          /\ strays' = strays \cup tail
  /\ loading' = At("ready", 0, 0)
  /\ UNCHANGED <<payload, importRecords>>
\* No template, a bad index or template, or one of the four pages refused.
TlsRefused == AtTls /\ Fail

LoaderNext ==
  \/ \E base \in Bases : AllocateImage(base)
  \/ LoadRefused \/ MapSection \/ SectionRefused
  \/ StartRelocations \/ RelocateBlock \/ BlockRefused \/ ReadDirectories
  \/ BindSymbol \/ NextDescriptor \/ BindRefused
  \/ InitializeTls \/ TlsRefused

LoaderSpec == LoaderInit /\ [][LoaderNext]_loaderVars

-----------------------------------------------------------------------------
(* Payloads: what the linker makes (external).                             *)

\* What the file has at an RVA.
PayloadWord(p, rva) ==
  LET at == RvaToFile(p, rva, 1) IN IF at = NotFound THEN 0 ELSE FileWord(p, at)
\* How often the relocations of the file name an RVA.
Relocations(p, rva) ==
  Cardinality({e \in UNION {{n} \X DOMAIN p.relocations[n].entries : n \in DOMAIN p.relocations} :
                 LET b == p.relocations[e[1]]
                 IN b.entries[e[2]].type = DIR64 /\ b.page + b.entries[e[2]].offset = rva})
\* Entry i of descriptor n names a symbol, and so do those before it.
IsEntry(p, n, i) ==
  \A j \in 0 .. i : /\ Lookup(p, p.imports[n], j) # NotFound
                    /\ LookupWord(p, p.imports[n], j) # 0

HasTypes(p) ==
  /\ p.file \in Seq(0 .. (AddressSpan - 1)) /\ p.preferred \in 0 .. (AddressSpan - 1)
  /\ p.headers \in 0 .. p.size /\ p.size \in 0 .. MaxRva /\ p.tls \in Nat
  /\ p.sections \in Seq([va : Nat, virtualSize : Nat, raw : Nat, rawSize : Nat,
                          executable : BOOLEAN])
  /\ p.relocations \in Seq([page : Nat, inDirectory : BOOLEAN,
                             entries : Seq([type : Nat, offset : Nat])])
  /\ p.imports \in Seq([lookup : Nat, name : Nat, thunk : Nat])
\* Raw data lies behind the headers, and no two sections share an RVA.
SectionsAreApart(p) ==
  \A k \in DOMAIN p.sections : p.sections[k].rawSize # 0 =>
    /\ p.headers <= p.sections[k].va
    /\ \A j \in DOMAIN p.sections : j # k /\ p.sections[j].rawSize # 0 =>
         \/ p.sections[k].va + p.sections[k].rawSize <= p.sections[j].va
         \/ p.sections[j].va + p.sections[j].rawSize <= p.sections[k].va
\* Every symbol has a slot of its own, outside the TLS directory, that holds
\* what the lookup table holds until it is bound.
SlotsAreApart(p) ==
  \A n \in DOMAIN p.imports, i \in 0 .. (p.size - 1) : IsEntry(p, n, i) =>
    LET slot == p.imports[n].thunk + i IN
      /\ PayloadWord(p, slot) = LookupWord(p, p.imports[n], i)
      /\ slot \notin p.tls .. (p.tls + 2)
      /\ \A m \in DOMAIN p.imports, j \in 0 .. (p.size - 1) :
           IsEntry(p, m, j) /\ p.imports[m].thunk + j = slot => m = n /\ j = i
\* The pointers of the TLS directory are relocated once.
DirectoryIsRelocated(p) ==
  p.tls # 0 /\ p.relocations # <<>> => \A k \in 0 .. 2 : Relocations(p, p.tls + k) = 1

\* Files that the loader must refuse break none of this: they are cut off, point
\* outside or ask for what it does not do.
ASSUME PayloadsAreLinked ==
  \A p \in Payloads :
    HasTypes(p) /\ SectionsAreApart(p) /\ SlotsAreApart(p) /\ DirectoryIsRelocated(p)

-----------------------------------------------------------------------------
(* Safety.                                                                 *)

\* No overrun of the stubs or of the TLS block wrote this word of the image.
Spared(rva) == image.base + rva \notin strays

\* Outside the import table a word of the image is the word of the file, moved
\* with the image when a relocation says it is a pointer, wherever the firmware
\* put it (load_pe_image, apply_relocations).
ImageIsThePayload ==
  \A rva \in DOMAIN image.words :
    Spared(rva) /\ (\A r \in Range(importRecords) : r.iat # rva) =>
      image.words[rva] =
        (PayloadWord(payload, rva) + Relocations(payload, rva) * (image.base - payload.preferred)) % AddressSpan

\* A slot of the import table holds the function of the symbol that the file
\* names there, or the address of a stub that reports that symbol and no other,
\* although symbols are counted across modules and slots within one
\* (resolve_imports).
ImportsAreBound ==
  \A k \in DOMAIN importRecords :
    LET r == importRecords[k] IN
      /\ PayloadWord(payload, PayloadWord(payload, r.iat)) = r.symbol
      /\ Spared(r.iat) =>
           IF IsImplemented(r)
             THEN image.words[r.iat] = ImportTargets[<<r.module, r.symbol>>]
             ELSE \E n \in DOMAIN importStubs :
                    /\ image.words[r.iat] = StubAddress(n - 1)
                    /\ StubAddress(n - 1) \notin strays => importStubs[n] = k

\* The block of the boot thread is a copy of the template to which the loaded
\* directory points, although the loader takes its RVA from the file before
\* relocation (the two bases of tls_start in load_pe_image).
\* Its index is the one in the image, when the directory places it there.
BlockIsTheTemplate ==
  LET start == image.words[payload.tls] - image.base
      end == image.words[payload.tls + 1] - image.base
      index == image.words[payload.tls + 2] - image.base
  IN (\A k \in 0 .. 2 : Spared(payload.tls + k)) =>
       /\ DOMAIN tlsArea.block = 1 .. (end - start)
       /\ \A k \in 1 .. (end - start) :
            Spared(start + k - 1) /\ tlsArea.start + k - 1 \notin strays =>
              tlsArea.block[k] = image.words[start + k - 1]
       /\ InImage(index, 1) /\ Spared(index) => tlsArea.index = image.words[index]

\* A payload that is ready to run is the file, moved, bound and with its
\* thread-local block, for every base the firmware may choose, except where the
\* stubs or the template were written beyond the one page that each has.
LoadedImageIsFaithful ==
  loading.phase = "ready" => ImageIsThePayload /\ ImportsAreBound /\ BlockIsTheTemplate

\* resolve_imports writes a stub for every symbol without a function into one page,
\* and initialize_nativeaot_tls the template into another; neither looks at the end
\* of its page.
StubsFit == \A k \in DOMAIN importRecords : k > StubsPerPage => IsImplemented(importRecords[k])
TemplateFits == image.templateSize <= TlsPage

\* The loader writes beyond the two pages exactly when the stubs or the template do
\* not fit, and never further than the limits on symbols and template let it: the
\* capacity test of resolve_imports and the template test of load_pe_image are all
\* that bounds the damage (stub_page + symbols * 32, copy_bytes(tls_block, ...)).
OverrunsAreBounded ==
  /\ strays \subseteq ((StubPage + StubsPerPage) .. (StubPage + MaxImportSymbols - 1))
                    \cup ((tlsArea.start + TlsPage) .. (tlsArea.start + MaxTemplate - 1))
  /\ loading.phase = "ready" => (strays = {} <=> StubsFit /\ TemplateFits)
=============================================================================
