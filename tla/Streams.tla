------------------------------ MODULE Streams ------------------------------
(***************************************************************************)
(* Text of the payload on its way out: GetStdHandle, WriteFile to the      *)
(* serial port, and MultiByteToWideChar (standard_handle.c, write_file.c,  *)
(* platform_multibyte.c, and their adapters in gate4_loader.c).            *)
(*                                                                         *)
(* Bytes keep their values, so that UTF-8 is decoded by its real rules; a  *)
(* UTF-16 unit takes one address of the destination.                       *)
(***************************************************************************)
EXTENDS ImageMemory, Sequences, FiniteSets

CONSTANTS
  BootStack,       \* [base, end]: g_stack_lower, g_stack_upper
  WorkerStack,     \* [base, end]: the stack of the calling thread, if not boot
  HeapBlocks,      \* [base, end] of live malloc records
  Sources,         \* byte sequences that the payload converts
  SourceBase,      \* where they lie
  BufferPointers, CountPointers, DestinationPointers,
  WriteLengths,    \* below 256, so that a count is its low byte
  UnitCounts,
  CountSize,       \* 4, of the count that WriteFile stores
  NulLimit,        \* GXOS_MULTIBYTE_MAX_NUL_SCAN
  MaxStreamCalls

StreamHandle == 1
OtherHandle == 2     \* an object of another type
InvalidHandleValue == -1

ASSUME StreamsAssumption ==
  /\ Sources \subseteq Seq(0 .. 255)
  /\ SourceBase \in Nat /\ BufferPointers \subseteq Nat /\ CountPointers \subseteq Nat
  /\ DestinationPointers \subseteq Nat
  /\ WriteLengths \subseteq 0 .. 255 /\ UnitCounts \subseteq Int
  /\ CountSize \in Nat \ {0} /\ NulLimit \in Nat \ {0} /\ MaxStreamCalls \in Nat

VARIABLES
  memory,       \* the payload's bytes
  outputHandle, errorHandle,    \* scheduler->standard_*_handle, 0: none
  serial,       \* what COM1 has sent
  streamError,  \* g_platform_last_error
  lastWrite,    \* the last successful WriteFile, with the buffer as it was
  converted,    \* the last MultiByteToWideChar
  readAddresses,\* what the imports have read through the payload's pointers
  streamCalls   \* calls so far

streamVars ==
  <<memory, outputHandle, errorHandle, serial, streamError, lastWrite, converted, readAddresses,
    streamCalls>>

AddressesOf(r) == r.base .. (r.end - 1)
StreamAddresses ==
  UNION {AddressesOf(r) : r \in ImageRegions \cup HeapBlocks \cup {BootStack, WorkerStack}}

NoWrite == [bytes |-> <<>>, sent |-> <<>>, count |-> 0, stored |-> 0]
NoConversion == [kind |-> "none", source |-> <<>>, room |-> 0, units |-> <<>>, result |-> 0]

StreamsInit ==
  /\ \E s \in Sources :
       memory = [a \in StreamAddresses |->
                   IF a \in SourceBase .. (SourceBase + Len(s) - 1)
                     THEN s[a - SourceBase + 1] ELSE 0]
  /\ outputHandle = 0 /\ errorHandle = 0 /\ serial = <<>> /\ streamError = 0
  /\ lastWrite = NoWrite /\ converted = NoConversion /\ readAddresses = {}
  /\ streamCalls = 0

-----------------------------------------------------------------------------
(* Pointers.                                                               *)

\* Mutant: the region of the first address stands for the whole range.
CoveredFirst(a, n, regions) ==
  IF n = 0 THEN "ok"
  ELSE IF a = 0 THEN "null"
  ELSE IF ~IsCanonical(a) THEN "noncanonical"
  ELSE IF n > WordMax - a THEN "overflow"
  ELSE IF \E r \in regions : a \in AddressesOf(r) THEN "ok"
  ELSE "inaccessible"

\* range_covered: the walk from region to region until the range ends.
Covered(a, n, regions) ==
  IF n = 0 THEN "ok"
  ELSE IF a = 0 THEN "null"
  ELSE IF ~IsCanonical(a) THEN "noncanonical"
  ELSE IF n > WordMax - a THEN "overflow"
  ELSE IF \A x \in a .. (a + n - 1) : \E r \in regions : x \in AddressesOf(r) THEN "ok"
  ELSE "inaccessible"

\* WriteFile knows the image and the boot stack.
WriteFileRegions(write) ==
  {r \in ImageRegions : r.readable /\ (write => r.writable)} \cup {BootStack}

\* multibyte_build_memory_context adds the caller's stack and the live malloc
\* records, and takes every section of the image for readable.
MultibyteRegions(write, boot) ==
  {r \in ImageRegions : write => r.writable} \cup {BootStack} \cup HeapBlocks
    \cup (IF boot THEN {} ELSE {WorkerStack})

Bytes(a, n) == [i \in 1 .. n |-> memory[a + i - 1]]

-----------------------------------------------------------------------------
(* Standard handles and WriteFile.                                         *)

\* Mutant: the stream is installed for the role that was asked for.
InstallStreamForRole(role) ==
  /\ outputHandle' = IF role = "output" THEN StreamHandle ELSE outputHandle
  /\ errorHandle' = IF role = "error" THEN StreamHandle ELSE errorHandle

\* query_role and install_standard_stream: one stream, with both roles.
InstallStream(role) == outputHandle' = StreamHandle /\ errorHandle' = StreamHandle

\* There is no input stream; an unknown selector is an error; installing needs
\* an object slot, which may be missing.
GetStdHandle(selector, slot) ==
  /\ UNCHANGED <<memory, serial, lastWrite, converted, readAddresses>>
  /\ \/ /\ selector = "input"
        /\ UNCHANGED <<outputHandle, errorHandle, streamError>>
     \/ /\ selector = "other"
        /\ streamError' = 6 /\ UNCHANGED <<outputHandle, errorHandle>>
     \/ /\ selector \in {"output", "error"}
        /\ (IF selector = "output" THEN outputHandle ELSE errorHandle) # 0
        /\ UNCHANGED <<outputHandle, errorHandle, streamError>>
     \/ /\ selector \in {"output", "error"} /\ slot
        /\ (IF selector = "output" THEN outputHandle ELSE errorHandle) = 0
        /\ InstallStream(selector) /\ UNCHANGED streamError
     \/ /\ selector \in {"output", "error"} /\ ~slot
        /\ (IF selector = "output" THEN outputHandle ELSE errorHandle) = 0
        /\ streamError' = 8 /\ UNCHANGED <<outputHandle, errorHandle>>

\* The first test of gxos_write_file_contract that fails, as its error.
WriteFileError(h, buffer, n, out, overlapped) ==
  LET source == Covered(buffer, n, WriteFileRegions(FALSE))
      count == Covered(out, CountSize, WriteFileRegions(TRUE))
  IN IF h # StreamHandle \/ outputHandle = 0 THEN 6
     ELSE IF overlapped THEN 87
     ELSE IF source = "inaccessible" THEN 998
     ELSE IF source # "ok" THEN 87
     ELSE IF out = 0 THEN 87
     ELSE IF count = "inaccessible" THEN 998
     ELSE IF count # "ok" THEN 87
     ELSE 0

\* Mutant: the count is stored before the bytes are sent.
SendAndStoreEarly(buffer, n, out, count) ==
  /\ memory' = [a \in DOMAIN memory |->
                  IF a \in out .. (out + CountSize - 1) THEN (IF a = out THEN count ELSE 0)
                                                        ELSE memory[a]]
  /\ serial' = serial \o [i \in 1 .. count |-> memory'[buffer + i - 1]]

\* The backend sends count bytes; then the count is stored.
SendAndStore(buffer, n, out, count) ==
  /\ serial' = serial \o Bytes(buffer, count)
  /\ memory' = [a \in DOMAIN memory |->
                  IF a \in out .. (out + CountSize - 1) THEN (IF a = out THEN count ELSE 0)
                                                        ELSE memory[a]]

\* The serial backend sends all; the backends of the tests may send less, or
\* fail, after which the count is not stored.
WriteFile(h, buffer, n, out, overlapped, count, works) ==
  LET error == WriteFileError(h, buffer, n, out, overlapped)
  IN /\ UNCHANGED <<outputHandle, errorHandle, converted>>
     /\ \/ /\ error # 0
           /\ streamError' = error
           /\ UNCHANGED <<memory, serial, lastWrite, readAddresses>>
        \/ /\ error = 0 /\ works
           /\ SendAndStore(buffer, n, out, count)
           /\ readAddresses' = readAddresses \cup (buffer .. (buffer + n - 1))
           /\ lastWrite' = [bytes |-> Bytes(buffer, n), count |-> count,
                            sent |-> SubSeq(serial', Len(serial) + 1, Len(serial')),
                            stored |-> memory'[out]]
           /\ UNCHANGED streamError
        \/ /\ error = 0 /\ ~works /\ n # 0
           /\ streamError' = 50
           /\ serial' = serial \o Bytes(buffer, count)
           /\ readAddresses' = readAddresses \cup (buffer .. (buffer + n - 1))
           /\ UNCHANGED <<memory, lastWrite>>

-----------------------------------------------------------------------------
(* UTF-8 to UTF-16.                                                        *)

Invalid == -1

\* Mutant: only the first continuation byte is looked at.
IsContinuationFirst(s, i, k) == k > 1 \/ s[i + k] \in 128 .. 191

IsContinuation(s, i, k) == s[i + k] \in 128 .. 191

\* What decode_one reads off the first byte: the bytes of the character, its
\* highest bits, and the least code point that takes so many bytes.
LeadForm(first) ==
  IF first <= 127 THEN [size |-> 1, bits |-> first, least |-> 0]
  ELSE IF first \in 194 .. 223 THEN [size |-> 2, bits |-> first % 32, least |-> 128]
  ELSE IF first \in 224 .. 239 THEN [size |-> 3, bits |-> first % 16, least |-> 2048]
  ELSE IF first \in 240 .. 244 THEN [size |-> 4, bits |-> first % 8, least |-> 65536]
  ELSE [size |-> 0, bits |-> 0, least |-> 0]

Shifted(value, byte) == value * 64 + (byte % 64)

CodeValue(s, i) ==
  LET f == LeadForm(s[i])
      two == Shifted(f.bits, s[i + 1])
      three == Shifted(two, s[i + 2])
  IN IF f.size = 1 THEN f.bits ELSE IF f.size = 2 THEN two
     ELSE IF f.size = 3 THEN three ELSE Shifted(three, s[i + 3])

IsSurrogate(value) == 55296 <= value /\ value <= 57343

\* The tests of decode_one at position i of s.
IsWellFormed(s, i) ==
  LET f == LeadForm(s[i])
  IN /\ f.size # 0 /\ f.size <= Len(s) - i + 1
     /\ \A k \in 1 .. (f.size - 1) : IsContinuation(s, i, k)
     /\ s[i] = 224 => s[i + 1] >= 160
     /\ s[i] = 237 => s[i + 1] <= 159
     /\ s[i] = 240 => s[i + 1] >= 144
     /\ s[i] = 244 => s[i + 1] <= 143
     /\ CodeValue(s, i) >= f.least /\ CodeValue(s, i) <= 1114111
     /\ ~IsSurrogate(CodeValue(s, i))

\* decode_one: the code point and the bytes it takes.
DecodeOne(s, i) ==
  IF IsWellFormed(s, i) THEN [code |-> CodeValue(s, i), size |-> LeadForm(s[i]).size]
                        ELSE [code |-> Invalid, size |-> 1]

\* The code points of s, the last one Invalid where the loop stops at an error.
CodePoints(s) ==
  LET from[i \in 1 .. (Len(s) + 4)] ==
        IF i > Len(s) THEN <<>>
        ELSE LET d == DecodeOne(s, i)
             IN IF d.code = Invalid THEN <<Invalid>> ELSE <<d.code>> \o from[i + d.size]
  IN from[1]

\* Mutant: a surrogate pair is counted as one unit.
RequiredUnitsSingle(codes) == Len(codes)

RequiredUnits(codes) ==
  Len(codes) + Cardinality({i \in DOMAIN codes : codes[i] > 65535})

UnitsOf(code) ==
  IF code <= 65535 THEN <<code>>
  ELSE <<55296 + (code - 65536) \div 1024, 56320 + ((code - 65536) % 1024)>>
Utf16(codes) ==
  LET upTo[i \in 0 .. Len(codes)] == IF i = 0 THEN <<>> ELSE upTo[i - 1] \o UnitsOf(codes[i])
  IN upTo[Len(codes)]

\* source_byte_range: n bytes, or up to the terminator when n is -1.
SourceBytes(p, n, boot) ==
  LET regions == MultibyteRegions(FALSE, boot)
      Ends(i) == i = NulLimit \/ Covered(p + i, 1, regions) # "ok" \/ memory[p + i] = 0
      end == CHOOSE i \in 0 .. NulLimit : Ends(i) /\ \A j \in 0 .. (i - 1) : ~Ends(j)
  IN IF p = 0 \/ ~IsCanonical(p) THEN <<Invalid>>
     ELSE IF n > 0 THEN (IF Covered(p, n, regions) = "ok" THEN Bytes(p, n) ELSE <<Invalid>>)
     ELSE IF end < NulLimit /\ Covered(p + end, 1, regions) = "ok"
                     THEN Bytes(p, end + 1) ELSE <<Invalid>>

\* gxos_multibyte_to_wide_char_checked: [error, units written, result].  plain:
\* CP_UTF8 and supported flags.
Convert(plain, p, n, d, room, boot) ==
  LET s == SourceBytes(p, n, boot)
      codes == CodePoints(s)
      Fail(e) == [error |-> e, units |-> <<>>, result |-> 0]
  IN IF ~plain \/ n = 0 \/ n < -1 THEN Fail(87)
     ELSE IF d = 0 /\ room # 0 THEN Fail(87)
     ELSE IF d # 0 /\ (room <= 0 \/ Covered(d, room, MultibyteRegions(TRUE, boot)) # "ok") THEN
            Fail(87)
     ELSE IF s = <<Invalid>> THEN Fail(87)
     ELSE IF d # 0 /\ RangesOverlap(p, p + Len(s), [base |-> d, end |-> d + room]) THEN Fail(87)
     ELSE IF codes # <<>> /\ codes[Len(codes)] = Invalid THEN Fail(1113)
     ELSE IF d = 0 THEN [error |-> 0, units |-> <<>>, result |-> RequiredUnits(codes)]
     ELSE IF RequiredUnits(codes) > room THEN Fail(122)
     ELSE [error |-> 0, units |-> Utf16(codes), result |-> RequiredUnits(codes)]

MultiByteToWideChar(plain, p, n, d, room, boot) ==
  LET r == Convert(plain, p, n, d, room, boot)
      s == SourceBytes(p, n, boot)
  IN /\ streamError' = IF r.error = 0 THEN streamError ELSE r.error
     /\ converted' = [kind |-> IF r.error = 0 THEN (IF d = 0 THEN "size" ELSE "text")
                               ELSE IF r.error = 1113 THEN "untranslatable" ELSE "refused",
                      source |-> s, room |-> room, units |-> r.units, result |-> r.result]
     /\ memory' = [a \in DOMAIN memory |->
                     IF d # 0 /\ a \in d .. (d + Len(r.units) - 1)
                       THEN r.units[a - d + 1] % 256 ELSE memory[a]]
     /\ readAddresses' = readAddresses \cup
          (IF s = <<Invalid>> THEN {} ELSE p .. (p + Len(s) - 1))
     /\ UNCHANGED <<outputHandle, errorHandle, serial, lastWrite>>

StreamsNext ==
  /\ streamCalls < MaxStreamCalls /\ streamCalls' = streamCalls + 1
  /\ \/ \E selector \in {"input", "output", "error", "other"}, slot \in BOOLEAN :
          GetStdHandle(selector, slot)
     \/ \E h \in {StreamHandle, OtherHandle}, b \in BufferPointers, n \in WriteLengths,
           out \in CountPointers, overlapped, works \in BOOLEAN :
          \E count \in 0 .. n : WriteFile(h, b, n, out, overlapped, count, works)
     \/ \E plain, boot \in BOOLEAN, n \in WriteLengths \cup {-1, -2},
           d \in DestinationPointers, room \in UnitCounts :
          MultiByteToWideChar(plain, SourceBase, n, d, room, boot)

StreamsSpec == StreamsInit /\ [][StreamsNext]_streamVars

-----------------------------------------------------------------------------
(* Safety.                                                                 *)

\* Whatever ranges the payload passes, across however many sections, the
\* imports read mapped memory only (the walks of range_covered).
StreamsReadMappedMemory == readAddresses \subseteq StreamAddresses

\* Standard output and standard error name one stream, whichever is asked for
\* first (query_role installs both roles).
StandardHandlesAgree == outputHandle = errorHandle

\* A successful WriteFile sent the bytes that the buffer held at the call, and
\* stored how many, even where the count lies inside the buffer
\* (gxos_write_file_contract).
WritesAreFaithful ==
  /\ lastWrite.stored = lastWrite.count
  /\ lastWrite.sent = SubSeq(lastWrite.bytes, 1, lastWrite.count)

\* What reaches a stream is what the payload had in memory it may read, through
\* whichever standard handle it came (range_covered, query_role, WriteFile).
StreamsAreFaithful ==
  StreamsReadMappedMemory /\ StandardHandlesAgree /\ WritesAreFaithful

\* The code points that may be encoded.
IsScalar(c) == 0 <= c /\ c <= 1114111 /\ ~IsSurrogate(c)

\* The UTF-8 encoding of a code point, as the standard defines it.
Encode(c) ==
  IF c < 128 THEN <<c>>
  ELSE IF c < 2048 THEN <<192 + c \div 64, 128 + (c % 64)>>
  ELSE IF c < 65536 THEN <<224 + c \div 4096, 128 + ((c \div 64) % 64), 128 + (c % 64)>>
  ELSE <<240 + c \div 262144, 128 + ((c \div 4096) % 64),
                      128 + ((c \div 64) % 64), 128 + (c % 64)>>
EncodeAll(codes) ==
  LET upTo[i \in 0 .. Len(codes)] == IF i = 0 THEN <<>> ELSE upTo[i - 1] \o Encode(codes[i])
  IN upTo[Len(codes)]

\* What the decoder accepts is the encoding of what it returns, code points
\* that may be encoded; so nothing is accepted in two forms (decode_one).
DecodingInvertsEncoding ==
  converted.kind \in {"text", "size"} =>
    LET codes == CodePoints(converted.source)
    IN /\ EncodeAll(codes) = converted.source
       /\ \A i \in DOMAIN codes : IsScalar(codes[i])

\* The units written fit the destination and are as many as were reported, so
\* that the two-call protocol works (the two passes of the conversion).
ConversionsFitTheirBuffer ==
  converted.kind = "text" =>
    Len(converted.units) = converted.result /\ converted.result <= converted.room

\* A conversion accepts encodings only, and its two passes agree on their
\* length (decode_one, gxos_multibyte_to_wide_char_checked).
ConversionsAreFaithful == DecodingInvertsEncoding /\ ConversionsFitTheirBuffer
=============================================================================
