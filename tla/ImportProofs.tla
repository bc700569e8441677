----------------------------- MODULE ImportProofs -----------------------------
(***************************************************************************)
(* Theorems about the imports that copy data between the payload and the   *)
(* loader: WriteFile and the multibyte conversions of Streams, the strings *)
(* and answers of Modules, and the system queries of Queries. They hold    *)
(* for every image, stack and heap layout, every word size and every       *)
(* content of the memory.                                                  *)
(***************************************************************************)
EXTENDS Streams, Modules, Queries, PlatformProofs

-----------------------------------------------------------------------------
(* Writes.                                                                 *)

IsSequence(s) == \E X : s \in Seq(X)

\* The memory keeps its addresses, the port a sequence.
StreamInv ==
  /\ DOMAIN memory = StreamAddresses
  /\ IsSequence(serial)
  /\ StreamsAreFaithful

\* A range that range_covered accepts is mapped.
LEMMA CoveredIsMapped ==
  ASSUME NEW a \in Nat, NEW n \in Nat \ {0},
         NEW regions \in SUBSET (ImageRegions \cup HeapBlocks \cup {BootStack, WorkerStack}),
         Covered(a, n, regions) = "ok"
  PROVE  a .. (a + n - 1) \subseteq StreamAddresses
  <1>1. \A x \in a .. (a + n - 1) : \E r \in regions : x \in AddressesOf(r)
    BY DEF Covered
  <1>2. \A r \in regions : AddressesOf(r) \subseteq StreamAddresses
    BY DEF StreamAddresses
  <1>3. QED
    BY <1>1, <1>2

LEMMA RegionsAreMapped ==
  /\ \A write \in BOOLEAN : WriteFileRegions(write)
       \in SUBSET (ImageRegions \cup HeapBlocks \cup {BootStack, WorkerStack})
  /\ \A write, boot \in BOOLEAN : MultibyteRegions(write, boot)
       \in SUBSET (ImageRegions \cup HeapBlocks \cup {BootStack, WorkerStack})
  BY DEF WriteFileRegions, MultibyteRegions

LEMMA BytesAreASequence ==
  ASSUME NEW a \in Nat, NEW n \in Nat
  PROVE  /\ Bytes(a, n) \in Seq({memory[x] : x \in a .. (a + n - 1)})
         /\ Len(Bytes(a, n)) = n
         /\ \A i \in 1 .. n : Bytes(a, n)[i] = memory[a + i - 1]
  <1>1. \A i \in 1 .. n : a + i - 1 \in a .. (a + n - 1)
    OBVIOUS
  <1>2. QED
    BY <1>1 DEF Bytes

LEMMA SendKeeps ==
  ASSUME IsSequence(serial), NEW a \in Nat, NEW n \in Nat,
         serial' = serial \o Bytes(a, n)
  PROVE  /\ IsSequence(serial')
         /\ SubSeq(serial', Len(serial) + 1, Len(serial')) = Bytes(a, n)
  <1>1. PICK X : serial \in Seq(X)
    BY DEF IsSequence
  <1> DEFINE Y == {memory[x] : x \in a .. (a + n - 1)}
  <1> DEFINE b == Bytes(a, n)
  <1>2. b \in Seq(X \cup Y) /\ serial \in Seq(X \cup Y)
    <2>1. b \in Seq(Y)
      BY BytesAreASequence
    <2> HIDE DEF b, Y
    <2>2. QED
      BY <1>1, <2>1
  <1> HIDE DEF Y, b
  <1>3. serial' \in Seq(X \cup Y)
    BY <1>2 DEF b
  <1>4. SubSeq(serial', Len(serial) + 1, Len(serial')) = b
    <2>1. /\ Len(serial') = Len(serial) + Len(b) /\ Len(serial) \in Nat /\ Len(b) \in Nat
          /\ serial' = serial \o b
      BY <1>2 DEF b
    <2> DEFINE u == SubSeq(serial', Len(serial) + 1, Len(serial'))
    <2>2. u \in Seq(X \cup Y) /\ Len(u) = Len(b)
      BY <1>2, <1>3, <2>1
    <2>3. \A i \in 1 .. Len(b) : u[i] = b[i]
      BY <1>2, <1>3, <2>1
    <2> HIDE DEF u
    <2>4. u = b
      BY <1>2, <2>2, <2>3, SeqEqual
    <2>5. QED
      BY <2>4 DEF u
  <1>5. QED
    BY <1>3, <1>4 DEF IsSequence, b

LEMMA PrefixOfBytes ==
  ASSUME NEW a \in Nat, NEW n \in Nat, NEW count \in 0 .. n
  PROVE  SubSeq(Bytes(a, n), 1, count) = Bytes(a, count)
  <1> DEFINE Y == {memory[x] : x \in a .. (a + n - 1)}
  <1> DEFINE b == Bytes(a, n)
  <1> DEFINE c == Bytes(a, count)
  <1>1. b \in Seq(Y) /\ Len(b) = n /\ \A i \in 1 .. n : b[i] = memory[a + i - 1]
    BY BytesAreASequence
  <1>2. c \in Seq(Y) /\ Len(c) = count /\ \A i \in 1 .. count : c[i] = memory[a + i - 1]
    <2>1. {memory[x] : x \in a .. (a + count - 1)} \subseteq Y
      OBVIOUS
    <2>2. c \in Seq({memory[x] : x \in a .. (a + count - 1)}) /\ Len(c) = count
          /\ \A i \in 1 .. count : c[i] = memory[a + i - 1]
      <3>1. count \in Nat
        OBVIOUS
      <3>2. QED
        BY <3>1, BytesAreASequence
    <2> HIDE DEF Y, c
    <2>3. QED
      BY <2>1, <2>2
  <1> HIDE DEF Y, b, c
  <1> DEFINE u == SubSeq(b, 1, count)
  <1>3. u \in Seq(Y) /\ Len(u) = count /\ \A i \in 1 .. count : u[i] = b[i]
    BY <1>1
  <1> HIDE DEF u
  <1>4. \A i \in 1 .. count : u[i] = c[i]
    BY <1>1, <1>2, <1>3, SMTT(30)
  <1>5. u = c
    BY <1>2, <1>3, <1>4, SeqEqual
  <1>6. QED
    BY <1>5 DEF u, b, c

LEMMA GetStdHandleKeeps ==
  ASSUME StreamInv, NEW selector, NEW slot, GetStdHandle(selector, slot)
  PROVE  StreamInv'
  <1>1. outputHandle' = errorHandle'
    BY DEF StreamInv, StreamsAreFaithful, StandardHandlesAgree, GetStdHandle, InstallStream
  <1>2. UNCHANGED <<memory, serial, lastWrite, readAddresses>>
    BY DEF GetStdHandle
  <1>3. QED
    BY <1>1, <1>2 DEF StreamInv, StreamsAreFaithful, StandardHandlesAgree,
                      StreamsReadMappedMemory, WritesAreFaithful, IsSequence

LEMMA WriteFileKeeps ==
  ASSUME StreamInv, NEW h, NEW b \in Nat, NEW n \in Nat, NEW out \in Nat,
         NEW overlapped \in BOOLEAN, NEW works \in BOOLEAN, NEW count \in 0 .. n,
         WriteFile(h, b, n, out, overlapped, count, works)
  PROVE  StreamInv'
  <1> DEFINE error == WriteFileError(h, b, n, out, overlapped)
  <1>1. DOMAIN memory = StreamAddresses /\ IsSequence(serial)
        /\ readAddresses \subseteq StreamAddresses
        /\ outputHandle' = errorHandle' /\ WritesAreFaithful
    BY DEF StreamInv, StreamsAreFaithful, StreamsReadMappedMemory, StandardHandlesAgree, WriteFile
  <1>2. CASE /\ error # 0 /\ UNCHANGED <<memory, serial, lastWrite, readAddresses>>
    BY <1>1, <1>2 DEF StreamInv, StreamsAreFaithful, StreamsReadMappedMemory,
                      StandardHandlesAgree, WritesAreFaithful, IsSequence
  <1>3. ASSUME error = 0
        PROVE  /\ b .. (b + n - 1) \subseteq StreamAddresses
               /\ out \in StreamAddresses
    <2>1. /\ Covered(b, n, WriteFileRegions(FALSE)) = "ok"
          /\ Covered(out, CountSize, WriteFileRegions(TRUE)) = "ok"
      <3>1. 6 # 0 /\ 87 # 0 /\ 998 # 0
        OBVIOUS
      <3>2. QED
        BY <1>3, <3>1, Zenon DEF WriteFileError
    <2>2. out .. (out + CountSize - 1) \subseteq StreamAddresses
      BY <2>1, CoveredIsMapped, RegionsAreMapped, StreamsAssumption
    <2>3. out \in out .. (out + CountSize - 1)
      BY StreamsAssumption
    <2>4. CASE n = 0
      BY <2>2, <2>3, <2>4
    <2>5. CASE n # 0
      <3>1. b .. (b + n - 1) \subseteq StreamAddresses
        BY <2>1, <2>5, CoveredIsMapped, RegionsAreMapped
      <3>2. QED
        BY <3>1, <2>2, <2>3
    <2>6. QED
      BY <2>4, <2>5
  <1>4. CASE /\ error = 0 /\ SendAndStore(b, n, out, count)
             /\ readAddresses' = readAddresses \cup (b .. (b + n - 1))
             /\ lastWrite' = [bytes |-> Bytes(b, n), count |-> count,
                              sent |-> SubSeq(serial', Len(serial) + 1, Len(serial')),
                              stored |-> memory'[out]]
    <2>1. /\ b .. (b + n - 1) \subseteq StreamAddresses /\ out \in StreamAddresses
      BY <1>3, <1>4
    <2>2. readAddresses' \subseteq StreamAddresses
      BY <1>1, <1>4, <2>1
    <2>3. DOMAIN memory' = StreamAddresses /\ memory'[out] = count
      <3>1. out \in out .. (out + CountSize - 1)
        BY StreamsAssumption
      <3>2. QED
        BY <3>1, <1>1, <1>4, <2>1 DEF SendAndStore
    <2>4. /\ IsSequence(serial')
          /\ SubSeq(serial', Len(serial) + 1, Len(serial')) = Bytes(b, count)
      <3>1. count \in Nat /\ serial' = serial \o Bytes(b, count)
        BY <1>4 DEF SendAndStore
      <3>2. QED
        BY <3>1, <1>1, SendKeeps
    <2>5. SubSeq(Bytes(b, n), 1, count) = Bytes(b, count)
      BY PrefixOfBytes
    <2>6. WritesAreFaithful'
      <3>1. /\ lastWrite'.stored = count /\ lastWrite'.count = count
            /\ lastWrite'.sent = Bytes(b, count) /\ lastWrite'.bytes = Bytes(b, n)
        BY <1>4, <2>3, <2>4
      <3>2. QED
        BY <3>1, <2>5 DEF WritesAreFaithful
    <2>7. QED
      BY <1>1, <2>2, <2>3, <2>4, <2>6
         DEF StreamInv, StreamsAreFaithful, StreamsReadMappedMemory, StandardHandlesAgree
  <1>5. CASE /\ error = 0 /\ serial' = serial \o Bytes(b, count)
             /\ readAddresses' = readAddresses \cup (b .. (b + n - 1))
             /\ UNCHANGED <<memory, lastWrite>>
    <2>1. readAddresses' \subseteq StreamAddresses
      BY <1>1, <1>3, <1>5
    <2>2. IsSequence(serial')
      <3>1. count \in Nat
        OBVIOUS
      <3>2. QED
        BY <3>1, <1>1, <1>5, SendKeeps
    <2>3. QED
      BY <1>1, <1>5, <2>1, <2>2
         DEF StreamInv, StreamsAreFaithful, StreamsReadMappedMemory, StandardHandlesAgree,
             WritesAreFaithful
  <1>6. QED
    BY <1>2, <1>4, <1>5 DEF WriteFile

\* A set of numbers that is not empty has a least one.
LEMMA LeastNumber ==
  ASSUME NEW n \in Nat, NEW S \in SUBSET (0 .. n), S # {}
  PROVE  \E i \in S : \A j \in 0 .. (i - 1) : j \notin S
  <1> SUFFICES ASSUME \A i \in S : \E j \in 0 .. (i - 1) : j \in S PROVE FALSE
    OBVIOUS
  <1> DEFINE G == {i \in Nat : \A j \in 0 .. i : j \notin S}
  <1>1. 0 \in G
    OBVIOUS
  <1>2. \A i \in 0 .. (n - 1) : i \in G => i + 1 \in G
    <2> SUFFICES ASSUME NEW i \in 0 .. (n - 1), i \in G, NEW j \in 0 .. (i + 1), j \in S
                 PROVE  FALSE
      OBVIOUS
    <2>1. PICK k \in 0 .. (j - 1) : k \in S
      OBVIOUS
    <2>2. k \in 0 .. i
      BY <2>1
    <2>3. QED
      BY <2>1, <2>2
  <1>3. n \in G
    <2> HIDE DEF G
    <2>1. \A i \in 0 .. n : i \in G
      BY <1>1, <1>2, NumberInduction
    <2>2. QED
      BY <2>1
  <1>4. QED
    BY <1>3

\* What source_byte_range accepts is mapped, up to the terminator included.
LEMMA SourceIsMapped ==
  ASSUME NEW boot \in BOOLEAN, NEW n \in Int,
         SourceBytes(SourceBase, n, boot) # <<Invalid>>
  PROVE  \E k \in Nat : /\ SourceBytes(SourceBase, n, boot) = Bytes(SourceBase, k)
                        /\ SourceBase .. (SourceBase + k - 1) \subseteq StreamAddresses
  <1> DEFINE p == SourceBase
  <1> DEFINE regions == MultibyteRegions(FALSE, boot)
  <1> DEFINE E(i) == i = NulLimit \/ Covered(p + i, 1, regions) # "ok" \/ memory[p + i] = 0
  <1> DEFINE end == CHOOSE i \in 0 .. NulLimit : E(i) /\ \A j \in 0 .. (i - 1) : ~E(j)
  <1>1. p \in Nat /\ NulLimit \in Nat
        /\ regions \in SUBSET (ImageRegions \cup HeapBlocks \cup {BootStack, WorkerStack})
    BY StreamsAssumption, RegionsAreMapped
  <1>2. \/ n > 0 /\ Covered(p, n, regions) = "ok" /\ SourceBytes(p, n, boot) = Bytes(p, n)
        \/ /\ Covered(p + end, 1, regions) = "ok"
           /\ SourceBytes(p, n, boot) = Bytes(p, end + 1)
    BY Zenon DEF SourceBytes
  <1>3. CASE n > 0 /\ Covered(p, n, regions) = "ok" /\ SourceBytes(p, n, boot) = Bytes(p, n)
    <2>1. n \in Nat \ {0}
      BY <1>3
    <2>2. p .. (p + n - 1) \subseteq StreamAddresses
      <3> HIDE DEF p, regions
      <3>1. QED
        BY <2>1, <1>1, <1>3, CoveredIsMapped
    <2>3. QED
      BY <1>3, <2>1, <2>2
  <1>4. CASE /\ Covered(p + end, 1, regions) = "ok"
             /\ SourceBytes(p, n, boot) = Bytes(p, end + 1)
    <2>1. /\ end \in 0 .. NulLimit /\ \A j \in 0 .. (end - 1) : ~E(j)
      <3> DEFINE S == {i \in 0 .. NulLimit : E(i)}
      <3>1. NulLimit \in S
        BY <1>1
      <3> HIDE DEF E
      <3>2. \E i \in S : \A j \in 0 .. (i - 1) : j \notin S
        <4>1. S \in SUBSET (0 .. NulLimit) /\ S # {}
          BY <3>1
        <4> HIDE DEF S
        <4>2. QED
          BY <4>1, <1>1, LeastNumber
      <3>3. \E i \in 0 .. NulLimit : E(i) /\ \A j \in 0 .. (i - 1) : ~E(j)
        <4>1. PICK i \in S : \A j \in 0 .. (i - 1) : j \notin S
          BY <3>2
        <4>2. i \in 0 .. NulLimit /\ E(i)
          OBVIOUS
        <4>3. \A j \in 0 .. (i - 1) : ~E(j)
          BY <4>1, <4>2, <1>1
        <4>4. QED
          BY <4>2, <4>3
      <3>4. QED
        BY <3>3
    <2> HIDE DEF end
    <2>2. \A j \in 0 .. (end - 1) : Covered(p + j, 1, regions) = "ok"
      BY <2>1
    <2>3. ASSUME NEW j \in 0 .. end PROVE Covered(p + j, 1, regions) = "ok"
      <3>1. j = end \/ j \in 0 .. (end - 1)
        BY <2>1, <1>1
      <3>2. QED
        BY <3>1, <2>2, <1>4
    <2>4. ASSUME NEW x \in p .. (p + (end + 1) - 1) PROVE x \in StreamAddresses
      <3>1. x - p \in 0 .. end /\ p + (x - p) = x /\ x \in Nat
        BY <1>1, <2>1
      <3>2. Covered(x, 1, regions) = "ok"
        BY <2>3, <3>1
      <3>3. x .. (x + 1 - 1) \subseteq StreamAddresses
        <4> HIDE DEF regions
        <4>1. QED
          BY <3>1, <3>2, <1>1, CoveredIsMapped
      <3>4. QED
        BY <3>1, <3>3
    <2>5. end + 1 \in Nat
      BY <1>1, <2>1
    <2>6. QED
      BY <1>4, <2>4, <2>5
  <1>5. QED
    BY <1>2, <1>3, <1>4

LEMMA MultiByteToWideCharKeeps ==
  ASSUME StreamInv, NEW plain, NEW boot \in BOOLEAN, NEW n \in Int, NEW d, NEW room,
         MultiByteToWideChar(plain, SourceBase, n, d, room, boot)
  PROVE  StreamInv'
  <1> DEFINE s == SourceBytes(SourceBase, n, boot)
  <1>1. /\ UNCHANGED <<outputHandle, errorHandle, serial, lastWrite>>
        /\ DOMAIN memory' = DOMAIN memory
        /\ readAddresses' = readAddresses \cup
             (IF s = <<Invalid>> THEN {} ELSE SourceBase .. (SourceBase + Len(s) - 1))
    BY DEF MultiByteToWideChar
  <1>2. readAddresses \subseteq StreamAddresses
    BY DEF StreamInv, StreamsAreFaithful, StreamsReadMappedMemory
  <1>3. readAddresses' \subseteq StreamAddresses
    <2>1. CASE s = <<Invalid>>
      BY <1>1, <1>2, <2>1
    <2>2. CASE s # <<Invalid>>
      <3>1. PICK k \in Nat : /\ s = Bytes(SourceBase, k)
                             /\ SourceBase .. (SourceBase + k - 1) \subseteq StreamAddresses
        BY <2>2, SourceIsMapped
      <3>2. Len(s) = k
        BY <3>1, BytesAreASequence, StreamsAssumption
      <3> HIDE DEF s
      <3>3. QED
        BY <1>1, <1>2, <2>2, <3>1, <3>2
    <2>3. QED
      BY <2>1, <2>2
  <1>4. QED
    BY <1>1, <1>3 DEF StreamInv, StreamsAreFaithful, StreamsReadMappedMemory,
                      StandardHandlesAgree, WritesAreFaithful, IsSequence

LEMMA StreamInvStep == StreamInv /\ [StreamsNext]_streamVars => StreamInv'
  <1> SUFFICES ASSUME StreamInv, [StreamsNext]_streamVars PROVE StreamInv'
    OBVIOUS
  <1>1. ASSUME NEW selector, NEW slot, GetStdHandle(selector, slot) PROVE StreamInv'
    BY <1>1, GetStdHandleKeeps
  <1>2. ASSUME NEW h \in {StreamHandle, OtherHandle}, NEW b \in BufferPointers,
               NEW n \in WriteLengths, NEW out \in CountPointers, NEW overlapped \in BOOLEAN,
               NEW works \in BOOLEAN, NEW count \in 0 .. n,
               WriteFile(h, b, n, out, overlapped, count, works)
        PROVE  StreamInv'
    <2>1. b \in Nat /\ n \in Nat /\ out \in Nat
      BY StreamsAssumption
    <2>2. QED
      BY <1>2, <2>1, WriteFileKeeps
  <1>3. ASSUME NEW plain \in BOOLEAN, NEW boot \in BOOLEAN,
               NEW n \in WriteLengths \cup {-1, -2}, NEW d \in DestinationPointers,
               NEW room \in UnitCounts,
               MultiByteToWideChar(plain, SourceBase, n, d, room, boot)
        PROVE  StreamInv'
    <2>1. n \in Int
      BY StreamsAssumption, SMT
    <2>2. QED
      BY <1>3, <2>1, MultiByteToWideCharKeeps
  <1>4. CASE UNCHANGED streamVars
    BY <1>4 DEF streamVars, StreamInv, StreamsAreFaithful, StreamsReadMappedMemory,
                StandardHandlesAgree, WritesAreFaithful, IsSequence
  <1>5. QED
    BY <1>1, <1>2, <1>3, <1>4 DEF StreamsNext

LEMMA StreamInvInitially == StreamsInit => StreamInv
  <1> SUFFICES ASSUME StreamsInit PROVE StreamInv
    OBVIOUS
  <1>1. DOMAIN memory = StreamAddresses
    BY DEF StreamsInit
  <1>2. <<>> \in Seq({}) /\ SubSeq(<<>>, 1, 0) = <<>>
    OBVIOUS
  <1>3. QED
    BY <1>1, <1>2 DEF StreamsInit, StreamInv, StreamsAreFaithful, StreamsReadMappedMemory,
                      StandardHandlesAgree, WritesAreFaithful, NoWrite, IsSequence

\* No write changes which memory there is, and the port holds the lines that
\* WriteFile reported as written (gxos_write_file_contract).
THEOREM StreamInvHolds == StreamsSpec => []StreamInv
  BY StreamInvInitially, StreamInvStep, PTL DEF StreamsSpec

\* For every image, stacks and heap, every pointer, length and count: WriteFile
\* and MultiByteToWideChar read mapped memory only, the two standard handles
\* name one stream, and a successful WriteFile has sent a prefix of the buffer
\* and stored its length.
THEOREM StreamsKeepTheirPromise == StreamsSpec => []StreamsAreFaithful
  <1>1. StreamInv => StreamsAreFaithful
    BY DEF StreamInv
  <1>2. QED
    BY <1>1, StreamInvHolds, PTL

-----------------------------------------------------------------------------
(* The decoder: what decode_one accepts is what the standard encodes.      *)

\* The code points that may be encoded.
Scalars == {c \in Int : IsScalar(c)}

\* The bytes that may follow, and those that begin a character of so many bytes.
Continuations == 128 .. 191
LeadsOfTwo == 194 .. 223
LeadsOfThree == 224 .. 239
LeadsOfFour == 240 .. 244

IsTwoByteValue(v, b, c) ==
  /\ v \in Int /\ 128 <= v /\ v < 2048 /\ 192 + (v \div 64) = b /\ 128 + (v % 64) = c

IsThreeByteValue(v, b, c, d) ==
  /\ v \in Int /\ 0 <= v /\ v < 65536
  /\ 224 + (v \div 4096) = b /\ 128 + ((v \div 64) % 64) = c /\ 128 + (v % 64) = d

IsFourByteValue(v, b, c, d, e) ==
  /\ v \in Int /\ 240 + (v \div 262144) = b /\ 128 + ((v \div 4096) % 64) = c
  /\ 128 + ((v \div 64) % 64) = d /\ 128 + (v % 64) = e

LEMMA TwoBytes ==
  ASSUME NEW b \in LeadsOfTwo, NEW c \in Continuations, NEW v \in Int,
         v = (b % 32) * 64 + (c % 64)
  PROVE  IsTwoByteValue(v, b, c)
  BY SMT DEF IsTwoByteValue, LeadsOfTwo, Continuations

LEMMA ThreeBytes ==
  ASSUME NEW b \in LeadsOfThree, NEW c \in Continuations, NEW d \in Continuations,
         NEW u \in Int, u = (b % 16) * 64 + (c % 64), NEW v \in Int, v = u * 64 + (d % 64)
  PROVE  IsThreeByteValue(v, b, c, d)
  <1> DEFINE x == b % 16
  <1> DEFINE y == c % 64
  <1> DEFINE z == d % 64
  <1>1. x \in 0 .. 15 /\ b = 224 + x
    BY SMT DEF LeadsOfThree, Continuations
  <1>2. y \in 0 .. 63 /\ c = 128 + y /\ z \in 0 .. 63 /\ d = 128 + z
    BY SMT DEF LeadsOfThree, Continuations
  <1> HIDE DEF x, y, z
  <1>3. v = x * 4096 + y * 64 + z
    BY <1>1, <1>2, SMT DEF x, y, z
  <1>4. v \div 4096 = x /\ v % 64 = z /\ v \div 64 = x * 64 + y /\ (x * 64 + y) % 64 = y
    BY <1>1, <1>2, <1>3, SMTT(30)
  <1>5. 0 <= v /\ v < 65536
    BY <1>1, <1>2, <1>3, SMT
  <1>6. QED
    BY <1>1, <1>2, <1>4, <1>5, SMT DEF IsThreeByteValue

LEMMA FourBytes ==
  ASSUME NEW b \in LeadsOfFour, NEW c \in Continuations, NEW d \in Continuations, NEW e \in Continuations,
         NEW t \in Int, t = (b % 8) * 64 + (c % 64), NEW u \in Int, u = t * 64 + (d % 64),
         NEW v \in Int, v = u * 64 + (e % 64)
  PROVE  IsFourByteValue(v, b, c, d, e)
  <1> DEFINE x == b % 8
  <1> DEFINE y == c % 64
  <1> DEFINE z == d % 64
  <1> DEFINE w == e % 64
  <1>1. x \in 0 .. 4 /\ b = 240 + x
    BY SMT DEF LeadsOfFour, Continuations
  <1>2. y \in 0 .. 63 /\ c = 128 + y /\ z \in 0 .. 63 /\ d = 128 + z
    BY SMT DEF LeadsOfFour, Continuations
  <1>3. w \in 0 .. 63 /\ e = 128 + w
    BY SMT DEF LeadsOfFour, Continuations
  <1> HIDE DEF x, y, z, w
  <1>4. t = x * 64 + y /\ u = t * 64 + z /\ v = u * 64 + w
    BY DEF x, y, z, w
  <1>5. v \div 64 = u /\ v % 64 = w /\ u % 64 = z
    BY <1>1, <1>2, <1>3, <1>4, SMTT(30)
  <1>6. v \div 4096 = t /\ t % 64 = y
    BY <1>1, <1>2, <1>3, <1>4, SMTT(30)
  <1>7. v \div 262144 = x
    BY <1>1, <1>2, <1>3, <1>4, SMTT(30)
  <1>8. QED
    BY <1>1, <1>2, <1>3, <1>5, <1>6, <1>7, SMT DEF IsFourByteValue


Octets == 0 .. 255

\* The n bytes of s at i are the encoding of c.
IsEncodedAt(s, i, c, n) ==
  /\ c \in Scalars /\ n \in 1 .. 4 /\ i + n - 1 <= Len(s)
  /\ Encode(c) \in Seq(Int) /\ Len(Encode(c)) = n
  /\ \A k \in 1 .. n : Encode(c)[k] = s[i + k - 1]

LEMMA OctetsAreNumbers ==
  \A x \in Octets : x \in Int /\ 0 <= x /\ x <= 255
  BY SMT DEF Octets

LEMMA InScalars ==
  ASSUME NEW v \in Int, 0 <= v, v <= 1114111, ~IsSurrogate(v)
  PROVE  v \in Scalars
  BY SMT DEF Scalars, IsScalar

LEMMA EncodeForms ==
  ASSUME NEW v \in Int
  PROVE  /\ v < 128 => Encode(v) = <<v>>
         /\ 128 <= v /\ v < 2048 => Encode(v) = <<192 + v \div 64, 128 + (v % 64)>>
         /\ 2048 <= v /\ v < 65536 =>
              Encode(v) = <<224 + v \div 4096, 128 + ((v \div 64) % 64), 128 + (v % 64)>>
         /\ 65536 <= v =>
              Encode(v) = <<240 + v \div 262144, 128 + ((v \div 4096) % 64),
                            128 + ((v \div 64) % 64), 128 + (v % 64)>>
  BY SMT DEF Encode

\* The bytes of a character, one by one.
LEMMA PlacesOfOne ==
  ASSUME NEW i \in Int
  PROVE  \A k \in 1 .. 1 : (k = 1 /\ i + k - 1 = i)
  BY SMT

LEMMA EncodedInOne ==
  ASSUME NEW s, NEW i \in Int, NEW c \in Scalars, i + 1 - 1 <= Len(s), s[i] \in Int,
         Encode(c) = <<s[i]>>
  PROVE  IsEncodedAt(s, i, c, 1)
  <1>1. /\ Encode(c) \in Seq(Int) /\ Len(Encode(c)) = 1 /\ Encode(c)[1] = s[i]
    OBVIOUS
  <1>2. \A k \in 1 .. 1 : (k = 1 /\ i + k - 1 = i)
    BY PlacesOfOne
  <1>3. QED
    BY <1>1, <1>2 DEF IsEncodedAt

LEMMA PlacesOfTwo ==
  ASSUME NEW i \in Int
  PROVE  \A k \in 1 .. 2 : (k = 1 /\ i + k - 1 = i) \/ (k = 2 /\ i + k - 1 = i + 1)
  <1> TAKE k \in 1 .. 2
  <1>1. k = 1 \/ k = 2
    BY SMT
  <1>2. k \in Int
    OBVIOUS
  <1>3. i + 1 - 1 = i /\ i + 2 - 1 = i + 1
    BY SMT
  <1>4. QED
    BY <1>1, <1>3

LEMMA EncodedInTwo ==
  ASSUME NEW s, NEW i \in Int, NEW c \in Scalars, i + 2 - 1 <= Len(s), s[i] \in Int,
         s[i + 1] \in Int, Encode(c) = <<s[i], s[i + 1]>>
  PROVE  IsEncodedAt(s, i, c, 2)
  <1>1. /\ Encode(c) \in Seq(Int) /\ Len(Encode(c)) = 2 /\ Encode(c)[1] = s[i]
        /\ Encode(c)[2] = s[i + 1]
    OBVIOUS
  <1>2. \A k \in 1 .. 2 : (k = 1 /\ i + k - 1 = i) \/ (k = 2 /\ i + k - 1 = i + 1)
    BY PlacesOfTwo
  <1>3. QED
    BY <1>1, <1>2 DEF IsEncodedAt

LEMMA PlacesOfThree ==
  ASSUME NEW i \in Int
  PROVE  \A k \in 1 .. 3 : \/ (k = 1 /\ i + k - 1 = i) \/ (k = 2 /\ i + k - 1 = i + 1)
                          \/ (k = 3 /\ i + k - 1 = i + 2)
  <1> TAKE k \in 1 .. 3
  <1>1. k = 1 \/ k = 2 \/ k = 3
    BY SMT
  <1>2. k \in Int
    OBVIOUS
  <1>3. i + 1 - 1 = i /\ i + 2 - 1 = i + 1 /\ i + 3 - 1 = i + 2
    BY SMT
  <1>4. QED
    BY <1>1, <1>3

LEMMA EncodedInThree ==
  ASSUME NEW s, NEW i \in Int, NEW c \in Scalars, i + 3 - 1 <= Len(s), s[i] \in Int,
         s[i + 1] \in Int, s[i + 2] \in Int, Encode(c) = <<s[i], s[i + 1], s[i + 2]>>
  PROVE  IsEncodedAt(s, i, c, 3)
  <1>1. /\ Encode(c) \in Seq(Int) /\ Len(Encode(c)) = 3 /\ Encode(c)[1] = s[i]
        /\ Encode(c)[2] = s[i + 1] /\ Encode(c)[3] = s[i + 2]
    OBVIOUS
  <1>2. \A k \in 1 .. 3 : \/ (k = 1 /\ i + k - 1 = i) \/ (k = 2 /\ i + k - 1 = i + 1)
                          \/ (k = 3 /\ i + k - 1 = i + 2)
    BY PlacesOfThree
  <1>3. QED
    BY <1>1, <1>2 DEF IsEncodedAt

LEMMA PlacesOfFour ==
  ASSUME NEW i \in Int
  PROVE  \A k \in 1 .. 4 : \/ (k = 1 /\ i + k - 1 = i) \/ (k = 2 /\ i + k - 1 = i + 1)
                          \/ (k = 3 /\ i + k - 1 = i + 2) \/ (k = 4 /\ i + k - 1 = i + 3)
  <1> TAKE k \in 1 .. 4
  <1>1. k = 1 \/ k = 2 \/ k = 3 \/ k = 4
    BY SMT
  <1>2. k \in Int
    OBVIOUS
  <1>3. i + 1 - 1 = i /\ i + 2 - 1 = i + 1 /\ i + 3 - 1 = i + 2 /\ i + 4 - 1 = i + 3
    BY SMT
  <1>4. QED
    BY <1>1, <1>3

LEMMA EncodedInFour ==
  ASSUME NEW s, NEW i \in Int, NEW c \in Scalars, i + 4 - 1 <= Len(s), s[i] \in Int,
         s[i + 1] \in Int, s[i + 2] \in Int, s[i + 3] \in Int,
         Encode(c) = <<s[i], s[i + 1], s[i + 2], s[i + 3]>>
  PROVE  IsEncodedAt(s, i, c, 4)
  <1>1. /\ Encode(c) \in Seq(Int) /\ Len(Encode(c)) = 4 /\ Encode(c)[1] = s[i]
        /\ Encode(c)[2] = s[i + 1] /\ Encode(c)[3] = s[i + 2] /\ Encode(c)[4] = s[i + 3]
    OBVIOUS
  <1>2. \A k \in 1 .. 4 : \/ (k = 1 /\ i + k - 1 = i) \/ (k = 2 /\ i + k - 1 = i + 1)
                          \/ (k = 3 /\ i + k - 1 = i + 2) \/ (k = 4 /\ i + k - 1 = i + 3)
    BY PlacesOfFour
  <1>3. QED
    BY <1>1, <1>2 DEF IsEncodedAt

LEMMA ByteOf ==
  ASSUME NEW s \in Seq(Octets), NEW i \in 1 .. Len(s)
  PROVE  s[i] \in Int /\ 0 <= s[i] /\ s[i] <= 255
  <1>1. s[i] \in Octets
    BY ElementOfSeq
  <1>2. QED
    BY <1>1, OctetsAreNumbers

LEMMA OneByteIsExact ==
  ASSUME NEW s \in Seq(Octets), NEW i \in 1 .. Len(s), IsWellFormed(s, i), s[i] <= 127
  PROVE  IsEncodedAt(s, i, CodeValue(s, i), LeadForm(s[i]).size)
  <1> DEFINE b == s[i]
  <1>1. b \in Int /\ 0 <= b /\ b <= 127
    BY ByteOf
  <1>2. i \in Int /\ i + 1 - 1 <= Len(s)
    BY SMT
  <1> HIDE DEF b
  <1>3. LeadForm(b) = [size |-> 1, bits |-> b, least |-> 0]
    BY <1>1, SMT DEF LeadForm
  <1>4. CodeValue(s, i) = b /\ LeadForm(s[i]).size = 1
    BY <1>3 DEF CodeValue, b
  <1>5. b < 128 /\ b <= 1114111 /\ ~IsSurrogate(b)
    BY <1>1, SMT DEF IsSurrogate
  <1>6. Encode(b) = <<s[i]>> /\ b \in Scalars
    BY <1>1, <1>5, EncodeForms, InScalars DEF b
  <1>7. QED
    BY <1>1, <1>2, <1>4, <1>6, EncodedInOne DEF b

\* The continuation bytes of a character are bytes of s.
LEMMA ContinuationBytes ==
  ASSUME NEW s \in Seq(Octets), NEW i \in 1 .. Len(s), IsWellFormed(s, i)
  PROVE  /\ LeadForm(s[i]).size = 2 => i + 2 - 1 <= Len(s) /\ s[i + 1] \in Continuations
         /\ LeadForm(s[i]).size = 3 =>
              i + 3 - 1 <= Len(s) /\ s[i + 1] \in Continuations /\ s[i + 2] \in Continuations
         /\ LeadForm(s[i]).size = 4 =>
              /\ i + 4 - 1 <= Len(s) /\ s[i + 1] \in Continuations /\ s[i + 2] \in Continuations
              /\ s[i + 3] \in Continuations
  <1> DEFINE n == LeadForm(s[i]).size
  <1>1. n <= Len(s) - i + 1 /\ \A k \in 1 .. (n - 1) : s[i + k] \in Continuations
    BY SMT DEF IsWellFormed, IsContinuation, Continuations
  <1> HIDE DEF n
  <1>2. Len(s) \in Int /\ i \in Int
    OBVIOUS
  <1>3. n = 2 => 1 \in 1 .. (n - 1) /\ i + 2 - 1 <= Len(s)
    BY <1>1, <1>2, SMT
  <1>4. n = 3 => 1 \in 1 .. (n - 1) /\ 2 \in 1 .. (n - 1) /\ i + 3 - 1 <= Len(s)
    BY <1>1, <1>2, SMT
  <1>5. n = 4 => /\ 1 \in 1 .. (n - 1) /\ 2 \in 1 .. (n - 1) /\ 3 \in 1 .. (n - 1)
                 /\ i + 4 - 1 <= Len(s)
    BY <1>1, <1>2, SMT
  <1>6. QED
    BY <1>1, <1>3, <1>4, <1>5 DEF n

LEMMA TwoByteValue ==
  ASSUME NEW b \in LeadsOfTwo, NEW c \in Continuations
  PROVE  IsTwoByteValue(Shifted(b % 32, c), b, c)
  <1> DEFINE v == Shifted(b % 32, c)
  <1> HIDE DEF v
  <1>1. v \in Int /\ v = (b % 32) * 64 + (c % 64)
    BY SMT DEF v, Shifted, LeadsOfTwo, Continuations
  <1>5. IsTwoByteValue(v, b, c)
    BY <1>1, TwoBytes
  <1>6. QED
    BY <1>5 DEF v

LEMMA TwoByteEncoding ==
  ASSUME NEW v, NEW b, NEW c, IsTwoByteValue(v, b, c)
  PROVE  v \in Scalars /\ Encode(v) = <<b, c>>
  <1>1. v \in Scalars
    BY SMT DEF IsTwoByteValue, Scalars, IsScalar, IsSurrogate
  <1>2. Encode(v) = <<b, c>>
    BY SMT DEF IsTwoByteValue, Encode
  <1>3. QED
    BY <1>1, <1>2

LEMMA TwoBytesAreExact ==
  ASSUME NEW s \in Seq(Octets), NEW i \in 1 .. Len(s), IsWellFormed(s, i), s[i] \in LeadsOfTwo
  PROVE  IsEncodedAt(s, i, CodeValue(s, i), LeadForm(s[i]).size)
  <1> DEFINE b == s[i]
  <1> DEFINE c == s[i + 1]
  <1> DEFINE v == Shifted(b % 32, c)
  <1> HIDE DEF b, c, v
  <1>1. b \in LeadsOfTwo
    BY DEF b
  <1>2. LeadForm(b) = [size |-> 2, bits |-> b % 32, least |-> 128]
    BY <1>1, SMT DEF LeadForm, LeadsOfTwo
  <1>3. LeadForm(s[i]).size = 2
    BY <1>2, SMT DEF b
  <1>4. CodeValue(s, i) = v
    BY <1>2, SMT DEF CodeValue, b, c, v
  <1>5. i + 2 - 1 <= Len(s)
    BY <1>3, ContinuationBytes
  <1>6. c \in Continuations
    BY <1>3, ContinuationBytes DEF c
  <1>7. i \in Int /\ b \in Int /\ c \in Int
    BY <1>1, <1>6, SMT DEF LeadsOfTwo, Continuations
  <1>8. IsTwoByteValue(v, b, c)
    BY <1>1, <1>6, TwoByteValue DEF v
  <1>10. v \in Scalars /\ Encode(v) = <<b, c>>
    BY <1>8, TwoByteEncoding
  <1>11. IsEncodedAt(s, i, v, 2)
    BY <1>5, <1>7, <1>10, EncodedInTwo DEF b, c
  <1>12. QED
    BY <1>3, <1>4, <1>11

LEMMA ThreeByteValue ==
  ASSUME NEW b \in LeadsOfThree, NEW c \in Continuations, NEW d \in Continuations
  PROVE  IsThreeByteValue(Shifted(Shifted(b % 16, c), d), b, c, d)
  <1> DEFINE u == Shifted(b % 16, c)
  <1> DEFINE v == Shifted(u, d)
  <1> HIDE DEF u, v
  <1>1. u \in Int /\ u = (b % 16) * 64 + (c % 64)
    BY SMT DEF u, Shifted, LeadsOfThree, Continuations
  <1>2. v \in Int /\ v = u * 64 + (d % 64)
    BY <1>1, SMT DEF v, Shifted, LeadsOfThree, Continuations
  <1>5. IsThreeByteValue(v, b, c, d)
    BY <1>1, <1>2, ThreeBytes
  <1>6. QED
    BY <1>5 DEF u, v

LEMMA ThreeByteEncoding ==
  ASSUME NEW v, NEW b, NEW c, NEW d, IsThreeByteValue(v, b, c, d), v >= 2048, v <= 1114111, ~IsSurrogate(v)
  PROVE  v \in Scalars /\ Encode(v) = <<b, c, d>>
  <1>1. v \in Scalars
    BY SMT DEF IsThreeByteValue, Scalars, IsScalar, IsSurrogate
  <1>2. Encode(v) = <<b, c, d>>
    BY SMT DEF IsThreeByteValue, Encode
  <1>3. QED
    BY <1>1, <1>2

LEMMA ThreeBytesAreExact ==
  ASSUME NEW s \in Seq(Octets), NEW i \in 1 .. Len(s), IsWellFormed(s, i), s[i] \in LeadsOfThree
  PROVE  IsEncodedAt(s, i, CodeValue(s, i), LeadForm(s[i]).size)
  <1> DEFINE b == s[i]
  <1> DEFINE c == s[i + 1]
  <1> DEFINE d == s[i + 2]
  <1> DEFINE v == Shifted(Shifted(b % 16, c), d)
  <1> HIDE DEF b, c, d, v
  <1>1. b \in LeadsOfThree
    BY DEF b
  <1>2. LeadForm(b) = [size |-> 3, bits |-> b % 16, least |-> 2048]
    BY <1>1, SMT DEF LeadForm, LeadsOfThree
  <1>3. LeadForm(s[i]).size = 3
    BY <1>2, SMT DEF b
  <1>31. LeadForm(s[i]).least = 2048
    BY <1>2, SMT DEF b
  <1>4. CodeValue(s, i) = v
    BY <1>2, SMT DEF CodeValue, b, c, d, v
  <1>5. i + 3 - 1 <= Len(s)
    BY <1>3, ContinuationBytes
  <1>6. c \in Continuations /\ d \in Continuations
    BY <1>3, ContinuationBytes DEF c, d
  <1>7. i \in Int /\ b \in Int /\ c \in Int /\ d \in Int
    BY <1>1, <1>6, SMT DEF LeadsOfThree, Continuations
  <1>8. IsThreeByteValue(v, b, c, d)
    BY <1>1, <1>6, ThreeByteValue DEF v
  <1>9. v >= 2048 /\ v <= 1114111 /\ ~IsSurrogate(v)
    BY <1>31, <1>4, SMT DEF IsWellFormed
  <1>10. v \in Scalars /\ Encode(v) = <<b, c, d>>
    BY <1>8, <1>9, ThreeByteEncoding, SMT
  <1>11. IsEncodedAt(s, i, v, 3)
    BY <1>5, <1>7, <1>10, EncodedInThree DEF b, c, d
  <1>12. QED
    BY <1>3, <1>4, <1>11

LEMMA FourByteValue ==
  ASSUME NEW b \in LeadsOfFour, NEW c \in Continuations, NEW d \in Continuations, NEW e \in Continuations
  PROVE  IsFourByteValue(Shifted(Shifted(Shifted(b % 8, c), d), e), b, c, d, e)
  <1> DEFINE t == Shifted(b % 8, c)
  <1> DEFINE u == Shifted(t, d)
  <1> DEFINE v == Shifted(u, e)
  <1> HIDE DEF t, u, v
  <1>1. t \in Int /\ t = (b % 8) * 64 + (c % 64)
    BY SMT DEF t, Shifted, LeadsOfFour, Continuations
  <1>2. u \in Int /\ u = t * 64 + (d % 64)
    BY <1>1, SMT DEF u, Shifted, LeadsOfFour, Continuations
  <1>3. v \in Int /\ v = u * 64 + (e % 64)
    BY <1>2, SMT DEF v, Shifted, LeadsOfFour, Continuations
  <1>5. IsFourByteValue(v, b, c, d, e)
    BY <1>1, <1>2, <1>3, FourBytes
  <1>6. QED
    BY <1>5 DEF t, u, v

LEMMA FourByteEncoding ==
  ASSUME NEW v, NEW b, NEW c, NEW d, NEW e, IsFourByteValue(v, b, c, d, e), v >= 65536, v <= 1114111, ~IsSurrogate(v)
  PROVE  v \in Scalars /\ Encode(v) = <<b, c, d, e>>
  <1>1. v \in Scalars
    BY SMT DEF IsFourByteValue, Scalars, IsScalar, IsSurrogate
  <1>2. Encode(v) = <<b, c, d, e>>
    BY SMT DEF IsFourByteValue, Encode
  <1>3. QED
    BY <1>1, <1>2

LEMMA FourBytesAreExact ==
  ASSUME NEW s \in Seq(Octets), NEW i \in 1 .. Len(s), IsWellFormed(s, i), s[i] \in LeadsOfFour
  PROVE  IsEncodedAt(s, i, CodeValue(s, i), LeadForm(s[i]).size)
  <1> DEFINE b == s[i]
  <1> DEFINE c == s[i + 1]
  <1> DEFINE d == s[i + 2]
  <1> DEFINE e == s[i + 3]
  <1> DEFINE v == Shifted(Shifted(Shifted(b % 8, c), d), e)
  <1> HIDE DEF b, c, d, e, v
  <1>1. b \in LeadsOfFour
    BY DEF b
  <1>2. LeadForm(b) = [size |-> 4, bits |-> b % 8, least |-> 65536]
    BY <1>1, SMT DEF LeadForm, LeadsOfFour
  <1>3. LeadForm(s[i]).size = 4
    BY <1>2, SMT DEF b
  <1>31. LeadForm(s[i]).least = 65536
    BY <1>2, SMT DEF b
  <1>4. CodeValue(s, i) = v
    BY <1>2, SMT DEF CodeValue, b, c, d, e, v
  <1>5. i + 4 - 1 <= Len(s)
    BY <1>3, ContinuationBytes
  <1>6. c \in Continuations /\ d \in Continuations /\ e \in Continuations
    BY <1>3, ContinuationBytes DEF c, d, e
  <1>7. i \in Int /\ b \in Int /\ c \in Int /\ d \in Int /\ e \in Int
    BY <1>1, <1>6, SMT DEF LeadsOfFour, Continuations
  <1>8. IsFourByteValue(v, b, c, d, e)
    BY <1>1, <1>6, FourByteValue DEF v
  <1>9. v >= 65536 /\ v <= 1114111 /\ ~IsSurrogate(v)
    BY <1>31, <1>4, SMT DEF IsWellFormed
  <1>10. v \in Scalars /\ Encode(v) = <<b, c, d, e>>
    BY <1>8, <1>9, FourByteEncoding, SMT
  <1>11. IsEncodedAt(s, i, v, 4)
    BY <1>5, <1>7, <1>10, EncodedInFour DEF b, c, d, e
  <1>12. QED
    BY <1>3, <1>4, <1>11

\* What decode_one accepts at i is the encoding of the code point it returns.
LEMMA DecodeOneIsExact ==
  ASSUME NEW s \in Seq(Octets), NEW i \in 1 .. Len(s), DecodeOne(s, i).code # Invalid
  PROVE  IsEncodedAt(s, i, DecodeOne(s, i).code, DecodeOne(s, i).size)
  <1>1. IsWellFormed(s, i)
    BY DEF DecodeOne
  <1>2. DecodeOne(s, i) = [code |-> CodeValue(s, i), size |-> LeadForm(s[i]).size]
    BY <1>1 DEF DecodeOne
  <1>3. s[i] \in Int /\ 0 <= s[i] /\ s[i] <= 255
    BY ByteOf
  <1>4. LeadForm(s[i]).size # 0
    BY <1>1, SMT DEF IsWellFormed
  <1>5. s[i] <= 127 \/ s[i] \in LeadsOfTwo \/ s[i] \in LeadsOfThree \/ s[i] \in LeadsOfFour
    BY <1>3, <1>4, SMT DEF LeadForm, LeadsOfTwo, LeadsOfThree, LeadsOfFour
  <1>6. IsEncodedAt(s, i, CodeValue(s, i), LeadForm(s[i]).size)
    BY <1>1, <1>5, OneByteIsExact, TwoBytesAreExact, ThreeBytesAreExact, FourBytesAreExact
  <1>7. QED
    BY <1>2, <1>6

-----------------------------------------------------------------------------
(* Strings joined one after the other: EncodeAll and Utf16.                *)

JoinStep(g, P, i) == IF i = 0 THEN <<>> ELSE g[i - 1] \o P[i]
IsJoin(g, P, n) == g = [i \in 0 .. n |-> JoinStep(g, P, i)]

LEMMA JoinsExist ==
  ASSUME NEW n \in Nat, NEW P
  PROVE  \E g : IsJoin(g, P, n)
  <1> DEFINE G == {m \in Nat : \E g : IsJoin(g, P, m)}
  <1>1. 0 \in G
    <2> DEFINE g == [i \in 0 .. 0 |-> <<>>]
    <2>1. IsJoin(g, P, 0)
      BY DEF IsJoin, JoinStep
    <2>2. QED
      BY <2>1
  <1>2. ASSUME NEW m \in 0 .. (n - 1), m \in G PROVE m + 1 \in G
    <2>1. PICK g : IsJoin(g, P, m)
      BY <1>2
    <2> DEFINE h == [i \in 0 .. (m + 1) |-> JoinStep(g, P, i)]
    <2>2. ASSUME NEW i \in 0 .. m PROVE h[i] = g[i]
      <3>1. g[i] = JoinStep(g, P, i)
        BY <2>1 DEF IsJoin
      <3>2. QED
        BY <3>1
    <2>3. ASSUME NEW i \in 0 .. (m + 1) PROVE JoinStep(g, P, i) = JoinStep(h, P, i)
      <3>1. CASE i = 0
        BY <3>1 DEF JoinStep
      <3>2. CASE i # 0
        <4>1. i - 1 \in 0 .. m
          BY <3>2
        <4> HIDE DEF h
        <4>2. h[i - 1] = g[i - 1]
          BY <2>2, <4>1
        <4>3. QED
          BY <4>2, <3>2 DEF JoinStep
      <3>3. QED
        BY <3>1, <3>2
    <2>4. IsJoin(h, P, m + 1)
      BY <2>3 DEF IsJoin
    <2> HIDE DEF h
    <2>5. m + 1 \in Nat
      OBVIOUS
    <2>6. QED
      BY <2>4, <2>5
  <1>3. n \in G
    <2> HIDE DEF G
    <2>1. \A i \in 0 .. n : i \in G
      BY <1>1, <1>2, NumberInduction
    <2>2. QED
      BY <2>1
  <1>4. QED
    BY <1>3

LEMMA JoinSteps ==
  ASSUME NEW n \in Nat, NEW P, NEW g, IsJoin(g, P, n)
  PROVE  g[0] = <<>> /\ \A i \in 1 .. n : g[i] = g[i - 1] \o P[i]
  <1>1. \A i \in 0 .. n : g[i] = JoinStep(g, P, i)
    BY DEF IsJoin
  <1>2. 0 \in 0 .. n /\ \A i \in 1 .. n : i \in 0 .. n /\ i # 0
    OBVIOUS
  <1>3. QED
    BY <1>1, <1>2 DEF JoinStep

LEMMA JoinIsASequence ==
  ASSUME NEW n \in Nat, NEW P \in [1 .. n -> Seq(Int)], NEW g, IsJoin(g, P, n)
  PROVE  \A i \in 0 .. n : g[i] \in Seq(Int)
  <1> DEFINE G == {i \in 0 .. n : g[i] \in Seq(Int)}
  <1>1. g[0] = <<>> /\ \A i \in 1 .. n : g[i] = g[i - 1] \o P[i]
    BY JoinSteps
  <1>2. 0 \in G
    <2>1. <<>> \in Seq(Int) /\ 0 \in 0 .. n
      OBVIOUS
    <2>2. QED
      BY <1>1, <2>1, Zenon
  <1>3. ASSUME NEW i \in 0 .. (n - 1), i \in G PROVE i + 1 \in G
    <2>1. i + 1 \in 1 .. n /\ (i + 1) - 1 = i /\ i + 1 \in 0 .. n
      OBVIOUS
    <2>2. g[i + 1] = g[i] \o P[i + 1] /\ P[i + 1] \in Seq(Int) /\ g[i] \in Seq(Int)
      BY <1>1, <1>3, <2>1
    <2>3. g[i] \o P[i + 1] \in Seq(Int)
      BY <2>2, ConcatProperties
    <2>4. QED
      BY <2>1, <2>2, <2>3, Zenon
  <1>4. QED
    <2> HIDE DEF G
    <2>1. \A i \in 0 .. n : i \in G
      BY <1>2, <1>3, NumberInduction
    <2>2. QED
      BY <2>1 DEF G

LEMMA ConcatIsAssociative ==
  ASSUME NEW a \in Seq(Int), NEW b \in Seq(Int), NEW c \in Seq(Int)
  PROVE  (a \o b) \o c = a \o (b \o c)
  BY ConcatAssociative

\* One string more at the front.
LEMMA JoinWithFirst ==
  ASSUME NEW n \in Nat, NEW P \in [1 .. n -> Seq(Int)], NEW Q \in [1 .. (n + 1) -> Seq(Int)],
         \A i \in 1 .. n : Q[i + 1] = P[i],
         NEW g, IsJoin(g, P, n), NEW h, IsJoin(h, Q, n + 1)
  PROVE  h[n + 1] = Q[1] \o g[n]
  <1> DEFINE G == {i \in 0 .. n : h[i + 1] = Q[1] \o g[i]}
  <1>1. g[0] = <<>> /\ \A i \in 1 .. n : g[i] = g[i - 1] \o P[i]
    BY JoinSteps
  <1>2. h[0] = <<>> /\ \A i \in 1 .. (n + 1) : h[i] = h[i - 1] \o Q[i]
    <2>1. n + 1 \in Nat
      OBVIOUS
    <2>2. QED
      BY <2>1, JoinSteps, ZenonT(60)
  <1>3. \A i \in 0 .. n : g[i] \in Seq(Int)
    BY JoinIsASequence
  <1>4. Q[1] \in Seq(Int)
    OBVIOUS
  <1>5. 0 \in G
    <2>1. 1 \in 1 .. (n + 1) /\ 1 - 1 = 0 /\ 0 + 1 = 1 /\ 0 \in 0 .. n
      BY SMT
    <2>2. h[1] = h[1 - 1] \o Q[1]
      BY <1>2, <2>1, Zenon
    <2>3. <<>> \o Q[1] = Q[1] /\ Q[1] \o <<>> = Q[1]
      BY <1>4, ConcatEmptySeq
    <2>4. h[0 + 1] = Q[1] \o g[0]
      BY <1>1, <1>2, <2>1, <2>2, <2>3
    <2>5. QED
      BY <2>1, <2>4, Zenon
  <1>6. ASSUME NEW i \in 0 .. (n - 1), i \in G PROVE i + 1 \in G
    <2>1. /\ i + 1 \in 1 .. n /\ (i + 1) - 1 = i /\ i + 1 \in 0 .. n /\ i \in 0 .. n
          /\ (i + 1) + 1 \in 1 .. (n + 1) /\ ((i + 1) + 1) - 1 = i + 1
      OBVIOUS
    <2>2. h[(i + 1) + 1] = h[i + 1] \o Q[(i + 1) + 1] /\ g[i + 1] = g[i] \o P[i + 1]
      BY <1>1, <1>2, <2>1
    <2>3. h[i + 1] = Q[1] \o g[i] /\ Q[(i + 1) + 1] = P[i + 1]
      BY <1>6, <2>1
    <2>4. P[i + 1] \in Seq(Int) /\ g[i] \in Seq(Int)
      BY <1>3, <2>1
    <2>5. (Q[1] \o g[i]) \o P[i + 1] = Q[1] \o (g[i] \o P[i + 1])
      BY <1>4, <2>4, ConcatIsAssociative
    <2>6. h[(i + 1) + 1] = Q[1] \o g[i + 1]
      BY <2>2, <2>3, <2>5
    <2>7. QED
      BY <2>1, <2>6, Zenon
  <1>7. QED
    <2> HIDE DEF G
    <2>1. \A i \in 0 .. n : i \in G
      BY <1>5, <1>6, NumberInduction
    <2>2. n \in 0 .. n
      OBVIOUS
    <2>3. n \in G
      BY <2>1, <2>2, Zenon
    <2>4. QED
      BY <2>3, Zenon DEF G

\* The encodings of the code points of a sequence.
Encodings(codes) == [i \in 1 .. Len(codes) |-> Encode(codes[i])]

LEMMA EncodingIsASequence ==
  ASSUME NEW c \in Scalars
  PROVE  Encode(c) \in Seq(Int)
  <1>1. c \in Int
    BY DEF Scalars
  <1>2. /\ c \div 64 \in Int /\ c % 64 \in Int /\ c \div 4096 \in Int /\ (c \div 64) % 64 \in Int
        /\ c \div 262144 \in Int /\ (c \div 4096) % 64 \in Int
    BY <1>1, SMT
  <1>3. QED
    BY <1>1, <1>2, SMT DEF Encode

LEMMA EncodingsAreSequences ==
  ASSUME NEW codes \in Seq(Scalars)
  PROVE  Encodings(codes) \in [1 .. Len(codes) -> Seq(Int)]
  <1>1. ASSUME NEW i \in 1 .. Len(codes) PROVE Encode(codes[i]) \in Seq(Int)
    <2>1. codes[i] \in Scalars
      BY ElementOfSeq
    <2>2. QED
      BY <2>1, EncodingIsASequence
  <1>2. QED
    BY <1>1, Zenon DEF Encodings

LEMMA EncodeAllIsJoin ==
  ASSUME NEW codes \in Seq(Scalars)
  PROVE  \E g : /\ IsJoin(g, Encodings(codes), Len(codes))
                /\ EncodeAll(codes) = g[Len(codes)]
  <1> DEFINE n == Len(codes)
  <1> DEFINE B(g) == [i \in 0 .. n |-> IF i = 0 THEN <<>> ELSE g[i - 1] \o Encode(codes[i])]
  <1>1. n \in Nat
    BY LenProperties
  <1>2. ASSUME NEW g, NEW i \in 0 .. n
        PROVE  JoinStep(g, Encodings(codes), i)
                 = IF i = 0 THEN <<>> ELSE g[i - 1] \o Encode(codes[i])
    <2>1. CASE i = 0
      BY <2>1 DEF JoinStep
    <2>2. CASE i # 0
      <3>1. i \in 1 .. Len(codes)
        BY <1>1, <2>2, SMT
      <3>2. Encodings(codes)[i] = Encode(codes[i])
        BY <3>1 DEF Encodings
      <3>3. QED
        BY <2>2, <3>2, Zenon DEF JoinStep
    <2>3. QED
      BY <2>1, <2>2
  <1>3. \A g : IsJoin(g, Encodings(codes), n) <=> g = B(g)
    <2>1. ASSUME NEW g PROVE [i \in 0 .. n |-> JoinStep(g, Encodings(codes), i)] = B(g)
      BY <1>2, Zenon
    <2>2. QED
      BY <2>1, Zenon DEF IsJoin
  <1>4. \E g : g = B(g)
    <2>1. \E g : IsJoin(g, Encodings(codes), n)
      <3> HIDE DEF n
      <3>1. QED
        BY <1>1, JoinsExist
    <2> HIDE DEF B
    <2>2. QED
      BY <2>1, <1>3, Zenon
  <1> DEFINE chosen == CHOOSE g : g = B(g)
  <1>5. chosen = B(chosen)
    <2> HIDE DEF B
    <2>1. QED
      BY <1>4, Zenon
  <1>6. EncodeAll(codes) = chosen[n]
    BY Zenon DEF EncodeAll
  <1>7. IsJoin(chosen, Encodings(codes), n)
    <2> HIDE DEF B, chosen
    <2>1. QED
      BY <1>3, <1>5, Zenon
  <1>8. QED
    BY <1>6, <1>7, Zenon

LEMMA EncodeAllOfNone == EncodeAll(<<>>) = <<>>
  <1>1. <<>> \in Seq(Scalars) /\ Len(<<>>) = 0
    OBVIOUS
  <1>2. PICK g : IsJoin(g, Encodings(<<>>), 0) /\ EncodeAll(<<>>) = g[0]
    BY <1>1, EncodeAllIsJoin
  <1>3. g[0] = <<>>
    BY <1>2, JoinSteps
  <1>4. QED
    BY <1>2, <1>3

LEMMA ConsProperties ==
  ASSUME NEW S, NEW c \in S, NEW r \in Seq(S)
  PROVE  /\ <<c>> \o r \in Seq(S) /\ Len(<<c>> \o r) = Len(r) + 1
         /\ (<<c>> \o r)[1] = c /\ \A i \in 1 .. Len(r) : (<<c>> \o r)[i + 1] = r[i]
  OBVIOUS

LEMMA EncodeAllWithFirst ==
  ASSUME NEW c \in Scalars, NEW codes \in Seq(Scalars)
  PROVE  EncodeAll(<<c>> \o codes) = Encode(c) \o EncodeAll(codes)
  <1> DEFINE n == Len(codes)
  <1> DEFINE longer == <<c>> \o codes
  <1>1. /\ longer \in Seq(Scalars) /\ Len(longer) = n + 1
        /\ longer[1] = c /\ \A i \in 1 .. n : longer[i + 1] = codes[i]
    BY ConsProperties
  <1>2. n \in Nat
    BY LenProperties
  <1> HIDE DEF longer
  <1>3. PICK g : IsJoin(g, Encodings(codes), n) /\ EncodeAll(codes) = g[n]
    BY EncodeAllIsJoin
  <1>4. PICK h : IsJoin(h, Encodings(longer), n + 1) /\ EncodeAll(longer) = h[n + 1]
    BY <1>1, EncodeAllIsJoin
  <1>5. Encodings(codes) \in [1 .. n -> Seq(Int)]
    BY EncodingsAreSequences
  <1>6. Encodings(longer) \in [1 .. (n + 1) -> Seq(Int)]
    BY <1>1, EncodingsAreSequences
  <1>7. \A i \in 1 .. n : Encodings(longer)[i + 1] = Encodings(codes)[i]
    <2> TAKE i \in 1 .. n
    <2>1. i + 1 \in 1 .. Len(longer)
      BY <1>1, <1>2, SMT
    <2>2. QED
      BY <2>1, <1>1, Zenon DEF Encodings
  <1>8. Encodings(longer)[1] = Encode(c)
    <2>1. 1 \in 1 .. Len(longer)
      BY <1>1, <1>2, SMT
    <2>2. QED
      BY <2>1, <1>1, Zenon DEF Encodings
  <1> HIDE DEF n
  <1>9. h[n + 1] = Encodings(longer)[1] \o g[n]
    BY <1>2, <1>3, <1>4, <1>5, <1>6, <1>7, JoinWithFirst
  <1>10. QED
    BY <1>3, <1>4, <1>8, <1>9, Zenon DEF longer

-----------------------------------------------------------------------------
(* The code points of a string.                                            *)

FromStep(g, s, i) ==
  IF i > Len(s) THEN <<>>
  ELSE IF DecodeOne(s, i).code = Invalid THEN <<Invalid>>
  ELSE <<DecodeOne(s, i).code>> \o g[i + DecodeOne(s, i).size]
IsFrom(g, s) == g = [i \in 1 .. (Len(s) + 4) |-> FromStep(g, s, i)]

LEMMA NextPlace ==
  ASSUME NEW s \in Seq(Octets), NEW i \in 1 .. Len(s), DecodeOne(s, i).code # Invalid
  PROVE  /\ i + DecodeOne(s, i).size \in 1 .. (Len(s) + 1)
         /\ i + DecodeOne(s, i).size > i
  <1>1. /\ DecodeOne(s, i).size \in 1 .. 4 /\ i + DecodeOne(s, i).size - 1 <= Len(s)
    BY DecodeOneIsExact DEF IsEncodedAt
  <1>2. Len(s) \in Nat /\ i \in Nat /\ i >= 1
    BY LenProperties
  <1>3. QED
    BY <1>1, <1>2, SMT

LEMMA FromExists ==
  ASSUME NEW s \in Seq(Octets)
  PROVE  \E g : IsFrom(g, s)
  <1> DEFINE N == Len(s)
  <1> DEFINE D == 1 .. (N + 4)
  <1> DEFINE Solves(g, m) == /\ DOMAIN g = D /\ g = [i \in D |-> g[i]]
                             /\ \A i \in D : i > N - m => g[i] = FromStep(g, s, i)
  <1> DEFINE G == {m \in Nat : \E g : Solves(g, m)}
  <1>1. N \in Nat
    BY LenProperties
  <1>2. 0 \in G
    <2> DEFINE g == [i \in D |-> <<>>]
    <2>1. ASSUME NEW i \in D, i > N - 0 PROVE g[i] = FromStep(g, s, i)
      <3>1. i > N
        BY <1>1, <2>1, SMT
      <3>2. QED
        BY <3>1, Zenon DEF FromStep
    <2>2. Solves(g, 0)
      BY <2>1, Zenon
    <2>3. QED
      BY <2>2
  <1>3. ASSUME NEW m \in 0 .. (N - 1), m \in G PROVE m + 1 \in G
    <2>1. PICK g : Solves(g, m)
      BY <1>3
    <2> DEFINE j == N - m
    <2> DEFINE h == [i \in D |-> IF i = j THEN FromStep(g, s, j) ELSE g[i]]
    <2>2. j \in 1 .. Len(s) /\ j \in Int
      BY <1>1, SMT
    <2>3. ASSUME NEW i \in D, i >= j PROVE FromStep(h, s, i) = FromStep(g, s, i)
      <3>1. CASE i > Len(s) \/ DecodeOne(s, i).code = Invalid
        BY <3>1, Zenon DEF FromStep
      <3>2. CASE ~(i > Len(s)) /\ DecodeOne(s, i).code # Invalid
        <4> DEFINE next == i + DecodeOne(s, i).size
        <4>1. i \in 1 .. Len(s) /\ i \in Int
          BY <1>1, <3>2, SMT
        <4>2. next \in 1 .. (N + 1) /\ next > i
          BY <3>2, <4>1, NextPlace
        <4>3. next \in D /\ next # j
          <5> HIDE DEF next, j
          <5>1. QED
            BY <1>1, <2>2, <2>3, <4>1, <4>2, SMT
        <4>4. h[next] = g[next]
          BY <4>3
        <4> HIDE DEF h, j
        <4>5. QED
          BY <3>2, <4>4 DEF FromStep
      <3>3. QED
        BY <3>1, <3>2
    <2>4. ASSUME NEW i \in D, i > N - (m + 1) PROVE h[i] = FromStep(h, s, i)
      <3>1. i >= j /\ (i # j => i > N - m)
        BY <1>1, <2>4, SMT
      <3>2. FromStep(h, s, i) = FromStep(g, s, i)
        BY <2>3, <3>1
      <3>3. h[i] = FromStep(g, s, i)
        BY <2>1, <3>1
      <3>4. QED
        BY <3>2, <3>3
    <2>5. DOMAIN h = D /\ h = [i \in D |-> h[i]]
      OBVIOUS
    <2> HIDE DEF h
    <2>6. Solves(h, m + 1)
      BY <2>4, <2>5, Zenon
    <2>7. m + 1 \in Nat
      OBVIOUS
    <2> HIDE DEF Solves
    <2>8. QED
      BY <2>6, <2>7
  <1>4. N \in G
    <2> HIDE DEF G, N
    <2>1. \A i \in 0 .. N : i \in G
      BY <1>1, <1>2, <1>3, NumberInduction
    <2>2. QED
      BY <2>1, <1>1
  <1>5. PICK g : Solves(g, N)
    BY <1>4
  <1>6. \A i \in D : g[i] = FromStep(g, s, i)
    <2> TAKE i \in D
    <2>1. i > N - N
      BY <1>1, SMT
    <2>2. QED
      BY <1>5, <2>1
  <1>7. IsFrom(g, s)
    BY <1>5, <1>6, Zenon DEF IsFrom
  <1>8. QED
    BY <1>7

LEMMA CodePointsAreFrom ==
  ASSUME NEW s \in Seq(Octets)
  PROVE  \E g : IsFrom(g, s) /\ CodePoints(s) = g[1]
  <1> DEFINE B(g) == [i \in 1 .. (Len(s) + 4) |->
                        IF i > Len(s) THEN <<>>
                        ELSE IF DecodeOne(s, i).code = Invalid THEN <<Invalid>>
                        ELSE <<DecodeOne(s, i).code>> \o g[i + DecodeOne(s, i).size]]
  <1>1. \A g : IsFrom(g, s) <=> g = B(g)
    BY Zenon DEF IsFrom, FromStep
  <1> DEFINE chosen == CHOOSE g : g = B(g)
  <1>2. CodePoints(s) = chosen[1]
    BY Zenon DEF CodePoints
  <1> HIDE DEF B
  <1>3. \E g : g = B(g)
    BY <1>1, FromExists, Zenon
  <1>4. chosen = B(chosen)
    BY <1>3, Zenon
  <1> HIDE DEF chosen
  <1>5. QED
    BY <1>1, <1>2, <1>4, Zenon

\* The code points from i on stop at an error, or are those that the bytes
\* from i on encode.
IsDecodedFrom(codes, s, i) ==
  \/ codes \in Seq(Int) /\ codes # <<>> /\ codes[Len(codes)] = Invalid
  \/ codes \in Seq(Scalars) /\ EncodeAll(codes) = SubSeq(s, i, Len(s))

LEMMA EncodedBytes ==
  ASSUME NEW s \in Seq(Octets), NEW i \in 1 .. Len(s), NEW c, NEW n, IsEncodedAt(s, i, c, n)
  PROVE  Encode(c) = SubSeq(s, i, i + n - 1)
  <1>1. /\ n \in 1 .. 4 /\ i + n - 1 <= Len(s)
        /\ Encode(c) \in Seq(Int) /\ Len(Encode(c)) = n
        /\ \A k \in 1 .. n : Encode(c)[k] = s[i + k - 1]
    BY DEF IsEncodedAt
  <1>2. n \in Int /\ Len(s) \in Nat /\ i \in Int /\ i >= 1
    BY <1>1, LenProperties
  <1>3. i + n - 1 \in (i - 1) .. Len(s)
    BY <1>1, <1>2, SMT
  <1>4. s \in Seq(Int)
    BY OctetsAreNumbers, SeqMonotonic
  <1> DEFINE t == SubSeq(s, i, i + n - 1)
  <1>5. /\ t \in Seq(Int) /\ Len(t) = n
        /\ \A k \in 1 .. n : t[k] = s[i + k - 1]
    <2> DEFINE m == i + n - 1
    <2>1. m \in Int /\ i <= m /\ m - i + 1 = n /\ m <= Len(s)
      BY <1>1, <1>2, SMTT(30)
    <2> HIDE DEF m
    <2>2. \A j \in i .. m : s[j] \in Int
      <3> TAKE j \in i .. m
      <3>1. j \in 1 .. Len(s)
        BY <1>2, <2>1, SMT
      <3>2. QED
        BY <1>4, <3>1, ElementOfSeq
    <2>3. /\ SubSeq(s, i, m) \in Seq(Int)
          /\ Len(SubSeq(s, i, m)) = (IF i <= m THEN m - i + 1 ELSE 0)
          /\ \A k \in 1 .. m - i + 1 : SubSeq(s, i, m)[k] = s[i + k - 1]
      BY <1>2, <2>1, <2>2, SubSeqProperties
    <2>4. QED
      BY <2>1, <2>3 DEF m
  <1> HIDE DEF t
  <1>55. \A k \in 1 .. Len(Encode(c)) : Encode(c)[k] = t[k]
    BY <1>1, <1>5
  <1>6. Encode(c) = t
    BY <1>1, <1>5, <1>55, SeqEqual
  <1>7. QED
    BY <1>6 DEF t


LEMMA InvalidIsNoScalar == Invalid \notin Scalars /\ Invalid \in Int
  BY SMT DEF Invalid, Scalars, IsScalar

LEMMA ScalarsAreNumbers == Scalars \subseteq Int
  BY DEF Scalars

LEMMA DecodedFromEach ==
  ASSUME NEW s \in Seq(Octets), NEW g, IsFrom(g, s)
  PROVE  IsDecodedFrom(g[1], s, 1)
  <1> DEFINE N == Len(s)
  <1> DEFINE G == {m \in Nat : \A i \in 1 .. (N + 1) : i > N - m => IsDecodedFrom(g[i], s, i)}
  <1>1. N \in Nat /\ s \in Seq(Int)
    BY LenProperties, OctetsAreNumbers, SeqMonotonic
  <1>2. \A i \in 1 .. (N + 1) : g[i] = FromStep(g, s, i)
    <2> TAKE i \in 1 .. (N + 1)
    <2>1. i \in 1 .. (N + 4)
      BY <1>1, SMT
    <2>2. QED
      BY <2>1, Zenon DEF IsFrom
  <1>3. 0 \in G
    <2> SUFFICES ASSUME NEW i \in 1 .. (N + 1), i > N - 0 PROVE IsDecodedFrom(g[i], s, i)
      OBVIOUS
    <2>1. i > Len(s) /\ i \in Int /\ N < i
      BY <1>1, SMT
    <2>2. g[i] = <<>>
      BY <1>2, <2>1 DEF FromStep
    <2>3. SubSeq(s, i, N) = <<>>
      BY <1>1, <2>1, SubSeqEmpty
    <2>4. <<>> \in Seq(Scalars)
      BY EmptySeq
    <2>5. QED
      BY <2>2, <2>3, <2>4, EncodeAllOfNone, Zenon DEF IsDecodedFrom
  <1>4. ASSUME NEW m \in 0 .. (N - 1), m \in G PROVE m + 1 \in G
    <2>1. m + 1 \in Nat
      OBVIOUS
    <2>2. ASSUME NEW i \in 1 .. (N + 1), i > N - (m + 1) PROVE IsDecodedFrom(g[i], s, i)
      <3>1. i > N - m \/ i = N - m
        BY <1>1, <2>2, SMT
      <3>2. CASE i > N - m
        BY <1>4, <3>2
      <3>3. CASE i = N - m
        <4>1. i \in 1 .. Len(s) /\ ~(i > Len(s)) /\ i \in Int
          BY <1>1, <3>3, SMT
        <4>2. CASE DecodeOne(s, i).code = Invalid
          <5>1. g[i] = <<Invalid>>
            BY <1>2, <4>1, <4>2, Zenon DEF FromStep
          <5>2. <<Invalid>> \in Seq(Int) /\ <<Invalid>> # <<>>
                /\ <<Invalid>>[Len(<<Invalid>>)] = Invalid
            BY InvalidIsNoScalar
          <5>3. QED
            BY <5>1, <5>2, Zenon DEF IsDecodedFrom
        <4>3. CASE DecodeOne(s, i).code # Invalid
          <5> DEFINE c == DecodeOne(s, i).code
          <5> DEFINE n == DecodeOne(s, i).size
          <5> DEFINE next == i + n
          <5> DEFINE rest == g[next]
          <5>1. g[i] = <<c>> \o rest
            BY <1>2, <4>1, <4>3, Zenon DEF FromStep
          <5>2. next \in 1 .. (N + 1) /\ next > i
            BY <4>1, <4>3, NextPlace
          <5>3. IsEncodedAt(s, i, c, n)
            BY <4>1, <4>3, DecodeOneIsExact
          <5> HIDE DEF c, n
          <5>4. c \in Scalars /\ n \in 1 .. 4
            BY <5>3 DEF IsEncodedAt
          <5>5. Encode(c) = SubSeq(s, i, i + n - 1)
            BY <4>1, <5>3, EncodedBytes
          <5>6. IsDecodedFrom(rest, s, next)
            <6>1. next > N - m
              <7> HIDE DEF next
              <7>1. QED
                BY <1>1, <3>3, <4>1, <5>2, SMT
            <6> HIDE DEF next
            <6>2. QED
              BY <1>4, <5>2, <6>1
          <5> HIDE DEF next, rest
          <5>7. CASE rest \in Seq(Int) /\ rest # <<>> /\ rest[Len(rest)] = Invalid
            <6>1. Len(rest) \in 1 .. Len(rest)
              BY <5>7, EmptySeq
            <6>2. c \in Int
              BY <5>4, ScalarsAreNumbers
            <6>3. /\ <<c>> \o rest \in Seq(Int) /\ Len(<<c>> \o rest) = Len(rest) + 1
                  /\ \A k \in 1 .. Len(rest) : (<<c>> \o rest)[k + 1] = rest[k]
              BY <5>7, <6>2, ConsProperties
            <6>4. (<<c>> \o rest)[Len(<<c>> \o rest)] = Invalid
              BY <5>7, <6>1, <6>3
            <6>5. <<c>> \o rest # <<>>
              <7>1. Len(rest) + 1 # 0
                BY <6>1, SMT
              <7>2. QED
                BY <6>3, <7>1, EmptySeq
            <6>6. QED
              BY <5>1, <6>3, <6>4, <6>5, Zenon DEF IsDecodedFrom
          <5>8. CASE rest \in Seq(Scalars) /\ EncodeAll(rest) = SubSeq(s, next, N)
            <6>1. <<c>> \o rest \in Seq(Scalars)
              BY <5>4, <5>8, ConsProperties
            <6>2. EncodeAll(<<c>> \o rest) = Encode(c) \o EncodeAll(rest)
              BY <5>4, <5>8, EncodeAllWithFirst
            <6>3. SubSeq(s, i, i + n - 1) \o SubSeq(s, next, N) = SubSeq(s, i, N)
              <7> DEFINE k == i + n - 1
              <7>1. n \in Int /\ next = i + n
                BY <5>4 DEF next
              <7>2. /\ i \in 1 .. N + 1 /\ k \in i - 1 .. N /\ N \in k .. N /\ k + 1 = next
                BY <1>1, <4>1, <5>2, <5>4, <7>1, SMT
              <7> HIDE DEF k, N
              <7>3. SubSeq(s, i, k) \o SubSeq(s, k + 1, N) = SubSeq(s, i, N)
                BY <1>1, <7>2, ConcatAdjacentSubSeq DEF N
              <7>4. QED
                BY <7>2, <7>3 DEF k
            <6>4. QED
              BY <5>1, <5>5, <5>8, <6>1, <6>2, <6>3, Zenon DEF IsDecodedFrom
          <5>9. QED
            BY <5>6, <5>7, <5>8 DEF IsDecodedFrom
        <4>4. QED
          BY <4>2, <4>3
      <3>4. QED
        BY <3>1, <3>2, <3>3
    <2>3. QED
      BY <2>1, <2>2
  <1>5. N \in G
    <2> HIDE DEF G, N
    <2>1. \A i \in 0 .. N : i \in G
      BY <1>1, <1>3, <1>4, NumberInduction
    <2>2. QED
      BY <2>1, <1>1
  <1>6. QED
    <2>1. 1 \in 1 .. (N + 1) /\ 1 > N - N
      BY <1>1, SMT
    <2>2. QED
      BY <1>5, <2>1

\* A string is decoded whole: what CodePoints returns, unless it stopped at an
\* error, are code points whose encodings make up the string.
LEMMA DecodingIsExact ==
  ASSUME NEW s \in Seq(Octets),
         ~(CodePoints(s) # <<>> /\ CodePoints(s)[Len(CodePoints(s))] = Invalid)
  PROVE  CodePoints(s) \in Seq(Scalars) /\ EncodeAll(CodePoints(s)) = s
  <1>1. PICK g : IsFrom(g, s) /\ CodePoints(s) = g[1]
    BY CodePointsAreFrom
  <1>2. IsDecodedFrom(CodePoints(s), s, 1)
    BY <1>1, DecodedFromEach
  <1>3. SubSeq(s, 1, Len(s)) = s
    BY SubSeqFull
  <1>4. QED
    BY <1>2, <1>3, Zenon DEF IsDecodedFrom

-----------------------------------------------------------------------------
(* The two passes: as many units are written as are counted.               *)

Units(codes) == [i \in 1 .. Len(codes) |-> UnitsOf(codes[i])]

\* The code points among the first k that take a surrogate pair.
IsWide(code) == code > 65535
Pairs(codes, k) == {i \in 1 .. k : IsWide(codes[i])}

LEMMA UnitsAreASequence ==
  ASSUME NEW c \in Int
  PROVE  /\ UnitsOf(c) \in Seq(Int)
         /\ IsWide(c) => Len(UnitsOf(c)) = 2
         /\ ~IsWide(c) => Len(UnitsOf(c)) = 1
  <1>1. (c - 65536) \div 1024 \in Int /\ (c - 65536) % 1024 \in Int
    BY SMT
  <1>2. CASE c <= 65535
    <2>1. UnitsOf(c) = <<c>> /\ ~IsWide(c)
      BY <1>2, SMT DEF UnitsOf, IsWide
    <2>2. QED
      BY <2>1, SMT
  <1>3. CASE ~(c <= 65535)
    <2> DEFINE x == 55296 + (c - 65536) \div 1024
    <2> DEFINE y == 56320 + ((c - 65536) % 1024)
    <2>1. x \in Int /\ y \in Int
      BY <1>1, SMT
    <2>2. UnitsOf(c) = <<x, y>> /\ IsWide(c)
      BY <1>3, SMT DEF UnitsOf, IsWide
    <2> HIDE DEF x, y
    <2>3. QED
      BY <2>1, <2>2, SMT
  <1>4. QED
    BY <1>2, <1>3

LEMMA Utf16IsJoin ==
  ASSUME NEW codes \in Seq(Int)
  PROVE  \E g : /\ IsJoin(g, Units(codes), Len(codes))
                /\ Utf16(codes) = g[Len(codes)]
  <1> DEFINE n == Len(codes)
  <1> DEFINE B(g) == [i \in 0 .. n |-> IF i = 0 THEN <<>> ELSE g[i - 1] \o UnitsOf(codes[i])]
  <1>1. n \in Nat
    BY LenProperties
  <1>2. ASSUME NEW g, NEW i \in 0 .. n
        PROVE  JoinStep(g, Units(codes), i)
                 = IF i = 0 THEN <<>> ELSE g[i - 1] \o UnitsOf(codes[i])
    <2>1. CASE i = 0
      BY <2>1 DEF JoinStep
    <2>2. CASE i # 0
      <3>1. i \in 1 .. Len(codes)
        BY <1>1, <2>2, SMT
      <3>2. Units(codes)[i] = UnitsOf(codes[i])
        BY <3>1 DEF Units
      <3>3. QED
        BY <2>2, <3>2, Zenon DEF JoinStep
    <2>3. QED
      BY <2>1, <2>2
  <1>3. \A g : IsJoin(g, Units(codes), n) <=> g = B(g)
    <2>1. ASSUME NEW g PROVE [i \in 0 .. n |-> JoinStep(g, Units(codes), i)] = B(g)
      BY <1>2, Zenon
    <2>2. QED
      BY <2>1, Zenon DEF IsJoin
  <1>4. \E g : g = B(g)
    <2>1. \E g : IsJoin(g, Units(codes), n)
      <3> HIDE DEF n
      <3>1. QED
        BY <1>1, JoinsExist
    <2> HIDE DEF B
    <2>2. QED
      BY <2>1, <1>3, Zenon
  <1> DEFINE chosen == CHOOSE g : g = B(g)
  <1>5. chosen = B(chosen)
    <2> HIDE DEF B
    <2>1. QED
      BY <1>4, Zenon
  <1>6. Utf16(codes) = chosen[n]
    BY Zenon DEF Utf16
  <1>7. IsJoin(chosen, Units(codes), n)
    <2> HIDE DEF B, chosen
    <2>1. QED
      BY <1>3, <1>5, Zenon
  <1>8. QED
    BY <1>6, <1>7, Zenon

LEMMA PairsWithNext ==
  ASSUME NEW codes, NEW k \in Nat
  PROVE  /\ IsFiniteSet(Pairs(codes, k)) /\ Cardinality(Pairs(codes, k)) \in Nat
         /\ IsWide(codes[k + 1]) =>
              Cardinality(Pairs(codes, k + 1)) = Cardinality(Pairs(codes, k)) + 1
         /\ ~IsWide(codes[k + 1]) => Pairs(codes, k + 1) = Pairs(codes, k)
  <1>1. IsFiniteSet(1 .. k)
    BY FS_Interval
  <1>2. Pairs(codes, k) \subseteq 1 .. k
    BY DEF Pairs
  <1>3. IsFiniteSet(Pairs(codes, k)) /\ Cardinality(Pairs(codes, k)) \in Nat
    BY <1>1, <1>2, FS_Subset, FS_CardinalityType
  <1>4. \A i : i \in 1 .. (k + 1) <=> (i \in 1 .. k \/ i = k + 1)
    BY SMT
  <1>5. k + 1 \notin Pairs(codes, k)
    <2>1. k + 1 \notin 1 .. k
      BY SMT
    <2>2. QED
      BY <1>2, <2>1
  <1>6. IsWide(codes[k + 1]) => Pairs(codes, k + 1) = Pairs(codes, k) \cup {k + 1}
    BY <1>4, Zenon DEF Pairs
  <1>7. ~IsWide(codes[k + 1]) => Pairs(codes, k + 1) = Pairs(codes, k)
    BY <1>4, Zenon DEF Pairs
  <1>8. Cardinality(Pairs(codes, k) \cup {k + 1}) = Cardinality(Pairs(codes, k)) + 1
    <2> DEFINE S == Pairs(codes, k)
    <2>1. IsFiniteSet(S) /\ k + 1 \notin S
      BY <1>3, <1>5
    <2> HIDE DEF S
    <2>2. Cardinality(S \cup {k + 1}) = Cardinality(S) + 1
      BY <2>1, FS_AddElement
    <2>3. QED
      BY <2>2 DEF S
  <1>9. QED
    BY <1>3, <1>6, <1>7, <1>8, Zenon

LEMMA SumOfCounts ==
  ASSUME NEW length, NEW more \in Nat, NEW k \in Nat, NEW before \in Nat, NEW after \in Nat,
         length = k + before, more + before = 1 + after
  PROVE  length + more = (k + 1) + after
  BY SMT

LEMMA Utf16Length ==
  ASSUME NEW codes \in Seq(Int)
  PROVE  Utf16(codes) \in Seq(Int) /\ Len(Utf16(codes)) = RequiredUnits(codes)
  <1> DEFINE n == Len(codes)
  <1>1. n \in Nat /\ DOMAIN codes = 1 .. n
    BY LenProperties
  <1>2. PICK g : IsJoin(g, Units(codes), n) /\ Utf16(codes) = g[n]
    BY Utf16IsJoin
  <1>3. ASSUME NEW i \in 1 .. n
        PROVE  codes[i] \in Int /\ Units(codes)[i] = UnitsOf(codes[i])
    BY ElementOfSeq DEF Units
  <1>4. Units(codes) \in [1 .. n -> Seq(Int)]
    <2>1. \A i \in 1 .. n : UnitsOf(codes[i]) \in Seq(Int)
      BY <1>3, UnitsAreASequence
    <2>2. QED
      BY <2>1, Zenon DEF Units
  <1> DEFINE G == {k \in 0 .. n : Len(g[k]) = k + Cardinality(Pairs(codes, k))}
  <1>5. \A k \in 0 .. n : g[k] \in Seq(Int)
    <2> HIDE DEF n
    <2>1. QED
      BY <1>1, <1>2, <1>4, JoinIsASequence
  <1>6. g[0] = <<>> /\ \A i \in 1 .. n : g[i] = g[i - 1] \o Units(codes)[i]
    BY <1>1, <1>2, JoinSteps
  <1>7. 0 \in G
    <2>1. Pairs(codes, 0) = {} /\ 0 \in 0 .. n
      BY <1>1, SMT DEF Pairs
    <2>2. Cardinality(Pairs(codes, 0)) = 0
      BY <2>1, FS_EmptySet
    <2>3. Len(<<>>) = 0 + 0
      OBVIOUS
    <2>4. QED
      BY <1>6, <2>1, <2>2, <2>3, Zenon
  <1>8. ASSUME NEW k \in 0 .. (n - 1), k \in G PROVE k + 1 \in G
    <2> DEFINE u == UnitsOf(codes[k + 1])
    <2>1. /\ k + 1 \in 1 .. n /\ k + 1 \in 0 .. n /\ k \in 0 .. n /\ k \in Nat
          /\ (k + 1) - 1 = k
      BY <1>1, SMT
    <2>2. g[k + 1] = g[k] \o u /\ codes[k + 1] \in Int
      BY <1>3, <1>6, <2>1
    <2>3. g[k] \in Seq(Int) /\ u \in Seq(Int)
      BY <1>5, <2>1, <2>2, UnitsAreASequence
    <2>4. Len(g[k] \o u) = Len(g[k]) + Len(u)
      BY <2>3, ConcatProperties
    <2>5. Len(g[k]) = k + Cardinality(Pairs(codes, k)) /\ Cardinality(Pairs(codes, k)) \in Nat
      BY <1>8, <2>1, PairsWithNext
    <2>6. Len(u) + Cardinality(Pairs(codes, k)) = 1 + Cardinality(Pairs(codes, k + 1))
      <3>1. CASE IsWide(codes[k + 1])
        <4>1. Len(u) = 2
          BY <2>2, <3>1, UnitsAreASequence
        <4>2. Cardinality(Pairs(codes, k + 1)) = Cardinality(Pairs(codes, k)) + 1
          BY <2>1, <3>1, PairsWithNext
        <4> HIDE DEF u
        <4>3. QED
          BY <2>5, <4>1, <4>2, SMT
      <3>2. CASE ~IsWide(codes[k + 1])
        <4>1. Len(u) = 1
          BY <2>2, <3>2, UnitsAreASequence
        <4>2. Pairs(codes, k + 1) = Pairs(codes, k)
          BY <2>1, <3>2, PairsWithNext
        <4> HIDE DEF u
        <4>3. QED
          BY <2>5, <4>1, <4>2, SMT
      <3>3. QED
        BY <3>1, <3>2
    <2>7. Len(u) \in Nat /\ Cardinality(Pairs(codes, k + 1)) \in Nat
      BY <2>1, <2>3, LenProperties, PairsWithNext
    <2> HIDE DEF u
    <2>8. Len(g[k + 1]) = (k + 1) + Cardinality(Pairs(codes, k + 1))
      <3>1. Len(g[k + 1]) = Len(g[k]) + Len(u)
        BY <2>2, <2>4
      <3> DEFINE before == Cardinality(Pairs(codes, k))
      <3> DEFINE after == Cardinality(Pairs(codes, k + 1))
      <3> DEFINE length == Len(g[k])
      <3> DEFINE more == Len(u)
      <3>2. before \in Nat /\ after \in Nat /\ more \in Nat /\ k \in Nat
        BY <2>1, <2>5, <2>7
      <3>3. length = k + before /\ more + before = 1 + after
        BY <2>5, <2>6
      <3> HIDE DEF before, after, length, more
      <3>4. length + more = (k + 1) + after
        BY <3>2, <3>3, SumOfCounts
      <3>5. QED
        BY <3>1, <3>4 DEF after, length, more
    <2>9. QED
      BY <2>1, <2>8, Zenon
  <1>9. n \in G
    <2> HIDE DEF G, n
    <2>1. \A k \in 0 .. n : k \in G
      BY <1>1, <1>7, <1>8, NumberInduction
    <2>2. QED
      BY <2>1, <1>1
  <1>10. RequiredUnits(codes) = n + Cardinality(Pairs(codes, n))
    BY <1>1, SMT DEF RequiredUnits, Pairs, IsWide
  <1>11. n \in 0 .. n
    BY <1>1
  <1>12. QED
    BY <1>2, <1>5, <1>9, <1>10, <1>11

-----------------------------------------------------------------------------
(* Conversions.                                                            *)

\* Memory holds bytes, so that what is converted is a string of bytes.
ConversionInv ==
  /\ memory \in [StreamAddresses -> Octets]
  /\ ConversionsAreFaithful

LEMMA InOctets ==
  ASSUME NEW x \in Int, 0 <= x, x <= 255
  PROVE  x \in Octets
  BY SMT DEF Octets

\* What a conversion of s may return: an error without units, the size, or the
\* units if there is room for them.
IsConversion(r, s, d, room) ==
  \/ r.error # 0 /\ r.units = <<>>
  \/ /\ r.error = 0 /\ s # <<Invalid>>
     /\ ~(CodePoints(s) # <<>> /\ CodePoints(s)[Len(CodePoints(s))] = Invalid)
     /\ r.result = RequiredUnits(CodePoints(s))
     /\ \/ d = 0 /\ r.units = <<>>
        \/ /\ d # 0 /\ r.units = Utf16(CodePoints(s))
           /\ ~(RequiredUnits(CodePoints(s)) > room)

LEMMA ConvertCases ==
  ASSUME NEW plain, NEW p, NEW n, NEW d, NEW room, NEW boot
  PROVE  IsConversion(Convert(plain, p, n, d, room, boot), SourceBytes(p, n, boot), d, room)
  <1> DEFINE s == SourceBytes(p, n, boot)
  <1> DEFINE codes == CodePoints(s)
  <1> DEFINE r == Convert(plain, p, n, d, room, boot)
  <1> DEFINE F(e) == [error |-> e, units |-> <<>>, result |-> 0]
  <1> DEFINE required == RequiredUnits(codes)
  <1> DEFINE badArguments == ~plain \/ n = 0 \/ n < -1
  <1> DEFINE noRoom == d = 0 /\ room # 0
  <1> DEFINE badTarget == d # 0 /\ (room <= 0 \/ Covered(d, room, MultibyteRegions(TRUE, boot)) # "ok")
  <1> DEFINE overlap == d # 0 /\ RangesOverlap(p, p + Len(s), [base |-> d, end |-> d + room])
  <1> DEFINE stopped == codes # <<>> /\ codes[Len(codes)] = Invalid
  <1>1. r = IF badArguments THEN F(87)
            ELSE IF noRoom THEN F(87)
            ELSE IF badTarget THEN F(87)
            ELSE IF s = <<Invalid>> THEN F(87)
            ELSE IF overlap THEN F(87)
            ELSE IF stopped THEN F(1113)
            ELSE IF d = 0 THEN [error |-> 0, units |-> <<>>, result |-> required]
            ELSE IF required > room THEN F(122)
            ELSE [error |-> 0, units |-> Utf16(codes), result |-> required]
    BY SMT DEF Convert
  <1> HIDE DEF s, codes, r, required, badArguments, noRoom, badTarget, overlap, stopped
  <1>2. \/ r = F(87) \/ r = F(1113) \/ r = F(122)
        \/ /\ s # <<Invalid>> /\ ~stopped /\ d = 0
           /\ r = [error |-> 0, units |-> <<>>, result |-> required]
        \/ /\ s # <<Invalid>> /\ ~stopped /\ d # 0 /\ ~(required > room)
           /\ r = [error |-> 0, units |-> Utf16(codes), result |-> required]
    BY <1>1, SMT
  <1>3. QED
    BY <1>2, SMT DEF s, codes, r, required, stopped, IsConversion

LEMMA BytesAreOctets ==
  ASSUME memory \in [StreamAddresses -> Octets], NEW a \in Nat, NEW k \in Nat,
         a .. (a + k - 1) \subseteq StreamAddresses
  PROVE  Bytes(a, k) \in Seq(Octets)
  <1> DEFINE S == {memory[x] : x \in a .. (a + k - 1)}
  <1>1. S \subseteq Octets
    <2> SUFFICES ASSUME NEW x \in a .. (a + k - 1) PROVE memory[x] \in Octets
      OBVIOUS
    <2>1. x \in StreamAddresses
      OBVIOUS
    <2>2. QED
      BY <2>1, Zenon
  <1>2. Bytes(a, k) \in Seq(S)
    BY BytesAreASequence
  <1> HIDE DEF S
  <1>3. QED
    BY <1>1, <1>2, SeqMonotonic

LEMMA ConversionOfBytes ==
  ASSUME ConversionInv, NEW plain, NEW boot \in BOOLEAN, NEW n \in Int, NEW d \in Nat,
         NEW room \in Int, MultiByteToWideChar(plain, SourceBase, n, d, room, boot)
  PROVE  ConversionInv'
  <1> DEFINE s == SourceBytes(SourceBase, n, boot)
  <1> DEFINE codes == CodePoints(s)
  <1> DEFINE r == Convert(plain, SourceBase, n, d, room, boot)
  <1>1. /\ converted' = [kind |-> IF r.error = 0 THEN (IF d = 0 THEN "size" ELSE "text")
                                  ELSE IF r.error = 1113 THEN "untranslatable" ELSE "refused",
                         source |-> s, room |-> room, units |-> r.units, result |-> r.result]
        /\ memory' = [a \in DOMAIN memory |->
                        IF d # 0 /\ a \in d .. (d + Len(r.units) - 1)
                          THEN r.units[a - d + 1] % 256 ELSE memory[a]]
    BY SMT DEF MultiByteToWideChar
  <1>2. \/ r.error # 0 /\ r.units = <<>>
        \/ /\ r.error = 0 /\ s # <<Invalid>>
           /\ ~(codes # <<>> /\ codes[Len(codes)] = Invalid)
           /\ r.result = RequiredUnits(codes)
           /\ \/ d = 0 /\ r.units = <<>>
              \/ d # 0 /\ r.units = Utf16(codes) /\ ~(RequiredUnits(codes) > room)
    BY ConvertCases DEF IsConversion
  <1>3. ASSUME r.error = 0
        PROVE  /\ codes \in Seq(Scalars) /\ EncodeAll(codes) = s
               /\ Utf16(codes) \in Seq(Int) /\ Len(Utf16(codes)) = RequiredUnits(codes)
    <2>1. s # <<Invalid>> /\ ~(codes # <<>> /\ codes[Len(codes)] = Invalid)
      BY <1>2, <1>3
    <2>2. PICK k \in Nat : /\ s = Bytes(SourceBase, k)
                           /\ SourceBase .. (SourceBase + k - 1) \subseteq StreamAddresses
      BY <2>1, SourceIsMapped
    <2>3. SourceBase \in Nat /\ memory \in [StreamAddresses -> Octets]
      BY StreamsAssumption DEF ConversionInv
    <2>4. s \in Seq(Octets)
      BY <2>2, <2>3, BytesAreOctets
    <2> HIDE DEF s
    <2>5. codes \in Seq(Scalars) /\ EncodeAll(codes) = s
      BY <2>1, <2>4, DecodingIsExact
    <2> HIDE DEF codes
    <2>6. codes \in Seq(Int)
      BY <2>5, ScalarsAreNumbers, SeqMonotonic
    <2>7. QED
      BY <2>5, <2>6, Utf16Length
  <1>4. r.units \in Seq(Int)
    <2>1. <<>> \in Seq(Int)
      OBVIOUS
    <2> HIDE DEF r, codes, s
    <2>2. QED
      BY <1>2, <1>3, <2>1, Zenon
  <1>5. memory' \in [StreamAddresses -> Octets]
    <2>1. memory \in [StreamAddresses -> Octets] /\ DOMAIN memory = StreamAddresses
      BY DEF ConversionInv
    <2> HIDE DEF r
    <2>2. ASSUME NEW a \in StreamAddresses, a \in d .. (d + Len(r.units) - 1)
          PROVE  r.units[a - d + 1] % 256 \in Octets
      <3>1. Len(r.units) \in Nat
        BY <1>4, LenProperties
      <3>2. a - d + 1 \in 1 .. Len(r.units)
        BY <2>2, <3>1, SMT
      <3> DEFINE x == r.units[a - d + 1]
      <3>3. x \in Int
        BY <1>4, <3>2, ElementOfSeq
      <3> HIDE DEF x
      <3>4. x % 256 \in Int /\ 0 <= x % 256 /\ x % 256 <= 255
        BY <3>3, SMT
      <3>5. QED
        BY <3>4, InOctets DEF x
    <2>3. QED
      BY <1>1, <2>1, <2>2, Zenon
  <1>6. ConversionsAreFaithful'
    <2> DEFINE c == converted'
    <2>1. /\ c.source = s /\ c.units = r.units /\ c.room = room /\ c.result = r.result
          /\ c.kind \in {"text", "size"} => r.error = 0
          /\ c.kind = "text" => d # 0
      BY <1>1, SMT
    <2> HIDE DEF c, s, r, codes
    <2>2. ASSUME c.kind \in {"text", "size"}
          PROVE  /\ EncodeAll(CodePoints(c.source)) = c.source
                 /\ CodePoints(c.source) \in Seq(Scalars)
      BY <1>3, <2>1, <2>2 DEF codes
    <2>3. ASSUME c.kind = "text"
          PROVE  Len(c.units) = c.result /\ c.result <= c.room
      <3>1. c.kind \in {"text", "size"}
        BY <2>3
      <3>2. r.error = 0 /\ d # 0
        BY <2>1, <2>3, <3>1
      <3>3. c.units = Utf16(codes) /\ c.result = RequiredUnits(codes)
            /\ ~(RequiredUnits(codes) > room)
        BY <1>2, <2>1, <3>2, Zenon
      <3>4. Utf16(codes) \in Seq(Int) /\ Len(Utf16(codes)) = RequiredUnits(codes)
        BY <1>3, <3>2
      <3>5. RequiredUnits(codes) \in Nat
        BY <3>4, LenProperties
      <3>6. RequiredUnits(codes) <= room
        BY <3>3, <3>5, SMT
      <3>7. QED
        BY <2>1, <3>3, <3>4, <3>6
    <2>4. ASSUME NEW t \in Seq(Scalars), NEW i \in DOMAIN t
          PROVE  IsScalar(t[i])
      <3>1. i \in 1 .. Len(t)
        BY LenProperties
      <3>2. t[i] \in Scalars
        BY <3>1, ElementOfSeq
      <3>3. QED
        BY <3>2 DEF Scalars
    <2>5. DecodingInvertsEncoding'
      BY <2>2, <2>4 DEF DecodingInvertsEncoding, c
    <2>6. ConversionsFitTheirBuffer'
      BY <2>3 DEF ConversionsFitTheirBuffer, c
    <2>7. QED
      BY <2>5, <2>6 DEF ConversionsAreFaithful
  <1>7. QED
    BY <1>5, <1>6 DEF ConversionInv

LEMMA ConversionUnchanged ==
  ASSUME ConversionInv, converted' = converted, memory' \in [StreamAddresses -> Octets]
  PROVE  ConversionInv'
  BY Zenon DEF ConversionInv, ConversionsAreFaithful, DecodingInvertsEncoding,
               ConversionsFitTheirBuffer

LEMMA StoredCountIsOctet ==
  ASSUME ConversionInv, NEW h, NEW b, NEW n \in WriteLengths, NEW out, NEW overlapped,
         NEW count \in 0 .. n, NEW works, WriteFile(h, b, n, out, overlapped, count, works)
  PROVE  ConversionInv'
  <1>1. memory \in [StreamAddresses -> Octets] /\ DOMAIN memory = StreamAddresses
    BY DEF ConversionInv
  <1>2. count \in Octets /\ 0 \in Octets
    <2>1. n \in 0 .. 255
      BY StreamsAssumption
    <2>2. count \in Int /\ 0 <= count /\ count <= 255
      BY <2>1, SMT
    <2>3. QED
      BY <2>2, InOctets
  <1>3. converted' = converted
    BY DEF WriteFile
  <1>4. memory' = memory \/ SendAndStore(b, n, out, count)
    BY DEF WriteFile
  <1>5. memory' \in [StreamAddresses -> Octets]
    BY <1>1, <1>2, <1>4, Zenon DEF SendAndStore
  <1>6. QED
    BY <1>3, <1>5, ConversionUnchanged

LEMMA ConversionInvStep == ConversionInv /\ [StreamsNext]_streamVars => ConversionInv'
  <1> SUFFICES ASSUME ConversionInv, [StreamsNext]_streamVars PROVE ConversionInv'
    OBVIOUS
  <1>1. ASSUME NEW selector, NEW slot, GetStdHandle(selector, slot) PROVE ConversionInv'
    <2>1. converted' = converted /\ memory' \in [StreamAddresses -> Octets]
      BY <1>1 DEF GetStdHandle, ConversionInv
    <2>2. QED
      BY <2>1, ConversionUnchanged
  <1>2. ASSUME NEW h \in {StreamHandle, OtherHandle}, NEW b \in BufferPointers,
               NEW n \in WriteLengths, NEW out \in CountPointers, NEW overlapped \in BOOLEAN,
               NEW works \in BOOLEAN, NEW count \in 0 .. n,
               WriteFile(h, b, n, out, overlapped, count, works)
        PROVE  ConversionInv'
    BY <1>2, StoredCountIsOctet
  <1>3. ASSUME NEW plain \in BOOLEAN, NEW boot \in BOOLEAN,
               NEW n \in WriteLengths \cup {-1, -2}, NEW d \in DestinationPointers,
               NEW room \in UnitCounts,
               MultiByteToWideChar(plain, SourceBase, n, d, room, boot)
        PROVE  ConversionInv'
    <2>1. n \in Int
      BY StreamsAssumption, SMT
    <2>2. d \in Nat /\ room \in Int
      BY StreamsAssumption
    <2>3. QED
      BY <1>3, <2>1, <2>2, ConversionOfBytes
  <1>4. CASE UNCHANGED streamVars
    <2>1. converted' = converted /\ memory' \in [StreamAddresses -> Octets]
      BY <1>4 DEF streamVars, ConversionInv
    <2>2. QED
      BY <2>1, ConversionUnchanged
  <1>5. QED
    BY <1>1, <1>2, <1>3, <1>4 DEF StreamsNext

LEMMA ConversionInvInitially == StreamsInit => ConversionInv
  <1> SUFFICES ASSUME StreamsInit PROVE ConversionInv
    OBVIOUS
  <1>1. PICK s \in Sources :
          memory = [a \in StreamAddresses |->
                      IF a \in SourceBase .. (SourceBase + Len(s) - 1)
                        THEN s[a - SourceBase + 1] ELSE 0]
    BY DEF StreamsInit
  <1>2. s \in Seq(Octets) /\ SourceBase \in Nat
    BY StreamsAssumption, Zenon DEF Octets
  <1>3. ASSUME NEW a \in SourceBase .. (SourceBase + Len(s) - 1)
        PROVE  s[a - SourceBase + 1] \in Octets
    <2>1. Len(s) \in Nat
      BY <1>2, LenProperties
    <2>2. a - SourceBase + 1 \in 1 .. Len(s)
      BY <1>2, <2>1, SMT
    <2>3. QED
      BY <1>2, <2>2, ElementOfSeq
  <1>4. 0 \in Octets
    BY InOctets
  <1>5. memory \in [StreamAddresses -> Octets]
    BY <1>1, <1>3, <1>4, Zenon
  <1>6. converted.kind = "none"
    BY DEF StreamsInit, NoConversion
  <1>7. ConversionsAreFaithful
    BY <1>6 DEF ConversionsAreFaithful, DecodingInvertsEncoding, ConversionsFitTheirBuffer
  <1>8. QED
    BY <1>5, <1>7 DEF ConversionInv

\* Every conversion and every change of its source by the caller leaves bytes in
\* memory and the last result exact (MultiByteToWideChar).
THEOREM ConversionInvHolds == StreamsSpec => []ConversionInv
  BY ConversionInvInitially, ConversionInvStep, PTL DEF StreamsSpec

\* For every string of bytes, of whatever length: what MultiByteToWideChar
\* accepts is the UTF-8 encoding, and the only one, of the code points that it
\* converts, and the units that it writes are as many as it reports and fit
\* the destination.
THEOREM ConversionsAreExact == StreamsSpec => []ConversionsAreFaithful
  <1>1. ConversionInv => ConversionsAreFaithful
    BY DEF ConversionInv
  <1>2. QED
    BY <1>1, ConversionInvHolds, PTL

-----------------------------------------------------------------------------
(* Scans.                                                                  *)

\* The place of character i, and why a scan stops there, if it does.
Place(p, size, i) == p + i * size
CanRead(a, size, headers) ==
  IF headers THEN ModuleReadable(a, size) ELSE ImageReadable(a, size)
Reason(p, size, limit, headers, i) ==
  IF i = limit THEN "limit"
  ELSE IF Place(p, size, i) > WordMax THEN "overflow"
  ELSE IF ~IsCanonical(Place(p, size, i)) THEN "noncanonical"
  ELSE IF ~CanRead(Place(p, size, i), size, headers) THEN "unreadable"
  ELSE IF Char(Place(p, size, i), size) = 0 THEN "ok"
  ELSE "more"

\* Character n is the first one that ends the scan.
StopsAt(p, size, limit, headers, n) ==
  /\ n \in 0 .. limit
  /\ Reason(p, size, limit, headers, n) # "more"
  /\ \A j \in 0 .. (n - 1) : Reason(p, size, limit, headers, j) = "more"

LEMMA ScanStops ==
  ASSUME NEW p, NEW size, NEW limit \in Nat, NEW headers
  PROVE  \E n : StopsAt(p, size, limit, headers, n)
  <1> DEFINE S == {i \in 0 .. limit : Reason(p, size, limit, headers, i) # "more"}
  <1>1. limit \in S
    BY DEF Reason
  <1>2. S \in SUBSET (0 .. limit) /\ S # {}
    BY <1>1
  <1>3. PICK n \in S : \A j \in 0 .. (n - 1) : j \notin S
    <2> HIDE DEF S
    <2>1. QED
      BY <1>2, LeastNumber
  <1>4. \A j \in 0 .. (n - 1) : j \in 0 .. limit
    OBVIOUS
  <1>5. StopsAt(p, size, limit, headers, n)
    BY <1>3, <1>4 DEF StopsAt
  <1>6. QED
    BY <1>5

LEMMA ScanStopsOnce ==
  ASSUME NEW p, NEW size, NEW limit \in Nat, NEW headers, NEW m, NEW n,
         StopsAt(p, size, limit, headers, m), StopsAt(p, size, limit, headers, n)
  PROVE  m = n
  <1>1. m \in Nat /\ n \in Nat
    BY DEF StopsAt
  <1>2. m < n => m \in 0 .. (n - 1)
    BY <1>1
  <1>3. n < m => n \in 0 .. (m - 1)
    BY <1>1
  <1>4. ~(m < n) /\ ~(n < m)
    BY <1>2, <1>3 DEF StopsAt
  <1>5. QED
    BY <1>1, <1>4

\* What Scan returns.
IsScan(s, p, size, limit, headers, n) ==
  /\ StopsAt(p, size, limit, headers, n)
  /\ s.status = (IF p = 0 THEN "null" ELSE Reason(p, size, limit, headers, n))
  /\ s.length = n
  /\ s.read = IF p = 0 THEN {}
              ELSE p .. (Place(p, size, n) - 1 +
                           (IF Reason(p, size, limit, headers, n) = "ok" THEN size ELSE 0))
  /\ s.chars = IF p # 0 /\ Reason(p, size, limit, headers, n) = "ok"
                 THEN [i \in 1 .. n |-> Char(Place(p, size, i - 1), size)] ELSE <<>>

LEMMA ScanIs ==
  ASSUME NEW p, NEW size, NEW limit \in Nat, NEW headers
  PROVE  \E n : IsScan(Scan(p, size, limit, headers), p, size, limit, headers, n)
  <1> DEFINE n == CHOOSE i \in 0 .. limit :
                    /\ Reason(p, size, limit, headers, i) # "more"
                    /\ \A j \in 0 .. (i - 1) : Reason(p, size, limit, headers, j) = "more"
  <1>1. StopsAt(p, size, limit, headers, n)
    <2>1. \E i \in 0 .. limit :
                    /\ Reason(p, size, limit, headers, i) # "more"
                    /\ \A j \in 0 .. (i - 1) : Reason(p, size, limit, headers, j) = "more"
      <3>1. PICK i : StopsAt(p, size, limit, headers, i)
        BY ScanStops
      <3>2. QED
        BY <3>1, Zenon DEF StopsAt
    <2>2. QED
      BY <2>1, Zenon DEF StopsAt
  <1>2. Scan(p, size, limit, headers).length = n
    BY DEF Scan, Reason, Place, CanRead
  <1>3. Scan(p, size, limit, headers).status =
          (IF p = 0 THEN "null" ELSE Reason(p, size, limit, headers, n))
    BY DEF Scan, Reason, Place, CanRead
  <1>4. Scan(p, size, limit, headers).read =
          IF p = 0 THEN {}
          ELSE p .. (Place(p, size, n) - 1 +
                       (IF Reason(p, size, limit, headers, n) = "ok" THEN size ELSE 0))
    BY DEF Scan, Reason, Place, CanRead
  <1>5. Scan(p, size, limit, headers).chars =
          IF p # 0 /\ Reason(p, size, limit, headers, n) = "ok"
            THEN [i \in 1 .. n |-> Char(Place(p, size, i - 1), size)] ELSE <<>>
    BY DEF Scan, Reason, Place, CanRead
  <1> HIDE DEF n
  <1>6. QED
    BY <1>1, <1>2, <1>3, <1>4, <1>5 DEF IsScan

\* An address that the headers or a readable section hold.
IsImageByte(a) ==
  \/ a >= ImageBase /\ a < main.headerEnd
  \/ \E r \in FindAddress(a) : r.readable

\* A factor that is not zero can be cancelled.
LEMMA FewerTimes ==
  ASSUME NEW i \in Int, NEW j \in Int, NEW size \in Nat \ {0}, i * size < j * size
  PROVE  i < j
  <1>1. SUFFICES ASSUME i >= j PROVE FALSE
    OBVIOUS
  <1>2. (i - j) * size >= 0
    BY <1>1
  <1>3. (i - j) * size = i * size - j * size
    BY SMT
  <1>4. i * size \in Int /\ j * size \in Int
    OBVIOUS
  <1>5. QED
    BY <1>2, <1>3, <1>4

\* Every byte of a character that may be read lies in the image.
LEMMA BytesOfCharacter ==
  ASSUME NEW a \in Nat, NEW b \in Nat \ {0}, NEW size \in Nat \ {0}, NEW headers,
         main.headerEnd \in Nat, CanRead(a, size, headers), a <= b, b < a + size
  PROVE  IsImageByte(b)
  <1>1. ImageBase \in Nat /\ ImageEnd \in Nat
    BY ImageAssumption
  <1>2. CASE ImageReadable(a, size)
    <2>1. PICK r \in ImageRegions :
            a >= r.base /\ a + size >= a /\ a + size <= r.end /\ r.readable
      BY <1>2 DEF ImageReadable, FindRange
    <2>2. r.base \in Nat /\ r.end \in Nat
      BY ImageAssumption
    <2>3. b >= r.base /\ b < r.end
      BY <2>1, <2>2
    <2>4. r \in FindAddress(b)
      BY <2>3 DEF FindAddress
    <2>5. QED
      BY <2>1, <2>4 DEF IsImageByte
  <1>3. CASE ~ImageReadable(a, size)
    <2>1. a >= ImageBase /\ a + size <= main.headerEnd
      BY <1>3 DEF CanRead, ModuleReadable
    <2>2. b >= ImageBase /\ b < main.headerEnd
      BY <1>1, <2>1
    <2>3. QED
      BY <2>2 DEF IsImageByte
  <1>4. QED
    BY <1>2, <1>3

\* A scan reads only bytes of the image.
LEMMA ReadsStayInTheImage ==
  ASSUME NEW p \in Nat, NEW size \in Nat \ {0}, NEW limit \in Nat, NEW headers,
         main.headerEnd \in Nat, NEW a \in Scan(p, size, limit, headers).read
  PROVE  IsImageByte(a)
  <1> DEFINE s == Scan(p, size, limit, headers)
  <1>1. PICK n : IsScan(s, p, size, limit, headers, n)
    BY ScanIs
  <1> HIDE DEF s
  <1>2. a \in s.read
    BY DEF s
  <1> DEFINE ok == Reason(p, size, limit, headers, n) = "ok"
             last == Place(p, size, n) - 1 + (IF ok THEN size ELSE 0)
  <1>3. p # 0 /\ a \in p .. last
    BY <1>1, <1>2 DEF IsScan
  <1>4. n \in Nat
    BY <1>1 DEF IsScan, StopsAt
  <1>5. last = p + n * size - 1 + (IF ok THEN size ELSE 0)
    BY <1>4 DEF Place
  <1> HIDE DEF ok, last
  <1>6. n * size \in Nat /\ (n + 1) * size = n * size + size
    BY <1>4, SMT
  <1>7. last \in Int
    BY <1>4, <1>5, <1>6
  <1>8. a \in Nat /\ a - p \in Nat /\ a >= p /\ a <= last
    BY <1>3, <1>7
  <1> DEFINE j == (a - p) \div size
  <1>9. j \in Int /\ j * size <= a - p /\ a - p < j * size + size /\ j >= 0
    <2>1. (a - p) \div size \in Nat
      BY <1>8, SMT
    <2>2. /\ (a - p) % size \in Nat /\ (a - p) % size < size
          /\ (a - p) = size * ((a - p) \div size) + ((a - p) % size)
      BY <1>8, Division
    <2>3. QED
      BY <1>8, <2>1, <2>2, SMT
  <1> HIDE DEF j
  <1>10. CASE ok
    <2>1. a - p < (n + 1) * size
      BY <1>5, <1>6, <1>8, <1>10
    <2>2. j * size < (n + 1) * size
      BY <1>4, <1>6, <1>8, <1>9, <2>1
    <2>3. j < n + 1
      BY <1>4, <1>9, <2>2, FewerTimes
    <2>4. j = n \/ j \in 0 .. (n - 1)
      BY <1>4, <1>9, <2>3
    <2>5. Reason(p, size, limit, headers, j) \in {"ok", "more"}
      BY <1>1, <1>10, <2>4 DEF IsScan, StopsAt, ok
    <2>6. CanRead(Place(p, size, j), size, headers)
      BY <2>5 DEF Reason
    <2>7. QED
      BY <1>3, <1>8, <1>9, <2>6, BytesOfCharacter DEF Place
  <1>11. CASE ~ok
    <2>1. a - p < n * size
      BY <1>5, <1>6, <1>8, <1>11
    <2>2. j * size < n * size
      BY <1>4, <1>6, <1>8, <1>9, <2>1
    <2>3. j < n
      BY <1>4, <1>9, <2>2, FewerTimes
    <2>4. j \in 0 .. (n - 1)
      BY <1>4, <1>9, <2>3
    <2>5. Reason(p, size, limit, headers, j) = "more"
      BY <1>1, <2>4 DEF IsScan, StopsAt
    <2>6. CanRead(Place(p, size, j), size, headers)
      BY <2>5 DEF Reason
    <2>7. QED
      BY <1>3, <1>8, <1>9, <2>6, BytesOfCharacter DEF Place
  <1>12. QED
    BY <1>10, <1>11

-----------------------------------------------------------------------------
(* Strings.                                                                *)

\* A terminated string of n characters that the sections of the image hold.
IsText(p, size, limit, n) ==
  /\ p # 0 /\ n \in 0 .. (limit - 1)
  /\ \A j \in 0 .. n :
       /\ ~(Place(p, size, j) > WordMax) /\ IsCanonical(Place(p, size, j))
       /\ ImageReadable(Place(p, size, j), size)
       /\ Char(Place(p, size, j), size) = 0 <=> j = n
TextAt(p, size, n) == [i \in 1 .. n |-> Char(Place(p, size, i - 1), size)]

\* A scan that finds the terminator has read a string.
FindsText(s, p, size, limit, n) ==
  /\ IsText(p, size, limit, n)
  /\ s.chars = TextAt(p, size, n)
  /\ s.read = p .. (Place(p, size, n) - 1 + size)

LEMMA ScanFindsText ==
  ASSUME NEW p, NEW size, NEW limit \in Nat, Scan(p, size, limit, FALSE).status = "ok"
  PROVE  \E n : FindsText(Scan(p, size, limit, FALSE), p, size, limit, n)
  <1> DEFINE s == Scan(p, size, limit, FALSE)
  <1>1. PICK n : IsScan(s, p, size, limit, FALSE, n)
    BY ScanIs
  <1>2. s.status = "ok"
    OBVIOUS
  <1> HIDE DEF s
  <1>3. p # 0 /\ Reason(p, size, limit, FALSE, n) = "ok"
    BY <1>1, <1>2 DEF IsScan
  <1>4. n \in 0 .. limit /\ n # limit
    BY <1>1, <1>3 DEF IsScan, StopsAt, Reason
  <1>5. ASSUME NEW j \in 0 .. n
        PROVE  /\ ~(Place(p, size, j) > WordMax) /\ IsCanonical(Place(p, size, j))
               /\ ImageReadable(Place(p, size, j), size)
               /\ Char(Place(p, size, j), size) = 0 <=> j = n
    <2>1. CASE j = n
      BY <1>3, <2>1 DEF Reason, CanRead
    <2>2. CASE j # n
      <3>1. j \in 0 .. (n - 1)
        BY <1>4, <2>2
      <3>2. Reason(p, size, limit, FALSE, j) = "more"
        BY <1>1, <3>1 DEF IsScan, StopsAt
      <3>3. QED
        BY <2>2, <3>2 DEF Reason, CanRead
    <2>3. QED
      BY <2>1, <2>2
  <1>6. IsText(p, size, limit, n)
    BY <1>3, <1>4, <1>5 DEF IsText
  <1>7. s.chars = TextAt(p, size, n)
    BY <1>1, <1>3 DEF IsScan, TextAt
  <1>8. s.read = p .. (Place(p, size, n) - 1 + size)
    BY <1>1, <1>3 DEF IsScan
  <1>9. QED
    BY <1>6, <1>7, <1>8 DEF s, FindsText

\* A string is what a scan returns, with the headers or without.
LEMMA TextIsScanned ==
  ASSUME NEW p \in Nat, NEW size \in Nat \ {0}, NEW limit \in Nat, NEW n, IsText(p, size, limit, n),
         NEW headers \in BOOLEAN
  PROVE  /\ Scan(p, size, limit, headers).status = "ok"
         /\ Scan(p, size, limit, headers).chars = TextAt(p, size, n)
  <1> DEFINE s == Scan(p, size, limit, headers)
  <1>1. PICK m : IsScan(s, p, size, limit, headers, m)
    BY ScanIs
  <1> HIDE DEF s
  <1>2. n \in Nat /\ n \in 0 .. limit /\ n # limit /\ n < limit
    BY DEF IsText
  <1>3. ASSUME NEW j \in 0 .. n
        PROVE  Reason(p, size, limit, headers, j) = IF j = n THEN "ok" ELSE "more"
    <2>1. j # limit
      BY <1>2
    <2>2. Place(p, size, j) \in Nat
      <3>1. j \in Nat /\ j * size \in Nat
        BY <1>2, SMT
      <3>2. QED
        BY <3>1 DEF Place
    <2>3. CanRead(Place(p, size, j), size, headers)
      <3>1. ImageReadable(Place(p, size, j), size)
        BY DEF IsText
      <3>2. PICK r \in ImageRegions :
              Place(p, size, j) >= r.base /\ Place(p, size, j) + size <= r.end
        BY <3>1 DEF ImageReadable, FindRange
      <3>3. /\ r.base \in Nat /\ r.end \in Nat /\ ImageBase <= r.base /\ r.end <= ImageEnd
            /\ ImageBase \in Int /\ ImageEnd \in Int
        BY ImageAssumption
      <3>4. Place(p, size, j) >= ImageBase /\ Place(p, size, j) + size <= ImageEnd
        BY <2>2, <3>2, <3>3
      <3>5. QED
        BY <3>1, <3>4 DEF CanRead, ModuleReadable
    <2>4. /\ ~(Place(p, size, j) > WordMax) /\ IsCanonical(Place(p, size, j))
          /\ Char(Place(p, size, j), size) = 0 <=> j = n
      BY DEF IsText
    <2>5. QED
      BY <2>1, <2>3, <2>4 DEF Reason
  <1>4. StopsAt(p, size, limit, headers, n)
    <2>1. Reason(p, size, limit, headers, n) = "ok"
      BY <1>2, <1>3
    <2>2. ASSUME NEW j \in 0 .. (n - 1) PROVE Reason(p, size, limit, headers, j) = "more"
      <3>1. j \in 0 .. n /\ j # n
        BY <1>2
      <3>2. QED
        BY <1>3, <3>1
    <2>3. QED
      BY <1>2, <2>1, <2>2 DEF StopsAt
  <1>5. m = n
    <2>1. StopsAt(p, size, limit, headers, m)
      BY <1>1 DEF IsScan
    <2>2. QED
      BY <1>4, <2>1, ScanStopsOnce
  <1>6. Reason(p, size, limit, headers, n) = "ok"
    BY <1>2, <1>3
  <1>7. p # 0
    BY DEF IsText
  <1>8. s.status = "ok" /\ s.chars = TextAt(p, size, n)
    BY <1>1, <1>5, <1>6, <1>7 DEF IsScan, TextAt
  <1>9. QED
    BY <1>8 DEF s

\* A string of the image, as strlen, strcmp and _stricmp read it.
IsString(p, n) ==
  IsText(p, 1, ScanLimit, n) /\ ~(IsCanonical(p) /\ p + ScanLimit - 1 > WordMax)

LEMMA ScanStringFindsString ==
  ASSUME NEW p \in Nat, ScanString(p).status = "ok"
  PROVE  \E n : /\ IsString(p, n) /\ ScanString(p).chars = TextAt(p, 1, n)
                /\ ScanString(p).read = p .. (p + n)
  <1>1. CASE p # 0 /\ IsCanonical(p) /\ p + ScanLimit - 1 > WordMax
    BY <1>1 DEF ScanString
  <1>2. CASE ~(p # 0 /\ IsCanonical(p) /\ p + ScanLimit - 1 > WordMax)
    <2>1. ScanString(p) = Scan(p, 1, ScanLimit, FALSE)
      BY <1>2 DEF ScanString
    <2>2. ScanLimit \in Nat
      BY ModulesAssumption
    <2>3. PICK n : /\ IsText(p, 1, ScanLimit, n)
                   /\ ScanString(p).chars = TextAt(p, 1, n)
                   /\ ScanString(p).read = p .. (Place(p, 1, n) - 1 + 1)
      <3>1. Scan(p, 1, ScanLimit, FALSE).status = "ok"
        BY <2>1, Zenon
      <3>2. \E n : FindsText(Scan(p, 1, ScanLimit, FALSE), p, 1, ScanLimit, n)
        BY <2>2, <3>1, ScanFindsText, Zenon
      <3>3. \E n : FindsText(ScanString(p), p, 1, ScanLimit, n)
        BY <2>1, <3>2, Zenon
      <3>4. QED
        BY <3>3, Zenon DEF FindsText
    <2>4. p # 0
      BY <2>3 DEF IsText
    <2>5. IsString(p, n)
      BY <1>2, <2>3, <2>4 DEF IsString
    <2>6. Place(p, 1, n) - 1 + 1 = p + n
      <3>1. n \in Nat
        BY <2>2, <2>3 DEF IsText
      <3>2. QED
        BY <3>1 DEF Place
    <2>7. QED
      BY <2>3, <2>5, <2>6, Zenon
  <1>3. QED
    BY <1>1, <1>2

LEMMA StringIsScanned ==
  ASSUME NEW p \in Nat, NEW n, IsString(p, n)
  PROVE  ScanString(p).chars = TextAt(p, 1, n)
  <1>1. ScanString(p) = Scan(p, 1, ScanLimit, FALSE)
    BY DEF IsString, ScanString
  <1>2. ScanLimit \in Nat /\ 1 \in Nat \ {0}
    BY ModulesAssumption
  <1>3. IsText(p, 1, ScanLimit, n)
    BY DEF IsString
  <1> DEFINE headers == FALSE
             one == 1
  <1>4. headers \in BOOLEAN /\ one \in Nat \ {0} /\ IsText(p, one, ScanLimit, n)
    BY <1>3
  <1> HIDE DEF headers, one
  <1>5. Scan(p, one, ScanLimit, headers).chars = TextAt(p, one, n)
    BY <1>2, <1>4, TextIsScanned
  <1>6. QED
    BY <1>1, <1>5 DEF headers, one

\* The characters of a string, folded or not: none is zero but the last.
FoldedAt(fold, p, i) == FoldIf(fold, Char(p + i, 1))

LEMMA StringCharacters ==
  ASSUME NEW p \in Nat, NEW n, IsString(p, n), NEW fold \in BOOLEAN
  PROVE  /\ n \in Nat /\ n \in 0 .. ScanLimit
         /\ \A j \in 0 .. n : /\ Char(p + j, 1) \in Nat /\ FoldedAt(fold, p, j) \in Nat
                              /\ FoldedAt(fold, p, j) = 0 <=> j = n
  <1>1. IsText(p, 1, ScanLimit, n)
    BY DEF IsString
  <1>2. ScanLimit \in Nat \ {0}
    BY ModulesAssumption
  <1>3. n \in Nat /\ n \in 0 .. ScanLimit
    BY <1>1, <1>2 DEF IsText
  <1>4. ASSUME NEW j \in 0 .. n
        PROVE  /\ Char(p + j, 1) \in Nat /\ FoldedAt(fold, p, j) \in Nat
               /\ FoldedAt(fold, p, j) = 0 <=> j = n
    <2>1. Place(p, 1, j) = p + j /\ p + j \in Nat
      BY <1>3 DEF Place
    <2>2. ImageReadable(p + j, 1) /\ (Char(p + j, 1) = 0 <=> j = n)
      BY <1>1, <2>1 DEF IsText
    <2>3. PICK r \in ImageRegions : p + j >= r.base /\ p + j + 1 <= r.end
      BY <2>2 DEF ImageReadable, FindRange
    <2>4. /\ r.base \in Nat /\ r.end \in Nat /\ ImageBase <= r.base /\ r.end <= ImageEnd
          /\ ImageBase \in Int /\ ImageEnd \in Int
      BY ImageAssumption
    <2>5. p + j \in ImageBase .. (ImageEnd - 1)
      BY <2>1, <2>3, <2>4
    <2>6. Char(p + j, 1) \in Nat
      BY <2>5, ModulesAssumption DEF Char
    <2>7. QED
      BY <2>2, <2>6 DEF FoldedAt, FoldIf, Fold, Lower, Upper
  <1>5. QED
    BY <1>3, <1>4

\* Where a comparison stops.
DifferAt(p, q, fold, i) ==
  /\ i \in 0 .. ScanLimit
  /\ FoldedAt(fold, p, i) # FoldedAt(fold, q, i) \/ FoldedAt(fold, p, i) = 0
  /\ \A j \in 0 .. (i - 1) :
       FoldedAt(fold, p, j) = FoldedAt(fold, q, j) /\ FoldedAt(fold, p, j) # 0

LEMMA CompareStops ==
  ASSUME NEW p, NEW q, NEW fold, NEW m \in 0 .. ScanLimit, FoldedAt(fold, p, m) = 0
  PROVE  \E n : /\ DifferAt(p, q, fold, n)
                /\ Compare(p, q, fold) = FoldedAt(fold, p, n) - FoldedAt(fold, q, n)
  <1> DEFINE S == {i \in 0 .. ScanLimit : \/ FoldedAt(fold, p, i) # FoldedAt(fold, q, i)
                                          \/ FoldedAt(fold, p, i) = 0}
  <1>1. S \in SUBSET (0 .. ScanLimit) /\ m \in S
    OBVIOUS
  <1>2. ScanLimit \in Nat
    BY ModulesAssumption
  <1>3. PICK i \in S : \A j \in 0 .. (i - 1) : j \notin S
    <2> HIDE DEF S
    <2>1. S # {}
      BY <1>1
    <2>2. QED
      BY <1>1, <1>2, <2>1, LeastNumber
  <1>4. \A j \in 0 .. (i - 1) : j \in 0 .. ScanLimit
    BY <1>2
  <1>5. DifferAt(p, q, fold, i)
    BY <1>3, <1>4 DEF DifferAt
  <1> DEFINE n == CHOOSE k \in 0 .. ScanLimit :
                    /\ FoldedAt(fold, p, k) # FoldedAt(fold, q, k) \/ FoldedAt(fold, p, k) = 0
                    /\ \A j \in 0 .. (k - 1) :
                         FoldedAt(fold, p, j) = FoldedAt(fold, q, j) /\ FoldedAt(fold, p, j) # 0
  <1>6. DifferAt(p, q, fold, n)
    BY <1>5, Zenon DEF DifferAt
  <1>7. Compare(p, q, fold) = FoldedAt(fold, p, n) - FoldedAt(fold, q, n)
    BY DEF Compare, FoldedAt
  <1> HIDE DEF n
  <1>8. QED
    BY <1>6, <1>7

FoldedText(fold, p, n) == [i \in 1 .. n |-> FoldedAt(fold, p, i - 1)]

LEMMA TextOfString ==
  ASSUME NEW p \in Nat, NEW n \in Nat
  PROVE  /\ TextAt(p, 1, n) = FoldedText(FALSE, p, n)
         /\ Folded(TextAt(p, 1, n)) = FoldedText(TRUE, p, n)
  <1>1. \A i \in 1 .. n : Place(p, 1, i - 1) = p + (i - 1)
    BY DEF Place
  <1>2. TextAt(p, 1, n) = [i \in 1 .. n |-> Char(p + (i - 1), 1)]
    BY <1>1 DEF TextAt
  <1>3. FoldedText(FALSE, p, n) = [i \in 1 .. n |-> Char(p + (i - 1), 1)]
    BY DEF FoldedText, FoldedAt, FoldIf
  <1>4. FoldedText(TRUE, p, n) = [i \in 1 .. n |-> Fold(Char(p + (i - 1), 1))]
    BY DEF FoldedText, FoldedAt, FoldIf
  <1>5. Folded(TextAt(p, 1, n)) = [i \in 1 .. n |-> Fold(Char(p + (i - 1), 1))]
    BY <1>2 DEF Folded
  <1>6. QED
    BY <1>2, <1>3, <1>4, <1>5

\* The characters where a comparison stops decide it, and both strings have them.
LEMMA DifferenceDecides ==
  ASSUME NEW p \in Nat, NEW q \in Nat, NEW m, NEW n, NEW fold \in BOOLEAN,
         IsString(p, m), IsString(q, n), NEW k, DifferAt(p, q, fold, k)
  PROVE  /\ k \in 0 .. m /\ k \in 0 .. n
         /\ FoldedAt(fold, p, k) = FoldedAt(fold, q, k)
              <=> FoldedText(fold, p, m) = FoldedText(fold, q, n)
  <1> DEFINE P(i) == FoldedAt(fold, p, i)
             Q(i) == FoldedAt(fold, q, i)
  <1>1. m \in Nat /\ m \in 0 .. ScanLimit /\ \A j \in 0 .. m : P(j) \in Nat /\ (P(j) = 0 <=> j = m)
    BY StringCharacters
  <1>2. n \in Nat /\ n \in 0 .. ScanLimit /\ \A j \in 0 .. n : Q(j) \in Nat /\ (Q(j) = 0 <=> j = n)
    BY StringCharacters
  <1>3. P(m) = 0 /\ Q(n) = 0
    BY <1>1, <1>2
  <1>5. /\ k \in Nat /\ (P(k) # Q(k) \/ P(k) = 0)
        /\ \A j \in 0 .. (k - 1) : P(j) = Q(j) /\ P(j) # 0
    BY DEF DifferAt
  <1>6. FoldedText(fold, p, m) = [i \in 1 .. m |-> P(i - 1)]
    BY DEF FoldedText
  <1>7. FoldedText(fold, q, n) = [i \in 1 .. n |-> Q(i - 1)]
    BY DEF FoldedText
  <1> HIDE DEF P, Q
  <1>8. k <= m
    <2>1. m < k => m \in 0 .. (k - 1)
      BY <1>1, <1>5
    <2>2. QED
      BY <1>1, <1>3, <1>5, <2>1
  <1>9. k <= n
    <2>1. n < k => n \in 0 .. (k - 1)
      BY <1>2, <1>5
    <2>2. QED
      BY <1>2, <1>3, <1>5, <2>1
  <1>10. k \in 0 .. m /\ k \in 0 .. n
    BY <1>1, <1>2, <1>5, <1>8, <1>9
  <1>13. ASSUME P(k) = Q(k) PROVE FoldedText(fold, p, m) = FoldedText(fold, q, n)
    <2>1. P(k) = 0 /\ Q(k) = 0
      BY <1>5, <1>13
    <2>2. k = m /\ k = n
      BY <1>1, <1>2, <1>10, <2>1
    <2>3. ASSUME NEW i \in 1 .. m PROVE P(i - 1) = Q(i - 1)
      <3>1. i - 1 \in 0 .. (k - 1)
        BY <1>1, <2>2
      <3>2. QED
        BY <1>5, <3>1
    <2>4. QED
      BY <1>6, <1>7, <2>2, <2>3
  <1>14. ASSUME FoldedText(fold, p, m) = FoldedText(fold, q, n) PROVE P(k) = Q(k)
    <2>1. 1 .. m = 1 .. n
      BY <1>6, <1>7, <1>14
    <2>2. m = n
      BY <1>1, <1>2, <2>1
    <2>3. CASE k = m
      BY <1>3, <2>2, <2>3
    <2>4. CASE k # m
      <3>1. k + 1 \in 1 .. m /\ k + 1 \in 1 .. n /\ (k + 1) - 1 = k
        BY <1>1, <1>5, <1>8, <2>2, <2>4
      <3>2. FoldedText(fold, p, m)[k + 1] = P((k + 1) - 1)
        BY <1>6, <3>1
      <3>3. FoldedText(fold, q, n)[k + 1] = Q((k + 1) - 1)
        BY <1>7, <3>1
      <3>4. QED
        BY <1>14, <3>1, <3>2, <3>3
    <2>5. QED
      BY <2>3, <2>4
  <1>15. P(k) = Q(k) <=> FoldedText(fold, p, m) = FoldedText(fold, q, n)
    BY <1>13, <1>14
  <1>16. QED
    BY <1>10, <1>15 DEF P, Q

\* A comparison is zero when the strings are the same, and then only.
LEMMA CompareIsExact ==
  ASSUME NEW p \in Nat, NEW q \in Nat, NEW m, NEW n, NEW fold \in BOOLEAN,
         IsString(p, m), IsString(q, n)
  PROVE  Compare(p, q, fold) = 0 <=> FoldedText(fold, p, m) = FoldedText(fold, q, n)
  <1> DEFINE P(i) == FoldedAt(fold, p, i)
             Q(i) == FoldedAt(fold, q, i)
  <1>1. m \in 0 .. ScanLimit /\ m \in 0 .. m /\ \A j \in 0 .. m : P(j) \in Nat /\ (P(j) = 0 <=> j = m)
    BY StringCharacters
  <1>2. \A j \in 0 .. n : Q(j) \in Nat
    BY StringCharacters
  <1>3. PICK k : DifferAt(p, q, fold, k) /\ Compare(p, q, fold) = P(k) - Q(k)
    BY <1>1, CompareStops
  <1>4. /\ k \in 0 .. m /\ k \in 0 .. n
        /\ P(k) = Q(k) <=> FoldedText(fold, p, m) = FoldedText(fold, q, n)
    BY <1>3, DifferenceDecides
  <1> HIDE DEF P, Q
  <1>5. P(k) \in Nat /\ Q(k) \in Nat
    BY <1>1, <1>2, <1>4
  <1>6. Compare(p, q, fold) = 0 <=> P(k) = Q(k)
    BY <1>3, <1>5
  <1>7. QED
    BY <1>4, <1>6

-----------------------------------------------------------------------------
(* Reads without checks.                                                   *)

LEMMA WordMaxIsNat == WordMax + 1 \in Nat /\ WordMax \in Int
  BY ImageAssumption DEF WordMax

\* Inside the image they see its text, whatever lies around it.
LEMMA LoadedFromImage ==
  ASSUME NEW m, NEW a \in Nat, NEW size \in Nat \ {0}, ImageReadable(a, size)
  PROVE  /\ LoadUnit(m, a, size) = Char(a, size)
         /\ LoadUnit(m, a, size) \in Nat
  <1>1. PICK r \in ImageRegions : a >= r.base /\ a + size <= r.end
    BY DEF ImageReadable, FindRange
  <1>2. /\ r.base \in Nat /\ r.end \in Nat /\ ImageBase <= r.base /\ r.end <= ImageEnd
        /\ ImageBase \in Int /\ ImageEnd \in Int
    BY ImageAssumption
  <1>3. ASSUME NEW i \in 0 .. (size - 1) PROVE Load(m, a + i) = Text[a + i] /\ Text[a + i] \in Nat
    <2>1. a + i \in ImageBase .. (ImageEnd - 1)
      BY <1>1, <1>2
    <2>2. a + i \in DOMAIN Text /\ Text[a + i] \in Nat
      BY <2>1, ModulesAssumption
    <2>3. QED
      BY <2>2 DEF Load
  <1>4. a + 0 = a /\ 0 \in 0 .. (size - 1) /\ (size # 1 => 1 \in 0 .. (size - 1))
    OBVIOUS
  <1>5. Load(m, a) = Text[a] /\ Text[a] \in Nat
    BY <1>3, <1>4
  <1>6. size # 1 => Load(m, a + 1) = Text[a + 1] /\ Text[a + 1] \in Nat
    BY <1>3, <1>4
  <1>7. \A i \in 0 .. (size - 1) : Load(m, a + i) # Fault
    BY <1>3 DEF Fault
  <1>8. LoadUnit(m, a, size) = IF size = 1 THEN Load(m, a) ELSE Load(m, a) + 16 * Load(m, a + 1)
    BY <1>7, Zenon DEF LoadUnit
  <1>9. CASE size = 1
    BY <1>5, <1>8, <1>9 DEF Char
  <1>10. CASE size # 1
    BY <1>5, <1>6, <1>8, <1>10 DEF Char
  <1>11. QED
    BY <1>9, <1>10

\* Where the measuring loop ends.
MeasuredAt(m, p, size, limit, n) ==
  /\ n \in 0 .. limit
  /\ n = limit \/ LoadUnit(m, p + n * size, size) \in {0, Fault}
  /\ \A j \in 0 .. (n - 1) : LoadUnit(m, p + j * size, size) \notin {0, Fault}

LEMMA PreviewIs ==
  ASSUME NEW m, NEW p, NEW size, NEW limit \in Nat
  PROVE  \E n : /\ MeasuredAt(m, p, size, limit, n)
                /\ Preview(m, p, size, limit).fault
                     = (n < limit /\ LoadUnit(m, p + n * size, size) = Fault)
                /\ Preview(m, p, size, limit).read
                     = p .. (p + n * size - 1 + (IF n < limit THEN size ELSE 0))
  <1> DEFINE At(i) == LoadUnit(m, p + i * size, size)
             S == {i \in 0 .. limit : i = limit \/ At(i) \in {0, Fault}}
             n == CHOOSE i \in 0 .. limit :
                    /\ i = limit \/ At(i) \in {0, Fault}
                    /\ \A j \in 0 .. (i - 1) : At(j) \notin {0, Fault}
  <1>1. S \in SUBSET (0 .. limit) /\ S # {}
    OBVIOUS
  <1>2. PICK i \in S : \A j \in 0 .. (i - 1) : j \notin S
    <2> HIDE DEF S
    <2>1. QED
      BY <1>1, LeastNumber
  <1>3. \A j \in 0 .. (i - 1) : j \in 0 .. limit
    OBVIOUS
  <1>4. MeasuredAt(m, p, size, limit, i)
    BY <1>2, <1>3 DEF MeasuredAt
  <1>5. MeasuredAt(m, p, size, limit, n)
    BY <1>4, Zenon DEF MeasuredAt
  <1>6. /\ Preview(m, p, size, limit).fault = (n < limit /\ At(n) = Fault)
        /\ Preview(m, p, size, limit).read
             = p .. (p + n * size - 1 + (IF n < limit THEN size ELSE 0))
    BY DEF Preview
  <1> HIDE DEF n
  <1>7. QED
    BY <1>5, <1>6

\* A factor keeps an order.
LEMMA NoMoreTimes ==
  ASSUME NEW i \in Nat, NEW j \in Nat, NEW size \in Nat, i <= j
  PROVE  i * size <= j * size /\ i * size \in Nat /\ j * size \in Nat
  <1>1. (j - i) * size >= 0
    OBVIOUS
  <1>2. (j - i) * size = j * size - i * size
    BY SMT
  <1>3. i * size \in Nat /\ j * size \in Nat
    OBVIOUS
  <1>4. QED
    BY <1>1, <1>2, <1>3

\* The loop stays below its limit, and in a string that ends.
LEMMA PreviewEnds ==
  ASSUME NEW m, NEW p \in Nat, NEW size \in Nat \ {0}, NEW limit \in Nat
  PROVE  /\ Preview(m, p, size, limit).read \subseteq p .. (p + limit * size - 1)
         /\ \A n : \A l \in Nat : IsText(p, size, l, n) =>
              /\ ~Preview(m, p, size, limit).fault
              /\ Preview(m, p, size, limit).read \subseteq p .. (Place(p, size, n) - 1 + size)
  <1> DEFINE s == Preview(m, p, size, limit)
  <1>1. PICK k : /\ MeasuredAt(m, p, size, limit, k)
                 /\ s.fault = (k < limit /\ LoadUnit(m, p + k * size, size) = Fault)
                 /\ s.read = p .. (p + k * size - 1 + (IF k < limit THEN size ELSE 0))
    BY PreviewIs
  <1> HIDE DEF s
  <1>2. k \in Nat /\ k <= limit
    BY <1>1 DEF MeasuredAt
  <1>3. k * size <= limit * size /\ k * size \in Nat /\ limit * size \in Nat
    BY <1>2, NoMoreTimes
  <1>4. k < limit => k * size + size <= limit * size
    <2>1. ASSUME k < limit PROVE (k + 1) * size <= limit * size
      BY <1>2, <2>1, NoMoreTimes
    <2>2. (k + 1) * size = k * size + size
      BY <1>2, SMT
    <2>3. QED
      BY <2>1, <2>2
  <1>5. s.read \subseteq p .. (p + limit * size - 1)
    <2> DEFINE K == k * size
               L == limit * size
    <2>1. K \in Nat /\ L \in Nat /\ K <= L /\ (k < limit => K + size <= L)
      BY <1>3, <1>4
    <2>2. s.read = p .. (p + K - 1 + (IF k < limit THEN size ELSE 0))
      BY <1>1
    <2> HIDE DEF K, L
    <2>3. s.read \subseteq p .. (p + L - 1)
      BY <2>1, <2>2
    <2>4. QED
      BY <2>3 DEF L
  <1>6. ASSUME NEW l \in Nat, NEW n, IsText(p, size, l, n)
        PROVE  ~s.fault /\ s.read \subseteq p .. (Place(p, size, n) - 1 + size)
    <2>1. n \in Nat
      BY <1>6 DEF IsText
    <2>2. ASSUME NEW j \in 0 .. n
          PROVE  /\ LoadUnit(m, p + j * size, size) \in Nat
                 /\ LoadUnit(m, p + j * size, size) = 0 <=> j = n
      <3>1. ImageReadable(Place(p, size, j), size) /\ (Char(Place(p, size, j), size) = 0 <=> j = n)
        BY <1>6 DEF IsText
      <3>2. j \in Nat /\ j * size \in Nat /\ Place(p, size, j) \in Nat
        <4>1. j \in Nat /\ j <= j
          BY <2>1
        <4>2. j * size \in Nat
          BY <4>1, NoMoreTimes
        <4>3. QED
          BY <4>1, <4>2 DEF Place
      <3>3. QED
        BY <3>1, <3>2, LoadedFromImage DEF Place
    <2>3. k <= n
      <3>1. n < k => n \in 0 .. (k - 1)
        BY <1>2, <2>1
      <3>2. LoadUnit(m, p + n * size, size) = 0
        <4>1. n \in 0 .. n
          BY <2>1
        <4>2. QED
          BY <2>2, <4>1
      <3>3. ~(n < k)
        BY <1>1, <3>1, <3>2 DEF MeasuredAt
      <3>4. QED
        BY <1>2, <2>1, <3>3
    <2>4. ~s.fault
      <3>1. k \in 0 .. n
        BY <1>2, <2>1, <2>3
      <3>2. LoadUnit(m, p + k * size, size) # Fault
        BY <2>2, <3>1 DEF Fault
      <3>3. QED
        BY <1>1, <3>2
    <2>5. s.read \subseteq p .. (Place(p, size, n) - 1 + size)
      <3> DEFINE K == k * size
                 L == n * size
      <3>1. K \in Nat /\ L \in Nat /\ K <= L
        BY <1>2, <2>1, <2>3, NoMoreTimes
      <3>2. s.read = p .. (p + K - 1 + (IF k < limit THEN size ELSE 0))
        BY <1>1
      <3>3. Place(p, size, n) = p + L
        BY DEF Place
      <3> HIDE DEF K, L
      <3>4. p .. (p + K - 1 + (IF k < limit THEN size ELSE 0)) \subseteq p .. (p + L - 1 + size)
        BY <3>1
      <3>5. Place(p, size, n) - 1 + size = p + L - 1 + size
        BY <3>1, <3>3
      <3>6. QED
        BY <3>2, <3>4, <3>5, Zenon
    <2>6. QED
      BY <2>4, <2>5
  <1>7. QED
    BY <1>5, <1>6 DEF s

LEMMA PreviewOfString ==
  ASSUME NEW m, NEW p \in Nat, NEW n, IsString(p, n)
  PROVE  /\ ~Preview(m, p, 1, PreviewLimit).fault
         /\ Preview(m, p, 1, PreviewLimit).read \subseteq p .. (p + n)
  <1> DEFINE one == 1
  <1>1. PreviewLimit \in Nat /\ ScanLimit \in Nat /\ one \in Nat \ {0}
    BY ModulesAssumption
  <1>2. IsText(p, one, ScanLimit, n)
    BY DEF IsString
  <1>3. n \in Nat
    BY <1>1, <1>2 DEF IsText
  <1>4. Place(p, one, n) - 1 + one = p + n
    BY <1>3 DEF Place
  <1> HIDE DEF one
  <1>5. /\ ~Preview(m, p, one, PreviewLimit).fault
        /\ Preview(m, p, one, PreviewLimit).read \subseteq p .. (Place(p, one, n) - 1 + one)
    BY <1>1, <1>2, PreviewEnds
  <1>6. QED
    BY <1>4, <1>5 DEF one

LEMMA PreviewHasFault ==
  ASSUME NEW m, NEW p, NEW size, NEW limit
  PROVE  Preview(m, p, size, limit).fault \in BOOLEAN
  BY DEF Preview

\* The comparison without a limit stops where two strings first differ or end.
StopsComparing(m, p, q, i) ==
  /\ i \in 0 .. (WordMax + 1)
  /\ Load(m, p + i) # Load(m, q + i) \/ Load(m, p + i) \in {0, Fault}
  /\ \A j \in 0 .. (i - 1) : Load(m, p + j) = Load(m, q + j) /\ Load(m, p + j) \notin {0, Fault}

\* What a comparison that stops at characters a and b returns.
EndsAt(c, p, q, n, a, b) ==
  /\ c.fault = (a = Fault \/ b = Fault)
  /\ c.result = IF a = b THEN 0 ELSE IF a < b THEN -1 ELSE 1
  /\ c.read = (p .. (p + n)) \cup (q .. (q + n - (IF a = Fault THEN 1 ELSE 0)))

LEMMA CompareUncheckedIs ==
  ASSUME NEW m, NEW p, NEW q, NEW e \in 0 .. (WordMax + 1), Load(m, p + e) = 0
  PROVE  \E n : /\ StopsComparing(m, p, q, n)
                /\ EndsAt(CompareUnchecked(m, p, q), p, q, n, Load(m, p + n), Load(m, q + n))
  <1> DEFINE L(i) == Load(m, p + i)
             R(i) == Load(m, q + i)
             S == {i \in 0 .. (WordMax + 1) : L(i) # R(i) \/ L(i) \in {0, Fault}}
             n == CHOOSE i \in 0 .. (WordMax + 1) :
                    /\ L(i) # R(i) \/ L(i) \in {0, Fault}
                    /\ \A j \in 0 .. (i - 1) : L(j) = R(j) /\ L(j) \notin {0, Fault}
  <1>1. S \in SUBSET (0 .. (WordMax + 1)) /\ e \in S
    OBVIOUS
  <1>2. WordMax + 1 \in Nat
    BY WordMaxIsNat
  <1>3. PICK i \in S : \A j \in 0 .. (i - 1) : j \notin S
    <2> HIDE DEF S
    <2>1. S # {}
      BY <1>1
    <2>2. QED
      BY <1>1, <1>2, <2>1, LeastNumber
  <1>4. \A j \in 0 .. (i - 1) : j \in 0 .. (WordMax + 1)
    BY <1>2
  <1>5. StopsComparing(m, p, q, i)
    BY <1>3, <1>4 DEF StopsComparing
  <1>6. StopsComparing(m, p, q, n)
    BY <1>5, Zenon DEF StopsComparing
  <1>7. EndsAt(CompareUnchecked(m, p, q), p, q, n, L(n), R(n))
    BY DEF CompareUnchecked, EndsAt
  <1> HIDE DEF n
  <1>8. QED
    BY <1>6, <1>7

\* The characters of a string, as the comparison loads them.
IsLoaded(m, p, n, plain) ==
  /\ n \in Nat /\ n \in 0 .. (WordMax + 1)
  /\ \A j \in 0 .. n : /\ Load(m, p + j) = FoldedAt(plain, p, j)
                       /\ Load(m, p + j) \in Nat
                       /\ Load(m, p + j) = 0 <=> j = n

LEMMA StringIsLoaded ==
  ASSUME NEW m, NEW p \in Nat, NEW n, IsString(p, n), NEW plain \in BOOLEAN, ~plain
  PROVE  IsLoaded(m, p, n, plain)
  <1> DEFINE one == 1
  <1>1. one \in Nat \ {0}
    OBVIOUS
  <1>2. /\ n \in Nat
        /\ \A j \in 0 .. n : FoldedAt(plain, p, j) = 0 <=> j = n
    BY <1>1, StringCharacters
  <1>3. IsText(p, 1, ScanLimit, n)
    BY DEF IsString
  <1>4. n \in 0 .. (WordMax + 1)
    <2>1. n \in 0 .. n /\ Place(p, 1, n) = p + n
      BY <1>2 DEF Place
    <2>2. ~(Place(p, 1, n) > WordMax)
      BY <1>3, <2>1 DEF IsText
    <2>3. QED
      BY <1>2, <2>1, <2>2, WordMaxIsNat
  <1>5. ASSUME NEW j \in 0 .. n
        PROVE  Load(m, p + j) = FoldedAt(plain, p, j) /\ Load(m, p + j) \in Nat
    <2>1. Place(p, 1, j) = p + j /\ p + j \in Nat
      BY <1>2 DEF Place
    <2>2. ImageReadable(p + j, one)
      BY <1>3, <2>1 DEF IsText
    <2>3. LoadUnit(m, p + j, one) = Char(p + j, one) /\ LoadUnit(m, p + j, one) \in Nat
      <3> HIDE DEF one
      <3>1. QED
        BY <1>1, <2>1, <2>2, LoadedFromImage
    <2>4. LoadUnit(m, p + j, one) = Load(m, p + j)
      <3>1. \E i \in 0 .. (one - 1) : Load(m, p + j + i) = Fault
              <=> Load(m, p + j) = Fault
        BY <1>2, <2>1
      <3>2. p + j + 0 = p + j
        BY <1>2
      <3>3. QED
        BY <3>1, <3>2 DEF LoadUnit
    <2>5. FoldedAt(plain, p, j) = Char(p + j, one)
      BY DEF FoldedAt, FoldIf
    <2>6. QED
      BY <2>3, <2>4, <2>5
  <1>6. QED
    BY <1>2, <1>4, <1>5 DEF IsLoaded

\* strcmp of two strings of the image: no fault, no read behind a terminator,
\* and zero for equal strings only.
ComparesExactly(c, p, q, k, l, plain) ==
  /\ ~c.fault
  /\ c.read \subseteq (p .. (p + k)) \cup (q .. (q + l))
  /\ c.result = 0 <=> FoldedText(plain, p, k) = FoldedText(plain, q, l)

LEMMA CompareUncheckedIsExact ==
  ASSUME NEW m, NEW p \in Nat, NEW q \in Nat, NEW k, NEW l, IsString(p, k), IsString(q, l),
         NEW plain \in BOOLEAN, ~plain
  PROVE  ComparesExactly(CompareUnchecked(m, p, q), p, q, k, l, plain)
  <1> DEFINE L(i) == Load(m, p + i)
             R(i) == Load(m, q + i)
             c == CompareUnchecked(m, p, q)
  <1>1. /\ k \in Nat /\ k \in 0 .. (WordMax + 1)
        /\ \A j \in 0 .. k : L(j) = FoldedAt(plain, p, j) /\ L(j) \in Nat /\ (L(j) = 0 <=> j = k)
    <2>1. IsLoaded(m, p, k, plain)
      BY StringIsLoaded, Zenon
    <2>2. QED
      BY <2>1, Zenon DEF IsLoaded
  <1>2. /\ l \in Nat
        /\ \A j \in 0 .. l : R(j) = FoldedAt(plain, q, j) /\ R(j) \in Nat /\ (R(j) = 0 <=> j = l)
    <2>1. IsLoaded(m, q, l, plain)
      BY StringIsLoaded, Zenon
    <2>2. QED
      BY <2>1, Zenon DEF IsLoaded
  <1> HIDE DEF L, R
  <1>3. L(k) = 0 /\ R(l) = 0
    <2>1. k \in 0 .. k /\ l \in 0 .. l
      BY <1>1, <1>2
    <2>2. QED
      BY <1>1, <1>2, <2>1
  <1>4. PICK n : StopsComparing(m, p, q, n) /\ EndsAt(c, p, q, n, L(n), R(n))
    BY <1>1, <1>3, CompareUncheckedIs, Zenon DEF L, R
  <1> HIDE DEF c
  <1>5. /\ n \in Nat /\ (L(n) # R(n) \/ L(n) \in {0, Fault})
        /\ \A j \in 0 .. (n - 1) : L(j) = R(j) /\ L(j) # 0
    BY <1>4 DEF StopsComparing, L, R
  <1>6. n <= k
    <2>1. k < n => k \in 0 .. (n - 1)
      BY <1>1, <1>5
    <2>2. QED
      BY <1>1, <1>3, <1>5, <2>1
  <1>7. n <= l
    <2>1. l < n => l \in 0 .. (n - 1)
      BY <1>2, <1>5
    <2>2. QED
      BY <1>2, <1>3, <1>5, <2>1
  <1>8. n \in 0 .. k /\ n \in 0 .. l
    BY <1>1, <1>2, <1>5, <1>6, <1>7
  <1>9. L(n) \in Nat /\ R(n) \in Nat /\ L(n) # Fault /\ R(n) # Fault
    BY <1>1, <1>2, <1>8 DEF Fault
  <1>10. ~c.fault /\ (c.result = 0 <=> L(n) = R(n))
    <2>1. ~c.fault
      BY <1>4, <1>9, Zenon DEF EndsAt
    <2>2. c.result = 0 <=> L(n) = R(n)
      <3>1. c.result = IF L(n) = R(n) THEN 0 ELSE IF L(n) < R(n) THEN -1 ELSE 1
        BY <1>4, Zenon DEF EndsAt
      <3>2. QED
        BY <3>1
    <2>3. QED
      BY <2>1, <2>2
  <1>11. c.read \subseteq (p .. (p + k)) \cup (q .. (q + l))
    <2>1. c.read = (p .. (p + n)) \cup (q .. (q + n))
      <3>1. c.read = (p .. (p + n)) \cup (q .. (q + n - 0))
        BY <1>4, <1>9, Zenon DEF EndsAt
      <3>2. q + n - 0 = q + n
        BY <1>5
      <3>3. QED
        BY <3>1, <3>2
    <2>2. p .. (p + n) \subseteq p .. (p + k) /\ q .. (q + n) \subseteq q .. (q + l)
      BY <1>1, <1>2, <1>5, <1>6, <1>7
    <2>3. QED
      BY <2>1, <2>2
  <1>12. DifferAt(p, q, plain, n)
    <2>1. n \in 0 .. ScanLimit
      <3>2. k \in 0 .. ScanLimit
        BY StringCharacters
      <3>3. ScanLimit \in Nat
        BY ModulesAssumption
      <3>4. QED
        BY <1>5, <1>6, <3>2, <3>3
    <2>2. L(n) = FoldedAt(plain, p, n) /\ R(n) = FoldedAt(plain, q, n)
      BY <1>1, <1>2, <1>8
    <2>3. L(n) # R(n) \/ L(n) = 0
      BY <1>5, <1>9
    <2>4. ASSUME NEW j \in 0 .. (n - 1)
          PROVE  FoldedAt(plain, p, j) = FoldedAt(plain, q, j) /\ FoldedAt(plain, p, j) # 0
      <3>1. j \in 0 .. k /\ j \in 0 .. l
        BY <1>1, <1>2, <1>5, <1>6, <1>7
      <3>2. QED
        BY <1>1, <1>2, <1>5, <3>1
    <2>5. QED
      BY <2>1, <2>2, <2>3, <2>4 DEF DifferAt
  <1>13. FoldedAt(plain, p, n) = FoldedAt(plain, q, n)
           <=> FoldedText(plain, p, k) = FoldedText(plain, q, l)
    BY <1>12, DifferenceDecides
  <1>14. L(n) = FoldedAt(plain, p, n) /\ R(n) = FoldedAt(plain, q, n)
    BY <1>1, <1>2, <1>8
  <1>15. c.result = 0 <=> FoldedText(plain, p, k) = FoldedText(plain, q, l)
    BY <1>10, <1>13, <1>14
  <1>16. QED
    BY <1>10, <1>11, <1>15, Zenon DEF c, ComparesExactly

-----------------------------------------------------------------------------
(* Sizes of the environment.                                               *)

\* A caller of the environment that is told a size succeeds with it: answer r
\* for a buffer of some size, and the answer for a buffer of r.result.
Confirms(r, retry, size) ==
  /\ r.written <= size
  /\ r.result > size => retry.written = r.result /\ retry.result = r.result - 1

LEMMA EnvironmentIsExact ==
  ASSUME NEW name, NEW present \in BOOLEAN, NEW size \in Nat
  PROVE  Confirms(EnvironmentValue(name, present, size),
                  EnvironmentValue(name, TRUE, EnvironmentValue(name, present, size).result),
                  size)
  <1> DEFINE found == {e \in EnvironmentEntries : e.name = name}
             entry == CHOOSE e \in found : TRUE
             required == entry.length + 1
             filled == IF present THEN required ELSE 0
             r == EnvironmentValue(name, present, size)
             Again(n) == EnvironmentValue(name, TRUE, n)
  <1>1. CASE found = {}
    <2>1. r = [result |-> 0, written |-> 0]
      BY <1>1 DEF EnvironmentValue
    <2> HIDE DEF r, Again
    <2>2. r.result = 0 /\ r.written = 0
      BY <2>1
    <2>3. Confirms(r, Again(r.result), size)
      BY <2>2 DEF Confirms
    <2>4. QED
      BY <2>3 DEF r, Again
  <1>2. CASE found # {}
    <2>1. entry \in EnvironmentEntries
      BY <1>2
    <2>2. required \in Nat
      BY <2>1, ModulesAssumption
    <2>3. r = IF size < required THEN [result |-> required, written |-> 0]
              ELSE [result |-> required - 1, written |-> filled]
      BY <1>2, Zenon DEF EnvironmentValue
    <2>4. Again(required) =
            IF required < required THEN [result |-> required, written |-> 0]
            ELSE [result |-> required - 1, written |-> required]
      BY <1>2 DEF EnvironmentValue
    <2>5. filled = 0 \/ filled = required
      OBVIOUS
    <2> HIDE DEF required, r, found, entry, filled, Again
    <2>6. CASE size < required
      <3>1. r.result = required /\ r.written = 0
        BY <2>3, <2>6
      <3>2. Again(required) = [result |-> required - 1, written |-> required]
        BY <2>2, <2>4
      <3>3. Confirms(r, Again(r.result), size)
        BY <3>1, <3>2 DEF Confirms
      <3>4. QED
        BY <3>3 DEF r, Again
    <2>7. CASE ~(size < required)
      <3>1. r.result = required - 1 /\ r.written = filled
        BY <2>3, <2>7
      <3>2. r.written <= size /\ ~(r.result > size)
        BY <2>2, <2>5, <2>7, <3>1
      <3>3. Confirms(r, Again(r.result), size)
        BY <3>2 DEF Confirms
      <3>4. QED
        BY <3>3 DEF r, Again
    <2>8. QED
      BY <2>6, <2>7
  <1>3. QED
    BY <1>1, <1>2

-----------------------------------------------------------------------------
(* The invariant of the name lookups.                                      *)

\* What is known of a handle: LoadLibraryExW was given a name of KERNEL32 that
\* the sections hold, GetModuleHandleExW gives the payload's image only.
HandleIsExplained(g) ==
  /\ g.by = "library" =>
       /\ g.handle = Kernel32 /\ g.argument \in Nat
       /\ \E n : /\ IsText(g.argument, WideSize, NameLimit, n)
                 /\ NamesKernel32(TextAt(g.argument, WideSize, n))
  /\ g.by = "address" => g.handle = ImageBase

\* The strings of a comparison, and what it found.
ComparisonIsExact(a, b, result, fold) ==
  /\ a \in Nat /\ b \in Nat
  /\ \E m, n : /\ IsString(a, m) /\ IsString(b, n)
               /\ result = 0 <=> FoldedText(fold, a, m) = FoldedText(fold, b, n)

\* A comparison without checks: what it found, read and ended with, if both
\* pointers are strings of the image.
UncheckedIsExact(a, b, result, read, halted) ==
  /\ a \in Nat /\ b \in Nat
  /\ \A m, n : IsString(a, m) /\ IsString(b, n) =>
       /\ ~halted /\ read \subseteq (a .. (a + m)) \cup (b .. (b + n))
       /\ result = 0 <=> FoldedText(FALSE, a, m) = FoldedText(FALSE, b, n)

\* A name that is measured without checks.
MeasureIsBounded(a, read, halted) ==
  /\ read \subseteq a .. (a + EnvironmentPreview * WideSize - 1)
  /\ a = 0 => ~halted /\ read = {}
  /\ \A n : IsText(a, WideSize, EnvironmentPreview, n) =>
       ~halted /\ read \subseteq a .. (Place(a, WideSize, n) - 1 + WideSize)

Unchecked == {"strcmp", "environment"}

ModulesInv ==
  /\ main \in MainModules
  /\ answer.kind \notin Unchecked => \A a \in touched : IsImageByte(a)
  /\ \A g \in held : HandleIsExplained(g)
  /\ answer.kind = "strcmp" =>
       UncheckedIsExact(answer.a, answer.b, answer.result, touched, namesHalted)
  /\ answer.kind = "environment" => MeasureIsBounded(answer.a, touched, namesHalted)
  /\ answer.kind = "stricmp" /\ ~namesHalted =>
       ComparisonIsExact(answer.a, answer.b, answer.result, TRUE)
  /\ answer.kind = "value" =>
       Confirms(answer.result, EnvironmentValue(answer.a, TRUE, answer.result.result), answer.b)

LEMMA HeaderEndIsNumber ==
  ASSUME main \in MainModules
  PROVE  main.headerEnd \in Nat
  BY ModulesAssumption

LEMMA ImageBytesStay ==
  ASSUME main' = main, NEW a, IsImageByte(a)
  PROVE  IsImageByte(a)'
  BY DEF IsImageByte

\* A call whose reads stay in the image and whose answer is not of one of the
\* remembered kinds.
LEMMA QuietCall ==
  ASSUME ModulesInv, NEW kind, NEW a, NEW b, NEW result, NEW error, NEW read,
         CallNames(kind, a, b, result, error, read),
         \A x \in read : IsImageByte(x),
         \A g \in held' : HandleIsExplained(g),
         kind \notin {"strcmp", "environment", "stricmp", "value"}
  PROVE  ModulesInv'
  <1>1. main' = main /\ touched' = read /\ answer'.kind = kind
    BY DEF CallNames
  <1>2. (main \in MainModules)'
    BY <1>1 DEF ModulesInv
  <1>3. (\A x \in touched : IsImageByte(x))'
    BY <1>1, ImageBytesStay DEF ModulesInv
  <1>4. (\A g \in held : HandleIsExplained(g))'
    BY DEF HandleIsExplained
  <1>5. QED
    BY <1>1, <1>2, <1>3, <1>4 DEF ModulesInv

\* The bytes that a scan of a name reads.
LEMMA NameReads ==
  ASSUME ModulesInv, NEW p \in Nat, NEW size \in Nat \ {0}, NEW limit \in Nat, NEW headers
  PROVE  \A a \in Scan(p, size, limit, headers).read : IsImageByte(a)
  <1>1. main.headerEnd \in Nat
    BY HeaderEndIsNumber DEF ModulesInv
  <1>2. QED
    BY <1>1, ReadsStayInTheImage

LEMMA Parameters ==
  /\ WideSize \in Nat \ {0} /\ NameLimit \in Nat /\ ScanLimit \in Nat /\ 1 \in Nat \ {0}
  /\ NamePointers \subseteq Nat
  BY ModulesAssumption

LEMMA HeldKeeps ==
  ASSUME ModulesInv, NEW handle, NEW by, NEW argument, Hold(handle, by, argument),
         handle # 0 =>
           HandleIsExplained([handle |-> handle, by |-> by, argument |-> argument])
  PROVE  \A g \in held' : HandleIsExplained(g)
  BY DEF Hold, ModulesInv

LEMMA GetModuleHandleWKeeps ==
  ASSUME ModulesInv, NEW p \in NamePointers, GetModuleHandleW(p)
  PROVE  ModulesInv'
  <1> DEFINE r == ModuleHandle(p)
             s == Scan(p, WideSize, NameLimit, TRUE)
             g == [handle |-> r.handle, by |-> "module", argument |-> p]
  <1>1. CallNames("module", p, 0, r.handle, r.error, r.read) /\ Hold(r.handle, "module", p)
    BY DEF GetModuleHandleW
  <1>2. r.read = {} \/ r.read = s.read
    BY DEF ModuleHandle
  <1>3. \A a \in s.read : IsImageByte(a)
    BY Parameters, NameReads
  <1> HIDE DEF r, s
  <1>4. \A a \in r.read : IsImageByte(a)
    BY <1>2, <1>3
  <1>5. HandleIsExplained(g)
    BY DEF HandleIsExplained
  <1>6. \A h \in held' : HandleIsExplained(h)
    BY <1>1, <1>5, HeldKeeps
  <1>7. QED
    BY <1>1, <1>4, <1>6, QuietCall

LEMMA LoadLibraryExWKeeps ==
  ASSUME ModulesInv, NEW p \in NamePointers, NEW exact \in BOOLEAN, LoadLibraryExW(p, exact)
  PROVE  ModulesInv'
  <1> DEFINE r == LibraryHandle(p, exact)
             s == Scan(p, WideSize, NameLimit, FALSE)
             g == [handle |-> r.handle, by |-> "library", argument |-> p]
  <1>1. CallNames("library", p, 0, r.handle, r.error, r.read) /\ Hold(r.handle, "library", p)
    BY DEF LoadLibraryExW
  <1>2. /\ r.read = {} \/ r.read = s.read
        /\ r.handle # 0 => s.status = "ok" /\ NamesKernel32(s.chars) /\ r.handle = Kernel32
    BY DEF LibraryHandle
  <1>3. \A a \in s.read : IsImageByte(a)
    BY Parameters, NameReads
  <1>4. s.status = "ok" => \E n : /\ IsText(p, WideSize, NameLimit, n)
                                  /\ s.chars = TextAt(p, WideSize, n)
    <2>1. s.status = "ok" => \E n : FindsText(s, p, WideSize, NameLimit, n)
      BY Parameters, ScanFindsText, Zenon
    <2>2. QED
      BY <2>1, Zenon DEF FindsText
  <1> HIDE DEF r, s
  <1>5. \A a \in r.read : IsImageByte(a)
    BY <1>2, <1>3
  <1>6. ASSUME r.handle # 0 PROVE HandleIsExplained(g)
    <2>1. \E n : IsText(p, WideSize, NameLimit, n) /\ NamesKernel32(TextAt(p, WideSize, n))
      BY <1>2, <1>4, <1>6
    <2>2. g.by = "library" /\ g.handle = Kernel32 /\ g.argument = p /\ p \in Nat
      BY <1>2, <1>6, Parameters
    <2> HIDE DEF g
    <2>3. QED
      BY <2>1, <2>2 DEF HandleIsExplained
  <1>7. \A h \in held' : HandleIsExplained(h)
    BY <1>1, <1>6, HeldKeeps
  <1>8. QED
    BY <1>1, <1>5, <1>7, QuietCall

LEMMA GetModuleHandleExWKeeps ==
  ASSUME ModulesInv, NEW exact, NEW a, NEW out, GetModuleHandleExW(exact, a, out)
  PROVE  ModulesInv'
  <1> DEFINE h == AddressHandle(exact, a, out)
             g == [handle |-> h, by |-> "address", argument |-> a]
  <1>1. CallNames("address", a, out, h, 0, {}) /\ Hold(h, "address", a)
    BY DEF GetModuleHandleExW
  <1>2. h # 0 => h = ImageBase
    BY DEF AddressHandle
  <1> HIDE DEF h
  <1>3. h # 0 => HandleIsExplained(g)
    BY <1>2 DEF HandleIsExplained
  <1>4. \A k \in held' : HandleIsExplained(k)
    BY <1>1, <1>3, HeldKeeps
  <1>5. QED
    BY <1>1, <1>4, QuietCall

LEMMA GetProcAddressKeeps ==
  ASSUME ModulesInv, NEW h, NEW id \in NamePointers, GetProcAddress(h, id)
  PROVE  ModulesInv'
  <1> DEFINE s == Scan(id, 1, NameLimit, FALSE)
             read == IF id <= MaxOrdinal THEN {} ELSE s.read
  <1>1. /\ CallNames("procedure", h, id, 0, ProcedureError(h, id), read)
        /\ held' = held
    BY DEF GetProcAddress
  <1>2. \A a \in s.read : IsImageByte(a)
    BY Parameters, NameReads
  <1>3. \A a \in read : IsImageByte(a)
    BY <1>2
  <1> HIDE DEF read
  <1>4. \A k \in held' : HandleIsExplained(k)
    BY <1>1 DEF ModulesInv
  <1>5. QED
    BY <1>1, <1>3, <1>4, QuietCall

LEMMA StringReads ==
  ASSUME ModulesInv, NEW p \in NamePointers
  PROVE  \A a \in ScanString(p).read : IsImageByte(a)
  <1> DEFINE s == Scan(p, 1, ScanLimit, FALSE)
  <1>1. \A a \in s.read : IsImageByte(a)
    BY Parameters, NameReads
  <1>2. ScanString(p).read = {} \/ ScanString(p).read = s.read
    BY DEF ScanString
  <1>3. QED
    BY <1>1, <1>2

LEMMA StrlenKeeps ==
  ASSUME ModulesInv, NEW p \in NamePointers, Strlen(p)
  PROVE  ModulesInv'
  <1> DEFINE s == ScanString(p)
  <1>1. CallNames("strlen", p, 0, s.length, 0, s.read) /\ held' = held
    BY DEF Strlen
  <1>2. \A a \in s.read : IsImageByte(a)
    BY StringReads
  <1> HIDE DEF s
  <1>3. \A k \in held' : HandleIsExplained(k)
    BY <1>1 DEF ModulesInv
  <1>4. QED
    BY <1>1, <1>2, <1>3, QuietCall

\* Two strings that scans found, compared.
LEMMA ComparedStrings ==
  ASSUME NEW p \in Nat, NEW q \in Nat, NEW fold \in BOOLEAN,
         ScanString(p).status = "ok", ScanString(q).status = "ok"
  PROVE  ComparisonIsExact(p, q, Compare(p, q, fold), fold)
  <1>1. PICK m : IsString(p, m)
    BY ScanStringFindsString
  <1>2. PICK n : IsString(q, n)
    BY ScanStringFindsString
  <1>3. Compare(p, q, fold) = 0 <=> FoldedText(fold, p, m) = FoldedText(fold, q, n)
    BY <1>1, <1>2, CompareIsExact
  <1>4. QED
    BY <1>1, <1>2, <1>3 DEF ComparisonIsExact

\* A call whose answer is remembered: the other parts of the invariant.
LEMMA OtherCall ==
  ASSUME ModulesInv, NEW kind, NEW a, NEW b, NEW result, NEW error, NEW read,
         CallNames(kind, a, b, result, error, read), held' = held
  PROVE  /\ main' \in MainModules
         /\ (\A x \in read : IsImageByte(x)) => (\A x \in touched : IsImageByte(x))'
         /\ (\A g \in held : HandleIsExplained(g))'
         /\ touched' = read
         /\ answer' = [kind |-> kind, a |-> a, b |-> b, result |-> result]
  <1>1. main' = main /\ touched' = read
        /\ answer' = [kind |-> kind, a |-> a, b |-> b, result |-> result]
    BY DEF CallNames
  <1>2. (main \in MainModules)'
    BY <1>1 DEF ModulesInv
  <1>3. (\A x \in read : IsImageByte(x)) => (\A x \in touched : IsImageByte(x))'
    BY <1>1, ImageBytesStay
  <1>4. (\A g \in held : HandleIsExplained(g))'
    BY DEF HandleIsExplained, ModulesInv
  <1>5. QED
    BY <1>1, <1>2, <1>3, <1>4

LEMMA StricmpKeeps ==
  ASSUME ModulesInv, NEW p \in NamePointers, NEW q \in NamePointers, Stricmp(p, q)
  PROVE  ModulesInv'
  <1> DEFINE ok == ScanString(p).status = "ok" /\ ScanString(q).status = "ok"
             result == IF ok THEN Compare(p, q, TRUE) ELSE 0
             read == ScanString(p).read \cup ScanString(q).read
  <1>1. /\ CallNames("stricmp", p, q, result, 0, read)
        /\ namesHalted' = ~ok /\ held' = held
    BY DEF Stricmp
  <1>2. \A x \in read : IsImageByte(x)
    BY StringReads
  <1>3. p \in Nat /\ q \in Nat
    BY Parameters
  <1>4. ok => ComparisonIsExact(p, q, result, TRUE)
    BY <1>3, ComparedStrings
  <1> HIDE DEF ok, result, read
  <1>5. /\ main' \in MainModules
        /\ (\A x \in touched : IsImageByte(x))'
        /\ (\A g \in held : HandleIsExplained(g))'
        /\ answer' = [kind |-> "stricmp", a |-> p, b |-> q, result |-> result]
    BY <1>1, <1>2, OtherCall
  <1>6. answer'.kind = "stricmp" /\ answer'.a = p /\ answer'.b = q /\ answer'.result = result
    BY <1>5
  <1>7. (answer.kind = "stricmp" /\ ~namesHalted =>
           ComparisonIsExact(answer.a, answer.b, answer.result, TRUE))'
    <2>1. ~namesHalted' => ComparisonIsExact(p, q, result, TRUE)
      BY <1>1, <1>4
    <2>2. QED
      BY <1>6, <2>1
  <1>8. QED
    BY <1>5, <1>6, <1>7 DEF ModulesInv

LEMMA StrcmpKeeps ==
  ASSUME ModulesInv, NEW m \in Surroundings, NEW p \in NamePointers, NEW q \in NamePointers,
         Strcmp(m, p, q)
  PROVE  ModulesInv'
  <1> DEFINE l == Preview(m, p, 1, PreviewLimit)
             r == Preview(m, q, 1, PreviewLimit)
             c == CompareUnchecked(m, p, q)
             read == l.read \cup (IF l.fault THEN {} ELSE r.read)
                            \cup (IF l.fault \/ r.fault THEN {} ELSE c.read)
             halted == l.fault \/ r.fault \/ c.fault
             plain == FALSE
  <1>1. CallNames("strcmp", p, q, c.result, 0, read) /\ held' = held /\ namesHalted' = halted
    BY DEF Strcmp
  <1>2. p \in Nat /\ q \in Nat
    BY Parameters
  <1>3. ASSUME NEW j, NEW k, IsString(p, j), IsString(q, k)
        PROVE  /\ ~halted /\ read \subseteq (p .. (p + j)) \cup (q .. (q + k))
               /\ c.result = 0 <=> FoldedText(plain, p, j) = FoldedText(plain, q, k)
    <2>0. plain \in BOOLEAN /\ ~plain
      OBVIOUS
    <2> HIDE DEF plain
    <2>1. /\ ~c.fault /\ c.read \subseteq (p .. (p + j)) \cup (q .. (q + k))
          /\ c.result = 0 <=> FoldedText(plain, p, j) = FoldedText(plain, q, k)
      <3>1. ComparesExactly(c, p, q, j, k, plain)
        BY <1>2, <1>3, <2>0, CompareUncheckedIsExact, Zenon
      <3>2. QED
        BY <3>1, Zenon DEF ComparesExactly
    <2>2. ~l.fault /\ l.read \subseteq p .. (p + j)
      BY <1>2, <1>3, PreviewOfString
    <2>3. ~r.fault /\ r.read \subseteq q .. (q + k)
      BY <1>2, <1>3, PreviewOfString
    <2> HIDE DEF l, r, c
    <2>4. QED
      BY <2>1, <2>2, <2>3
  <1> HIDE DEF read, halted, c
  <1>4. UncheckedIsExact(p, q, c.result, read, halted)
    BY <1>2, <1>3, Zenon DEF UncheckedIsExact
  <1>5. /\ main' \in MainModules /\ (\A g \in held : HandleIsExplained(g))' /\ touched' = read
        /\ answer' = [kind |-> "strcmp", a |-> p, b |-> q, result |-> c.result]
    BY <1>1, OtherCall
  <1>6. answer'.kind = "strcmp" /\ answer'.a = p /\ answer'.b = q /\ answer'.result = c.result
    BY <1>5
  <1>7. (answer.kind = "strcmp" =>
           UncheckedIsExact(answer.a, answer.b, answer.result, touched, namesHalted))'
    BY <1>1, <1>4, <1>5, <1>6
  <1>8. QED
    BY <1>5, <1>6, <1>7 DEF ModulesInv, Unchecked

LEMMA GetEnvironmentVariableWKeeps ==
  ASSUME ModulesInv, NEW m \in Surroundings, NEW p \in NamePointers,
         GetEnvironmentVariableW(m, p)
  PROVE  ModulesInv'
  <1> DEFINE s == Preview(m, p, WideSize, EnvironmentPreview)
             read == IF p = 0 THEN {} ELSE s.read
             halted == p # 0 /\ s.fault
             error == IF halted THEN 0 ELSE 203
  <1>1. /\ CallNames("environment", p, 0, 0, error, read)
        /\ held' = held /\ namesHalted' = halted
    <2>1. CASE p = 0
      BY <2>1 DEF GetEnvironmentVariableW
    <2>2. CASE p # 0
      BY <2>2, PreviewHasFault DEF GetEnvironmentVariableW
    <2>3. QED
      BY <2>1, <2>2
  <1>2. /\ p \in Nat /\ WideSize \in Nat \ {0}
        /\ EnvironmentPreview \in Nat
    BY Parameters, ModulesAssumption
  <1>3. /\ s.read \subseteq p .. (p + EnvironmentPreview * WideSize - 1)
        /\ \A n : IsText(p, WideSize, EnvironmentPreview, n) =>
             ~s.fault /\ s.read \subseteq p .. (Place(p, WideSize, n) - 1 + WideSize)
    BY <1>2, PreviewEnds, Zenon
  <1> HIDE DEF s
  <1>4. MeasureIsBounded(p, read, halted)
    BY <1>3, Zenon DEF MeasureIsBounded
  <1> HIDE DEF read, halted, error
  <1>5. /\ main' \in MainModules /\ (\A g \in held : HandleIsExplained(g))' /\ touched' = read
        /\ answer' = [kind |-> "environment", a |-> p, b |-> 0, result |-> 0]
    BY <1>1, OtherCall
  <1>6. answer'.kind = "environment" /\ answer'.a = p
    BY <1>5
  <1>7. (answer.kind = "environment" => MeasureIsBounded(answer.a, touched, namesHalted))'
    BY <1>1, <1>4, <1>5, <1>6
  <1>8. QED
    BY <1>5, <1>6, <1>7 DEF ModulesInv, Unchecked

\* An answer of the environment that a retry confirms.
LEMMA ValueKeeps ==
  ASSUME ModulesInv, NEW name, NEW size, NEW result, held' = held,
         CallNames("value", name, size, result, 0, {}),
         Confirms(result, EnvironmentValue(name, TRUE, result.result), size)
  PROVE  ModulesInv'
  <1>1. /\ main' \in MainModules
        /\ (\A x \in touched : IsImageByte(x))'
        /\ (\A g \in held : HandleIsExplained(g))'
        /\ answer' = [kind |-> "value", a |-> name, b |-> size, result |-> result]
    BY OtherCall
  <1>2. answer'.kind = "value" /\ answer'.a = name /\ answer'.b = size /\ answer'.result = result
    BY <1>1
  <1>3. (answer.kind = "value" =>
           Confirms(answer.result, EnvironmentValue(answer.a, TRUE, answer.result.result),
                    answer.b))'
    BY <1>2
  <1>4. QED
    BY <1>1, <1>2, <1>3 DEF ModulesInv

LEMMA ReadEnvironmentKeeps ==
  ASSUME ModulesInv, NEW name, NEW present \in BOOLEAN, NEW size \in 0 .. NameLimit,
         ReadEnvironment(name, present, size)
  PROVE  ModulesInv'
  <1> DEFINE result == EnvironmentValue(name, present, size)
             retry == EnvironmentValue(name, TRUE, result.result)
  <1>1. CallNames("value", name, size, result, 0, {}) /\ held' = held
    BY DEF ReadEnvironment
  <1>2. Confirms(result, retry, size)
    <2>1. size \in Nat
      BY Parameters
    <2>2. QED
      BY <2>1, EnvironmentIsExact
  <1> HIDE DEF result
  <1>3. QED
    BY <1>1, <1>2, ValueKeeps

LEMMA EnvironmentRefusedKeeps ==
  ASSUME ModulesInv, NEW name, NEW size \in 0 .. NameLimit, EnvironmentRefused(name, size)
  PROVE  ModulesInv'
  <1> DEFINE result == [result |-> 0, written |-> 0]
  <1>1. CallNames("value", name, size, result, 0, {}) /\ held' = held
    BY DEF EnvironmentRefused
  <1>2. size \in Nat
    BY Parameters
  <1>3. Confirms(result, EnvironmentValue(name, TRUE, result.result), size)
    <2>1. result.written <= size /\ ~(result.result > size)
      BY <1>2
    <2> HIDE DEF result
    <2>2. QED
      BY <2>1, Zenon DEF Confirms
  <1> HIDE DEF result
  <1>4. QED
    BY <1>1, <1>3, ValueKeeps

LEMMA ModulesInvInitially == ModulesInit => ModulesInv
  BY DEF ModulesInit, ModulesInv, NoAnswer, Unchecked

LEMMA ModulesInvStep == ModulesInv /\ [ModulesNext]_moduleVars => ModulesInv'
  <1> SUFFICES ASSUME ModulesInv, [ModulesNext]_moduleVars PROVE ModulesInv'
    OBVIOUS
  <1>1. CASE UNCHANGED moduleVars
    <2>1. /\ main' = main /\ held' = held /\ answer' = answer /\ touched' = touched
          /\ namesHalted' = namesHalted
      BY <1>1 DEF moduleVars
    <2>2. (answer.kind \notin Unchecked => \A x \in touched : IsImageByte(x))'
      BY <2>1, ImageBytesStay DEF ModulesInv
    <2>3. QED
      BY <2>1, <2>2 DEF ModulesInv
  <1>2. CASE ModulesNext
    <2>1. ASSUME NEW p \in NamePointers,
                 \/ GetModuleHandleW(p)
                 \/ \E exact \in BOOLEAN : LoadLibraryExW(p, exact)
                 \/ \E exact \in BOOLEAN, out \in OutputPointers : GetModuleHandleExW(exact, p, out)
                 \/ \E h \in {g.handle : g \in held} \cup {0, ImageBase + 1} : GetProcAddress(h, p)
                 \/ Strlen(p)
                 \/ \E q \in NamePointers : Stricmp(p, q)
                 \/ \E m \in Surroundings :
                      \/ GetEnvironmentVariableW(m, p)
                      \/ \E q \in NamePointers : Strcmp(m, p, q)
          PROVE  ModulesInv'
      BY <2>1, GetModuleHandleWKeeps, LoadLibraryExWKeeps, GetModuleHandleExWKeeps,
         GetProcAddressKeeps, StrlenKeeps, GetEnvironmentVariableWKeeps, StricmpKeeps, StrcmpKeeps
    <2>2. ASSUME NEW e \in EnvironmentEntries, NEW size \in 0 .. NameLimit,
                 \/ \E present \in BOOLEAN : ReadEnvironment(e.name, present, size)
                 \/ EnvironmentRefused(e.name, size)
          PROVE  ModulesInv'
      BY <2>2, ReadEnvironmentKeeps, EnvironmentRefusedKeeps
    <2>3. QED
      BY <1>2, <2>1, <2>2 DEF ModulesNext
  <1>3. QED
    BY <1>1, <1>2

\* Every state of the name lookups satisfies their invariant.
THEOREM ModulesInvHolds == ModulesSpec => []ModulesInv
  <1>1. ModulesInit => ModulesInv
    BY ModulesInvInitially
  <1>2. ModulesInv /\ [ModulesNext]_moduleVars => ModulesInv'
    BY ModulesInvStep
  <1>3. QED
    BY <1>1, <1>2, PTL DEF ModulesSpec

LEMMA ComparedAsScanned ==
  ASSUME NEW a, NEW b, NEW result, NEW fold \in BOOLEAN, ComparisonIsExact(a, b, result, fold)
  PROVE  /\ ~fold => (result = 0 <=> ScanString(a).chars = ScanString(b).chars)
         /\ fold => (result = 0 <=> Folded(ScanString(a).chars) = Folded(ScanString(b).chars))
  <1>1. PICK m, n : /\ IsString(a, m) /\ IsString(b, n)
                    /\ result = 0 <=> FoldedText(fold, a, m) = FoldedText(fold, b, n)
    BY DEF ComparisonIsExact
  <1>2. a \in Nat /\ b \in Nat
    BY DEF ComparisonIsExact
  <1>3. m \in Nat /\ n \in Nat
    BY <1>1, <1>2, StringCharacters
  <1>4. ScanString(a).chars = TextAt(a, 1, m) /\ ScanString(b).chars = TextAt(b, 1, n)
    BY <1>1, <1>2, StringIsScanned
  <1>5. /\ TextAt(a, 1, m) = FoldedText(FALSE, a, m) /\ TextAt(b, 1, n) = FoldedText(FALSE, b, n)
        /\ Folded(TextAt(a, 1, m)) = FoldedText(TRUE, a, m)
        /\ Folded(TextAt(b, 1, n)) = FoldedText(TRUE, b, n)
    BY <1>2, <1>3, TextOfString
  <1>6. CASE fold = TRUE
    BY <1>1, <1>4, <1>5, <1>6
  <1>7. CASE fold = FALSE
    BY <1>1, <1>4, <1>5, <1>7
  <1>8. QED
    BY <1>6, <1>7

\* Strings are read to their end and no further, for every image, every pointer,
\* every limit and whatever lies around the image: the scans that check their
\* addresses never leave it (the loops of scan_name, crt_strlen.c and
\* crt_stricmp.c), and the two calls that check nothing leave it only when their
\* string does (platform_strcmp, platform_getenv_bounded_name_length).
THEOREM StringsStayWhole == ModulesSpec => []StringsAreReadWhole
  <1>1. ModulesInv => StringsAreReadWhole
    <2> SUFFICES ASSUME ModulesInv PROVE StringsAreReadWhole
      OBVIOUS
    <2>1. ScansStayInTheImage
      BY DEF ScansStayInTheImage, ModulesInv, IsImageByte, Unchecked
    <2>2. ASSUME answer.kind = "strcmp", ScanString(answer.a).status = "ok",
                 ScanString(answer.b).status = "ok"
          PROVE  /\ ~namesHalted
                 /\ touched \subseteq ScanString(answer.a).read \cup ScanString(answer.b).read
                 /\ answer.result = 0 <=> ScanString(answer.a).chars = ScanString(answer.b).chars
      <3>1. UncheckedIsExact(answer.a, answer.b, answer.result, touched, namesHalted)
        BY <2>2 DEF ModulesInv
      <3>2. answer.a \in Nat /\ answer.b \in Nat
        BY <3>1 DEF UncheckedIsExact
      <3>3. PICK m : IsString(answer.a, m) /\ ScanString(answer.a).read = answer.a .. (answer.a + m)
        BY <2>2, <3>2, ScanStringFindsString
      <3>4. PICK n : IsString(answer.b, n) /\ ScanString(answer.b).read = answer.b .. (answer.b + n)
        BY <2>2, <3>2, ScanStringFindsString
      <3>5. /\ ~namesHalted
            /\ touched \subseteq (answer.a .. (answer.a + m)) \cup (answer.b .. (answer.b + n))
            /\ answer.result = 0
                 <=> FoldedText(FALSE, answer.a, m) = FoldedText(FALSE, answer.b, n)
        BY <3>1, <3>3, <3>4, Zenon DEF UncheckedIsExact
      <3>6. ComparisonIsExact(answer.a, answer.b, answer.result, FALSE)
        BY <3>2, <3>3, <3>4, <3>5, Zenon DEF ComparisonIsExact
      <3>7. answer.result = 0 <=> ScanString(answer.a).chars = ScanString(answer.b).chars
        BY <3>6, ComparedAsScanned
      <3>8. QED
        BY <3>3, <3>4, <3>5, <3>7
    <2>3. ASSUME answer.kind = "stricmp", ~namesHalted
          PROVE  answer.result = 0 <=>
                   Folded(ScanString(answer.a).chars) = Folded(ScanString(answer.b).chars)
      <3>1. ComparisonIsExact(answer.a, answer.b, answer.result, TRUE)
        BY <2>3 DEF ModulesInv
      <3>2. QED
        BY <3>1, ComparedAsScanned
    <2> DEFINE name == Scan(answer.a, WideSize, EnvironmentPreview, FALSE)
    <2>4. ASSUME answer.kind = "environment"
          PROVE  /\ touched \subseteq answer.a .. (answer.a + EnvironmentPreview * WideSize - 1)
                 /\ name.status \in {"ok", "null"} => ~namesHalted /\ touched \subseteq name.read
      <3>1. MeasureIsBounded(answer.a, touched, namesHalted)
        BY <2>4 DEF ModulesInv
      <3>2. EnvironmentPreview \in Nat
        BY ModulesAssumption
      <3>3. ASSUME name.status = "ok" PROVE ~namesHalted /\ touched \subseteq name.read
        <4>1. PICK n : /\ IsText(answer.a, WideSize, EnvironmentPreview, n)
                       /\ name.read = answer.a .. (Place(answer.a, WideSize, n) - 1 + WideSize)
          <5>1. \E n : FindsText(name, answer.a, WideSize, EnvironmentPreview, n)
            BY <3>2, <3>3, ScanFindsText, Zenon
          <5>2. QED
            BY <5>1, Zenon DEF FindsText
        <4> HIDE DEF name
        <4>2. ~namesHalted /\ touched \subseteq answer.a .. (Place(answer.a, WideSize, n) - 1 + WideSize)
          BY <3>1, <4>1, Zenon DEF MeasureIsBounded
        <4>3. QED
          BY <4>1, <4>2
      <3>4. ASSUME name.status = "null" PROVE ~namesHalted /\ touched \subseteq name.read
        <4>1. PICK n : IsScan(name, answer.a, WideSize, EnvironmentPreview, FALSE, n)
          BY <3>2, ScanIs
        <4> HIDE DEF name
        <4>2. answer.a = 0
          BY <3>4, <4>1 DEF IsScan, Reason
        <4>3. QED
          BY <3>1, <4>2 DEF MeasureIsBounded
      <3> HIDE DEF name
      <3>5. QED
        BY <3>1, <3>3, <3>4 DEF MeasureIsBounded
    <2>5. UncheckedReadsEnd
      <3> HIDE DEF name
      <3>1. QED
        BY <2>2, <2>4 DEF UncheckedReadsEnd, name
    <2>6. QED
      BY <2>1, <2>2, <2>3, <2>5 DEF StringsAreReadWhole, ComparisonsSeeWholeStrings
  <1>2. QED
    BY <1>1, ModulesInvHolds, PTL

\* What one lookup answered a later one confirms: handles of one module agree
\* between the three lookups, and the size that the environment reported
\* suffices (platform_load_library.c, platform_get_module_handle.c,
\* platform_get_proc_address.c, platform_environment.c).
THEOREM AnswersStayConfirmed == ModulesSpec => []AnswersAreConfirmed
  <1>1. ModulesInv => AnswersAreConfirmed
    <2> SUFFICES ASSUME ModulesInv PROVE AnswersAreConfirmed
      OBVIOUS
    <2>1. ASSUME NEW g \in held, g.by = "library" PROVE ModuleHandle(g.argument).handle = g.handle
      <3>1. HandleIsExplained(g)
        BY DEF ModulesInv
      <3>2. g.handle = Kernel32 /\ g.argument \in Nat
        BY <2>1, <3>1 DEF HandleIsExplained
      <3>3. PICK n : /\ IsText(g.argument, WideSize, NameLimit, n)
                     /\ NamesKernel32(TextAt(g.argument, WideSize, n))
        BY <2>1, <3>1 DEF HandleIsExplained
      <3> DEFINE headers == TRUE
                 s == Scan(g.argument, WideSize, NameLimit, headers)
      <3>4. s.status = "ok" /\ s.chars = TextAt(g.argument, WideSize, n)
        <4>1. headers \in BOOLEAN
          OBVIOUS
        <4> HIDE DEF headers
        <4>2. QED
          BY <3>2, <3>3, <4>1, Parameters, TextIsScanned
      <3>5. QED
        BY <3>2, <3>3, <3>4 DEF ModuleHandle
    <2>2. ASSUME NEW g \in held, g.handle = Kernel32, NEW id \in NamePointers
          PROVE  ProcedureError(g.handle, id) = 127
      BY <2>2 DEF ProcedureError
    <2>3. ASSUME NEW g \in held, g.by = "address", FactsAreValid
          PROVE  ModuleHandle(0).handle = g.handle
      <3>1. g.handle = ImageBase
        BY <2>3 DEF ModulesInv, HandleIsExplained
      <3> DEFINE s == Scan(0, WideSize, NameLimit, TRUE)
      <3>2. s.status = "null"
        <4>1. PICK n : IsScan(s, 0, WideSize, NameLimit, TRUE, n)
          BY Parameters, ScanIs
        <4> HIDE DEF s
        <4>2. QED
          BY <4>1 DEF IsScan
      <3>3. QED
        BY <2>3, <3>1, <3>2 DEF ModuleHandle
    <2>4. EnvironmentRetrySucceeds
      BY DEF ModulesInv, EnvironmentRetrySucceeds, Confirms
    <2>5. QED
      BY <2>1, <2>2, <2>3, <2>4 DEF AnswersAreConfirmed, HandlesNameOneModule
  <1>2. QED
    BY <1>1, ModulesInvHolds, PTL

-----------------------------------------------------------------------------
(* The published topology.                                                 *)

\* What the first i masks hold together.
HeldBy(masks, i) == {x \in UNION {masks[j] : j \in DOMAIN masks} : \E j \in 1 .. i : x \in masks[j]}
IsCover(g, masks, n) == g = [i \in 0 .. n |-> IF i = 0 THEN {} ELSE g[i - 1] \cup masks[i]]

LEMMA HeldByNext ==
  ASSUME NEW n \in Nat, NEW masks, DOMAIN masks = 1 .. n, NEW i \in 1 .. n
  PROVE  HeldBy(masks, i) = HeldBy(masks, i - 1) \cup masks[i]
  <1>1. masks[i] \subseteq UNION {masks[j] : j \in DOMAIN masks}
    OBVIOUS
  <1>2. \A j \in 1 .. i : j = i \/ j \in 1 .. (i - 1)
    OBVIOUS
  <1>3. i \in 1 .. i /\ \A j \in 1 .. (i - 1) : j \in 1 .. i
    OBVIOUS
  <1>4. QED
    BY <1>1, <1>2, <1>3, Zenon DEF HeldBy

LEMMA CoverExists ==
  ASSUME NEW n \in Nat, NEW masks, DOMAIN masks = 1 .. n
  PROVE  \E g : IsCover(g, masks, n)
  <1> DEFINE g == [i \in 0 .. n |-> HeldBy(masks, i)]
  <1>1. ASSUME NEW i \in 0 .. n
        PROVE  HeldBy(masks, i) = IF i = 0 THEN {} ELSE g[i - 1] \cup masks[i]
    <2>1. CASE i = 0
      BY <2>1 DEF HeldBy
    <2>2. CASE i # 0
      <3>1. i \in 1 .. n /\ i - 1 \in 0 .. n
        BY <2>2
      <3>2. QED
        BY <2>2, <3>1, HeldByNext
    <2>3. QED
      BY <2>1, <2>2
  <1>2. IsCover(g, masks, n)
    BY <1>1 DEF IsCover
  <1>3. QED
    BY <1>2

LEMMA CoverHolds ==
  ASSUME NEW n \in Nat, NEW masks, DOMAIN masks = 1 .. n, NEW g, IsCover(g, masks, n)
  PROVE  \A i \in 0 .. n : g[i] = HeldBy(masks, i)
  <1> DEFINE G == {i \in 0 .. n : g[i] = HeldBy(masks, i)}
  <1>1. \A i \in 0 .. n : g[i] = IF i = 0 THEN {} ELSE g[i - 1] \cup masks[i]
    BY DEF IsCover
  <1>2. 0 \in G
    <2>1. 0 \in 0 .. n /\ HeldBy(masks, 0) = {}
      BY DEF HeldBy
    <2>2. g[0] = {}
      BY <1>1, <2>1
    <2>3. QED
      BY <2>1, <2>2, Zenon
  <1>3. ASSUME NEW i \in 0 .. (n - 1), i \in G PROVE i + 1 \in G
    <2>1. i + 1 \in 1 .. n /\ (i + 1) - 1 = i /\ i + 1 \in 0 .. n /\ i + 1 # 0
      OBVIOUS
    <2>2. g[i + 1] = g[i] \cup masks[i + 1]
      BY <1>1, <2>1
    <2>3. HeldBy(masks, i + 1) = HeldBy(masks, i) \cup masks[i + 1]
      BY <2>1, HeldByNext
    <2>4. g[i] = HeldBy(masks, i)
      BY <1>3
    <2>5. QED
      BY <2>1, <2>2, <2>3, <2>4, Zenon
  <1>4. QED
    <2> HIDE DEF G
    <2>1. \A i \in 0 .. n : i \in G
      BY <1>2, <1>3, NumberInduction
    <2>2. QED
      BY <2>1 DEF G

\* Every processor is in one mask, and every mask has one.
Partitions(masks, active) ==
  /\ \A p \in active : \E i \in DOMAIN masks :
       p \in masks[i] /\ \A j \in DOMAIN masks : p \in masks[j] => i = j
  /\ \A i \in DOMAIN masks : \E p \in active : p \in masks[i]
  /\ \A i \in DOMAIN masks : masks[i] \subseteq active

LEMMA PartitionMasksPartition ==
  ASSUME NEW S, NEW masks \in Seq(S), NEW active, PartitionMasks(masks, active)
  PROVE  Partitions(masks, active) /\ Len(masks) \in Nat \ {0}
  <1> DEFINE n == Len(masks)
             B(g) == [i \in 0 .. n |-> IF i = 0 THEN {} ELSE g[i - 1] \cup masks[i]]
             covered == CHOOSE g : g = B(g)
  <1>1. n \in Nat /\ DOMAIN masks = 1 .. n
    BY LenProperties
  <1>2. IsCover(covered, masks, n)
    <2>1. \E g : g = B(g)
      <3>1. \E g : IsCover(g, masks, n)
        <4> HIDE DEF n
        <4>1. QED
          BY <1>1, CoverExists
      <3>2. QED
        BY <3>1, Zenon DEF IsCover
    <2>2. covered = B(covered)
      <3> HIDE DEF B
      <3>1. QED
        BY <2>1, Zenon
    <2> HIDE DEF covered
    <2>3. QED
      BY <2>2, Zenon DEF IsCover
  <1>3. /\ n \in 1 .. MaxRelationships
        /\ \A i \in DOMAIN masks :
             masks[i] # {} /\ masks[i] \subseteq active /\ covered[i - 1] \cap masks[i] = {}
        /\ covered[n] = active
    BY Zenon DEF PartitionMasks
  <1> HIDE DEF n, covered
  <1>4. \A i \in 0 .. n : covered[i] = HeldBy(masks, i)
    BY <1>1, <1>2, CoverHolds
  <1>5. ASSUME NEW i \in DOMAIN masks, NEW j \in DOMAIN masks, NEW p, i < j,
               p \in masks[i], p \in masks[j]
        PROVE  FALSE
    <2>1. i \in 1 .. (j - 1) /\ j - 1 \in 0 .. n
      BY <1>1, <1>5
    <2>2. p \in HeldBy(masks, j - 1)
      BY <1>5, <2>1 DEF HeldBy
    <2>3. p \in covered[j - 1] \cap masks[j]
      BY <1>4, <1>5, <2>1, <2>2
    <2>4. QED
      BY <1>3, <2>3
  <1>6. ASSUME NEW p \in active
        PROVE  \E i \in DOMAIN masks :
                 p \in masks[i] /\ \A j \in DOMAIN masks : p \in masks[j] => i = j
    <2>1. p \in HeldBy(masks, n)
      BY <1>1, <1>3, <1>4
    <2>2. PICK i \in 1 .. n : p \in masks[i]
      BY <2>1 DEF HeldBy
    <2>3. ASSUME NEW j \in DOMAIN masks, p \in masks[j] PROVE i = j
      <3>1. i \in DOMAIN masks /\ i \in Int /\ j \in Int
        BY <1>1, <2>2
      <3>2. ~(i < j) /\ ~(j < i)
        BY <1>5, <2>2, <2>3, <3>1
      <3>3. QED
        BY <3>1, <3>2
    <2>4. QED
      BY <1>1, <2>2, <2>3
  <1>7. ASSUME NEW i \in DOMAIN masks PROVE \E p \in active : p \in masks[i]
    <2>1. masks[i] # {} /\ masks[i] \subseteq active
      BY <1>3
    <2>2. QED
      BY <2>1
  <1>8. QED
    BY <1>1, <1>3, <1>6, <1>7 DEF Partitions, n

LEMMA TopologyPartitions ==
  ASSUME NEW s, IsSnapshot(s), TopologyIsValid(s)
  PROVE  /\ Partitions(s.cores, s.active) /\ Partitions(s.packages, s.active)
         /\ Partitions([i \in DOMAIN s.nodes |-> s.nodes[i].mask], s.active)
         /\ Len(s.cores) \in Nat \ {0}
  <1>1. /\ PartitionMasks(s.cores, s.active) /\ PartitionMasks(s.packages, s.active)
        /\ PartitionMasks([i \in DOMAIN s.nodes |-> s.nodes[i].mask], s.active)
    BY DEF TopologyIsValid
  <1>2. s.cores \in Seq(SUBSET Nat) /\ s.packages \in Seq(SUBSET Nat)
    BY DEF IsSnapshot
  <1>3. [i \in DOMAIN s.nodes |-> s.nodes[i].mask] \in Seq(SUBSET Nat)
    <2>1. s.nodes \in Seq([number : Nat, mask : SUBSET Nat])
      BY DEF IsSnapshot
    <2>2. Len(s.nodes) \in Nat /\ DOMAIN s.nodes = 1 .. Len(s.nodes)
      BY <2>1, LenProperties
    <2>3. ASSUME NEW i \in 1 .. Len(s.nodes) PROVE s.nodes[i].mask \in SUBSET Nat
      <3> DEFINE N == [number : Nat, mask : SUBSET Nat]
      <3>1. s.nodes \in Seq(N)
        BY <2>1
      <3> HIDE DEF N
      <3>2. s.nodes[i] \in N
        BY <3>1, ElementOfSeq
      <3>3. QED
        BY <3>2 DEF N
    <2> DEFINE n == Len(s.nodes)
               u == [i \in 1 .. n |-> s.nodes[i].mask]
    <2>4. n \in Nat /\ u \in [1 .. n -> SUBSET Nat]
      BY <2>2, <2>3
    <2>5. [i \in DOMAIN s.nodes |-> s.nodes[i].mask] = u
      BY <2>2, Zenon
    <2> HIDE DEF n, u
    <2>6. u \in Seq(SUBSET Nat)
      BY <2>4, SeqDef
    <2>7. QED
      BY <2>5, <2>6
  <1>4. QED
    BY <1>1, <1>2, <1>3, PartitionMasksPartition

LEMMA RecordsAreCounted ==
  ASSUME NEW s, IsSnapshot(s), TopologyIsValid(s)
  PROVE  Len(TopologyRecords(s)) \in Nat \ {0}
  <1> DEFINE A == [i \in DOMAIN s.cores |-> 1]
             B == [i \in DOMAIN s.nodes |-> 2]
             C == [i \in DOMAIN s.packages |-> 3]
             D == [i \in DOMAIN s.caches |-> 4]
  <1>1. ASSUME NEW S, NEW t \in Seq(S), NEW v \in Nat
        PROVE  [i \in DOMAIN t |-> v] \in Seq(Nat) /\ Len([i \in DOMAIN t |-> v]) = Len(t)
    <2>1. Len(t) \in Nat /\ DOMAIN t = 1 .. Len(t)
      BY <1>1, LenProperties
    <2> DEFINE u == [i \in 1 .. Len(t) |-> v]
    <2>2. u \in Seq(Nat)
      BY <1>1, <2>1, SeqDef
    <2>3. DOMAIN u = 1 .. Len(t)
      OBVIOUS
    <2> HIDE DEF u
    <2>4. Len(u) = Len(t)
      BY <2>1, <2>2, <2>3, LenProperties
    <2>5. QED
      BY <2>1, <2>2, <2>4 DEF u
  <1>2. A \in Seq(Nat) /\ Len(A) = Len(s.cores)
    BY <1>1 DEF IsSnapshot
  <1>3. B \in Seq(Nat) /\ C \in Seq(Nat) /\ D \in Seq(Nat)
    BY <1>1 DEF IsSnapshot
  <1>4. TopologyRecords(s) = ((A \o B) \o C) \o D
    BY Zenon DEF TopologyRecords
  <1>5. Len(s.cores) \in Nat \ {0}
    BY TopologyPartitions
  <1> HIDE DEF A, B, C, D
  <1>6. /\ A \o B \in Seq(Nat) /\ Len(A \o B) = Len(A) + Len(B)
        /\ Len(A) \in Nat /\ Len(B) \in Nat /\ Len(C) \in Nat /\ Len(D) \in Nat
    BY <1>2, <1>3, ConcatProperties, LenProperties
  <1>7. (A \o B) \o C \in Seq(Nat) /\ Len((A \o B) \o C) = Len(A \o B) + Len(C)
    BY <1>3, <1>6, ConcatProperties
  <1>8. Len(((A \o B) \o C) \o D) = Len((A \o B) \o C) + Len(D)
    BY <1>3, <1>7, ConcatProperties
  <1>9. QED
    BY <1>2, <1>4, <1>5, <1>6, <1>7, <1>8, SMT

-----------------------------------------------------------------------------
(* What a query stores.                                                    *)

LEMMA StoreIs ==
  ASSUME NEW mem, NEW a, NEW C
  PROVE  /\ DOMAIN Store(mem, a, C) = DOMAIN mem
         /\ \A x \in DOMAIN mem : x \in OutputRange(<<a, C>>) => Store(mem, a, C)[x] = C[x - a + 1]
         /\ \A x \in DOMAIN mem : x \notin OutputRange(<<a, C>>) => Store(mem, a, C)[x] = mem[x]
  BY DEF Store, OutputRange

\* The outputs O are what memory m differs in from mem, and hold their content
\* if they are apart.
HoldsOutputs(m, O, mem) ==
  /\ \A x \in Writable : m[x] # mem[x] => \E o \in O : x \in OutputRange(o)
  /\ (\A o, p \in O : o # p => OutputRange(o) \cap OutputRange(p) = {})
       => \A o \in O, x \in Writable : x \in OutputRange(o) => m[x] = o[2][x - o[1] + 1]

LEMMA OneStored ==
  ASSUME NEW mem, DOMAIN mem = Writable, NEW a, NEW A
  PROVE  HoldsOutputs(Store(mem, a, A), {<<a, A>>}, mem)
  <1> DEFINE m == Store(mem, a, A)
             o == <<a, A>>
  <1>1. /\ \A x \in Writable : x \in OutputRange(o) => m[x] = A[x - a + 1]
        /\ \A x \in Writable : x \notin OutputRange(o) => m[x] = mem[x]
    BY StoreIs
  <1> HIDE DEF m
  <1>2. o[1] = a /\ o[2] = A
    OBVIOUS
  <1> HIDE DEF o
  <1>3. HoldsOutputs(m, {o}, mem)
    BY <1>1, <1>2 DEF HoldsOutputs
  <1>4. QED
    BY <1>3 DEF m, o

LEMMA TwoStored ==
  ASSUME NEW mem, DOMAIN mem = Writable, NEW a, NEW A, NEW b, NEW B
  PROVE  HoldsOutputs(Store(Store(mem, b, B), a, A), {<<a, A>>, <<b, B>>}, mem)
  <1> DEFINE l == Store(mem, b, B)
             m == Store(l, a, A)
             o == <<a, A>>
             p == <<b, B>>
  <1>1. /\ DOMAIN l = Writable
        /\ \A x \in Writable : x \in OutputRange(p) => l[x] = B[x - b + 1]
        /\ \A x \in Writable : x \notin OutputRange(p) => l[x] = mem[x]
    BY StoreIs
  <1> HIDE DEF l
  <1>2. /\ \A x \in Writable : x \in OutputRange(o) => m[x] = A[x - a + 1]
        /\ \A x \in Writable : x \notin OutputRange(o) => m[x] = l[x]
    BY <1>1, StoreIs
  <1> HIDE DEF m
  <1>3. o[1] = a /\ o[2] = A /\ p[1] = b /\ p[2] = B
    OBVIOUS
  <1> HIDE DEF o, p
  <1>4. HoldsOutputs(m, {o, p}, mem)
    BY <1>1, <1>2, <1>3 DEF HoldsOutputs
  <1>5. QED
    BY <1>4 DEF m, l, o, p

\* What a query may do to the memory.
IsTruthful(q, r, mem) ==
  \/ r.status \in {"refused", "fail"} /\ r.mem = mem
  \/ r.status = "insufficient" /\ \E n : r.mem = Store(mem, q.a, <<n>>)
  \/ r.status = "ok" /\ HoldsOutputs(r.mem, Outputs(q), mem)

\* The outputs of each kind of call.
LEMMA OutputsAre ==
  ASSUME NEW q
  PROVE  /\ q.kind = "system" => Outputs(q) = {<<q.a, InfoContent(facts)>>}
         /\ q.kind = "numa" => Outputs(q) = {<<q.a, <<facts.highestNode>> >>}
         /\ q.kind = "group" =>
              Outputs(q) = {<<q.a, <<facts.groups>> >>, <<q.b, GroupContent(facts)>>}
         /\ q.kind = "affinity" =>
              Outputs(q) = {<<q.a, MaskContent(facts.process)>>,
                            <<q.b, MaskContent(facts.active)>>}
         /\ q.kind = "logical" =>
              Outputs(q) = {<<q.a, <<Len(TopologyRecords(facts))>> >>,
                            <<q.b, TopologyRecords(facts)>>}
         /\ q.kind = "injob" => Outputs(q) = {<<q.a, <<0>> >>}
         /\ q.kind = "job" =>
              Outputs(q) = {<<q.a, JobContent>>}
                           \cup (IF q.b = 0 THEN {} ELSE {<<q.b, <<JobSize>> >>})
  BY Zenon DEF Outputs

LEMMA RunIs ==
  ASSUME NEW q, NEW mem
  PROVE  /\ q.kind = "system" => Run(q, mem) = GetSystemInfo(q, mem)
         /\ q.kind = "numa" => Run(q, mem) = GetNumaHighestNode(q, mem)
         /\ q.kind = "group" => Run(q, mem) = GetProcessGroupAffinity(q, mem)
         /\ q.kind = "affinity" => Run(q, mem) = GetProcessAffinityMask(q, mem)
         /\ q.kind = "logical" => Run(q, mem) = GetLogicalProcessorInformation(q, mem)
         /\ q.kind = "injob" => Run(q, mem) = IsProcessInJob(q, mem)
         /\ q.kind = "job" => Run(q, mem) = QueryInformationJobObject(q, mem)
  BY Zenon DEF Run

LEMMA OutcomeIs ==
  ASSUME NEW st, NEW mem, NEW err
  PROVE  Outcome(st, mem, err).status = st /\ Outcome(st, mem, err).mem = mem
  BY DEF Outcome

LEMMA RefuseIs ==
  ASSUME NEW mem, NEW err
  PROVE  Refuse(mem, err).status = "refused" /\ Refuse(mem, err).mem = mem
  BY OutcomeIs DEF Refuse

LEMMA TruthfulAnswers ==
  ASSUME NEW q, NEW mem
  PROVE  /\ \A err : IsTruthful(q, Refuse(mem, err), mem)
         /\ \A err : IsTruthful(q, Outcome("fail", mem, err), mem)
         /\ \A n, err : IsTruthful(q, Outcome("insufficient", Store(mem, q.a, <<n>>), err), mem)
         /\ \A m, err : HoldsOutputs(m, Outputs(q), mem) => IsTruthful(q, Outcome("ok", m, err), mem)
  <1>1. ASSUME NEW err PROVE IsTruthful(q, Refuse(mem, err), mem)
    BY RefuseIs DEF IsTruthful
  <1>2. ASSUME NEW err PROVE IsTruthful(q, Outcome("fail", mem, err), mem)
    BY OutcomeIs DEF IsTruthful
  <1>3. ASSUME NEW n, NEW err
        PROVE  IsTruthful(q, Outcome("insufficient", Store(mem, q.a, <<n>>), err), mem)
    <2> DEFINE m == Store(mem, q.a, <<n>>)
               r == Outcome("insufficient", m, err)
    <2>1. \E k : m = Store(mem, q.a, <<k>>)
      BY Zenon
    <2> HIDE DEF m
    <2>2. r.status = "insufficient" /\ r.mem = m
      BY OutcomeIs
    <2> HIDE DEF r
    <2>3. IsTruthful(q, r, mem)
      BY <2>1, <2>2, Zenon DEF IsTruthful
    <2>4. QED
      BY <2>3 DEF r, m
  <1>4. ASSUME NEW m, NEW err, HoldsOutputs(m, Outputs(q), mem)
        PROVE  IsTruthful(q, Outcome("ok", m, err), mem)
    BY <1>4, OutcomeIs DEF IsTruthful
  <1>5. QED
    BY <1>1, <1>2, <1>3, <1>4

LEMMA SimpleQueriesAreTruthful ==
  ASSUME NEW q, NEW mem, DOMAIN mem = Writable, q.kind \in {"system", "numa", "injob"}
  PROVE  IsTruthful(q, Run(q, mem), mem)
  <1>1. CASE q.kind = "system"
    <2>1. Run(q, mem) \in {Outcome("ok", Store(mem, q.a, InfoContent(facts)), 0),
                           Outcome("fail", mem, 0)}
      BY <1>1, RunIs DEF GetSystemInfo
    <2>2. HoldsOutputs(Store(mem, q.a, InfoContent(facts)), Outputs(q), mem)
      BY <1>1, OneStored, OutputsAre
    <2>3. QED
      BY <2>1, <2>2, TruthfulAnswers
  <1>2. CASE q.kind = "numa"
    <2>1. Run(q, mem) \in {Outcome("ok", Store(mem, q.a, <<facts.highestNode>>), 0),
                           Refuse(mem, ERROR_INVALID_PARAMETER)}
      BY <1>2, RunIs DEF GetNumaHighestNode
    <2>2. HoldsOutputs(Store(mem, q.a, <<facts.highestNode>>), Outputs(q), mem)
      BY <1>2, OneStored, OutputsAre
    <2>3. QED
      BY <2>1, <2>2, TruthfulAnswers
  <1>3. CASE q.kind = "injob"
    <2>1. Run(q, mem) \in {Outcome("ok", Store(mem, q.a, <<0>>), 0), Refuse(mem, 0)}
      BY <1>3, RunIs DEF IsProcessInJob
    <2>2. HoldsOutputs(Store(mem, q.a, <<0>>), Outputs(q), mem)
      BY <1>3, OneStored, OutputsAre
    <2>3. QED
      BY <2>1, <2>2, TruthfulAnswers
  <1>4. QED
    BY <1>1, <1>2, <1>3

LEMMA GroupQueryIsTruthful ==
  ASSUME NEW q, NEW mem, DOMAIN mem = Writable, q.kind = "group"
  PROVE  IsTruthful(q, Run(q, mem), mem)
  <1> DEFINE both == Store(Store(mem, q.b, GroupContent(facts)), q.a, <<facts.groups>>)
  <1>1. \/ \E err : Run(q, mem) = Refuse(mem, err)
        \/ \E err : Run(q, mem) = Outcome("insufficient", Store(mem, q.a, <<facts.groups>>), err)
        \/ Run(q, mem) = Outcome("ok", both, 0)
    BY RunIs, Zenon DEF GetProcessGroupAffinity
  <1>2. HoldsOutputs(both, Outputs(q), mem)
    BY TwoStored, OutputsAre
  <1> HIDE DEF both
  <1>3. QED
    BY <1>1, <1>2, TruthfulAnswers

LEMMA AffinityQueryIsTruthful ==
  ASSUME NEW q, NEW mem, DOMAIN mem = Writable, q.kind = "affinity"
  PROVE  IsTruthful(q, Run(q, mem), mem)
  <1> DEFINE both == Store(Store(mem, q.a, MaskContent(facts.process)),
                           q.b, MaskContent(facts.active))
  <1>1. (\E err : Run(q, mem) = Refuse(mem, err)) \/ Run(q, mem) = Outcome("ok", both, 0)
    BY RunIs, Zenon DEF GetProcessAffinityMask
  <1>2. HoldsOutputs(both, Outputs(q), mem)
    <2>1. HoldsOutputs(both, {<<q.b, MaskContent(facts.active)>>,
                              <<q.a, MaskContent(facts.process)>>}, mem)
      BY TwoStored
    <2>2. Outputs(q) = {<<q.b, MaskContent(facts.active)>>, <<q.a, MaskContent(facts.process)>>}
      BY OutputsAre, ZenonT(30)
    <2>3. QED
      BY <2>1, <2>2
  <1> HIDE DEF both
  <1>3. QED
    BY <1>1, <1>2, TruthfulAnswers

LEMMA LogicalQueryIsTruthful ==
  ASSUME NEW q, NEW mem, DOMAIN mem = Writable, q.kind = "logical"
  PROVE  IsTruthful(q, Run(q, mem), mem)
  <1> DEFINE records == TopologyRecords(facts)
             both == Store(Store(mem, q.b, records), q.a, <<Len(records)>>)
  <1>1. \/ \E err : Run(q, mem) = Refuse(mem, err)
        \/ \E err : Run(q, mem) = Outcome("insufficient", Store(mem, q.a, <<Len(records)>>), err)
        \/ Run(q, mem) = Outcome("ok", both, 0)
    BY RunIs, Zenon DEF GetLogicalProcessorInformation
  <1>2. HoldsOutputs(both, Outputs(q), mem)
    BY TwoStored, OutputsAre
  <1> HIDE DEF both
  <1>3. QED
    BY <1>1, <1>2, TruthfulAnswers

LEMMA JobQueryIsTruthful ==
  ASSUME NEW q, NEW mem, DOMAIN mem = Writable, q.kind = "job"
  PROVE  IsTruthful(q, Run(q, mem), mem)
  <1> DEFINE content == JobContent
             answered == Store(mem, q.a, content)
             m == IF q.b = 0 THEN answered ELSE Store(answered, q.b, <<JobSize>>)
  <1>1. (\E err : Run(q, mem) = Refuse(mem, err)) \/ Run(q, mem) = Outcome("ok", m, 0)
    BY RunIs, Zenon DEF QueryInformationJobObject
  <1>2. HoldsOutputs(m, Outputs(q), mem)
    <2>1. Outputs(q) = {<<q.a, content>>} \cup (IF q.b = 0 THEN {} ELSE {<<q.b, <<JobSize>> >>})
      BY OutputsAre, Zenon
    <2> HIDE DEF content
    <2>2. CASE q.b = 0
      <3>1. Outputs(q) = {<<q.a, content>>} /\ m = Store(mem, q.a, content)
        BY <2>1, <2>2, Zenon
      <3>2. QED
        BY <3>1, OneStored
    <2>3. CASE q.b # 0
      <3>1. /\ Outputs(q) = {<<q.b, <<JobSize>> >>, <<q.a, content>>}
            /\ m = Store(Store(mem, q.a, content), q.b, <<JobSize>>)
        BY <2>1, <2>3, Zenon
      <3>2. QED
        BY <3>1, TwoStored
    <2>4. QED
      BY <2>2, <2>3
  <1> HIDE DEF m
  <1>3. QED
    BY <1>1, <1>2, TruthfulAnswers

LEMMA KindsOfCalls ==
  ASSUME NEW q \in Calls
  PROVE  q.kind \in QueryKinds
  <1> DEFINE A == [kind : QueryKinds \ {"job"}, handle : QueryHandles, a : QueryPointers,
                   b : QueryPointers]
             B == [kind : {"job"}, handle : QueryHandles, a : QueryPointers, b : QueryPointers,
                   class : JobClasses, length : JobLengths]
  <1>1. q \in A \/ q \in B
    BY Zenon DEF Calls
  <1>2. CASE q \in A
    BY <1>2
  <1>3. CASE q \in B
    <2>1. q.kind = "job"
      BY <1>3
    <2>2. QED
      BY <2>1 DEF QueryKinds
  <1>4. QED
    BY <1>1, <1>2, <1>3

LEMMA EveryQueryIsTruthful ==
  ASSUME NEW q \in Calls, NEW mem, DOMAIN mem = Writable
  PROVE  IsTruthful(q, Run(q, mem), mem)
  <1>1. q.kind \in QueryKinds
    BY KindsOfCalls
  <1>2. QED
    BY <1>1, SimpleQueriesAreTruthful, GroupQueryIsTruthful, AffinityQueryIsTruthful,
       LogicalQueryIsTruthful, JobQueryIsTruthful DEF QueryKinds

-----------------------------------------------------------------------------
(* Pointers that are accepted, and buffers that fit.                       *)

LEMMA RangesAreNumbers ==
  ASSUME NEW r \in QueryRegions \cup Allocations
  PROVE  r.base \in Nat /\ r.end \in Nat /\ r.end <= WordMax /\ WordMax \in Nat
  <1>1. WordMax \in Nat /\ WordMax = 2^WordBits - 1
    BY LayoutAssumption DEF WordMax
  <1>2. CASE r \in ImageRegions
    <2>1. r.base \in Nat /\ r.end \in Nat /\ r.end <= ImageEnd
      BY <1>2, ImageAssumption
    <2>2. ImageEnd \in Nat /\ ImageEnd <= WordMax
      <3>1. ImageEnd \in (ImageBase + 1) .. WordMax /\ ImageBase \in 1 .. WordMax
        BY <1>1, ImageAssumption
      <3>2. QED
        BY <1>1, <3>1
    <2>3. QED
      BY <1>1, <2>1, <2>2
  <1>3. CASE r \in Allocations \cup {StackRegion}
    BY <1>1, <1>3, LayoutAssumption
  <1>4. QED
    BY <1>2, <1>3 DEF QueryRegions

\* An address of a writable range belongs to the memory.
LEMMA InWritable ==
  ASSUME NEW r \in AllRanges, NEW x \in r.base .. (r.end - 1)
  PROVE  x \in Writable /\ IsCanonical(x)
  <1>1. x \in Writable
    BY DEF Writable
  <1>2. QED
    BY <1>1, LayoutAssumption DEF IsCanonical

LEMMA ReadsAndWritesIs ==
  ASSUME NEW r, HasAccess(r, ReadsAndWrites)
  PROVE  r.writable
  BY DEF HasAccess, ReadsAndWrites

LEMMA WritesIs ==
  ASSUME NEW r, r.writable
  PROVE  HasAccess(r, Writes)
  BY DEF HasAccess, Writes

\* A counter that a query accepts is in the memory.
LEMMA AcceptedIsWritable ==
  ASSUME NEW a \in Nat, \/ PointerStatus(a, 1, ReadsAndWrites) = "ok"
                        \/ RangeIsAccessible(a, 1, ReadsAndWrites)
  PROVE  a \in Writable
  <1>1. PICK r \in QueryRegions \cup Allocations :
          /\ a >= r.base /\ a + 1 <= r.end
          /\ r \in Allocations \/ (r \in QueryRegions /\ HasAccess(r, ReadsAndWrites))
    <2>1. CASE PointerStatus(a, 1, ReadsAndWrites) = "ok"
      <3>1. PICK r \in FindRange(a, a + 1) \cup
                         {r \in {StackRegion} : a >= r.base /\ a + 1 <= r.end} :
              HasAccess(r, ReadsAndWrites)
        BY <2>1 DEF PointerStatus
      <3>2. QED
        BY <3>1 DEF FindRange, QueryRegions
    <2>2. CASE RangeIsAccessible(a, 1, ReadsAndWrites)
      BY <2>2 DEF RangeIsAccessible
    <2>3. QED
      BY <2>1, <2>2
  <1>2. r \in AllRanges
    BY <1>1, ReadsAndWritesIs DEF AllRanges
  <1>3. a \in r.base .. (r.end - 1)
    BY <1>1, RangesAreNumbers
  <1>4. QED
    BY <1>2, <1>3, InWritable

\* A buffer inside a range: its ends.
LEMMA BufferInRange ==
  ASSUME NEW a \in Nat \ {0}, NEW size \in Nat \ {0}, NEW r \in AllRanges,
         a .. (a + size - 1) \subseteq r.base .. (r.end - 1)
  PROVE  /\ a >= r.base /\ a + size <= r.end /\ a <= WordMax - size
         /\ IsCanonical(a) /\ IsCanonical(a + size - 1)
  <1>1. r \in QueryRegions \cup Allocations
    BY DEF AllRanges
  <1>2. r.base \in Nat /\ r.end \in Nat /\ r.end <= WordMax /\ WordMax \in Nat
    BY <1>1, RangesAreNumbers
  <1>3. a \in r.base .. (r.end - 1) /\ a + size - 1 \in r.base .. (r.end - 1)
    <2>1. a \in a .. (a + size - 1) /\ a + size - 1 \in a .. (a + size - 1)
      OBVIOUS
    <2>2. QED
      BY <2>1
  <1>4. IsCanonical(a) /\ IsCanonical(a + size - 1)
    BY <1>3, InWritable
  <1>5. QED
    BY <1>2, <1>3, <1>4

LEMMA BufferIsAccepted ==
  ASSUME NEW a \in Nat \ {0}, NEW size \in Nat \ {0}, NEW r \in QueryRegions, r.writable,
         a .. (a + size - 1) \subseteq r.base .. (r.end - 1)
  PROVE  PointerStatus(a, size, Writes) = "ok"
  <1>1. r \in AllRanges
    BY DEF AllRanges
  <1>2. /\ a >= r.base /\ a + size <= r.end /\ a <= WordMax - size
        /\ IsCanonical(a) /\ IsCanonical(a + size - 1)
    BY <1>1, BufferInRange
  <1>3. ~(a > WordMax - size) /\ a + size >= a
    BY <1>2, LayoutAssumption
  <1>4. HasAccess(r, Writes)
    BY WritesIs
  <1>5. r \in FindRange(a, a + size) \cup {t \in {StackRegion} : a >= t.base /\ a + size <= t.end}
    BY <1>2, <1>3 DEF FindRange, QueryRegions
  <1>6. QED
    BY <1>2, <1>3, <1>4, <1>5 DEF PointerStatus

LEMMA BufferIsAccessible ==
  ASSUME NEW a \in Nat \ {0}, NEW size \in Nat \ {0}, NEW r \in AllRanges,
         a .. (a + size - 1) \subseteq r.base .. (r.end - 1)
  PROVE  RangeIsAccessible(a, size, Writes)
  <1> DEFINE met == {t \in QueryRegions : RangesOverlap(a, a + size, t)}
  <1>1. /\ a >= r.base /\ a + size <= r.end /\ a <= WordMax - size
        /\ IsCanonical(a) /\ IsCanonical(a + size - 1)
    BY BufferInRange
  <1>2. r \in QueryRegions \cup Allocations
    BY DEF AllRanges
  <1>3. r.base \in Nat /\ r.end \in Nat
    BY <1>2, RangesAreNumbers
  <1>4. CASE r \in QueryRegions /\ r.writable
    <2>1. r \in met
      BY <1>1, <1>3, <1>4 DEF RangesOverlap
    <2>2. \E t \in met : a >= t.base /\ a + size <= t.end /\ HasAccess(t, Writes)
      BY <1>1, <1>4, <2>1, WritesIs
    <2>3. QED
      BY <1>1, <2>1, <2>2 DEF RangeIsAccessible
  <1>5. CASE r \in Allocations
    <2>1. ASSUME NEW t \in QueryRegions, RangesOverlap(a, a + size, t) PROVE FALSE
      <3>1. t.base \in Nat /\ t.end \in Nat
        BY RangesAreNumbers
      <3>2. RangesOverlap(r.base, r.end, t)
        BY <1>1, <1>3, <2>1, <3>1 DEF RangesOverlap
      <3>3. QED
        BY <1>5, <3>2, LayoutAssumption
    <2>2. met = {}
      BY <2>1
    <2>3. QED
      BY <1>1, <1>5, <2>2 DEF RangeIsAccessible
  <1>6. QED
    BY <1>4, <1>5 DEF AllRanges

-----------------------------------------------------------------------------
(* A caller that retries.                                                  *)

\* Only two imports report a length.
LEMMA OnlyTwoReport ==
  ASSUME NEW q \in Calls, NEW mem, Run(q, mem).status = "insufficient"
  PROVE  q.kind \in {"group", "logical"}
  <1>1. q.kind \in QueryKinds
    BY KindsOfCalls
  <1>2. q.kind # "system"
    BY RunIs, OutcomeIs DEF GetSystemInfo
  <1>3. q.kind # "numa"
    BY RunIs, OutcomeIs, RefuseIs DEF GetNumaHighestNode
  <1>4. q.kind # "affinity"
    BY RunIs, OutcomeIs, RefuseIs DEF GetProcessAffinityMask
  <1>5. q.kind # "injob"
    BY RunIs, OutcomeIs, RefuseIs DEF IsProcessInJob
  <1>6. q.kind # "job"
    <2>1. \A m : (\E err : Run(q, mem) = Refuse(mem, err)) \/ Run(q, mem) = Outcome("ok", m, 0)
                   => Run(q, mem).status # "insufficient"
      BY OutcomeIs, RefuseIs
    <2>2. q.kind = "job" => \E m : \/ \E err : Run(q, mem) = Refuse(mem, err)
                                   \/ Run(q, mem) = Outcome("ok", m, 0)
      BY RunIs, Zenon DEF QueryInformationJobObject
    <2>3. QED
      BY <2>1, <2>2
  <1>7. QED
    BY <1>1, <1>2, <1>3, <1>4, <1>5, <1>6 DEF QueryKinds

\* What was stored at a counter of the memory is read there.
LEMMA CountIsStored ==
  ASSUME NEW mem, DOMAIN mem = Writable, NEW a \in Writable, a \in Nat, NEW n
  PROVE  Store(mem, a, <<n>>)[a] = n
  <1> DEFINE C == <<n>>
  <1>1. Len(C) = 1 /\ C[1] = n
    OBVIOUS
  <1> HIDE DEF C
  <1>2. a \in a .. (a + Len(C) - 1) /\ a - a + 1 = 1
    BY <1>1
  <1>3. Store(mem, a, C)[a] = C[a - a + 1]
    BY <1>2 DEF Store
  <1>4. QED
    BY <1>1, <1>2, <1>3 DEF C

LEMMA GroupRetrySucceeds ==
  ASSUME NEW q, q.a \in Nat, q.b \in Nat \ {0}, q.kind = "group",
         NEW mem, DOMAIN mem = Writable, Run(q, mem).status = "insufficient",
         facts.groups \in Nat,
         NEW r \in QueryRegions, r.writable,
         OutputRange(<<q.b, GroupContent(facts)>>) \subseteq r.base .. (r.end - 1)
  PROVE  Run(q, Run(q, mem).mem).status = "ok"
  <1> DEFINE told == Store(mem, q.a, <<facts.groups>>)
  <1>1. /\ GroupFactsAreValid(facts) /\ q.handle = CurrentProcess
        /\ PointerStatus(q.a, 1, ReadsAndWrites) = "ok"
        /\ Run(q, mem).mem = told
    BY RunIs, OutcomeIs, RefuseIs DEF GetProcessGroupAffinity
  <1>2. told[q.a] = facts.groups
    BY <1>1, AcceptedIsWritable, CountIsStored
  <1> HIDE DEF told
  <1>3. facts.groups \in Nat \ {0}
    BY <1>1 DEF GroupFactsAreValid
  <1>4. Len(GroupContent(facts)) = facts.groups
    BY <1>3 DEF GroupContent
  <1>5. q.b .. (q.b + facts.groups - 1) \subseteq r.base .. (r.end - 1)
    <2>1. OutputRange(<<q.b, GroupContent(facts)>>)
            = q.b .. (q.b + Len(GroupContent(facts)) - 1)
      BY DEF OutputRange
    <2>2. QED
      BY <1>4, <2>1
  <1>6. PointerStatus(q.b, facts.groups, Writes) = "ok"
    BY <1>3, <1>5, BufferIsAccepted
  <1>7. ~(told[q.a] < facts.groups)
    BY <1>2, <1>3
  <1>8. \E m : GetProcessGroupAffinity(q, told) = Outcome("ok", m, 0)
    BY <1>1, <1>6, <1>7, Zenon DEF GetProcessGroupAffinity
  <1>9. Run(q, told).status = "ok"
    BY <1>8, RunIs, OutcomeIs
  <1>10. QED
    BY <1>1, <1>9

LEMMA LogicalRetrySucceeds ==
  ASSUME NEW q, q.a \in Nat, q.b \in Nat \ {0}, q.kind = "logical",
         NEW mem, DOMAIN mem = Writable, Run(q, mem).status = "insufficient",
         Len(TopologyRecords(facts)) \in Nat \ {0},
         NEW r \in AllRanges,
         OutputRange(<<q.b, TopologyRecords(facts)>>) \subseteq r.base .. (r.end - 1)
  PROVE  Run(q, Run(q, mem).mem).status = "ok"
  <1> DEFINE records == TopologyRecords(facts)
             told == Store(mem, q.a, <<Len(records)>>)
  <1>1. RangeIsAccessible(q.a, 1, ReadsAndWrites) /\ Run(q, mem).mem = told
    BY RunIs, OutcomeIs, RefuseIs DEF GetLogicalProcessorInformation
  <1>2. told[q.a] = Len(records)
    BY <1>1, AcceptedIsWritable, CountIsStored
  <1> HIDE DEF told
  <1>3. q.b .. (q.b + Len(records) - 1) \subseteq r.base .. (r.end - 1)
    BY DEF OutputRange
  <1>4. RangeIsAccessible(q.b, Len(records), Writes)
    BY <1>3, BufferIsAccessible
  <1>5. ~(q.b = 0 \/ told[q.a] < Len(records))
    BY <1>2
  <1>6. \E m : GetLogicalProcessorInformation(q, told) = Outcome("ok", m, 0)
    BY <1>1, <1>4, <1>5, Zenon DEF GetLogicalProcessorInformation
  <1>7. Run(q, told).status = "ok"
    BY <1>6, RunIs, OutcomeIs
  <1>8. QED
    BY <1>1, <1>7

-----------------------------------------------------------------------------
(* The invariant of the queries.                                           *)

QueryInv ==
  /\ DOMAIN bytes = Writable
  /\ facts # <<>> => facts \in Snapshots /\ TopologyIsValid(facts)
  /\ job \in JobFacts

LEMMA TruthfulKeepsDomain ==
  ASSUME NEW q \in Calls, NEW mem, DOMAIN mem = Writable
  PROVE  DOMAIN Run(q, mem).mem = Writable
  <1>1. \A a, C : DOMAIN Store(mem, a, C) = Writable
    BY StoreIs
  <1>2. \A a, C, b, D : DOMAIN Store(Store(mem, a, C), b, D) = Writable
    BY StoreIs
  <1>3. q.kind \in QueryKinds
    BY KindsOfCalls
  <1>4. CASE q.kind = "system"
    BY <1>1, <1>4, RunIs, OutcomeIs DEF GetSystemInfo
  <1>5. CASE q.kind = "numa"
    BY <1>1, <1>5, RunIs, OutcomeIs, RefuseIs DEF GetNumaHighestNode
  <1>6. CASE q.kind = "group"
    BY <1>1, <1>2, <1>6, RunIs, OutcomeIs, RefuseIs DEF GetProcessGroupAffinity
  <1>7. CASE q.kind = "affinity"
    BY <1>2, <1>7, RunIs, OutcomeIs, RefuseIs DEF GetProcessAffinityMask
  <1>8. CASE q.kind = "logical"
    BY <1>1, <1>2, <1>8, RunIs, OutcomeIs, RefuseIs DEF GetLogicalProcessorInformation
  <1>9. CASE q.kind = "injob"
    BY <1>1, <1>9, RunIs, OutcomeIs, RefuseIs DEF IsProcessInJob
  <1>10. CASE q.kind = "job"
    <2> DEFINE answered == Store(mem, q.a, JobContent)
               m == IF q.b = 0 THEN answered ELSE Store(answered, q.b, <<JobSize>>)
    <2>1. (\E err : Run(q, mem) = Refuse(mem, err)) \/ Run(q, mem) = Outcome("ok", m, 0)
      BY <1>10, RunIs, Zenon DEF QueryInformationJobObject
    <2>2. DOMAIN m = Writable
      BY <1>1, <1>2
    <2> HIDE DEF m
    <2>3. QED
      BY <2>1, <2>2, OutcomeIs, RefuseIs
  <1>11. QED
    BY <1>3, <1>4, <1>5, <1>6, <1>7, <1>8, <1>9, <1>10 DEF QueryKinds

LEMMA QueryInvInitially == QueryInit => QueryInv
  BY DEF QueryInit, QueryInv

LEMMA QueryInvStep == QueryInv /\ [QueryNext]_queryVars => QueryInv'
  <1> SUFFICES ASSUME QueryInv, [QueryNext]_queryVars PROVE QueryInv'
    OBVIOUS
  <1>1. ASSUME facts' = facts, job' = job, DOMAIN bytes' = Writable PROVE QueryInv'
    BY <1>1 DEF QueryInv
  <1>2. CASE UNCHANGED queryVars
    BY <1>1, <1>2 DEF queryVars, QueryInv
  <1>3. ASSUME NEW s \in Snapshots, ConfigureSystemInfo(s) PROVE QueryInv'
    <2>1. bytes' = bytes /\ job' = job /\ (facts' = facts \/ (facts' = s /\ TopologyIsValid(s)))
      BY <1>3 DEF ConfigureSystemInfo
    <2>2. QED
      BY <2>1, <1>1 DEF QueryInv
  <1>4. ASSUME NEW q \in Calls, Query(q) PROVE QueryInv'
    <2>1. bytes' = Run(q, bytes).mem /\ facts' = facts /\ job' = job
      BY <1>4 DEF Query
    <2>2. QED
      BY <1>1, <2>1, TruthfulKeepsDomain DEF QueryInv
  <1>5. QED
    BY <1>2, <1>3, <1>4
       DEF QueryNext, PlatformGetSystemInfo, PlatformGetNumaHighestNodeNumber,
           PlatformGetProcessGroupAffinity, PlatformGetProcessAffinityMask,
           PlatformGetLogicalProcessorInformation, PlatformIsProcessInJob,
           PlatformQueryInformationJobObject

\* The memory keeps its shape, and only a topology that was validated is
\* published (gxos_processor_topology_validate).
THEOREM QueryInvHolds == QuerySpec => []QueryInv
  <1>1. QueryInit => QueryInv
    BY QueryInvInitially
  <1>2. QueryInv /\ [QueryNext]_queryVars => QueryInv'
    BY QueryInvStep
  <1>3. QED
    BY <1>1, <1>2, PTL DEF QuerySpec

LEMMA PublishedPartitions == QueryInv => PublishedTopologyPartitions
  <1> SUFFICES ASSUME QueryInv, facts # <<>>,
                      NEW masks \in {facts.cores, facts.packages,
                                     [i \in DOMAIN facts.nodes |-> facts.nodes[i].mask]}
               PROVE  Partitions(masks, facts.active)
    BY Zenon DEF PublishedTopologyPartitions, Partitions
  <1>1. TopologyIsValid(facts) /\ IsSnapshot(facts)
    BY LayoutAssumption DEF QueryInv
  <1>2. QED
    BY <1>1, TopologyPartitions

LEMMA WritesAreOutputs == QueryInv => QueriesWriteTheirOutputs
  <1> SUFFICES ASSUME QueryInv PROVE QueriesWriteTheirOutputs
    OBVIOUS
  <1>1. ASSUME NEW q \in Calls, NEW r, r = Run(q, bytes)
        PROVE  LET changed == {x \in Writable : r.mem[x] # bytes[x]}
               IN CASE r.status \in {"refused", "fail"} -> changed = {}
                    [] r.status = "insufficient" -> changed \subseteq {q.a}
                    [] OTHER ->
                         /\ changed \subseteq UNION {OutputRange(o) : o \in Outputs(q)}
                         /\ (\A o, p \in Outputs(q) : o # p => OutputRange(o) \cap OutputRange(p) = {})
                              => \A o \in Outputs(q), x \in Writable :
                                   x \in OutputRange(o) => r.mem[x] = o[2][x - o[1] + 1]
    <2>1. IsTruthful(q, r, bytes)
      BY <1>1, EveryQueryIsTruthful DEF QueryInv
    <2>2. CASE r.status \in {"refused", "fail"} /\ r.mem = bytes
      BY <2>2
    <2>3. CASE r.status = "insufficient" /\ \E n : r.mem = Store(bytes, q.a, <<n>>)
      <3>1. PICK n : r.mem = Store(bytes, q.a, <<n>>)
        BY <2>3
      <3>2. q.a \in Nat
        BY LayoutAssumption DEF Calls
      <3> DEFINE C == <<n>>
      <3>3. Len(C) = 1
        OBVIOUS
      <3>4. r.mem = Store(bytes, q.a, C)
        BY <3>1
      <3> HIDE DEF C
      <3>5. \A x \in Writable : x # q.a => r.mem[x] = bytes[x]
        BY <3>2, <3>3, <3>4 DEF Store, QueryInv
      <3>6. {x \in Writable : r.mem[x] # bytes[x]} \subseteq {q.a}
        BY <3>5
      <3>7. QED
        BY <2>3, <3>6
    <2>4. CASE r.status = "ok" /\ HoldsOutputs(r.mem, Outputs(q), bytes)
      <3>1. {x \in Writable : r.mem[x] # bytes[x]} \subseteq UNION {OutputRange(o) : o \in Outputs(q)}
        BY <2>4, Zenon DEF HoldsOutputs
      <3>2. (\A o, p \in Outputs(q) : o # p => OutputRange(o) \cap OutputRange(p) = {})
              => \A o \in Outputs(q), x \in Writable :
                   x \in OutputRange(o) => r.mem[x] = o[2][x - o[1] + 1]
        BY <2>4, Zenon DEF HoldsOutputs
      <3>3. QED
        BY <2>4, <3>1, <3>2
    <2>5. QED
      BY <2>1, <2>2, <2>3, <2>4 DEF IsTruthful
  <1>2. QED
    BY <1>1, ZenonT(30) DEF QueriesWriteTheirOutputs

LEMMA RetriesSucceed == QueryInv => RetrySucceeds
  <1> SUFFICES ASSUME QueryInv, facts # <<>>, NEW q \in Calls,
                      Run(q, bytes).status = "insufficient", q.b # 0,
                      \E r \in (IF q.kind = "group" THEN {r \in QueryRegions : r.writable}
                                ELSE AllRanges) :
                        OutputRange(<<q.b, IF q.kind = "group" THEN GroupContent(facts)
                                           ELSE TopologyRecords(facts)>>)
                          \subseteq r.base .. (r.end - 1)
               PROVE  Run(q, Run(q, bytes).mem).status = "ok"
    BY Zenon DEF RetrySucceeds
  <1>1. DOMAIN bytes = Writable /\ IsSnapshot(facts) /\ TopologyIsValid(facts)
    BY LayoutAssumption DEF QueryInv
  <1>2. q.a \in Nat /\ q.b \in Nat \ {0}
    BY LayoutAssumption DEF Calls
  <1>3. q.kind \in {"group", "logical"}
    BY OnlyTwoReport
  <1>4. CASE q.kind = "group"
    <2>1. facts.groups \in Nat
      BY <1>1 DEF IsSnapshot
    <2>2. PICK r \in QueryRegions :
            /\ r.writable
            /\ OutputRange(<<q.b, GroupContent(facts)>>) \subseteq r.base .. (r.end - 1)
      BY <1>4
    <2>3. QED
      BY <1>1, <1>2, <1>4, <2>1, <2>2, GroupRetrySucceeds
  <1>5. CASE q.kind = "logical"
    <2>1. Len(TopologyRecords(facts)) \in Nat \ {0}
      BY <1>1, RecordsAreCounted
    <2>2. PICK r \in AllRanges :
            OutputRange(<<q.b, TopologyRecords(facts)>>) \subseteq r.base .. (r.end - 1)
      BY <1>5
    <2>3. QED
      BY <1>1, <1>2, <1>5, <2>1, <2>2, LogicalRetrySucceeds
  <1>6. QED
    BY <1>3, <1>4, <1>5

\* A byte of an output that a query accepts is in the memory.
LEMMA OutputIsWritable ==
  ASSUME NEW a \in Nat, NEW size \in Nat, PointerStatus(a, size, Writes) = "ok",
         NEW x \in a .. (a + size - 1)
  PROVE  x \in Writable
  <1>1. PICK r \in FindRange(a, a + size) \cup
                     {r \in {StackRegion} : a >= r.base /\ a + size <= r.end} :
          HasAccess(r, Writes)
    BY DEF PointerStatus
  <1>2. r \in QueryRegions /\ a >= r.base /\ a + size <= r.end /\ r.writable
    BY <1>1 DEF FindRange, QueryRegions, HasAccess, Writes
  <1>3. r \in AllRanges /\ x \in r.base .. (r.end - 1)
    BY <1>2, RangesAreNumbers DEF AllRanges
  <1>4. QED
    BY <1>3, InWritable

\* The halves of a word.
LEMMA HalvesOfWord ==
  ASSUME NEW low \in Nat, NEW high \in Nat, NEW word, word = low + Half * high, low < Half
  PROVE  word % Half = low /\ word \div Half = high
  <1>1. Half \in Nat \ {0}
    BY DEF Half
  <1>2. Half * high \in Nat
    BY <1>1, SMT
  <1>3. word \in Int /\ word = Half * high + low
    BY <1>1, <1>2
  <1>4. /\ word \div Half \in Int /\ word % Half \in Nat /\ word % Half < Half
        /\ word = Half * (word \div Half) + (word % Half)
    BY <1>1, <1>3, Division
  <1> DEFINE quotient == word \div Half
             rest == word % Half
  <1>5. /\ quotient \in Int /\ rest \in Int /\ 0 <= rest /\ rest < Half
        /\ Half * quotient + rest = Half * high + low
        /\ low \in Int /\ high \in Int /\ 0 <= low
    BY <1>3, <1>4
  <1> HIDE DEF quotient, rest
  <1>6. quotient = high /\ rest = low
    BY <1>1, <1>5, DivisionIsUnique
  <1>7. QED
    BY <1>6 DEF quotient, rest

\* What the word of the union holds is what the mode calls for.
LEMMA JobRateWordIsSound ==
  ASSUME job \in JobFacts, JobFactsAreValid, job.associated # 0, NEW word, word = JobRateWord
  PROVE  /\ "weight" \in job.flags => word \in 1 .. MaxWeight
         /\ "cap" \in job.flags => word \in 1 .. MaxRate
         /\ "minmax" \in job.flags =>
              word % Half <= word \div Half /\ word \div Half \in 1 .. MaxRate
  <1> DEFINE modes == job.flags \cap {"weight", "cap", "minmax"}
  <1>1. /\ \A m, n \in modes : m = n
        /\ JobRatesAreValid
    BY DEF JobFactsAreValid
  <1>2. \A m, n \in {"weight", "cap", "minmax"} : m \in job.flags /\ n \in job.flags => m = n
    BY <1>1
  <1>3. ASSUME "weight" \in job.flags PROVE word = job.weight /\ word \in 1 .. MaxWeight
    BY <1>1, <1>3 DEF JobRateWord, JobRatesAreValid
  <1>4. ASSUME "cap" \in job.flags PROVE word \in 1 .. MaxRate
    <2>1. "weight" \notin job.flags /\ "minmax" \notin job.flags
      BY <1>2, <1>4
    <2>2. QED
      BY <1>1, <1>4, <2>1 DEF JobRateWord, JobRatesAreValid
  <1>5. ASSUME "minmax" \in job.flags
        PROVE  word % Half <= word \div Half /\ word \div Half \in 1 .. MaxRate
    <2>1. "weight" \notin job.flags
      BY <1>2, <1>5
    <2>2. word = job.min + Half * job.max
      BY <1>5, <2>1 DEF JobRateWord
    <2>3. job.min \in Nat /\ job.min < Half /\ job.max \in Nat
      BY LayoutAssumption
    <2>4. word % Half = job.min /\ word \div Half = job.max
      BY <2>2, <2>3, HalvesOfWord
    <2>5. job.min <= job.max /\ job.max \in 1 .. MaxRate
      BY <1>1, <1>5 DEF JobRatesAreValid
    <2>6. QED
      BY <2>4, <2>5
  <1>6. QED
    BY <1>3, <1>4, <1>5

LEMMA JobRatesStaySound == QueryInv => JobRatesAreSound
  <1> SUFFICES ASSUME QueryInv, NEW q \in Calls, q.kind = "job", Run(q, bytes).status = "ok"
               PROVE  /\ "weight" \in job.flags => Run(q, bytes).mem[q.a + 1] \in 1 .. MaxWeight
                      /\ "cap" \in job.flags => Run(q, bytes).mem[q.a + 1] \in 1 .. MaxRate
                      /\ "minmax" \in job.flags =>
                           /\ Run(q, bytes).mem[q.a + 1] % Half <= Run(q, bytes).mem[q.a + 1] \div Half
                           /\ Run(q, bytes).mem[q.a + 1] \div Half \in 1 .. MaxRate
    BY Zenon DEF JobRatesAreSound
  <1> DEFINE x == q.a + 1
             answered == Store(bytes, q.a, JobContent)
             m == IF q.b = 0 THEN answered ELSE Store(answered, q.b, <<JobSize>>)
             aliased == q.b # 0 /\ RangesOverlap(q.b, q.b + 1, [base |-> q.a, end |-> q.a + JobSize])
             accepted == /\ PointerStatus(q.a, JobSize, Writes) = "ok"
                         /\ ~aliased /\ JobFactsAreValid /\ job.associated # 0
  <1>1. \/ \E err : Run(q, bytes) = Refuse(bytes, err)
        \/ Run(q, bytes) = Outcome("ok", m, 0) /\ accepted
    BY RunIs, Zenon DEF QueryInformationJobObject
  <1> HIDE DEF accepted, m
  <1>2. Run(q, bytes) = Outcome("ok", m, 0) /\ accepted
    BY <1>1, RefuseIs
  <1>3. Run(q, bytes).mem = m
    BY <1>2, OutcomeIs
  <1>4. q.a \in Nat /\ q.b \in Nat
    BY LayoutAssumption DEF Calls
  <1>5. x \in q.a .. (q.a + JobSize - 1) /\ JobSize \in Nat
    BY <1>4 DEF JobSize
  <1>6. x \in Writable
    BY <1>2, <1>4, <1>5, OutputIsWritable DEF accepted
  <1>7. answered[x] = JobRateWord
    <2> DEFINE C == JobContent
    <2>1. Len(C) = 2 /\ C[2] = JobRateWord
      BY DEF JobContent
    <2> HIDE DEF C
    <2>2. x - q.a + 1 = 2 /\ x \in q.a .. (q.a + Len(C) - 1)
      <3>1. \A n \in Nat : (n + 1) - n + 1 = 2 /\ n + 1 \in n .. (n + 2 - 1)
        OBVIOUS
      <3>2. Len(C) = 2
        BY <2>1
      <3>3. QED
        BY <1>4, <3>1, <3>2, Zenon
    <2>3. OutputRange(<<q.a, C>>) = q.a .. (q.a + Len(C) - 1)
      BY DEF OutputRange
    <2>4. Store(bytes, q.a, C)[x] = C[x - q.a + 1]
      <3>1. x \in DOMAIN bytes /\ x \in OutputRange(<<q.a, C>>)
        BY <1>6, <2>2, <2>3, Zenon DEF QueryInv
      <3> HIDE DEF x
      <3>2. \A y \in DOMAIN bytes : y \in OutputRange(<<q.a, C>>) =>
              Store(bytes, q.a, C)[y] = C[y - q.a + 1]
        BY StoreIs
      <3>3. QED
        BY <3>1, <3>2, Zenon
    <2>5. QED
      BY <2>1, <2>2, <2>4 DEF C
  <1>8. m[x] = answered[x]
    <2>1. CASE q.b = 0
      BY <2>1 DEF m
    <2>2. CASE q.b # 0
      <3> DEFINE C == <<JobSize>>
      <3>1. Len(C) = 1
        OBVIOUS
      <3> HIDE DEF C
      <3>2. ~(q.b < q.a + JobSize /\ q.a < q.b + 1)
        BY <1>2, <2>2 DEF accepted, RangesOverlap
      <3>3. x \notin OutputRange(<<q.b, C>>)
        <4>1. OutputRange(<<q.b, C>>) = q.b .. (q.b + Len(C) - 1)
          BY DEF OutputRange
        <4>2. QED
          BY <1>4, <3>1, <3>2, <4>1 DEF JobSize
      <3>4. DOMAIN answered = Writable
        BY StoreIs DEF QueryInv
      <3> HIDE DEF answered
      <3>5. Store(answered, q.b, C)[x] = answered[x]
        BY <1>6, <3>3, <3>4, StoreIs
      <3>6. QED
        BY <2>2, <3>5 DEF m, C
    <2>3. QED
      BY <2>1, <2>2
  <1>9. job \in JobFacts /\ JobFactsAreValid /\ job.associated # 0
    BY <1>2 DEF accepted, QueryInv
  <1> HIDE DEF answered, x
  <1>10. m[x] = JobRateWord
    BY <1>7, <1>8
  <1>11. QED
    BY <1>3, <1>9, <1>10, JobRateWordIsSound DEF x

\* The queries tell the truth, for every snapshot, job, memory layout and pointer:
\* what is published is a partition of the processors, a call writes what is
\* published and nothing else, the length it asks for is enough, and a rate is
\* one that its flags allow.
THEOREM QueriesStayTruthful == QuerySpec => []QueriesAreTruthful
  <1>1. QueryInv => QueriesAreTruthful
    BY PublishedPartitions, WritesAreOutputs, RetriesSucceed, JobRatesStaySound
       DEF QueriesAreTruthful
  <1>2. QED
    BY <1>1, QueryInvHolds, PTL
===============================================================================
