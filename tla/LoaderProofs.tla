---------------------------- MODULE LoaderProofs ----------------------------
(***************************************************************************)
(* Proofs about the loader.  The argument follows the phases of efi_main:  *)
(* the words of the file lie where the mapped sections put them, n blocks  *)
(* of relocations have moved each word as often as they name it, entries   *)
(* of the import table are bound in slots of their own, and the directory  *)
(* read from the file leads to where the loaded one points.                *)
(***************************************************************************)
EXTENDS Loader, PlatformProofs

-----------------------------------------------------------------------------
(* The file.                                                               *)

\* The RVAs of the raw data of a section.
RawData(s) == s.va .. (s.va + s.rawSize - 1)

\* The first n sections have passed the tests of load_pe_image.
RawIsInside(p, n) ==
  \A j \in 1 .. n : p.sections[j].rawSize # 0 =>
    /\ p.sections[j].raw + p.sections[j].rawSize <= FileSize(p)
    /\ p.sections[j].va + p.sections[j].rawSize <= p.size

LEMMA SpanIsNumber == AddressSpan \in Nat \ {0}
  BY LoaderAssumption

LEMMA PayloadTypes ==
  ASSUME NEW p \in Payloads
  PROVE  /\ p.file \in Seq(0 .. (AddressSpan - 1)) /\ p.preferred \in 0 .. (AddressSpan - 1)
         /\ p.headers \in Nat /\ p.size \in Nat /\ p.headers <= p.size /\ p.size <= MaxRva
         /\ p.tls \in Nat /\ FileSize(p) \in Nat
  <1>1. HasTypes(p)
    BY PayloadsAreLinked
  <1>2. p.file \in Seq(0 .. (AddressSpan - 1)) /\ p.preferred \in 0 .. (AddressSpan - 1)
    BY <1>1 DEF HasTypes
  <1>3. p.headers \in 0 .. p.size /\ p.size \in 0 .. MaxRva /\ p.tls \in Nat
    BY <1>1 DEF HasTypes
  <1>4. MaxRva \in Nat
    BY LoaderAssumption
  <1>5. FileSize(p) \in Nat
    BY <1>2, LenProperties DEF FileSize
  <1>6. QED
    BY <1>2, <1>3, <1>4, <1>5

LEMMA SectionTypes ==
  ASSUME NEW p \in Payloads
  PROVE  /\ Len(p.sections) \in Nat /\ DOMAIN p.sections = 1 .. Len(p.sections)
         /\ \A k \in DOMAIN p.sections :
              /\ p.sections[k].va \in Nat /\ p.sections[k].virtualSize \in Nat
              /\ p.sections[k].raw \in Nat /\ p.sections[k].rawSize \in Nat
  <1> DEFINE S == [va : Nat, virtualSize : Nat, raw : Nat, rawSize : Nat, executable : BOOLEAN]
  <1>1. p.sections \in Seq(S)
    BY PayloadsAreLinked DEF HasTypes
  <1>2. \A s \in S : s.va \in Nat /\ s.virtualSize \in Nat /\ s.raw \in Nat /\ s.rawSize \in Nat
    OBVIOUS
  <1> HIDE DEF S
  <1>3. /\ Len(p.sections) \in Nat /\ DOMAIN p.sections = 1 .. Len(p.sections)
        /\ \A k \in 1 .. Len(p.sections) : p.sections[k] \in S
    BY <1>1, LenProperties, ElementOfSeq
  <1>4. QED
    BY <1>2, <1>3

LEMMA FileWordIsWord ==
  ASSUME NEW p \in Payloads, NEW o \in Nat, o < FileSize(p)
  PROVE  FileWord(p, o) \in 0 .. (AddressSpan - 1)
  <1>1. p.file \in Seq(0 .. (AddressSpan - 1)) /\ FileSize(p) \in Nat
    BY PayloadTypes
  <1>2. o + 1 \in 1 .. Len(p.file)
    BY <1>1 DEF FileSize
  <1>3. QED
    BY <1>1, <1>2, ElementOfSeq DEF FileWord

\* At most one section holds a range.
LEMMA OneSectionHolds ==
  ASSUME NEW p \in Payloads, NEW rva \in Nat, NEW n \in Nat \ {0},
         NEW k \in DOMAIN p.sections, Holds(p, p.sections[k], rva, n)
  PROVE  /\ RvaToFile(p, rva, n) = p.sections[k].raw + (rva - p.sections[k].va)
         /\ p.sections[k].raw + (rva - p.sections[k].va) \in Nat
         /\ (p.sections[k].raw + (rva - p.sections[k].va)) + n <= FileSize(p)
         /\ rva + n <= p.sections[k].va + p.sections[k].rawSize /\ rva >= p.sections[k].va
         /\ p.sections[k].rawSize # 0
  <1> DEFINE s == p.sections[k]
             found == {j \in DOMAIN p.sections : Holds(p, p.sections[j], rva, n)}
  <1>1. /\ s.va \in Nat /\ s.raw \in Nat /\ s.rawSize \in Nat /\ p.headers \in Nat
        /\ DOMAIN p.sections \subseteq Nat
    BY SectionTypes, PayloadTypes
  <1>2. /\ rva >= s.va /\ rva + n <= s.va + s.rawSize
        /\ (s.raw + (rva - s.va)) + n <= FileSize(p)
    BY DEF Holds
  <1>3. s.rawSize # 0
    BY <1>1, <1>2
  <1>4. p.headers <= s.va
    BY <1>3, PayloadsAreLinked DEF SectionsAreApart
  <1>5. ~(rva + n <= p.headers)
    <2> HIDE DEF s
    <2>1. QED
      BY <1>1, <1>2, <1>4
  <1>6. ASSUME NEW j \in DOMAIN p.sections, Holds(p, p.sections[j], rva, n), j # k PROVE FALSE
    <2> DEFINE u == p.sections[j]
    <2>1. u.va \in Nat /\ u.rawSize \in Nat
      BY SectionTypes
    <2>2. rva >= u.va /\ rva + n <= u.va + u.rawSize
      BY <1>6 DEF Holds
    <2>3. u.rawSize # 0
      BY <2>1, <2>2
    <2>4. SectionsAreApart(p)
      BY PayloadsAreLinked
    <2>5. s.va + s.rawSize <= u.va \/ u.va + u.rawSize <= s.va
      BY <1>3, <1>6, <2>3, <2>4 DEF SectionsAreApart
    <2> HIDE DEF s, u
    <2>6. QED
      BY <1>1, <1>2, <2>1, <2>2, <2>5
  <1>7. found = {k}
    BY <1>6
  <1>8. Min({k}) = k
    BY <1>1 DEF Min
  <1>9. RvaToFile(p, rva, n) = s.raw + (rva - s.va)
    BY <1>5, <1>7, <1>8 DEF RvaToFile
  <1>10. s.raw + (rva - s.va) \in Nat
    <2> HIDE DEF s
    <2>1. QED
      BY <1>1, <1>2
  <1>11. QED
    BY <1>2, <1>3, <1>9, <1>10

\* Where a range is found.
LEMMA WhereRangesAre ==
  ASSUME NEW p \in Payloads, NEW rva \in Nat, NEW n \in Nat \ {0},
         RvaToFile(p, rva, n) # NotFound
  PROVE  /\ RvaToFile(p, rva, n) \in Nat /\ RvaToFile(p, rva, n) + n <= FileSize(p)
         /\ \/ rva + n <= p.headers /\ RvaToFile(p, rva, n) = rva
            \/ \E k \in DOMAIN p.sections : Holds(p, p.sections[k], rva, n)
  <1>1. CASE rva + n <= p.headers
    <2>1. RvaToFile(p, rva, n) = rva /\ rva + n <= FileSize(p)
      BY <1>1 DEF RvaToFile
    <2>2. QED
      BY <1>1, <2>1
  <1>2. CASE ~(rva + n <= p.headers)
    <2>1. PICK k \in DOMAIN p.sections : Holds(p, p.sections[k], rva, n)
      BY <1>2 DEF RvaToFile
    <2>2. QED
      BY <2>1, OneSectionHolds
  <1>3. QED
    BY <1>1, <1>2

\* A word of the file is a machine word.
LEMMA PayloadWordIsWord ==
  ASSUME NEW p \in Payloads, NEW rva \in Nat
  PROVE  PayloadWord(p, rva) \in 0 .. (AddressSpan - 1)
  <1> DEFINE at == RvaToFile(p, rva, 1)
  <1>1. CASE at = NotFound
    BY <1>1, SpanIsNumber DEF PayloadWord
  <1>2. CASE at # NotFound
    <2>1. at \in Nat /\ at + 1 <= FileSize(p)
      BY <1>2, WhereRangesAre
    <2>2. PayloadWord(p, rva) = FileWord(p, at)
      BY <1>2 DEF PayloadWord
    <2> HIDE DEF at
    <2>3. at < FileSize(p)
      BY <2>1, PayloadTypes
    <2>4. QED
      BY <2>1, <2>2, <2>3, FileWordIsWord
  <1>3. QED
    BY <1>1, <1>2

LEMMA WordOfSection ==
  ASSUME NEW p \in Payloads, RawIsInside(p, Len(p.sections)), NEW k \in DOMAIN p.sections,
         NEW rva \in RawData(p.sections[k])
  PROVE  PayloadWord(p, rva) = FileWord(p, p.sections[k].raw + (rva - p.sections[k].va))
  <1> DEFINE s == p.sections[k]
  <1>1. /\ s.va \in Nat /\ s.raw \in Nat /\ s.rawSize \in Nat /\ k \in 1 .. Len(p.sections)
        /\ FileSize(p) \in Nat
    BY SectionTypes, PayloadTypes
  <1>2. rva \in Nat /\ s.va <= rva /\ rva + 1 <= s.va + s.rawSize /\ s.rawSize # 0
    <2> DEFINE v == s.va
               z == s.rawSize
    <2>1. rva \in v .. (v + z - 1) /\ v \in Nat /\ z \in Nat
      BY <1>1 DEF RawData
    <2> HIDE DEF v, z
    <2>2. rva \in Nat /\ v <= rva /\ rva + 1 <= v + z /\ z # 0
      BY <2>1
    <2>3. QED
      BY <2>2 DEF v, z
  <1>3. s.raw + s.rawSize <= FileSize(p)
    BY <1>1, <1>2 DEF RawIsInside
  <1>4. (s.raw + (rva - s.va)) + 1 <= FileSize(p)
    <2> DEFINE f == FileSize(p)
               v == s.va
               o == s.raw
               z == s.rawSize
    <2>1. /\ v \in Nat /\ o \in Nat /\ z \in Nat /\ rva \in Nat /\ f \in Nat
          /\ v <= rva /\ rva + 1 <= v + z /\ o + z <= f
      BY <1>1, <1>2, <1>3
    <2> HIDE DEF f, v, o, z
    <2>2. (o + (rva - v)) + 1 <= f
      BY <2>1
    <2>3. QED
      BY <2>2 DEF f, v, o
  <1>5. Holds(p, s, rva, 1)
    BY <1>2, <1>4 DEF Holds
  <1>6. RvaToFile(p, rva, 1) = s.raw + (rva - s.va) /\ s.raw + (rva - s.va) \in Nat
    BY <1>2, <1>5, OneSectionHolds
  <1>7. QED
    BY <1>6 DEF PayloadWord, NotFound

LEMMA WordOutsideSections ==
  ASSUME NEW p \in Payloads, p.headers <= FileSize(p), NEW rva \in Nat,
         \A k \in DOMAIN p.sections : rva \notin RawData(p.sections[k])
  PROVE  PayloadWord(p, rva) = IF rva < p.headers THEN FileWord(p, rva) ELSE 0
  <1>1. p.headers \in Nat /\ FileSize(p) \in Nat
    BY PayloadTypes
  <1>2. CASE rva < p.headers
    <2>1. rva + 1 <= p.headers /\ rva + 1 <= FileSize(p)
      BY <1>1, <1>2
    <2>2. RvaToFile(p, rva, 1) = rva
      BY <2>1 DEF RvaToFile
    <2>3. QED
      BY <1>2, <2>2 DEF PayloadWord, NotFound
  <1>3. CASE ~(rva < p.headers)
    <2>1. ~(rva + 1 <= p.headers)
      BY <1>1, <1>3
    <2>2. ASSUME NEW k \in DOMAIN p.sections, Holds(p, p.sections[k], rva, 1) PROVE FALSE
      <3>1. p.sections[k].va \in Nat /\ p.sections[k].rawSize \in Nat
        BY SectionTypes
      <3>2. rva >= p.sections[k].va /\ rva + 1 <= p.sections[k].va + p.sections[k].rawSize
        BY <2>2 DEF Holds
      <3>3. rva \in RawData(p.sections[k])
        BY <3>1, <3>2 DEF RawData
      <3>4. QED
        BY <3>3
    <2>3. RvaToFile(p, rva, 1) = NotFound
      BY <2>1, <2>2 DEF RvaToFile
    <2>4. QED
      BY <1>3, <2>3 DEF PayloadWord
  <1>4. QED
    BY <1>2, <1>3

-----------------------------------------------------------------------------
(* Relocation.                                                             *)

LEMMA MultiplesVanish ==
  ASSUME NEW s \in Nat \ {0}, NEW x \in Int, NEW y \in Int
  PROVE  (x + s * y) % s = x % s
  <1> DEFINE q == x \div s
             r == x % s
  <1>1. q \in Int /\ r \in Nat /\ r < s /\ x = s * q + r
    BY Division
  <1> HIDE DEF q, r
  <1>2. s * (q + y) = s * q + s * y
    BY <1>1, SMT
  <1>3. x + s * y = s * (q + y) + r
    <2> DEFINE a == s * q
               b == s * y
    <2>1. a \in Int /\ b \in Int /\ x = a + r /\ s * (q + y) = a + b
      BY <1>1, <1>2, SMT
    <2> HIDE DEF a, b
    <2>2. x + b = (a + b) + r
      BY <1>1, <2>1
    <2>3. QED
      BY <2>1, <2>2 DEF b
  <1>4. (s * (q + y) + r) % s = r
    <2> DEFINE z == q + y
    <2>1. z \in Int /\ r \in Int /\ 0 <= r
      BY <1>1
    <2> HIDE DEF z
    <2>2. (s * z + r) % s = r
      BY <1>1, <2>1, RemainderOf
    <2>3. QED
      BY <2>2 DEF z
  <1>5. QED
    BY <1>3, <1>4 DEF r

\* Adding the difference m times more, both sums reduced.
LEMMA MovingOn ==
  ASSUME NEW s \in Nat \ {0}, NEW w \in Int, NEW u \in Int, NEW m \in Int, NEW d \in Int
  PROVE  (((w + u * d) % s) + m * (d % s)) % s = (w + (u + m) * d) % s
  <1> DEFINE A == w + u * d
             a == A \div s
             b == A % s
             e == d \div s
             f == d % s
  <1>1. A \in Int /\ u * d \in Int /\ m * d \in Int
    BY SMT
  <1> HIDE DEF A
  <1>2. a \in Int /\ b \in Nat /\ A = s * a + b
    BY <1>1, Division
  <1>3. e \in Int /\ f \in Nat /\ d = s * e + f
    BY Division
  <1> HIDE DEF a, b, e, f
  <1>4. m * d = m * (s * e) + m * f
    BY <1>3, SMT
  <1>5. m * (s * e) = s * (m * e) /\ m * e \in Int /\ m * f \in Int
    BY <1>3, SMT
  <1> DEFINE k == a + m * e
  <1>6. s * k = s * a + s * (m * e) /\ k \in Int /\ s * a \in Int /\ s * (m * e) \in Int
    BY <1>2, <1>5, SMT
  <1>7. A + m * d = (b + m * f) + s * k
    <2> DEFINE x1 == s * a
               x2 == s * (m * e)
               x3 == m * f
               x4 == m * d
               x5 == s * k
    <2>1. /\ x1 \in Int /\ x2 \in Int /\ x3 \in Int /\ x5 = x1 + x2 /\ x4 = x2 + x3 /\ A = x1 + b
      BY <1>2, <1>4, <1>5, <1>6
    <2> HIDE DEF x1, x2, x3, x4, x5
    <2>2. A + x4 = (b + x3) + x5
      BY <1>2, <2>1
    <2>3. QED
      BY <2>2 DEF x3, x4, x5
  <1> HIDE DEF k
  <1>8. b + m * f \in Int
    BY <1>2, <1>5
  <1>9. ((b + m * f) + s * k) % s = (b + m * f) % s
    <2> DEFINE x == b + m * f
    <2>1. x \in Int
      BY <1>8
    <2> HIDE DEF x
    <2>2. (x + s * k) % s = x % s
      BY <1>6, <2>1, MultiplesVanish
    <2>3. QED
      BY <2>2 DEF x
  <1>10. A + m * d = w + (u + m) * d
    <2>1. (u + m) * d = u * d + m * d
      BY SMT
    <2> DEFINE x1 == u * d
               x2 == m * d
    <2>2. x1 \in Int /\ x2 \in Int /\ A = w + x1 /\ (u + m) * d = x1 + x2
      BY <1>1, <2>1 DEF A
    <2> HIDE DEF x1, x2
    <2>3. A + x2 = w + (x1 + x2)
      BY <2>2
    <2>4. QED
      BY <2>2, <2>3 DEF x2
  <1>11. (w + (u + m) * d) % s = (b + m * f) % s
    BY <1>7, <1>9, <1>10
  <1>12. QED
    BY <1>11 DEF b, f, A

\* The entries of block b, and of the first n blocks, that move an RVA.
MovesIn(b, rva) ==
  {i \in DOMAIN b.entries : b.entries[i].type = DIR64 /\ b.page + b.entries[i].offset = rva}
MovesUpTo(p, n, rva) ==
  {e \in UNION {{m} \X DOMAIN p.relocations[m].entries : m \in 1 .. n} :
     LET b == p.relocations[e[1]]
     IN b.entries[e[2]].type = DIR64 /\ b.page + b.entries[e[2]].offset = rva}
Count(p, n, rva) == Cardinality(MovesUpTo(p, n, rva))

LEMMA BlockTypes ==
  ASSUME NEW p \in Payloads
  PROVE  /\ Len(p.relocations) \in Nat /\ DOMAIN p.relocations = 1 .. Len(p.relocations)
         /\ \A n \in 1 .. Len(p.relocations) :
              \E k \in Nat : DOMAIN p.relocations[n].entries = 1 .. k
  <1> DEFINE E == [type : Nat, offset : Nat]
             B == [page : Nat, inDirectory : BOOLEAN, entries : Seq(E)]
  <1>1. p.relocations \in Seq(B)
    BY PayloadsAreLinked DEF HasTypes
  <1>2. \A b \in B : b.entries \in Seq(E)
    OBVIOUS
  <1> HIDE DEF E, B
  <1>3. /\ Len(p.relocations) \in Nat /\ DOMAIN p.relocations = 1 .. Len(p.relocations)
        /\ \A n \in 1 .. Len(p.relocations) : p.relocations[n] \in B
    BY <1>1, LenProperties, ElementOfSeq
  <1>4. ASSUME NEW n \in 1 .. Len(p.relocations)
        PROVE  \E k \in Nat : DOMAIN p.relocations[n].entries = 1 .. k
    <2>1. p.relocations[n].entries \in Seq(E)
      BY <1>2, <1>3
    <2>2. QED
      BY <2>1, LenProperties
  <1>5. QED
    BY <1>3, <1>4

LEMMA MovesAreFinite ==
  ASSUME NEW p \in Payloads, NEW n \in 1 .. Len(p.relocations), NEW rva
  PROVE  /\ IsFiniteSet(MovesIn(p.relocations[n], rva))
         /\ Moves(p.relocations[n], rva) = Cardinality(MovesIn(p.relocations[n], rva))
         /\ Moves(p.relocations[n], rva) \in Nat
  <1>1. PICK k \in Nat : DOMAIN p.relocations[n].entries = 1 .. k
    BY BlockTypes
  <1>2. IsFiniteSet(1 .. k)
    <2>1. k \in Int
      OBVIOUS
    <2>2. QED
      BY <2>1, FS_Interval
  <1>3. MovesIn(p.relocations[n], rva) \subseteq 1 .. k
    BY <1>1 DEF MovesIn
  <1>4. IsFiniteSet(MovesIn(p.relocations[n], rva))
    BY <1>2, <1>3, FS_Subset
  <1>5. Moves(p.relocations[n], rva) = Cardinality(MovesIn(p.relocations[n], rva))
    BY DEF Moves, MovesIn
  <1>6. QED
    BY <1>4, <1>5, FS_CardinalityType

LEMMA MembersOfMoves ==
  ASSUME NEW p, NEW n, NEW rva, NEW e
  PROVE  e \in MovesUpTo(p, n, rva) <=>
           \E m \in 1 .. n : \E i \in MovesIn(p.relocations[m], rva) : e = <<m, i>>
  <1> DEFINE Moving(m, i) == /\ p.relocations[m].entries[i].type = DIR64
                             /\ p.relocations[m].page + p.relocations[m].entries[i].offset = rva
             D(m) == DOMAIN p.relocations[m].entries
  <1>1. \A m, i : i \in MovesIn(p.relocations[m], rva) <=> i \in D(m) /\ Moving(m, i)
    BY Zenon DEF MovesIn
  <1>2. MovesUpTo(p, n, rva) = {x \in UNION {{m} \X D(m) : m \in 1 .. n} : Moving(x[1], x[2])}
    BY Zenon DEF MovesUpTo
  <1> HIDE DEF Moving, D
  <1>3. ASSUME e \in MovesUpTo(p, n, rva)
        PROVE  \E m \in 1 .. n : \E i \in MovesIn(p.relocations[m], rva) : e = <<m, i>>
    <2>1. e \in UNION {{m} \X D(m) : m \in 1 .. n} /\ Moving(e[1], e[2])
      BY <1>2, <1>3, Zenon
    <2>2. PICK m \in 1 .. n : e \in {m} \X D(m)
      BY <2>1, Zenon
    <2>3. PICK i \in D(m) : e = <<m, i>>
      BY <2>2
    <2>4. e[1] = m /\ e[2] = i
      BY <2>3
    <2>5. i \in MovesIn(p.relocations[m], rva)
      BY <1>1, <2>1, <2>3, <2>4
    <2>6. QED
      BY <2>3, <2>5
  <1>4. ASSUME NEW m \in 1 .. n, NEW i \in MovesIn(p.relocations[m], rva), e = <<m, i>>
        PROVE  e \in MovesUpTo(p, n, rva)
    <2>1. i \in D(m) /\ Moving(m, i)
      BY <1>1
    <2>2. e \in {m} \X D(m) /\ e[1] = m /\ e[2] = i
      BY <1>4, <2>1
    <2>3. e \in UNION {{k} \X D(k) : k \in 1 .. n}
      BY <2>2, Zenon
    <2>4. Moving(e[1], e[2])
      BY <2>1, <2>2
    <2>5. QED
      BY <1>2, <2>3, <2>4, Zenon
  <1>5. QED
    BY <1>3, <1>4, Zenon

\* Another block adds its own moves.
LEMMA NextBlock ==
  ASSUME NEW p \in Payloads, NEW n \in 1 .. Len(p.relocations), NEW rva,
         IsFiniteSet(MovesUpTo(p, n - 1, rva))
  PROVE  /\ IsFiniteSet(MovesUpTo(p, n, rva))
         /\ Count(p, n, rva) = Count(p, n - 1, rva) + Moves(p.relocations[n], rva)
  <1> DEFINE old == MovesUpTo(p, n - 1, rva)
             D == MovesIn(p.relocations[n], rva)
             new == {n} \X D
  <1>1. /\ n \in Nat /\ n - 1 \in Nat /\ n \notin 1 .. (n - 1) /\ n \in 1 .. n
        /\ \A m : m \in 1 .. n <=> m \in 1 .. (n - 1) \/ m = n
    BY BlockTypes
  <1>2. MovesUpTo(p, n, rva) = old \cup new
    <2>1. \A e : e \in new <=> \E i \in D : e = <<n, i>>
      <3> HIDE DEF D
      <3>1. QED
        OBVIOUS
    <2>2. \A e : e \in old <=>
                 \E m \in 1 .. (n - 1) : \E i \in MovesIn(p.relocations[m], rva) : e = <<m, i>>
      BY MembersOfMoves
    <2>3. \A e : e \in MovesUpTo(p, n, rva) <=>
                 \E m \in 1 .. n : \E i \in MovesIn(p.relocations[m], rva) : e = <<m, i>>
      BY MembersOfMoves
    <2> HIDE DEF old, new
    <2>4. \A e : e \in MovesUpTo(p, n, rva) <=> e \in old \/ e \in new
      BY <1>1, <2>1, <2>2, <2>3, Zenon
    <2>5. QED
      BY <2>4
  <1>3. old \cap new = {}
    <2> SUFFICES ASSUME NEW e \in old, e \in new PROVE FALSE
      OBVIOUS
    <2>1. e[1] = n
      <3> HIDE DEF D, old
      <3>1. QED
        OBVIOUS
    <2>2. PICK m \in 1 .. (n - 1) : \E i \in MovesIn(p.relocations[m], rva) : e = <<m, i>>
      BY MembersOfMoves
    <2>3. e[1] = m
      BY <2>2
    <2>4. QED
      BY <1>1, <2>1, <2>2, <2>3
  <1>4. IsFiniteSet(D) /\ Moves(p.relocations[n], rva) = Cardinality(D) /\ Cardinality(D) \in Nat
    BY MovesAreFinite
  <1>5. IsFiniteSet({n}) /\ Cardinality({n}) = 1
    BY FS_Singleton
  <1> HIDE DEF D
  <1>6. IsFiniteSet(new) /\ Cardinality(new) = Cardinality({n}) * Cardinality(D)
    BY <1>4, <1>5, FS_Product
  <1>7. Cardinality(new) = Moves(p.relocations[n], rva)
    BY <1>4, <1>5, <1>6
  <1> HIDE DEF old, new
  <1>8. IsFiniteSet(old)
    BY DEF old
  <1>9. IsFiniteSet(old \cup new) /\ Cardinality(old \cup new) = Cardinality(old) + Cardinality(new)
    <2>1. /\ IsFiniteSet(old \cup new)
          /\ Cardinality(old \cup new) = Cardinality(old) + Cardinality(new) - Cardinality(old \cap new)
      BY <1>6, <1>8, FS_Union
    <2>2. Cardinality(old \cap new) = 0
      BY <1>3, FS_EmptySet
    <2>3. Cardinality(old) \in Nat /\ Cardinality(new) \in Nat
      BY <1>6, <1>8, FS_CardinalityType
    <2>4. QED
      BY <2>1, <2>2, <2>3
  <1>10. QED
    BY <1>2, <1>7, <1>9 DEF Count, old

LEMMA CountsAreNumbers ==
  ASSUME NEW p \in Payloads, NEW rva
  PROVE  \A n \in 0 .. Len(p.relocations) :
           IsFiniteSet(MovesUpTo(p, n, rva)) /\ Count(p, n, rva) \in Nat
  <1> DEFINE N == Len(p.relocations)
             G == {n \in Nat : IsFiniteSet(MovesUpTo(p, n, rva))}
  <1>1. N \in Nat
    BY BlockTypes
  <1>2. 0 \in G
    <2>1. MovesUpTo(p, 0, rva) = {}
      BY DEF MovesUpTo
    <2>2. QED
      BY <2>1, FS_EmptySet
  <1>3. ASSUME NEW n \in 0 .. (N - 1), n \in G PROVE n + 1 \in G
    <2>1. n + 1 \in 1 .. N /\ (n + 1) - 1 = n /\ n + 1 \in Nat
      BY <1>1
    <2> DEFINE k == n + 1
    <2>2. k \in 1 .. N /\ k - 1 = n /\ k \in Nat
      BY <2>1
    <2> HIDE DEF k
    <2>3. IsFiniteSet(MovesUpTo(p, k - 1, rva))
      BY <1>3, <2>2
    <2>4. IsFiniteSet(MovesUpTo(p, k, rva))
      BY <2>2, <2>3, NextBlock
    <2>5. k \in G
      BY <2>2, <2>4
    <2>6. QED
      BY <2>5 DEF k
  <1>4. \A n \in 0 .. N : n \in G
    <2> HIDE DEF G, N
    <2>1. QED
      BY <1>1, <1>2, <1>3, NumberInduction
  <1>5. QED
    BY <1>4, FS_CardinalityType DEF Count

LEMMA CountsAddUp ==
  ASSUME NEW p \in Payloads, NEW rva
  PROVE  /\ Count(p, 0, rva) = 0
         /\ Count(p, Len(p.relocations), rva) = Relocations(p, rva)
         /\ \A n \in 1 .. Len(p.relocations) :
              /\ Count(p, n, rva) = Count(p, n - 1, rva) + Moves(p.relocations[n], rva)
              /\ Count(p, n - 1, rva) \in Nat /\ Moves(p.relocations[n], rva) \in Nat
  <1>1. Count(p, 0, rva) = 0
    <2>1. MovesUpTo(p, 0, rva) = {}
      BY DEF MovesUpTo
    <2>2. QED
      BY <2>1, FS_EmptySet DEF Count
  <1>2. Count(p, Len(p.relocations), rva) = Relocations(p, rva)
    BY BlockTypes DEF Count, MovesUpTo, Relocations
  <1>3. ASSUME NEW n \in 1 .. Len(p.relocations)
        PROVE  /\ Count(p, n, rva) = Count(p, n - 1, rva) + Moves(p.relocations[n], rva)
               /\ Count(p, n - 1, rva) \in Nat /\ Moves(p.relocations[n], rva) \in Nat
    <2>1. n - 1 \in 0 .. Len(p.relocations)
      BY BlockTypes
    <2>2. IsFiniteSet(MovesUpTo(p, n - 1, rva)) /\ Count(p, n - 1, rva) \in Nat
      BY <2>1, CountsAreNumbers
    <2>3. QED
      BY <2>2, NextBlock, MovesAreFinite
  <1>4. QED
    BY <1>1, <1>2, <1>3

\* The words of a range that is found lie side by side, in file and image.
LEMMA WordsOfRanges ==
  ASSUME NEW p \in Payloads, RawIsInside(p, Len(p.sections)), NEW rva \in Nat, NEW n \in Nat \ {0},
         RvaToFile(p, rva, n) # NotFound, NEW i \in 0 .. (n - 1)
  PROVE  /\ PayloadWord(p, rva + i) = FileWord(p, RvaToFile(p, rva, n) + i)
         /\ rva + i \in 0 .. (p.size - 1)
  <1> DEFINE o == RvaToFile(p, rva, n)
  <1>1. /\ o \in Nat /\ p.headers \in Nat /\ p.size \in Nat /\ p.headers <= p.size
        /\ FileSize(p) \in Nat /\ o + n <= FileSize(p) /\ rva + i \in Nat
    BY WhereRangesAre, PayloadTypes
  <1>2. CASE rva + n <= p.headers /\ o = rva
    <2>1. (rva + i) + 1 <= p.headers /\ (rva + i) + 1 <= FileSize(p)
      <3> DEFINE h == p.headers
                 f == FileSize(p)
      <3>1. h \in Nat /\ f \in Nat /\ rva + n <= h /\ rva + n <= f /\ (rva + i) + 1 <= rva + n
        BY <1>1, <1>2
      <3> HIDE DEF h, f
      <3>2. (rva + i) + 1 <= h /\ (rva + i) + 1 <= f
        BY <3>1
      <3>3. QED
        BY <3>2 DEF h, f
    <2>2. RvaToFile(p, rva + i, 1) = rva + i
      BY <2>1 DEF RvaToFile
    <2>3. rva + i # NotFound
      BY <1>1 DEF NotFound
    <2>4. PayloadWord(p, rva + i) = FileWord(p, rva + i)
      BY <2>2, <2>3 DEF PayloadWord
    <2>5. rva + i \in 0 .. (p.size - 1)
      BY <1>1, <2>1
    <2>6. QED
      BY <1>2, <2>4, <2>5
  <1>3. ASSUME NEW k \in DOMAIN p.sections, Holds(p, p.sections[k], rva, n)
        PROVE  /\ PayloadWord(p, rva + i) = FileWord(p, o + i)
               /\ rva + i \in 0 .. (p.size - 1)
    <2> DEFINE v == p.sections[k].va
               z == p.sections[k].rawSize
               w == p.sections[k].raw
    <2>1. v \in Nat /\ z \in Nat /\ w \in Nat /\ k \in 1 .. Len(p.sections)
      BY SectionTypes
    <2>2. o = w + (rva - v) /\ rva + n <= v + z /\ rva >= v /\ z # 0
      BY <1>3, OneSectionHolds
    <2>3. v + z <= p.size
      BY <2>1, <2>2 DEF RawIsInside
    <2>4. RawData(p.sections[k]) = v .. (v + z - 1)
      BY DEF RawData
    <2> HIDE DEF o, v, z, w
    <2>5. rva + i \in v .. (v + z - 1) /\ rva + i \in 0 .. (p.size - 1) /\ w + ((rva + i) - v) = o + i
      <3> DEFINE t == p.size
      <3>1. t \in Nat /\ v + z <= t
        BY <1>1, <2>3
      <3> HIDE DEF t
      <3>2. rva <= rva + i /\ rva + i < rva + n /\ rva + i \in Nat
        OBVIOUS
      <3>3. rva + i \in v .. (v + z - 1)
        BY <2>1, <2>2, <3>2
      <3>4. rva + i \in 0 .. (t - 1)
        BY <2>1, <2>2, <3>1, <3>2
      <3>5. w + ((rva + i) - v) = o + i
        BY <2>1, <2>2
      <3>6. QED
        BY <3>3, <3>4, <3>5 DEF t
    <2>6. PayloadWord(p, rva + i) = FileWord(p, w + ((rva + i) - v))
      BY <2>4, <2>5, WordOfSection DEF v, w
    <2>7. QED
      BY <2>5, <2>6
  <1>4. QED
    BY <1>2, <1>3, WhereRangesAre

-----------------------------------------------------------------------------
(* The invariant of the loader.                                            *)

Fields == {"base", "words", "regions", "executables", "relocated", "template",
           "templateSize", "index", "callbacks"}
Rvas == 0 .. (payload.size - 1)

HasImage ==
  /\ image.base \in Bases /\ Fields \subseteq DOMAIN image
  /\ DOMAIN image.words = Rvas
  /\ payload.headers <= FileSize(payload)

\* What the first n sections have brought into the image.
MappedUpTo(n) ==
  /\ RawIsInside(payload, n)
  /\ \A rva \in Rvas :
       /\ \A j \in 1 .. n : rva \in RawData(payload.sections[j]) =>
            image.words[rva] = FileWord(payload, payload.sections[j].raw
                                                 + (rva - payload.sections[j].va))
       /\ (\A j \in 1 .. n : rva \notin RawData(payload.sections[j])) =>
            image.words[rva] = IF rva < payload.headers THEN FileWord(payload, rva) ELSE 0

\* What n blocks of relocations make of a word.
Moved(n, rva) ==
  (PayloadWord(payload, rva) + Count(payload, n, rva) * (image.base - payload.preferred))
    % AddressSpan

\* Record k names a symbol of the file, and its slot is bound to it.
IsBound(k) ==
  LET r == importRecords[k] IN
    /\ r.iat \in Rvas
    /\ Spared(r.iat) =>
         image.words[r.iat] = IF IsImplemented(r) THEN ImportTargets[<<r.module, r.symbol>>]
                              ELSE StubAddress(k - 1)
    /\ ~IsImplemented(r) /\ StubAddress(k - 1) \notin strays => importStubs[k] = k
\* It was made for entry i of descriptor n, which lies behind.
ComesFrom(k, n, i) ==
  /\ IsEntry(payload, n, i) /\ importRecords[k].iat = payload.imports[n].thunk + i
  /\ importRecords[k].symbol = PayloadWord(payload, LookupWord(payload, payload.imports[n], i))
  /\ loading.phase = "bind" => n < loading.n \/ (n = loading.n /\ i < loading.i)
RecordsAreBound ==
  /\ importRecords \in Seq([module : Nat, symbol : Nat, iat : Nat]) /\ importStubs \in Seq(Nat)
  /\ Len(importStubs) = Len(importRecords)
  /\ \A k \in 1 .. Len(importRecords) :
       IsBound(k) /\ \E n \in DOMAIN payload.imports, i \in Rvas : ComesFrom(k, n, i)

DirectoryIsRead ==
  IF payload.tls = 0 THEN image.templateSize = 0
  ELSE /\ TlsIsValid
       /\ image.template = TlsWord(0) - payload.preferred
       /\ image.templateSize = TlsWord(1) - TlsWord(0)
       /\ image.index = TlsWord(2) - payload.preferred

\* Every entry before the one at hand names a symbol.
PlaceInTable ==
  /\ loading.n \in Nat \ {0} /\ loading.i \in Nat
  /\ loading.n \in DOMAIN payload.imports => \A j \in 0 .. (loading.i - 1) :
       /\ Lookup(payload, payload.imports[loading.n], j) # NotFound
       /\ LookupWord(payload, payload.imports[loading.n], j) # 0

UnboundWordsAreMoved ==
  \A rva \in Rvas :
    Spared(rva) /\ (\A k \in 1 .. Len(importRecords) : importRecords[k].iat # rva) =>
      image.words[rva] = Moved(Len(payload.relocations), rva)

NothingIsBound == importRecords = <<>> /\ importStubs = <<>>

MapInv ==
  /\ HasImage /\ NothingIsBound /\ image.templateSize = 0
  /\ loading.n \in 1 .. (Len(payload.sections) + 1) /\ MappedUpTo(loading.n - 1)
RelocateInv ==
  /\ HasImage /\ NothingIsBound /\ image.templateSize = 0
  /\ RawIsInside(payload, Len(payload.sections))
  /\ loading.n \in 1 .. Len(payload.relocations)
  /\ \A rva \in Rvas : image.words[rva] = Moved(loading.n - 1, rva)
MovedInv ==
  /\ HasImage /\ RawIsInside(payload, Len(payload.sections))
  /\ image.base # payload.preferred => payload.relocations # <<>>
  /\ UnboundWordsAreMoved

LoadInv ==
  /\ payload \in Payloads
  /\ \/ loading.phase = "read" /\ NothingIsBound
     \/ loading.phase = "map" /\ MapInv
     \/ loading.phase = "relocate" /\ RelocateInv
     \/ loading.phase = "directories" /\ MovedInv /\ NothingIsBound /\ image.templateSize = 0
     \/ loading.phase = "bind" /\ MovedInv /\ RecordsAreBound /\ DirectoryIsRead /\ PlaceInTable
     \/ loading.phase = "ready" /\ MovedInv /\ RecordsAreBound /\ BlockIsTheTemplate
     \/ loading.phase = "failed"

LEMMA LoadInvInitially == LoaderInit => LoadInv
  BY DEF LoaderInit, LoadInv, NothingIsBound, At

LEMMA FailKeeps ==
  ASSUME LoadInv, Fail
  PROVE  LoadInv'
  BY DEF LoadInv, Fail, At

LEMMA PhaseInv ==
  ASSUME LoadInv
  PROVE  /\ payload \in Payloads
         /\ loading.phase = "read" => NothingIsBound
         /\ loading.phase = "map" => MapInv
         /\ loading.phase = "relocate" => RelocateInv
         /\ loading.phase = "directories" => MovedInv /\ NothingIsBound /\ image.templateSize = 0
         /\ loading.phase = "bind" => MovedInv /\ RecordsAreBound /\ DirectoryIsRead /\ PlaceInTable
         /\ loading.phase = "ready" => MovedInv /\ RecordsAreBound /\ BlockIsTheTemplate
  BY DEF LoadInv

LEMMA AllocateKeeps ==
  ASSUME LoadInv, NEW base \in Bases, AllocateImage(base)
  PROVE  LoadInv'
  <1> DEFINE w == [rva \in 0 .. (payload.size - 1) |->
                     IF rva < payload.headers THEN FileWord(payload, rva) ELSE 0]
  <1>1. payload \in Payloads /\ NothingIsBound /\ payload' = payload /\ payload.size \in Nat
    BY PhaseInv, PayloadTypes DEF AllocateImage
  <1>2. NothingIsBound'
    BY <1>1 DEF NothingIsBound, AllocateImage
  <1>3. /\ image'.base = base /\ image'.words = w /\ image'.templateSize = 0
        /\ Fields \subseteq DOMAIN image'
    BY DEF AllocateImage, NoImage, Fields
  <1>4. loading'.phase = "map" /\ loading'.n = 1
    BY DEF AllocateImage, At
  <1>5. payload.headers <= FileSize(payload)
    BY DEF AllocateImage, HeadersAreValid
  <1>6. HasImage'
    BY <1>1, <1>3, <1>5 DEF HasImage, Rvas
  <1>7. 1 .. 0 = {} /\ 1 - 1 = 0
    OBVIOUS
  <1>8. RawIsInside(payload, 0)
    BY <1>7 DEF RawIsInside
  <1>9. MappedUpTo(0)'
    BY <1>1, <1>3, <1>7, <1>8 DEF MappedUpTo, Rvas
  <1>10. 1 \in 1 .. (Len(payload.sections) + 1)
    BY <1>1, SectionTypes
  <1>11. MapInv'
    BY <1>1, <1>2, <1>3, <1>4, <1>6, <1>7, <1>9, <1>10 DEF MapInv
  <1>12. QED
    BY <1>1, <1>4, <1>11 DEF LoadInv

\* No two sections share an RVA.
LEMMA RawDataApart ==
  ASSUME NEW p \in Payloads, NEW j \in DOMAIN p.sections, NEW k \in DOMAIN p.sections, j # k,
         NEW rva, rva \in RawData(p.sections[j])
  PROVE  rva \notin RawData(p.sections[k])
  <1> SUFFICES ASSUME rva \in RawData(p.sections[k]) PROVE FALSE
    OBVIOUS
  <1> DEFINE v == p.sections[j].va
             z == p.sections[j].rawSize
             u == p.sections[k].va
             y == p.sections[k].rawSize
  <1>1. v \in Nat /\ z \in Nat /\ u \in Nat /\ y \in Nat
    BY SectionTypes
  <1>2. rva \in v .. (v + z - 1) /\ rva \in u .. (u + y - 1)
    BY DEF RawData
  <1>3. SectionsAreApart(p)
    BY PayloadsAreLinked
  <1>4. z # 0 /\ y # 0 => v + z <= u \/ u + y <= v
    BY <1>3 DEF SectionsAreApart
  <1> HIDE DEF v, z, u, y
  <1>5. rva \in Int /\ v <= rva /\ rva <= v + z - 1 /\ u <= rva /\ rva <= u + y - 1
    BY <1>1, <1>2
  <1>6. z # 0 /\ y # 0
    BY <1>1, <1>5
  <1>7. QED
    BY <1>1, <1>4, <1>5, <1>6

LEMMA MapSectionKeeps ==
  ASSUME LoadInv, MapSection
  PROVE  LoadInv'
  <1>0. PICK n : n = loading.n
    OBVIOUS
  <1> DEFINE s == payload.sections[n]
             N == Len(payload.sections)
  <1>1. /\ payload \in Payloads /\ payload' = payload /\ MapInv /\ s = Section
        /\ n <= N /\ SectionIsValid(s)
    BY <1>0, PhaseInv DEF MapSection, Section
  <1>2. N \in Nat /\ n \in 1 .. N /\ DOMAIN payload.sections = 1 .. N /\ payload.size \in Nat
    BY <1>0, <1>1, SectionTypes, PayloadTypes DEF MapInv
  <1>3. s.va \in Nat /\ s.raw \in Nat /\ s.rawSize \in Nat
    BY <1>1, <1>2, SectionTypes
  <1>4. HasImage /\ NothingIsBound /\ image.templateSize = 0 /\ MappedUpTo(n - 1)
    BY <1>0, <1>1 DEF MapInv
  <1>5. /\ image'.base = image.base /\ DOMAIN image' = DOMAIN image
        /\ image'.templateSize = image.templateSize
        /\ image'.words = [rva \in DOMAIN image.words |->
             IF rva \in s.va .. (s.va + s.rawSize - 1)
               THEN FileWord(payload, s.raw + (rva - s.va)) ELSE image.words[rva]]
    <2>1. {"base", "words", "templateSize", "regions", "executables"} \subseteq DOMAIN image
      BY <1>4 DEF HasImage, Fields
    <2>2. QED
      BY <1>1, <2>1 DEF MapSection
  <1>6. loading'.phase = "map" /\ loading'.n = n + 1
    BY <1>0 DEF MapSection, At
  <1>7. NothingIsBound'
    BY <1>4 DEF NothingIsBound, MapSection
  <1>8. HasImage' /\ Rvas' = Rvas
    BY <1>1, <1>4, <1>5 DEF HasImage, Rvas
  <1>9. \A rva \in Rvas : image'.words[rva] =
          IF rva \in RawData(s) THEN FileWord(payload, s.raw + (rva - s.va)) ELSE image.words[rva]
    BY <1>4, <1>5 DEF RawData, HasImage
  <1>10. \A j : j \in 1 .. n <=> j \in 1 .. (n - 1) \/ j = n
    BY <1>2
  <1>11. RawIsInside(payload, n)
    <2>1. RawIsInside(payload, n - 1)
      BY <1>4 DEF MappedUpTo
    <2>2. s.rawSize # 0 => /\ s.raw + s.rawSize <= FileSize(payload)
                           /\ s.va + s.rawSize <= payload.size
      BY <1>1 DEF SectionIsValid
    <2>3. QED
      BY <1>10, <2>1, <2>2 DEF RawIsInside
  <1>12. ASSUME NEW rva \in Rvas, NEW j \in 1 .. n, rva \in RawData(payload.sections[j])
         PROVE  image'.words[rva] = FileWord(payload, payload.sections[j].raw
                                                      + (rva - payload.sections[j].va))
    <2>1. CASE j = n
      BY <1>9, <1>12, <2>1
    <2>2. CASE j # n
      <3>1. j \in 1 .. (n - 1) /\ j \in 1 .. N
        BY <1>2, <2>2
      <3>2. rva \notin RawData(s)
        BY <1>1, <1>2, <1>12, <2>2, <3>1, RawDataApart
      <3>3. image'.words[rva] = image.words[rva]
        BY <1>9, <3>2
      <3>4. QED
        BY <1>4, <1>12, <3>1, <3>3 DEF MappedUpTo
    <2>3. QED
      BY <2>1, <2>2
  <1>13. ASSUME NEW rva \in Rvas, \A j \in 1 .. n : rva \notin RawData(payload.sections[j])
         PROVE  image'.words[rva] = IF rva < payload.headers THEN FileWord(payload, rva) ELSE 0
    <2>1. image'.words[rva] = image.words[rva]
      BY <1>9, <1>10, <1>13
    <2>2. \A j \in 1 .. (n - 1) : rva \notin RawData(payload.sections[j])
      BY <1>10, <1>13
    <2>3. QED
      BY <1>4, <2>1, <2>2 DEF MappedUpTo
  <1>14. MappedUpTo(n)'
    BY <1>1, <1>6, <1>8, <1>11, <1>12, <1>13 DEF MappedUpTo
  <1>15. (n + 1) - 1 = n /\ n + 1 \in 1 .. (N + 1)
    BY <1>2
  <1>16. MapInv'
    <2>1. image'.templateSize = 0
      BY <1>4, <1>5
    <2>2. MappedUpTo(loading.n - 1)'
      BY <1>6, <1>14, <1>15
    <2>3. QED
      BY <1>1, <1>6, <1>7, <1>8, <1>15, <2>1, <2>2 DEF MapInv
  <1>17. QED
    BY <1>1, <1>6, <1>16 DEF LoadInv

\* Once every section is mapped the image is the file.
LEMMA MappedIsPayload ==
  ASSUME payload \in Payloads, HasImage, MappedUpTo(Len(payload.sections)), NEW rva \in Rvas
  PROVE  image.words[rva] = PayloadWord(payload, rva)
  <1>1. DOMAIN payload.sections = 1 .. Len(payload.sections) /\ rva \in Nat
    BY SectionTypes, PayloadTypes DEF Rvas
  <1>2. RawIsInside(payload, Len(payload.sections)) /\ payload.headers <= FileSize(payload)
    BY DEF MappedUpTo, HasImage
  <1>3. CASE \E j \in DOMAIN payload.sections : rva \in RawData(payload.sections[j])
    <2>1. PICK j \in DOMAIN payload.sections : rva \in RawData(payload.sections[j])
      BY <1>3
    <2>2. PayloadWord(payload, rva)
            = FileWord(payload, payload.sections[j].raw + (rva - payload.sections[j].va))
      BY <1>2, <2>1, WordOfSection
    <2>3. QED
      BY <1>1, <2>1, <2>2 DEF MappedUpTo
  <1>4. CASE \A j \in DOMAIN payload.sections : rva \notin RawData(payload.sections[j])
    <2>1. PayloadWord(payload, rva) = IF rva < payload.headers THEN FileWord(payload, rva) ELSE 0
      BY <1>1, <1>2, <1>4, WordOutsideSections
    <2>2. QED
      BY <1>1, <1>4, <2>1 DEF MappedUpTo
  <1>5. QED
    BY <1>3, <1>4

LEMMA BaseTypes ==
  ASSUME payload \in Payloads, HasImage
  PROVE  /\ image.base \in Nat /\ image.base # 0 /\ image.base < AddressSpan
         /\ payload.preferred \in Nat /\ payload.preferred < AddressSpan
         /\ image.base - payload.preferred \in Int /\ image.base + MaxRva < AddressSpan
  <1> DEFINE b == image.base
             f == payload.preferred
  <1>1. b \in 1 .. (AddressSpan - 1) /\ b + MaxRva < AddressSpan
    BY LoaderAssumption DEF HasImage
  <1>2. f \in 0 .. (AddressSpan - 1)
    BY PayloadTypes
  <1> HIDE DEF b, f
  <1>3. b \in Nat /\ b # 0 /\ b < AddressSpan /\ f \in Nat /\ f < AddressSpan /\ b - f \in Int
    BY <1>1, <1>2, SpanIsNumber
  <1>4. QED
    BY <1>1, <1>3 DEF b, f

\* An image that has not moved needs no relocation.
LEMMA NoDelta ==
  ASSUME payload \in Payloads, HasImage, Delta = 0
  PROVE  image.base = payload.preferred
  <1> DEFINE b == image.base
             f == payload.preferred
             q == (b - f) \div AddressSpan
  <1>1. b \in Nat /\ b < AddressSpan /\ f \in Nat /\ f < AddressSpan /\ b - f \in Int
    BY BaseTypes
  <1>2. AddressSpan \in Nat \ {0}
    BY SpanIsNumber
  <1>3. (b - f) % AddressSpan = 0
    BY DEF Delta
  <1> HIDE DEF b, f
  <1>4. q \in Int /\ b - f = AddressSpan * q + ((b - f) % AddressSpan)
    BY <1>1, <1>2, Division
  <1> HIDE DEF q
  <1>5. b - f = AddressSpan * q
    <2> DEFINE x == AddressSpan * q
    <2>1. x \in Int
      BY <1>2, <1>4
    <2>2. QED
      BY <1>3, <1>4, <2>1
  <1>6. b - f < AddressSpan /\ -AddressSpan < b - f
    BY <1>1, <1>2
  <1>7. q >= 1 => AddressSpan * q >= AddressSpan
    BY <1>2, <1>4, SMT
  <1>8. q <= -1 => AddressSpan * q <= -AddressSpan
    BY <1>2, <1>4, SMT
  <1>9. q = 0
    <2> DEFINE x == AddressSpan * q
    <2>1. x < AddressSpan /\ -AddressSpan < x /\ x \in Int
      BY <1>1, <1>5, <1>6
    <2>2. (q >= 1 => x >= AddressSpan) /\ (q <= -1 => x <= -AddressSpan)
      BY <1>7, <1>8
    <2> HIDE DEF x
    <2>3. QED
      BY <1>2, <1>4, <2>1, <2>2
  <1>10. AddressSpan * 0 = 0
    BY <1>2
  <1>11. b = f
    BY <1>1, <1>5, <1>9, <1>10
  <1>12. QED
    BY <1>11 DEF b, f

\* A word that nothing moves, or that moves by nothing.
LEMMA NotMoved ==
  ASSUME payload \in Payloads, HasImage, NEW rva \in Rvas
  PROVE  /\ Moved(0, rva) = PayloadWord(payload, rva)
         /\ image.base = payload.preferred =>
              Moved(Len(payload.relocations), rva) = PayloadWord(payload, rva)
  <1> DEFINE w == PayloadWord(payload, rva)
             d == image.base - payload.preferred
             c == Count(payload, Len(payload.relocations), rva)
  <1>1. AddressSpan \in Nat \ {0} /\ rva \in Nat
    BY SpanIsNumber, PayloadTypes DEF Rvas
  <1>2. w \in 0 .. (AddressSpan - 1)
    BY <1>1, PayloadWordIsWord
  <1>3. d \in Int /\ (image.base = payload.preferred => d = 0)
    BY BaseTypes
  <1>4. c \in Nat
    <2>1. Len(payload.relocations) \in 0 .. Len(payload.relocations)
      BY BlockTypes
    <2>2. QED
      BY <2>1, CountsAreNumbers
  <1>5. Count(payload, 0, rva) = 0
    BY CountsAddUp
  <1>6. Moved(0, rva) = (w + 0 * d) % AddressSpan
    BY <1>5 DEF Moved
  <1>7. Moved(Len(payload.relocations), rva) = (w + c * d) % AddressSpan
    BY DEF Moved
  <1> HIDE DEF w, d, c
  <1>8. 0 * d = 0 /\ c * 0 = 0
    BY <1>3, <1>4
  <1>9. (w + 0) % AddressSpan = w
    BY <1>1, <1>2
  <1>10. Moved(0, rva) = w
    BY <1>6, <1>8, <1>9
  <1>11. image.base = payload.preferred => Moved(Len(payload.relocations), rva) = w
    BY <1>3, <1>7, <1>8, <1>9
  <1>12. QED
    BY <1>10, <1>11 DEF w

LEMMA StartRelocationsKeeps ==
  ASSUME LoadInv, StartRelocations
  PROVE  LoadInv'
  <1> DEFINE N == Len(payload.sections)
  <1>1. payload \in Payloads /\ MapInv /\ loading.n > N
    BY PhaseInv DEF StartRelocations
  <1>2. N \in Nat
    BY <1>1, SectionTypes
  <1>3. HasImage /\ NothingIsBound /\ image.templateSize = 0 /\ MappedUpTo(N)
    <2>1. loading.n - 1 = N
      BY <1>1, <1>2 DEF MapInv
    <2>2. QED
      BY <1>1, <2>1 DEF MapInv
  <1>4. RawIsInside(payload, N)
    BY <1>3 DEF MappedUpTo
  <1>5. \A rva \in Rvas : image.words[rva] = PayloadWord(payload, rva)
    BY <1>1, <1>3, MappedIsPayload
  <1>6. CASE Delta = 0
    <2>1. /\ image' = [image EXCEPT !.relocated = TRUE] /\ loading' = At("directories", 1, 0)
          /\ UNCHANGED <<payload, importRecords, importStubs, tlsArea, strays>>
      BY <1>6 DEF StartRelocations
    <2>2. /\ image'.base = image.base /\ DOMAIN image' = DOMAIN image
          /\ image'.templateSize = image.templateSize /\ image'.words = image.words
      <3>1. {"base", "words", "templateSize", "relocated"} \subseteq DOMAIN image
        BY <1>3 DEF HasImage, Fields
      <3>2. QED
        BY <2>1, <3>1
    <2>3. image.base = payload.preferred
      BY <1>1, <1>3, <1>6, NoDelta
    <2>4. \A rva \in Rvas : image.words[rva] = Moved(Len(payload.relocations), rva)
      BY <1>1, <1>3, <1>5, <2>3, NotMoved
    <2>5. HasImage' /\ Rvas' = Rvas /\ NothingIsBound'
      BY <1>3, <2>1, <2>2 DEF HasImage, Rvas, NothingIsBound
    <2>6. UnboundWordsAreMoved'
      BY <2>1, <2>2, <2>4, <2>5 DEF UnboundWordsAreMoved, Moved
    <2>7. MovedInv'
      BY <1>4, <2>1, <2>2, <2>3, <2>5, <2>6 DEF MovedInv
    <2>8. loading'.phase = "directories"
      BY <2>1 DEF At
    <2>9. QED
      BY <1>1, <1>3, <2>1, <2>2, <2>5, <2>7, <2>8 DEF LoadInv
  <1>7. CASE Delta # 0 /\ payload.relocations = <<>>
    BY <1>7, FailKeeps DEF StartRelocations
  <1>8. CASE Delta # 0 /\ payload.relocations # <<>>
    <2>1. /\ loading' = At("relocate", 1, 0)
          /\ UNCHANGED <<payload, image, importRecords, importStubs, tlsArea, strays>>
      BY <1>8 DEF StartRelocations
    <2>2. loading'.phase = "relocate" /\ loading'.n = 1 /\ 1 - 1 = 0
      BY <2>1 DEF At
    <2>3. 1 \in 1 .. Len(payload.relocations)
      <3>1. payload.relocations \in Seq([page : Nat, inDirectory : BOOLEAN,
                                         entries : Seq([type : Nat, offset : Nat])])
        BY <1>1, PayloadsAreLinked DEF HasTypes
      <3>2. Len(payload.relocations) # 0
        BY <1>8, <3>1, EmptySeq
      <3>3. QED
        BY <1>1, <3>2, BlockTypes
    <2>4. \A rva \in Rvas : image.words[rva] = Moved(0, rva)
      BY <1>1, <1>3, <1>5, NotMoved
    <2>5. HasImage' /\ Rvas' = Rvas /\ NothingIsBound'
      BY <1>3, <2>1 DEF HasImage, Rvas, NothingIsBound
    <2>6. \A rva \in Rvas : image'.words[rva] = Moved(0, rva)'
      BY <2>1, <2>4 DEF Moved
    <2>7. RelocateInv'
      BY <1>3, <1>4, <2>1, <2>2, <2>3, <2>5, <2>6 DEF RelocateInv
    <2>8. QED
      BY <1>1, <2>1, <2>2, <2>7 DEF LoadInv
  <1>9. QED
    BY <1>6, <1>7, <1>8

\* A block of relocations moves every word as often as it names it.
LEMMA MovedByBlock ==
  ASSUME payload \in Payloads, HasImage, NEW n \in 1 .. Len(payload.relocations), NEW rva \in Rvas
  PROVE  (Moved(n - 1, rva) + Moves(payload.relocations[n], rva) * Delta) % AddressSpan = Moved(n, rva)
  <1> DEFINE w == PayloadWord(payload, rva)
             d == image.base - payload.preferred
             u == Count(payload, n - 1, rva)
             m == Moves(payload.relocations[n], rva)
  <1>1. AddressSpan \in Nat \ {0} /\ rva \in Nat
    BY SpanIsNumber, PayloadTypes DEF Rvas
  <1>2. w \in Int /\ d \in Int
    BY <1>1, PayloadWordIsWord, BaseTypes
  <1>3. u \in Int /\ m \in Int /\ Count(payload, n, rva) = u + m
    <2>1. Count(payload, n, rva) = u + m /\ u \in Nat /\ m \in Nat
      BY CountsAddUp, Zenon
    <2> HIDE DEF u, m
    <2>2. QED
      BY <2>1
  <1>4. Moved(n - 1, rva) = (w + u * d) % AddressSpan
    BY Zenon DEF Moved
  <1>5. Moved(n, rva) = (w + (u + m) * d) % AddressSpan
    BY <1>3, Zenon DEF Moved
  <1>6. Delta = d % AddressSpan
    BY Zenon DEF Delta
  <1> HIDE DEF w, d, u, m
  <1>7. (((w + u * d) % AddressSpan) + m * (d % AddressSpan)) % AddressSpan
          = (w + (u + m) * d) % AddressSpan
    <2>1. AddressSpan \in Nat \ {0} /\ w \in Int /\ u \in Int /\ m \in Int /\ d \in Int
      BY <1>1, <1>2, <1>3
    <2>2. \A s \in Nat \ {0} : \A a, b, c, e \in Int :
            (((a + b * e) % s) + c * (e % s)) % s = (a + (b + c) * e) % s
      BY MovingOn, Zenon
    <2>3. \A a, b, c, e \in Int :
            (((a + b * e) % AddressSpan) + c * (e % AddressSpan)) % AddressSpan
              = (a + (b + c) * e) % AddressSpan
      BY <2>1, <2>2, Zenon
    <2>4. \A c, e \in Int :
            (((w + u * e) % AddressSpan) + c * (e % AddressSpan)) % AddressSpan
              = (w + (u + c) * e) % AddressSpan
      BY <2>1, <2>3, Zenon
    <2>5. QED
      BY <2>1, <2>4, Zenon
  <1>8. QED
    BY <1>4, <1>5, <1>6, <1>7, Zenon DEF m

LEMMA RelocateBlockKeeps ==
  ASSUME LoadInv, RelocateBlock
  PROVE  LoadInv'
  <1>0. PICK n : n = loading.n
    OBVIOUS
  <1> DEFINE N == Len(payload.relocations)
  <1>1. payload \in Payloads /\ payload' = payload /\ RelocateInv
    BY PhaseInv DEF RelocateBlock
  <1>2. N \in Nat /\ n \in 1 .. N
    BY <1>0, <1>1, BlockTypes DEF RelocateInv
  <1>3. /\ HasImage /\ NothingIsBound /\ image.templateSize = 0
        /\ RawIsInside(payload, Len(payload.sections))
        /\ \A rva \in Rvas : image.words[rva] = Moved(n - 1, rva)
    BY <1>0, <1>1 DEF RelocateInv
  <1>4. /\ image'.base = image.base /\ DOMAIN image' = DOMAIN image
        /\ image'.templateSize = image.templateSize
        /\ image'.words = [rva \in DOMAIN image.words |->
             (image.words[rva] + Moves(payload.relocations[n], rva) * Delta) % AddressSpan]
    <2>1. {"base", "words", "templateSize", "relocated"} \subseteq DOMAIN image
      BY <1>3 DEF HasImage, Fields
    <2>2. QED
      BY <1>0, <2>1 DEF RelocateBlock, RelocationBlock
  <1>5. ASSUME NEW rva \in Rvas PROVE image'.words[rva] = Moved(n, rva)
    <2>1. image'.words[rva]
            = (image.words[rva] + Moves(payload.relocations[n], rva) * Delta) % AddressSpan
      BY <1>3, <1>4 DEF HasImage
    <2>2. image.words[rva] = Moved(n - 1, rva)
      BY <1>3
    <2>3. QED
      BY <1>1, <1>2, <1>3, <2>1, <2>2, MovedByBlock
  <1>6. HasImage' /\ Rvas' = Rvas /\ NothingIsBound'
    BY <1>1, <1>3, <1>4 DEF HasImage, Rvas, NothingIsBound, RelocateBlock
  <1>7. \A rva \in Rvas : image'.words[rva] = Moved(n, rva)'
    BY <1>1, <1>4, <1>5 DEF Moved
  <1>8. CASE n = N
    <2>1. loading'.phase = "directories"
      BY <1>0, <1>8 DEF RelocateBlock, At
    <2>2. UnboundWordsAreMoved'
      BY <1>1, <1>6, <1>7, <1>8 DEF UnboundWordsAreMoved
    <2>3. payload.relocations # <<>>
      BY <1>2
    <2>4. MovedInv'
      BY <1>1, <1>3, <1>6, <2>2, <2>3 DEF MovedInv
    <2>5. QED
      BY <1>1, <1>3, <1>4, <1>6, <2>1, <2>4 DEF LoadInv
  <1>9. CASE n # N
    <2>1. loading'.phase = "relocate" /\ loading'.n = n + 1
      BY <1>0, <1>9 DEF RelocateBlock, At
    <2>2. n + 1 \in 1 .. N /\ (n + 1) - 1 = n
      BY <1>2, <1>9
    <2>3. RelocateInv'
      BY <1>1, <1>3, <1>4, <1>6, <1>7, <2>1, <2>2 DEF RelocateInv
    <2>4. QED
      BY <1>1, <2>1, <2>3 DEF LoadInv
  <1>10. QED
    BY <1>8, <1>9

LEMMA ReadDirectoriesKeeps ==
  ASSUME LoadInv, ReadDirectories
  PROVE  LoadInv'
  <1>1. payload \in Payloads /\ MovedInv /\ NothingIsBound /\ image.templateSize = 0
    BY PhaseInv DEF ReadDirectories
  <1>2. CASE ~(payload.exported /\ (payload.tls # 0 => TlsIsValid))
    BY <1>2, FailKeeps DEF ReadDirectories
  <1>3. CASE payload.exported /\ (payload.tls # 0 => TlsIsValid)
    <2>1. /\ loading' = At("bind", 1, 0)
          /\ UNCHANGED <<payload, importRecords, importStubs, tlsArea, strays>>
          /\ image' = IF payload.tls = 0 THEN image ELSE
               [image EXCEPT !.template = TlsWord(0) - payload.preferred,
                             !.templateSize = TlsWord(1) - TlsWord(0),
                             !.index = TlsWord(2) - payload.preferred,
                             !.callbacks = IF TlsWord(3) = 0 THEN 0
                                           ELSE TlsWord(3) - payload.preferred]
      BY <1>3 DEF ReadDirectories
    <2>2. HasImage
      BY <1>1 DEF MovedInv
    <2>3. {"base", "words", "template", "templateSize", "index", "callbacks"} \subseteq DOMAIN image
      BY <2>2 DEF HasImage, Fields
    <2>4. /\ image'.base = image.base /\ DOMAIN image' = DOMAIN image
          /\ image'.words = image.words
      <3> DEFINE a == TlsWord(0) - payload.preferred
                 b == TlsWord(1) - TlsWord(0)
                 c == TlsWord(2) - payload.preferred
                 e == IF TlsWord(3) = 0 THEN 0 ELSE TlsWord(3) - payload.preferred
      <3>1. image' = IF payload.tls = 0 THEN image ELSE
                       [image EXCEPT !.template = a, !.templateSize = b, !.index = c, !.callbacks = e]
        BY <2>1
      <3> HIDE DEF a, b, c, e
      <3>2. QED
        BY <2>3, <3>1
    <2>5. DirectoryIsRead'
      <3>1. TlsWord(0)' = TlsWord(0) /\ TlsWord(1)' = TlsWord(1) /\ TlsWord(2)' = TlsWord(2)
        BY <2>1 DEF TlsWord
      <3>2. TlsIsValid' <=> TlsIsValid
        BY <2>1 DEF TlsIsValid, TlsWord
      <3>3. CASE payload.tls = 0
        BY <1>1, <2>1, <3>3 DEF DirectoryIsRead
      <3>4. CASE payload.tls # 0
        <4> DEFINE a == TlsWord(0) - payload.preferred
                   b == TlsWord(1) - TlsWord(0)
                   c == TlsWord(2) - payload.preferred
                   e == IF TlsWord(3) = 0 THEN 0 ELSE TlsWord(3) - payload.preferred
        <4>1. image' = [image EXCEPT !.template = a, !.templateSize = b, !.index = c, !.callbacks = e]
          BY <2>1, <3>4
        <4> HIDE DEF a, b, c, e
        <4>2. image'.template = a /\ image'.templateSize = b /\ image'.index = c
          BY <2>3, <4>1
        <4>3. QED
          BY <1>3, <2>1, <3>1, <3>2, <3>4, <4>2 DEF DirectoryIsRead, a, b, c
      <3>5. QED
        BY <3>3, <3>4
    <2>6. MovedInv'
      BY <1>1, <2>1, <2>4 DEF MovedInv, HasImage, Rvas, UnboundWordsAreMoved, Moved, Spared
    <2>7. RecordsAreBound'
      BY <1>1, <2>1 DEF NothingIsBound, RecordsAreBound
    <2>8. loading'.phase = "bind" /\ loading'.n = 1 /\ loading'.i = 0
      BY <2>1 DEF At
    <2>9. PlaceInTable'
      BY <2>8 DEF PlaceInTable
    <2>10. QED
      BY <1>1, <2>1, <2>5, <2>6, <2>7, <2>8, <2>9 DEF LoadInv
  <1>4. QED
    BY <1>2, <1>3

-----------------------------------------------------------------------------
(* The import table.                                                       *)

LEMMA ImportTypes ==
  ASSUME NEW p \in Payloads
  PROVE  /\ Len(p.imports) \in Nat /\ DOMAIN p.imports = 1 .. Len(p.imports)
         /\ \A n \in DOMAIN p.imports :
              p.imports[n].lookup \in Nat /\ p.imports[n].name \in Nat /\ p.imports[n].thunk \in Nat
  <1> DEFINE D == [lookup : Nat, name : Nat, thunk : Nat]
  <1>1. p.imports \in Seq(D)
    BY PayloadsAreLinked DEF HasTypes
  <1>2. \A d \in D : d.lookup \in Nat /\ d.name \in Nat /\ d.thunk \in Nat
    OBVIOUS
  <1> HIDE DEF D
  <1>3. /\ Len(p.imports) \in Nat /\ DOMAIN p.imports = 1 .. Len(p.imports)
        /\ \A k \in 1 .. Len(p.imports) : p.imports[k] \in D
    BY <1>1, LenProperties, ElementOfSeq
  <1>4. QED
    BY <1>2, <1>3

LEMMA FoundWord ==
  ASSUME NEW p \in Payloads, NEW rva \in Nat, RvaToFile(p, rva, 1) # NotFound
  PROVE  /\ PayloadWord(p, rva) = FileWord(p, RvaToFile(p, rva, 1))
         /\ FileWord(p, RvaToFile(p, rva, 1)) \in Nat
  <1>1. PayloadWord(p, rva) = FileWord(p, RvaToFile(p, rva, 1))
    BY DEF PayloadWord
  <1>2. PayloadWord(p, rva) \in Nat
    BY PayloadWordIsWord, SpanIsNumber
  <1>3. QED
    BY <1>1, <1>2

\* The words of a lookup table.
LEMMA LookupTypes ==
  ASSUME NEW p \in Payloads, NEW n \in DOMAIN p.imports, NEW i \in Nat,
         Lookup(p, p.imports[n], i) # NotFound
  PROVE  LookupWord(p, p.imports[n], i) \in Nat
  <1>1. p.imports[n].lookup \in Nat /\ p.imports[n].thunk \in Nat
    BY ImportTypes
  <1>2. LookupRva(p.imports[n]) \in Nat
    BY <1>1 DEF LookupRva
  <1>3. LookupRva(p.imports[n]) + i \in Nat
    BY <1>2
  <1>4. QED
    BY <1>3, FoundWord DEF Lookup, LookupWord

\* What resolve_imports knows of the entry that it binds.
LEMMA EntryAtHand ==
  ASSUME LoadInv, BindSymbol
  PROVE  LET n == loading.n
             i == loading.i
             d == payload.imports[n]
             r == [module |-> FileWord(payload, RvaToFile(payload, d.name, 1)),
                   symbol |-> FileWord(payload, RvaToFile(payload, LookupWord(payload, d, i), 1)),
                   iat |-> d.thunk + i]
         IN /\ n \in DOMAIN payload.imports /\ n \in Nat /\ i \in Rvas /\ i \in Nat
            /\ r.iat \in Rvas /\ r.iat \in Nat /\ r \in [module : Nat, symbol : Nat, iat : Nat]
            /\ IsEntry(payload, n, i)
            /\ r.symbol = PayloadWord(payload, LookupWord(payload, d, i))
            /\ importRecords' = Append(importRecords, r)
            /\ image' = [image EXCEPT !.words = [AfterStub(r) EXCEPT ![r.iat] =
                 IF IsImplemented(r) THEN ImportTargets[<<r.module, r.symbol>>]
                 ELSE StubAddress(Len(importRecords))]]
            /\ strays' = strays \cup StrayStub(r)
            /\ importStubs' = Append(importStubs,
                                     IF IsImplemented(r) THEN 0 ELSE Len(importRecords) + 1)
  <1> DEFINE n == loading.n
             i == loading.i
             d == payload.imports[n]
             w == LookupWord(payload, d, i)
             m == FileWord(payload, RvaToFile(payload, d.name, 1))
             f == FileWord(payload, RvaToFile(payload, w, 1))
             r == [module |-> m, symbol |-> f, iat |-> d.thunk + i]
  <1>1. payload \in Payloads /\ loading.phase = "bind" /\ n <= Len(payload.imports) /\ PlaceInTable
    BY PhaseInv DEF BindSymbol, AtEntry
  <1>2. Len(payload.imports) \in Nat /\ DOMAIN payload.imports = 1 .. Len(payload.imports)
    BY <1>1, ImportTypes
  <1>3. n \in Nat /\ i \in Nat
    BY <1>1 DEF PlaceInTable
  <1>4. DescriptorIsValid(d) /\ Lookup(payload, d, i) # NotFound /\ w # 0 /\ LookupIsValid(d, i)
    BY DEF BindSymbol, EntryIsReadable, Descriptor
  <1>5. n \in DOMAIN payload.imports
    <2>1. n # 0
      BY <1>1 DEF PlaceInTable
    <2>2. QED
      BY <1>1, <1>2, <1>3, <2>1
  <1>6. d.name \in Nat /\ d.thunk \in Nat
    BY <1>1, <1>5, ImportTypes
  <1>7. m \in Nat
    BY <1>1, <1>4, <1>6, FoundWord DEF DescriptorIsValid
  <1>8. w \in Nat
    BY <1>1, <1>3, <1>4, <1>5, LookupTypes
  <1>9. f = PayloadWord(payload, w) /\ f \in Nat
    <2>1. RvaToFile(payload, w, 1) # NotFound
      BY <1>4 DEF LookupIsValid, LookupNamesSymbol
    <2> HIDE DEF w
    <2>2. QED
      BY <1>1, <1>8, <2>1, FoundWord
  <1>10. d.thunk + i \in Rvas /\ i \in Rvas /\ d.thunk + i \in Nat
    <2>1. (d.thunk + i) + 1 <= payload.size
      BY <1>4 DEF LookupIsValid, LookupNamesSymbol, InImage
    <2>2. payload.size \in Nat
      BY <1>1, PayloadTypes
    <2> DEFINE t == d.thunk
               z == payload.size
    <2>3. t \in Nat /\ z \in Nat /\ i \in Nat /\ (t + i) + 1 <= z
      BY <1>3, <1>6, <2>1, <2>2
    <2> HIDE DEF t, z, i
    <2>4. t + i \in 0 .. (z - 1) /\ i \in 0 .. (z - 1) /\ t + i \in Nat
      BY <2>3
    <2>5. QED
      BY <2>4 DEF t, z, Rvas
  <1>11. IsEntry(payload, n, i)
    <2>1. \A j \in 0 .. (i - 1) : Lookup(payload, d, j) # NotFound /\ LookupWord(payload, d, j) # 0
      BY <1>1, <1>5 DEF PlaceInTable
    <2>2. \A j \in 0 .. i : j \in 0 .. (i - 1) \/ j = i
      BY <1>3
    <2>3. QED
      BY <1>4, <2>1, <2>2 DEF IsEntry
  <1>12. /\ importRecords' = Append(importRecords, r)
         /\ image' = [image EXCEPT !.words = [AfterStub(r) EXCEPT ![r.iat] =
              IF IsImplemented(r) THEN ImportTargets[<<r.module, r.symbol>>]
              ELSE StubAddress(Len(importRecords))]]
         /\ strays' = strays \cup StrayStub(r)
         /\ importStubs' = Append(importStubs,
                                  IF IsImplemented(r) THEN 0 ELSE Len(importRecords) + 1)
    BY Zenon DEF BindSymbol, Descriptor, StubNumber
  <1> HIDE DEF m, f
  <1>13. r.iat = d.thunk + i /\ r.symbol = f /\ r \in [module : Nat, symbol : Nat, iat : Nat]
    BY <1>7, <1>9, <1>10
  <1>14. QED
    BY <1>3, <1>5, <1>9, <1>10, <1>11, <1>12, <1>13, Zenon DEF m, f

\* Two entries of the table have two slots.
LEMMA SlotsDiffer ==
  ASSUME NEW p \in Payloads, NEW n \in DOMAIN p.imports, NEW i \in 0 .. (p.size - 1),
         NEW m \in DOMAIN p.imports, NEW j \in 0 .. (p.size - 1),
         IsEntry(p, n, i), IsEntry(p, m, j), p.imports[m].thunk + j = p.imports[n].thunk + i
  PROVE  m = n /\ j = i
  <1>1. SlotsAreApart(p)
    BY PayloadsAreLinked
  <1>2. QED
    BY <1>1, Zenon DEF SlotsAreApart

\* The slot of the entry at hand belongs to no record yet.
LEMMA SlotIsNew ==
  ASSUME payload \in Payloads, RecordsAreBound, loading.phase = "bind",
         NEW n \in DOMAIN payload.imports, n = loading.n, NEW i \in Rvas, i = loading.i,
         IsEntry(payload, n, i), NEW k \in 1 .. Len(importRecords)
  PROVE  importRecords[k].iat # payload.imports[n].thunk + i
  <1> SUFFICES ASSUME importRecords[k].iat = payload.imports[n].thunk + i PROVE FALSE
    OBVIOUS
  <1>1. PICK m \in DOMAIN payload.imports, j \in Rvas : ComesFrom(k, m, j)
    BY DEF RecordsAreBound
  <1>2. /\ IsEntry(payload, m, j) /\ importRecords[k].iat = payload.imports[m].thunk + j
        /\ m < loading.n \/ (m = loading.n /\ j < loading.i)
    BY <1>1 DEF ComesFrom
  <1>3. m = n /\ j = i
    BY <1>1, <1>2, SlotsDiffer DEF Rvas
  <1>4. m \in Int /\ j \in Int
    BY <1>1, ImportTypes, PayloadTypes DEF Rvas
  <1>5. QED
    BY <1>2, <1>3, <1>4

LEMMA BindSymbolKeeps ==
  ASSUME LoadInv, BindSymbol
  PROVE  LoadInv'
  <1>0. PICK n, i : n = loading.n /\ i = loading.i
    OBVIOUS
  <1> DEFINE d == payload.imports[n]
             R == [module : Nat, symbol : Nat, iat : Nat]
             r == [module |-> FileWord(payload, RvaToFile(payload, d.name, 1)),
                   symbol |-> FileWord(payload, RvaToFile(payload, LookupWord(payload, d, i), 1)),
                   iat |-> d.thunk + i]
             N == Len(importRecords)
             v == IF IsImplemented(r) THEN ImportTargets[<<r.module, r.symbol>>] ELSE StubAddress(N)
             x == IF IsImplemented(r) THEN 0 ELSE N + 1
  <1>1. /\ n \in DOMAIN payload.imports /\ n \in Nat /\ i \in Rvas /\ i \in Nat
        /\ r.iat \in Rvas /\ r.iat \in Nat /\ r \in R
        /\ IsEntry(payload, n, i)
        /\ r.symbol = PayloadWord(payload, LookupWord(payload, d, i))
        /\ importRecords' = Append(importRecords, r)
        /\ image' = [image EXCEPT !.words = [AfterStub(r) EXCEPT ![r.iat] = v]]
        /\ strays' = strays \cup StrayStub(r)
        /\ importStubs' = Append(importStubs, x)
    BY <1>0, EntryAtHand, Zenon
  <1>2. r.iat = d.thunk + i
    BY Zenon
  <1>3. /\ payload \in Payloads /\ payload' = payload /\ loading.phase = "bind"
        /\ MovedInv /\ RecordsAreBound /\ DirectoryIsRead /\ PlaceInTable
        /\ loading'.phase = "bind" /\ loading'.n = n /\ loading'.i = i + 1
    BY <1>0, PhaseInv DEF BindSymbol, AtEntry, At
  <1>4. HasImage
    BY <1>3 DEF MovedInv
  <1> HIDE DEF r, v, x
  <1>5. /\ image'.base = image.base /\ DOMAIN image' = DOMAIN image
        /\ image'.templateSize = image.templateSize /\ image'.template = image.template
        /\ image'.index = image.index /\ image'.words = [AfterStub(r) EXCEPT ![r.iat] = v]
    <2>1. {"base", "words", "template", "templateSize", "index"} \subseteq DOMAIN image
      BY <1>4 DEF HasImage, Fields
    <2>2. QED
      BY <1>1, <2>1
  <1>6. HasImage' /\ Rvas' = Rvas
    BY <1>3, <1>4, <1>5 DEF HasImage, Rvas, AfterStub
  <1>7. /\ image'.words[r.iat] = v
        /\ \A rva \in Rvas : rva # r.iat /\ Spared(rva)' => image'.words[rva] = image.words[rva]
        /\ \A rva : Spared(rva)' => Spared(rva)
    BY <1>1, <1>4, <1>5 DEF HasImage, AfterStub, Spared
  <1>8. N \in Nat /\ importRecords \in Seq(R) /\ importStubs \in Seq(Nat) /\ Len(importStubs) = N
    BY <1>3, LenProperties DEF RecordsAreBound
  <1>9. x \in Nat
    BY <1>8 DEF x
  <1> HIDE DEF R
  <1>10. /\ importRecords' \in Seq(R) /\ Len(importRecords') = N + 1 /\ importRecords'[N + 1] = r
         /\ \A k \in 1 .. N : importRecords'[k] = importRecords[k]
    BY <1>1, <1>8, AppendProperties
  <1>11. /\ importStubs' \in Seq(Nat) /\ Len(importStubs') = N + 1 /\ importStubs'[N + 1] = x
         /\ \A k \in 1 .. N : importStubs'[k] = importStubs[k]
    BY <1>1, <1>8, <1>9, AppendProperties
  <1>12. \A k \in 1 .. (N + 1) : k \in 1 .. N \/ k = N + 1
    BY <1>8
  <1>13. \A k \in 1 .. N : importRecords[k].iat # r.iat
    <2> SUFFICES ASSUME NEW k \in 1 .. N PROVE importRecords[k].iat # r.iat
      OBVIOUS
    <2>1. importRecords[k].iat # d.thunk + i
      BY <1>0, <1>1, <1>3, SlotIsNew
    <2>2. QED
      BY <1>2, <2>1
  <1>14. ASSUME NEW k \in 1 .. N PROVE IsBound(k)'
    <2>0. PICK q : q = importRecords[k]
      OBVIOUS
    <2>1. /\ q.iat \in Rvas /\ q.iat # r.iat
          /\ Spared(q.iat) =>
               image.words[q.iat] = IF IsImplemented(q) THEN ImportTargets[<<q.module, q.symbol>>]
                                    ELSE StubAddress(k - 1)
          /\ ~IsImplemented(q) /\ StubAddress(k - 1) \notin strays => importStubs[k] = k
      BY <1>3, <1>13, <2>0 DEF RecordsAreBound, IsBound
    <2>2. importRecords'[k] = q /\ importStubs'[k] = importStubs[k] /\ strays \subseteq strays'
      BY <1>1, <1>10, <1>11, <2>0
    <2>3. Spared(q.iat)' => Spared(q.iat) /\ image'.words[q.iat] = image.words[q.iat]
      BY <1>7, <2>1
    <2>4. QED
      BY <1>6, <2>1, <2>2, <2>3 DEF IsBound, IsImplemented, StubAddress
  <1>15. ASSUME NEW k \in 1 .. N
         PROVE  \E m \in DOMAIN payload.imports, j \in Rvas : ComesFrom(k, m, j)'
    <2>1. PICK m \in DOMAIN payload.imports, j \in Rvas : ComesFrom(k, m, j)
      BY <1>3 DEF RecordsAreBound
    <2>2. m \in Int /\ j \in Int
      BY <1>3, <2>1, ImportTypes, PayloadTypes DEF Rvas
    <2>3. m < n \/ (m = n /\ j < i + 1)
      BY <1>0, <1>1, <1>3, <2>1, <2>2 DEF ComesFrom
    <2>4. ComesFrom(k, m, j)'
      BY <1>3, <1>10, <2>1, <2>3 DEF ComesFrom
    <2>5. QED
      BY <2>1, <2>4
  <1>16. PICK K : K = N + 1
    OBVIOUS
  <1>17. importRecords'[K] = r /\ importStubs'[K] = x /\ K - 1 = N
    BY <1>8, <1>10, <1>11, <1>16
  <1>18. IsBound(K)'
    <2>1. r.iat \in Rvas'
      BY <1>1, <1>6
    <2>2. image'.words[r.iat] = IF IsImplemented(r) THEN ImportTargets[<<r.module, r.symbol>>]
                                ELSE StubAddress(K - 1)
      BY <1>7, <1>17 DEF v
    <2>3. ~IsImplemented(r) => x = K
      BY <1>16 DEF x
    <2>4. QED
      BY <1>17, <2>1, <2>2, <2>3 DEF IsBound, IsImplemented, StubAddress
  <1>19. ComesFrom(K, n, i)'
    <2>1. i < i + 1
      BY <1>1
    <2>2. QED
      BY <1>1, <1>2, <1>3, <1>17, <2>1 DEF ComesFrom
  <1>20. RecordsAreBound'
    <2>1. Len(importRecords)' = K /\ Len(importStubs)' = K
      BY <1>10, <1>11, <1>16
    <2>2. \A k \in 1 .. K : IsBound(k)'
      BY <1>12, <1>14, <1>16, <1>18
    <2>3. \A k \in 1 .. K : \E m \in DOMAIN payload.imports, j \in Rvas : ComesFrom(k, m, j)'
      BY <1>1, <1>12, <1>15, <1>16, <1>19
    <2>4. importRecords' \in Seq([module : Nat, symbol : Nat, iat : Nat]) /\ importStubs' \in Seq(Nat)
      BY <1>10, <1>11 DEF R
    <2>5. QED
      BY <1>3, <1>6, <2>1, <2>2, <2>3, <2>4 DEF RecordsAreBound
  <1>21. UnboundWordsAreMoved'
    <2>1. ASSUME NEW rva \in Rvas, Spared(rva)', \A k \in 1 .. K : importRecords'[k].iat # rva
          PROVE  image'.words[rva] = Moved(Len(payload.relocations), rva)
      <3>1. K \in 1 .. K /\ \A k \in 1 .. N : k \in 1 .. K
        BY <1>8, <1>16
      <3>2. rva # r.iat /\ \A k \in 1 .. N : importRecords[k].iat # rva
        BY <1>10, <1>17, <2>1, <3>1
      <3>3. image'.words[rva] = image.words[rva] /\ Spared(rva)
        BY <1>7, <2>1, <3>2
      <3>4. QED
        BY <1>3, <3>2, <3>3 DEF MovedInv, UnboundWordsAreMoved
    <2>2. Len(importRecords)' = K
      BY <1>10, <1>16
    <2>3. QED
      BY <1>3, <1>5, <1>6, <2>1, <2>2 DEF UnboundWordsAreMoved, Moved
  <1>22. MovedInv'
    BY <1>3, <1>5, <1>6, <1>21 DEF MovedInv
  <1>23. DirectoryIsRead'
    BY <1>3, <1>5 DEF DirectoryIsRead, TlsIsValid, TlsWord
  <1>24. PlaceInTable'
    <2>1. \A j \in 0 .. i : Lookup(payload, d, j) # NotFound /\ LookupWord(payload, d, j) # 0
      BY <1>1 DEF IsEntry
    <2>2. (i + 1) - 1 = i /\ i + 1 \in Nat
      BY <1>1
    <2>3. n \in Nat \ {0}
      BY <1>0, <1>3, Zenon DEF PlaceInTable
    <2>4. QED
      BY <1>3, <2>1, <2>2, <2>3 DEF PlaceInTable
  <1>25. QED
    BY <1>3, <1>20, <1>22, <1>23, <1>24 DEF LoadInv

LEMMA NextDescriptorKeeps ==
  ASSUME LoadInv, NextDescriptor
  PROVE  LoadInv'
  <1>1. /\ payload \in Payloads /\ loading.phase = "bind"
        /\ MovedInv /\ RecordsAreBound /\ DirectoryIsRead /\ PlaceInTable
        /\ UNCHANGED <<payload, image, importRecords, importStubs, tlsArea, strays>>
        /\ loading'.phase = "bind" /\ loading'.n = loading.n + 1 /\ loading'.i = 0
    BY PhaseInv DEF NextDescriptor, AtEntry, At
  <1>2. loading.n \in Nat \ {0} /\ loading.i \in Nat
    BY <1>1 DEF PlaceInTable
  <1>3. MovedInv' /\ DirectoryIsRead' /\ Rvas' = Rvas
    BY <1>1 DEF MovedInv, DirectoryIsRead, TlsIsValid, TlsWord, HasImage, Rvas,
                UnboundWordsAreMoved, Moved, Spared
  <1>4. PlaceInTable'
    BY <1>1, <1>2 DEF PlaceInTable
  <1>5. ASSUME NEW k \in 1 .. Len(importRecords), NEW n \in DOMAIN payload.imports, NEW i \in Rvas,
               ComesFrom(k, n, i)
        PROVE  ComesFrom(k, n, i)'
    <2>1. n \in Int /\ i \in Int
      BY <1>1, ImportTypes, PayloadTypes DEF Rvas
    <2>2. n < loading.n + 1
      BY <1>1, <1>2, <1>5, <2>1 DEF ComesFrom
    <2>3. QED
      BY <1>1, <1>5, <2>2 DEF ComesFrom
  <1>6. \A k \in 1 .. Len(importRecords) : IsBound(k) => IsBound(k)'
    BY <1>1 DEF IsBound, IsImplemented, Rvas, Spared, StubAddress
  <1>7. RecordsAreBound'
    <2>1. ASSUME NEW k \in 1 .. Len(importRecords)
          PROVE  IsBound(k)' /\ \E n \in DOMAIN payload.imports, i \in Rvas : ComesFrom(k, n, i)'
      <3>1. IsBound(k) /\ \E n \in DOMAIN payload.imports, i \in Rvas : ComesFrom(k, n, i)
        BY <1>1 DEF RecordsAreBound
      <3>2. QED
        BY <1>5, <1>6, <3>1
    <2>2. QED
      BY <1>1, <1>3, <2>1 DEF RecordsAreBound
  <1>8. QED
    BY <1>1, <1>3, <1>4, <1>7 DEF LoadInv

-----------------------------------------------------------------------------
(* The thread-local block.                                                 *)

\* No slot of the import table lies in the TLS directory.
LEMMA DirectoryIsNoSlot ==
  ASSUME payload \in Payloads, RecordsAreBound, NEW k \in 0 .. 2, NEW m \in 1 .. Len(importRecords)
  PROVE  importRecords[m].iat # payload.tls + k
  <1>1. PICK n \in DOMAIN payload.imports, i \in Rvas : ComesFrom(m, n, i)
    BY DEF RecordsAreBound
  <1>2. IsEntry(payload, n, i) /\ importRecords[m].iat = payload.imports[n].thunk + i
    BY <1>1 DEF ComesFrom
  <1>3. SlotsAreApart(payload)
    BY PayloadsAreLinked
  <1>4. payload.imports[n].thunk + i \notin payload.tls .. (payload.tls + 2)
    BY <1>1, <1>2, <1>3, Zenon DEF SlotsAreApart, Rvas
  <1>5. payload.tls + k \in payload.tls .. (payload.tls + 2)
    <2> DEFINE t == payload.tls
    <2>1. t \in Nat
      BY PayloadTypes
    <2> HIDE DEF t
    <2>2. t + k \in t .. (t + 2)
      BY <2>1
    <2>3. QED
      BY <2>2 DEF t
  <1>6. QED
    BY <1>2, <1>4, <1>5

\* A pointer of the loaded directory is that of the file, moved with the image.
LEMMA DirectoryWord ==
  ASSUME payload \in Payloads, MovedInv, RecordsAreBound, payload.tls # 0,
         RvaToFile(payload, payload.tls, 4) # NotFound, NEW k \in 0 .. 2, Spared(payload.tls + k),
         TlsWord(k) >= payload.preferred, TlsWord(k) - payload.preferred <= MaxRva
  PROVE  /\ image.words[payload.tls + k] - image.base = TlsWord(k) - payload.preferred
         /\ payload.tls + k \in Rvas
  <1> DEFINE t == payload.tls
             T == TlsWord(k)
             b == image.base
             f == payload.preferred
             c == Count(payload, Len(payload.relocations), t + k)
  <1>1. HasImage /\ RawIsInside(payload, Len(payload.sections))
    BY DEF MovedInv
  <1>2. /\ b \in Nat /\ b < AddressSpan /\ f \in Nat /\ f < AddressSpan /\ b + MaxRva < AddressSpan
        /\ t \in Nat /\ AddressSpan \in Nat \ {0} /\ MaxRva \in Nat
    BY <1>1, BaseTypes, PayloadTypes, SpanIsNumber, LoaderAssumption
  <1>3. PayloadWord(payload, t + k) = T /\ t + k \in Rvas
    <2>1. k \in 0 .. (4 - 1) /\ 4 \in Nat \ {0}
      OBVIOUS
    <2>2. QED
      BY <1>1, <1>2, <2>1, WordsOfRanges DEF TlsWord, Rvas
  <1>4. T \in 0 .. (AddressSpan - 1)
    <2>1. t + k \in Nat
      BY <1>2
    <2> HIDE DEF t, T
    <2>2. QED
      BY <1>3, <2>1, PayloadWordIsWord
  <1>5. image.words[t + k] = (T + c * (b - f)) % AddressSpan
    <2>1. \A m \in 1 .. Len(importRecords) : importRecords[m].iat # t + k
      BY DirectoryIsNoSlot
    <2>2. image.words[t + k] = Moved(Len(payload.relocations), t + k)
      BY <1>3, <2>1 DEF MovedInv, UnboundWordsAreMoved
    <2>3. QED
      BY <1>3, <2>2 DEF Moved
  <1>6. c \in Nat /\ c = Relocations(payload, t + k)
    <2>1. Len(payload.relocations) \in 0 .. Len(payload.relocations)
      BY BlockTypes
    <2>2. QED
      BY <2>1, CountsAreNumbers, CountsAddUp
  <1>7. payload.relocations # <<>> => c = 1
    BY <1>6, PayloadsAreLinked DEF DirectoryIsRelocated
  <1>8. b # f => payload.relocations # <<>>
    BY DEF MovedInv
  <1>9. T >= f /\ T - f <= MaxRva
    OBVIOUS
  <1> HIDE DEF T, b, f, c
  <1>10. c * (b - f) = b - f
    <2>1. CASE b = f
      <3>1. b - f = 0 /\ c * 0 = 0
        BY <1>2, <1>6, <2>1
      <3>2. QED
        BY <3>1
    <2>2. CASE b # f
      <3>1. c = 1 /\ b - f \in Int
        BY <1>2, <1>7, <1>8, <2>2
      <3>2. QED
        BY <3>1
    <2>3. QED
      BY <2>1, <2>2
  <1>11. T + (b - f) \in 0 .. (AddressSpan - 1)
    BY <1>2, <1>4, <1>9
  <1>12. (T + (b - f)) % AddressSpan = T + (b - f)
    <2> DEFINE y == T + (b - f)
    <2>1. y \in 0 .. (AddressSpan - 1)
      BY <1>11
    <2> HIDE DEF y
    <2>2. y % AddressSpan = y
      BY <1>2, <2>1
    <2>3. QED
      BY <2>2 DEF y
  <1>13. image.words[t + k] = T + (b - f)
    BY <1>5, <1>10, <1>12
  <1>14. (T + (b - f)) - b = T - f
    BY <1>2, <1>4
  <1>15. image.words[t + k] - b = T - f
    BY <1>13, <1>14
  <1>16. QED
    BY <1>3, <1>15 DEF t, T, b, f

\* What is left as it was, and where, when the template has been copied to start.
Behind(start, n) == (start + TlsPage) .. (start + n - 1)
Copied(start) ==
  /\ start \in TlsBlocks /\ tlsArea'.start = start
  /\ strays' = strays \cup Behind(start, image.templateSize)
  /\ DOMAIN tlsArea'.block = 1 .. image.templateSize
  /\ \A k \in 1 .. image.templateSize : start + k - 1 \notin strays' =>
       tlsArea'.block[k] = image.words[image.template + k - 1]
  /\ InImage(image.index, 1) => tlsArea'.index = image.words[image.index]
  /\ importStubs' \in [DOMAIN importStubs -> Nat]
  /\ \A n \in DOMAIN importStubs :
       StubAddress(n - 1) \notin strays' => importStubs'[n] = importStubs[n]
  /\ image'.base = image.base /\ DOMAIN image' = DOMAIN image
  /\ image'.templateSize = image.templateSize
  /\ DOMAIN image'.words = DOMAIN image.words
  /\ \A rva \in DOMAIN image.words :
       image.base + rva \notin strays' => image'.words[rva] = image.words[rva]

LEMMA TemplateIsCopied ==
  ASSUME HasImage, InitializeTls, importStubs \in Seq(Nat)
  PROVE  \E start : Copied(start)
  <1>1. PICK i \in TlsIndexes, start \in TlsBlocks :
          LET tail == Behind(start, image.templateSize)
              copied == [k \in 1 .. image.templateSize |-> image.words[image.template + k - 1]]
          IN /\ \E cleared \in SUBSET {k \in DOMAIN copied : start + k - 1 \in tail} :
                  tlsArea' = [start |-> start, index |-> i,
                              block |-> [k \in DOMAIN copied |-> IF k \in cleared THEN 0 ELSE copied[k]]]
             /\ \E cleared \in SUBSET {n \in DOMAIN importStubs : StubAddress(n - 1) \in strays} :
                  importStubs' = [n \in DOMAIN importStubs |->
                    IF n \in cleared \/ StubAddress(n - 1) \in tail THEN 0 ELSE importStubs[n]]
             /\ image' = [image EXCEPT !.words = [rva \in DOMAIN @ |->
                  IF image.base + rva \in tail THEN copied[image.base + rva - start + 1] ELSE @[rva]]]
             /\ strays' = strays \cup tail
    BY Zenon DEF InitializeTls, Behind
  <1> DEFINE tail == Behind(start, image.templateSize)
             copied == [k \in 1 .. image.templateSize |-> image.words[image.template + k - 1]]
             w == [rva \in DOMAIN image.words |->
                     IF image.base + rva \in tail THEN copied[image.base + rva - start + 1]
                     ELSE image.words[rva]]
  <1>2. strays' = strays \cup tail
    BY <1>1
  <1>3. PICK cleared \in SUBSET {k \in DOMAIN copied : start + k - 1 \in tail} :
          tlsArea' = [start |-> start, index |-> i,
                      block |-> [k \in DOMAIN copied |-> IF k \in cleared THEN 0 ELSE copied[k]]]
    BY <1>1
  <1>4. PICK gone \in SUBSET {n \in DOMAIN importStubs : StubAddress(n - 1) \in strays} :
          importStubs' = [n \in DOMAIN importStubs |->
            IF n \in gone \/ StubAddress(n - 1) \in tail THEN 0 ELSE importStubs[n]]
    BY <1>1
  <1>5. image' = [image EXCEPT !.words = w]
    BY <1>1, Zenon
  <1>6. {"base", "words", "templateSize"} \subseteq DOMAIN image
    BY DEF HasImage, Fields
  <1>7. InImage(image.index, 1) => i = image.words[image.index]
    BY DEF TlsIndexes
  <1> HIDE DEF tail
  <1>8. /\ tlsArea'.start = start /\ tlsArea'.index = i
        /\ DOMAIN tlsArea'.block = 1 .. image.templateSize
        /\ \A k \in 1 .. image.templateSize : start + k - 1 \notin tail =>
             tlsArea'.block[k] = image.words[image.template + k - 1]
    BY <1>3
  <1>9. /\ importStubs' \in [DOMAIN importStubs -> Nat]
        /\ \A n \in DOMAIN importStubs :
             StubAddress(n - 1) \notin strays \cup tail => importStubs'[n] = importStubs[n]
    <2>1. \A n \in DOMAIN importStubs : importStubs[n] \in Nat
      BY LenProperties, ElementOfSeq
    <2>2. QED
      BY <1>4, <2>1
  <1>10. /\ DOMAIN w = DOMAIN image.words
         /\ \A rva \in DOMAIN image.words : image.base + rva \notin tail => w[rva] = image.words[rva]
    BY Zenon
  <1> HIDE DEF w
  <1>11. /\ image'.base = image.base /\ DOMAIN image' = DOMAIN image
         /\ image'.templateSize = image.templateSize /\ image'.words = w
    BY <1>5, <1>6
  <1>12. Copied(start)
    BY <1>2, <1>7, <1>8, <1>9, <1>10, <1>11 DEF Copied, tail
  <1>13. QED
    BY <1>12

LEMMA InitializeTlsKeeps ==
  ASSUME LoadInv, InitializeTls
  PROVE  LoadInv'
  <1>1. /\ payload \in Payloads /\ loading.phase = "bind"
        /\ MovedInv /\ RecordsAreBound /\ DirectoryIsRead
        /\ payload' = payload /\ importRecords' = importRecords /\ loading'.phase = "ready"
    BY PhaseInv DEF InitializeTls, AtTls, At
  <1>2. /\ payload.tls # 0 /\ TlsIsValid
        /\ image.template = TlsWord(0) - payload.preferred
        /\ image.templateSize = TlsWord(1) - TlsWord(0)
        /\ image.index = TlsWord(2) - payload.preferred
    <2>1. image.templateSize # 0
      BY DEF InitializeTls
    <2>2. QED
      BY <1>1, <2>1 DEF DirectoryIsRead
  <1> DEFINE f == payload.preferred
             t == payload.tls
             A == TlsWord(0)
             B == TlsWord(1)
             C == TlsWord(2)
  <1>3. /\ RvaToFile(payload, t, 4) # NotFound
        /\ A >= f /\ A - f <= MaxRva /\ B \in A .. (A + MaxTemplate) /\ C >= f /\ C - f <= MaxRva
    BY <1>2 DEF TlsIsValid
  <1>4. /\ HasImage /\ RawIsInside(payload, Len(payload.sections))
        /\ importStubs \in Seq(Nat) /\ Len(importStubs) = Len(importRecords)
    BY <1>1 DEF MovedInv, RecordsAreBound
  <1>0. PICK at : Copied(at)
    BY <1>4, TemplateIsCopied
  <1>5. f \in Nat /\ t \in Nat /\ payload.size \in Nat /\ payload.size <= MaxRva /\ MaxRva \in Nat
    BY <1>1, PayloadTypes, SpanIsNumber, LoaderAssumption, SMTT(30)
  <1>6. A \in Nat /\ B \in Nat /\ C \in Nat
    <2>1. ASSUME NEW k \in 0 .. 2 PROVE TlsWord(k) \in Nat
      <3>1. k \in 0 .. (4 - 1) /\ 4 \in Nat \ {0} /\ t + k \in Nat
        BY <1>5
      <3>2. PayloadWord(payload, t + k) = TlsWord(k)
        BY <1>1, <1>3, <1>4, <1>5, <3>1, WordsOfRanges DEF TlsWord
      <3>3. PayloadWord(payload, t + k) \in Nat
        BY <1>1, <3>1, PayloadWordIsWord, SpanIsNumber
      <3>4. QED
        BY <3>2, <3>3
    <2>2. QED
      BY <2>1
  <1>7. B - f <= MaxRva /\ B >= f /\ (A - f) + (B - A) <= payload.size
    <2>1. image.template + image.templateSize <= payload.size
      BY DEF InitializeTls, InImage
    <2>2. (A - f) + (B - A) <= payload.size
      BY <1>2, <2>1
    <2> DEFINE z == payload.size
    <2>3. z \in Nat /\ z <= MaxRva /\ (A - f) + (B - A) <= z /\ B >= A
      BY <1>3, <1>5, <1>6, <2>2
    <2> HIDE DEF A, B, f, z
    <2>4. B - f <= MaxRva /\ B >= f
      BY <1>3, <1>5, <1>6, <2>3
    <2>5. QED
      BY <2>2, <2>4
  <1>8. HasImage' /\ Rvas' = Rvas
    BY <1>0, <1>1, <1>4 DEF HasImage, Rvas, Copied
  <1>9. /\ \A rva : Spared(rva)' => Spared(rva)
        /\ \A rva \in Rvas : Spared(rva)' => image'.words[rva] = image.words[rva]
    BY <1>0, <1>4 DEF HasImage, Copied, Spared
  <1>10. ASSUME \A k \in 0 .. 2 : Spared(t + k)'
         PROVE  /\ image'.words[t] - image'.base = A - f
                /\ image'.words[t + 1] - image'.base = B - f
                /\ image'.words[t + 2] - image'.base = C - f
    <2>1. ASSUME NEW k \in 0 .. 2, TlsWord(k) >= f, TlsWord(k) - f <= MaxRva
          PROVE  image'.words[t + k] - image'.base = TlsWord(k) - f
      <3>1. Spared(t + k)' /\ Spared(t + k)
        BY <1>1, <1>9, <1>10 DEF Spared
      <3>2. image.words[t + k] - image.base = TlsWord(k) - f /\ t + k \in Rvas
        BY <1>1, <1>2, <1>3, <2>1, <3>1, DirectoryWord
      <3>3. image'.base = image.base /\ image'.words[t + k] = image.words[t + k]
        <4>1. image.base + (t + k) \notin strays' /\ t + k \in DOMAIN image.words
          BY <1>0, <1>1, <1>4, <3>1, <3>2 DEF Copied, HasImage, Spared
        <4>2. QED
          BY <1>0, <4>1 DEF Copied
      <3>4. QED
        BY <3>2, <3>3
    <2>2. t + 0 = t /\ 0 \in 0 .. 2 /\ 1 \in 0 .. 2 /\ 2 \in 0 .. 2
      BY <1>5
    <2>3. QED
      BY <1>3, <1>7, <2>1, <2>2
  <1>11. BlockIsTheTemplate'
    <2>0. PICK m, a, c : m = image.templateSize /\ a = image.template /\ c = image.index
      OBVIOUS
    <2>1. m = B - A /\ a = A - f /\ c = C - f
      BY <1>2, <2>0
    <2>2. m \in Nat /\ a \in Nat /\ c \in Nat /\ (B - f) - (A - f) = m /\ a + m <= payload.size
      <3> DEFINE z == payload.size
      <3>1. z \in Nat /\ (A - f) + (B - A) <= z /\ B >= A
        BY <1>3, <1>5, <1>6, <1>7
      <3> HIDE DEF A, B, C, f, z
      <3>2. m \in Nat /\ a \in Nat /\ c \in Nat /\ (B - f) - (A - f) = m /\ a + m <= z
        BY <1>3, <1>5, <1>6, <2>1, <3>1
      <3>3. QED
        BY <3>2 DEF z
    <2>3. \A k \in 1 .. m : a + k - 1 \in Rvas
      <3> DEFINE z == payload.size
      <3>1. z \in Nat /\ a + m <= z
        BY <1>5, <2>2
      <3> HIDE DEF z
      <3>2. \A k \in 1 .. m : a + k - 1 \in 0 .. (z - 1)
        BY <2>2, <3>1
      <3>3. QED
        BY <3>2 DEF z, Rvas
    <2>4. InImage(c, 1) => c \in Rvas
      <3> DEFINE z == payload.size
      <3> HIDE DEF z
      <3>1. z \in Nat /\ (c + 1 <= z => c \in 0 .. (z - 1))
        BY <1>5, <2>2 DEF z
      <3>2. QED
        BY <3>1 DEF z, Rvas, InImage
    <2>5. /\ DOMAIN tlsArea'.block = 1 .. m
          /\ \A k \in 1 .. m :
               /\ image'.base + (a + k - 1) \notin strays' /\ tlsArea'.start + k - 1 \notin strays'
               => tlsArea'.block[k] = image'.words[a + k - 1]
      <3>1. ASSUME NEW k \in 1 .. m, image'.base + (a + k - 1) \notin strays',
                   tlsArea'.start + k - 1 \notin strays'
            PROVE  tlsArea'.block[k] = image'.words[a + k - 1]
        <4>1. tlsArea'.block[k] = image.words[a + k - 1]
          BY <1>0, <2>0, <3>1 DEF Copied
        <4>2. image.base + (a + k - 1) \notin strays' /\ a + k - 1 \in DOMAIN image.words
          BY <1>0, <1>4, <2>3, <3>1 DEF Copied, HasImage
        <4>3. QED
          BY <1>0, <4>1, <4>2 DEF Copied
      <3>2. QED
        BY <1>0, <2>0, <3>1 DEF Copied
    <2>6. InImage(c, 1) /\ image'.base + c \notin strays' => tlsArea'.index = image'.words[c]
      BY <1>0, <1>4, <2>0, <2>4 DEF Copied, HasImage
    <2>7. QED
      <3> DEFINE start == image'.words[t] - image'.base
                 end == image'.words[t + 1] - image'.base
                 index == image'.words[t + 2] - image'.base
      <3>1. ASSUME \A k \in 0 .. 2 : Spared(t + k)'
            PROVE  start = a /\ end - start = m /\ index = c
        <4>1. start = A - f /\ end = B - f /\ index = C - f
          BY <1>10, <3>1
        <4>2. QED
          BY <2>1, <2>2, <4>1
      <3> HIDE DEF start, end, index
      <3>2. ASSUME \A k \in 0 .. 2 : Spared(t + k)'
            PROVE  /\ DOMAIN tlsArea'.block = 1 .. (end - start)
                   /\ \A k \in 1 .. (end - start) :
                        /\ image'.base + (start + k - 1) \notin strays'
                        /\ tlsArea'.start + k - 1 \notin strays'
                        => tlsArea'.block[k] = image'.words[start + k - 1]
                   /\ index + 1 <= payload.size /\ image'.base + index \notin strays' =>
                        tlsArea'.index = image'.words[index]
        BY <2>5, <2>6, <3>1, <3>2 DEF InImage
      <3>3. QED
        BY <1>1, <3>2 DEF BlockIsTheTemplate, Spared, InImage, start, end, index
  <1>12. MovedInv'
    <2>1. ASSUME NEW rva \in Rvas, Spared(rva)',
                 \A k \in 1 .. Len(importRecords) : importRecords[k].iat # rva
          PROVE  image'.words[rva] = Moved(Len(payload.relocations), rva)
      BY <1>1, <1>9, <2>1 DEF MovedInv, UnboundWordsAreMoved
    <2>2. image'.base = image.base
      BY <1>0 DEF Copied
    <2>3. QED
      BY <1>1, <1>4, <1>8, <2>1, <2>2 DEF MovedInv, UnboundWordsAreMoved, Moved
  <1>13. RecordsAreBound'
    <2> DEFINE N == Len(importRecords)
    <2>1. N \in Nat /\ DOMAIN importStubs = 1 .. N
      BY <1>4, LenProperties
    <2>2. importStubs' \in Seq(Nat) /\ Len(importStubs') = N
      <3>1. importStubs' \in [1 .. N -> Nat]
        BY <1>0, <2>1 DEF Copied
      <3> HIDE DEF N
      <3>2. QED
        BY <2>1, <3>1
    <2>3. ASSUME NEW k \in 1 .. N
          PROVE  IsBound(k)' /\ \E n \in DOMAIN payload.imports, i \in Rvas : ComesFrom(k, n, i)'
      <3>0. PICK q : q = importRecords[k]
        OBVIOUS
      <3>1. IsBound(k) /\ \E n \in DOMAIN payload.imports, i \in Rvas : ComesFrom(k, n, i)
        BY <1>1 DEF RecordsAreBound
      <3>2. /\ q.iat \in Rvas
            /\ Spared(q.iat) =>
                 image.words[q.iat] = IF IsImplemented(q) THEN ImportTargets[<<q.module, q.symbol>>]
                                      ELSE StubAddress(k - 1)
            /\ ~IsImplemented(q) /\ StubAddress(k - 1) \notin strays => importStubs[k] = k
        BY <3>0, <3>1 DEF IsBound
      <3>3. /\ strays \subseteq strays'
            /\ StubAddress(k - 1) \notin strays' => importStubs'[k] = importStubs[k]
        BY <1>0, <2>1 DEF Copied
      <3>4. Spared(q.iat)' => Spared(q.iat) /\ image'.words[q.iat] = image.words[q.iat]
        BY <1>9, <3>2
      <3>5. IsBound(k)'
        BY <1>1, <1>8, <3>0, <3>2, <3>3, <3>4 DEF IsBound, IsImplemented, StubAddress
      <3>6. QED
        BY <1>1, <3>1, <3>5 DEF ComesFrom
    <2>4. QED
      BY <1>1, <1>8, <2>2, <2>3 DEF RecordsAreBound
  <1>14. QED
    BY <1>1, <1>11, <1>12, <1>13 DEF LoadInv

-----------------------------------------------------------------------------
(* The loaded image.                                                       *)

LEMMA LoadInvStutters ==
  ASSUME LoadInv, UNCHANGED loaderVars
  PROVE  LoadInv'
  <1>1. /\ payload' = payload /\ image' = image /\ loading' = loading /\ tlsArea' = tlsArea
        /\ importRecords' = importRecords /\ importStubs' = importStubs /\ strays' = strays
    BY DEF loaderVars
  <1>2. (HasImage <=> HasImage') /\ (NothingIsBound <=> NothingIsBound') /\ Rvas' = Rvas
    BY <1>1 DEF HasImage, NothingIsBound, Rvas
  <1>3. MapInv => MapInv'
    BY <1>1, <1>2 DEF MapInv, MappedUpTo
  <1>4. RelocateInv => RelocateInv'
    BY <1>1, <1>2 DEF RelocateInv, Moved
  <1>5. MovedInv => MovedInv'
    BY <1>1, <1>2 DEF MovedInv, UnboundWordsAreMoved, Moved, Spared
  <1>6. RecordsAreBound => RecordsAreBound'
    BY <1>1, <1>2 DEF RecordsAreBound, IsBound, IsImplemented, ComesFrom, Spared, StubAddress
  <1>7. /\ DirectoryIsRead => DirectoryIsRead'
        /\ PlaceInTable => PlaceInTable'
        /\ BlockIsTheTemplate => BlockIsTheTemplate'
    BY <1>1 DEF DirectoryIsRead, TlsIsValid, TlsWord, PlaceInTable, BlockIsTheTemplate, InImage, Spared
  <1>8. QED
    BY <1>1, <1>2, <1>3, <1>4, <1>5, <1>6, <1>7 DEF LoadInv

LEMMA LoadInvIsKept ==
  ASSUME LoadInv, [LoaderNext]_loaderVars
  PROVE  LoadInv'
  <1>1. ASSUME NEW base \in Bases, AllocateImage(base) PROVE LoadInv'
    BY <1>1, AllocateKeeps
  <1>2. CASE LoadRefused
    BY <1>2, FailKeeps DEF LoadRefused
  <1>3. CASE MapSection
    BY <1>3, MapSectionKeeps
  <1>4. CASE SectionRefused
    BY <1>4, FailKeeps DEF SectionRefused
  <1>5. CASE StartRelocations
    BY <1>5, StartRelocationsKeeps
  <1>6. CASE RelocateBlock
    BY <1>6, RelocateBlockKeeps
  <1>7. CASE BlockRefused
    BY <1>7, FailKeeps DEF BlockRefused
  <1>8. CASE ReadDirectories
    BY <1>8, ReadDirectoriesKeeps
  <1>9. CASE BindSymbol
    BY <1>9, BindSymbolKeeps
  <1>10. CASE NextDescriptor
    BY <1>10, NextDescriptorKeeps
  <1>11. CASE BindRefused
    BY <1>11, FailKeeps DEF BindRefused
  <1>12. CASE InitializeTls
    BY <1>12, InitializeTlsKeeps
  <1>13. CASE TlsRefused
    BY <1>13, FailKeeps DEF TlsRefused
  <1>14. CASE UNCHANGED loaderVars
    BY <1>14, LoadInvStutters
  <1>15. QED
    BY <1>1, <1>2, <1>3, <1>4, <1>5, <1>6, <1>7, <1>8, <1>9, <1>10, <1>11, <1>12, <1>13, <1>14
       DEF LoaderNext

LEMMA ReadyImagesAreThePayload ==
  ASSUME payload \in Payloads, MovedInv, RecordsAreBound
  PROVE  ImageIsThePayload
  <1> SUFFICES ASSUME NEW rva \in DOMAIN image.words, Spared(rva),
                      \A r \in Range(importRecords) : r.iat # rva
               PROVE  image.words[rva] = (PayloadWord(payload, rva)
                        + Relocations(payload, rva) * (image.base - payload.preferred)) % AddressSpan
    BY DEF ImageIsThePayload
  <1>1. rva \in Rvas
    BY DEF MovedInv, HasImage
  <1>2. DOMAIN importRecords = 1 .. Len(importRecords)
    BY LenProperties DEF RecordsAreBound
  <1>3. \A k \in 1 .. Len(importRecords) : importRecords[k].iat # rva
    BY <1>2 DEF Range
  <1>4. image.words[rva] = Moved(Len(payload.relocations), rva)
    BY <1>1, <1>3 DEF MovedInv, UnboundWordsAreMoved
  <1>5. Count(payload, Len(payload.relocations), rva) = Relocations(payload, rva)
    BY CountsAddUp
  <1>6. QED
    BY <1>4, <1>5 DEF Moved

LEMMA ReadyImportsAreBound ==
  ASSUME payload \in Payloads, RecordsAreBound
  PROVE  ImportsAreBound
  <1> SUFFICES ASSUME NEW k \in DOMAIN importRecords
               PROVE  /\ PayloadWord(payload, PayloadWord(payload, importRecords[k].iat))
                           = importRecords[k].symbol
                      /\ Spared(importRecords[k].iat) =>
                           IF IsImplemented(importRecords[k])
                             THEN image.words[importRecords[k].iat]
                                    = ImportTargets[<<importRecords[k].module, importRecords[k].symbol>>]
                             ELSE \E n \in DOMAIN importStubs :
                                    /\ image.words[importRecords[k].iat] = StubAddress(n - 1)
                                    /\ StubAddress(n - 1) \notin strays => importStubs[n] = k
    BY DEF ImportsAreBound
  <1>1. k \in 1 .. Len(importRecords) /\ DOMAIN importStubs = 1 .. Len(importRecords)
    BY LenProperties DEF RecordsAreBound
  <1>2. IsBound(k)
    BY <1>1 DEF RecordsAreBound
  <1>3. PICK n \in DOMAIN payload.imports, i \in Rvas : ComesFrom(k, n, i)
    BY <1>1 DEF RecordsAreBound
  <1>4. /\ IsEntry(payload, n, i) /\ importRecords[k].iat = payload.imports[n].thunk + i
        /\ importRecords[k].symbol = PayloadWord(payload, LookupWord(payload, payload.imports[n], i))
    BY <1>3 DEF ComesFrom
  <1>5. SlotsAreApart(payload)
    BY PayloadsAreLinked
  <1>6. PayloadWord(payload, payload.imports[n].thunk + i)
          = LookupWord(payload, payload.imports[n], i)
    BY <1>3, <1>4, <1>5, Zenon DEF SlotsAreApart, Rvas
  <1>7. PayloadWord(payload, PayloadWord(payload, importRecords[k].iat)) = importRecords[k].symbol
    BY <1>4, <1>6
  <1>8. QED
    BY <1>1, <1>2, <1>7 DEF IsBound

\* The loader keeps its invariant from the file to the image that is ready to run:
\* each section brings its words and no other's, each block of relocations adds the
\* same difference, each symbol is bound in a slot that no other symbol has
\* (load_pe_image, apply_relocations, resolve_imports, initialize_nativeaot_tls).
THEOREM LoadInvHolds == LoaderSpec => []LoadInv
  <1>1. LoaderInit => LoadInv
    BY LoadInvInitially
  <1>2. LoadInv /\ [LoaderNext]_loaderVars => LoadInv'
    BY LoadInvIsKept
  <1>3. QED
    BY <1>1, <1>2, PTL DEF LoaderSpec

\* Whatever linked payload is on the boot volume and wherever the firmware puts it,
\* an image that is ready to run is the file, moved by the difference of the two
\* bases modulo the address space, with every import bound to its own symbol and
\* the thread-local block that the loaded directory names (efi_main).
THEOREM LoadedImagesAreFaithful == LoaderSpec => []LoadedImageIsFaithful
  <1>1. LoadInv => LoadedImageIsFaithful
    <2> SUFFICES ASSUME LoadInv, loading.phase = "ready"
                 PROVE  ImageIsThePayload /\ ImportsAreBound /\ BlockIsTheTemplate
      BY DEF LoadedImageIsFaithful
    <2>1. payload \in Payloads /\ MovedInv /\ RecordsAreBound /\ BlockIsTheTemplate
      BY PhaseInv
    <2>2. QED
      BY <2>1, ReadyImagesAreThePayload, ReadyImportsAreBound
  <1>2. QED
    BY <1>1, LoadInvHolds, PTL

-----------------------------------------------------------------------------
(* What is written behind the pages of the stubs and of the block.         *)

BehindStubs == (StubPage + StubsPerPage) .. (StubPage + MaxImportSymbols - 1)

\* The first stray stub comes with the first symbol that the page has no room for.
StrayInv ==
  /\ OverrunsAreBounded
  /\ loading.phase # "ready" => strays \subseteq BehindStubs
  /\ loading.phase \in {"read", "map", "relocate", "directories"} => strays = {}
  /\ loading.phase = "bind" => Len(importRecords) <= MaxImportSymbols /\ (strays = {} <=> StubsFit)

LEMMA StrayInvInitially == LoaderInit => StrayInv
  BY DEF LoaderInit, StrayInv, OverrunsAreBounded, At

\* A step that writes nothing there and does not end the load.
LEMMA NoStray ==
  ASSUME StrayInv, loading.phase # "ready", loading'.phase # "ready",
         strays' = strays, tlsArea' = tlsArea,
         loading'.phase \in {"read", "map", "relocate", "directories"} => strays = {},
         loading'.phase = "bind" =>
           Len(importRecords') <= MaxImportSymbols /\ (strays = {} <=> StubsFit')
  PROVE  StrayInv'
  BY DEF StrayInv, OverrunsAreBounded, BehindStubs

LEMMA FailStraysNot ==
  ASSUME StrayInv, Fail, loading.phase # "ready"
  PROVE  StrayInv'
  <1>1. loading'.phase = "failed" /\ strays' = strays /\ tlsArea' = tlsArea
    BY DEF Fail, At
  <1>2. QED
    BY <1>1, NoStray

LEMMA BindStrays ==
  ASSUME LoadInv, StrayInv, BindSymbol
  PROVE  StrayInv'
  <1> DEFINE d == payload.imports[loading.n]
             r == [module |-> FileWord(payload, RvaToFile(payload, d.name, 1)),
                   symbol |-> FileWord(payload, RvaToFile(payload, LookupWord(payload, d, loading.i), 1)),
                   iat |-> d.thunk + loading.i]
             R == [module : Nat, symbol : Nat, iat : Nat]
             N == Len(importRecords)
  <1>1. r \in R /\ importRecords' = Append(importRecords, r) /\ strays' = strays \cup StrayStub(r)
    BY EntryAtHand, Zenon
  <1>2. /\ loading.phase = "bind" /\ loading'.phase = "bind" /\ tlsArea' = tlsArea
        /\ N < MaxImportSymbols /\ RecordsAreBound
    BY PhaseInv DEF BindSymbol, AtEntry, At, LookupIsValid
  <1>3. importRecords \in Seq(R) /\ N \in Nat /\ DOMAIN importRecords = 1 .. N
    BY <1>2, LenProperties DEF RecordsAreBound
  <1>4. StubPage \in Nat /\ StubsPerPage \in Nat \ {0} /\ MaxImportSymbols \in Nat
    BY LoaderAssumption
  <1> HIDE DEF r, R
  <1>5. /\ Len(importRecords') = N + 1 /\ importRecords'[N + 1] = r
        /\ DOMAIN importRecords' = 1 .. (N + 1)
        /\ \A k \in 1 .. N : importRecords'[k] = importRecords[k]
    BY <1>1, <1>3, AppendProperties
  <1>6. StrayStub(r) = IF IsImplemented(r) \/ N < StubsPerPage THEN {} ELSE {StubPage + N}
    BY DEF StrayStub, StubNumber, StubAddress
  <1> HIDE DEF N
  <1>7. StrayStub(r) \subseteq BehindStubs
    BY <1>2, <1>3, <1>4, <1>6 DEF BehindStubs
  <1>8. StubsFit' <=> StubsFit /\ StrayStub(r) = {}
    <2>1. StrayStub(r) = {} <=> (N + 1 > StubsPerPage => IsImplemented(r))
      BY <1>3, <1>4, <1>6
    <2>2. \A k : k \in 1 .. (N + 1) <=> k \in 1 .. N \/ k = N + 1
      BY <1>3
    <2>3. StubsFit' <=> \A k \in 1 .. (N + 1) : k > StubsPerPage => IsImplemented(importRecords'[k])
      BY <1>5 DEF StubsFit, IsImplemented
    <2>4. StubsFit <=> \A k \in 1 .. N : k > StubsPerPage => IsImplemented(importRecords[k])
      BY <1>3 DEF StubsFit
    <2>5. QED
      BY <1>5, <2>1, <2>2, <2>3, <2>4
  <1>9. strays' \subseteq BehindStubs /\ (strays' = {} <=> StubsFit')
    BY <1>1, <1>2, <1>7, <1>8 DEF StrayInv
  <1>10. Len(importRecords') <= MaxImportSymbols
    BY <1>2, <1>3, <1>4, <1>5
  <1>11. QED
    BY <1>2, <1>9, <1>10 DEF StrayInv, OverrunsAreBounded, BehindStubs

\* load_pe_image lets no template through that is longer than its limit.
LEMMA TemplateIsBounded ==
  ASSUME payload \in Payloads, MovedInv, DirectoryIsRead
  PROVE  image.templateSize \in 0 .. MaxTemplate
  <1>1. MaxTemplate \in Nat
    BY LoaderAssumption
  <1>2. CASE payload.tls = 0
    BY <1>1, <1>2 DEF DirectoryIsRead
  <1>3. CASE payload.tls # 0
    <2> DEFINE t == payload.tls
    <2>1. /\ RvaToFile(payload, t, 4) # NotFound /\ TlsWord(1) \in TlsWord(0) .. (TlsWord(0) + MaxTemplate)
          /\ image.templateSize = TlsWord(1) - TlsWord(0)
      BY <1>3 DEF DirectoryIsRead, TlsIsValid
    <2>2. t \in Nat /\ HasImage /\ RawIsInside(payload, Len(payload.sections))
      BY PayloadTypes DEF MovedInv
    <2>3. TlsWord(0) \in Nat
      <3>1. 0 \in 0 .. (4 - 1) /\ 4 \in Nat \ {0} /\ t + 0 \in Nat
        BY <2>2
      <3>2. PayloadWord(payload, t + 0) = TlsWord(0)
        BY <2>1, <2>2, <3>1, WordsOfRanges DEF TlsWord, HasImage
      <3>3. PayloadWord(payload, t + 0) \in Nat
        BY <3>1, PayloadWordIsWord, SpanIsNumber
      <3>4. QED
        BY <3>2, <3>3
    <2> DEFINE A == TlsWord(0)
               B == TlsWord(1)
    <2> HIDE DEF A, B
    <2>4. B \in A .. (A + MaxTemplate) /\ A \in Nat => B - A \in 0 .. MaxTemplate
      BY <1>1
    <2>5. QED
      BY <2>1, <2>3, <2>4 DEF A, B
  <1>4. QED
    BY <1>2, <1>3

LEMMA TemplateStrays ==
  ASSUME LoadInv, StrayInv, InitializeTls
  PROVE  StrayInv'
  <1>1. /\ payload \in Payloads /\ loading.phase = "bind" /\ MovedInv /\ RecordsAreBound
        /\ DirectoryIsRead /\ loading'.phase = "ready" /\ importRecords' = importRecords
    BY PhaseInv DEF InitializeTls, AtTls, At
  <1>2. PICK start : Copied(start)
    BY <1>1, TemplateIsCopied DEF MovedInv, RecordsAreBound
  <1>3. PICK m : m = image.templateSize
    OBVIOUS
  <1>4. /\ start \in TlsBlocks /\ tlsArea'.start = start /\ strays' = strays \cup Behind(start, m)
        /\ image'.templateSize = m
    BY <1>2, <1>3 DEF Copied
  <1>5. m \in 0 .. MaxTemplate /\ MaxTemplate \in Nat /\ start \in Nat /\ TlsPage \in Nat \ {0}
    BY <1>1, <1>3, <1>4, TemplateIsBounded, LoaderAssumption
  <1>6. Behind(start, m) \subseteq (start + TlsPage) .. (start + MaxTemplate - 1)
    BY <1>5 DEF Behind
  <1>7. Behind(start, m) = {} <=> m <= TlsPage
    <2>1. m > TlsPage => start + TlsPage \in Behind(start, m)
      BY <1>5 DEF Behind
    <2>2. m <= TlsPage => Behind(start, m) = {}
      BY <1>5 DEF Behind
    <2>3. QED
      BY <1>5, <2>1, <2>2
  <1>8. (StubsFit' <=> StubsFit) /\ (TemplateFits' <=> m <= TlsPage)
    BY <1>1, <1>4 DEF StubsFit, TemplateFits, IsImplemented
  <1>9. strays \subseteq BehindStubs /\ (strays = {} <=> StubsFit)
    BY <1>1 DEF StrayInv
  <1>10. OverrunsAreBounded'
    BY <1>4, <1>6, <1>7, <1>8, <1>9 DEF OverrunsAreBounded, BehindStubs
  <1>11. QED
    BY <1>1, <1>10 DEF StrayInv

LEMMA StrayInvIsKept ==
  ASSUME LoadInv, StrayInv, [LoaderNext]_loaderVars
  PROVE  StrayInv'
  <1>1. CASE \/ \E base \in Bases : AllocateImage(base)
             \/ MapSection \/ RelocateBlock
    <2>1. /\ loading.phase \in {"read", "map", "relocate"} /\ strays' = strays /\ tlsArea' = tlsArea
          /\ loading'.phase \in {"map", "relocate", "directories"}
      <3>1. CASE \E base \in Bases : AllocateImage(base)
        BY <3>1 DEF AllocateImage, At
      <3>2. CASE MapSection
        BY <3>2 DEF MapSection, At
      <3>3. CASE RelocateBlock
        BY <3>3 DEF RelocateBlock, At
      <3>4. QED
        BY <1>1, <3>1, <3>2, <3>3
    <2>2. QED
      BY <2>1, NoStray DEF StrayInv
  <1>2. CASE LoadRefused \/ SectionRefused \/ BlockRefused \/ BindRefused \/ TlsRefused
    BY <1>2, FailStraysNot DEF LoadRefused, SectionRefused, BlockRefused, BindRefused, TlsRefused,
                               AtEntry, AtTls
  <1>3. CASE StartRelocations
    <2>1. CASE Fail
      BY <1>3, <2>1, FailStraysNot DEF StartRelocations
    <2>2. CASE ~Fail
      <3>1. /\ loading.phase = "map" /\ strays' = strays /\ tlsArea' = tlsArea
            /\ loading'.phase \in {"relocate", "directories"}
        BY <1>3, <2>2 DEF StartRelocations, At
      <3>2. QED
        BY <3>1, NoStray DEF StrayInv
    <2>3. QED
      BY <2>1, <2>2
  <1>4. CASE ReadDirectories
    <2>1. CASE Fail
      BY <1>4, <2>1, FailStraysNot DEF ReadDirectories
    <2>2. CASE ~Fail
      <3>1. /\ loading.phase = "directories" /\ strays' = strays /\ tlsArea' = tlsArea
            /\ loading'.phase = "bind" /\ importRecords' = importRecords
        BY <1>4, <2>2 DEF ReadDirectories, At
      <3>2. importRecords = <<>> /\ strays = {}
        BY <3>1, PhaseInv DEF StrayInv, NothingIsBound
      <3>3. Len(importRecords') <= MaxImportSymbols /\ StubsFit'
        BY <3>1, <3>2, LoaderAssumption DEF StubsFit
      <3>4. QED
        BY <3>1, <3>2, <3>3, NoStray
    <2>3. QED
      BY <2>1, <2>2
  <1>5. CASE BindSymbol
    BY <1>5, BindStrays
  <1>6. CASE NextDescriptor
    <2>1. /\ loading.phase = "bind" /\ strays' = strays /\ tlsArea' = tlsArea
          /\ loading'.phase = "bind" /\ importRecords' = importRecords
      BY <1>6 DEF NextDescriptor, AtEntry, At
    <2>2. StubsFit' <=> StubsFit
      BY <2>1 DEF StubsFit, IsImplemented
    <2>3. QED
      BY <2>1, <2>2, NoStray DEF StrayInv
  <1>7. CASE InitializeTls
    BY <1>7, TemplateStrays
  <1>8. CASE UNCHANGED loaderVars
    BY <1>8 DEF loaderVars, StrayInv, OverrunsAreBounded, StubsFit, TemplateFits, IsImplemented
  <1>9. QED
    BY <1>1, <1>2, <1>3, <1>4, <1>5, <1>6, <1>7, <1>8 DEF LoaderNext

\* For every number of stubs and every length of template that a page may hold: the
\* loader writes behind the page of the stubs or of the thread-local block exactly
\* when a symbol without a function has no room left or the template is longer, and
\* no further than MAX_IMPORT_SYMBOLS stubs and the limit on templates (resolve_imports,
\* initialize_nativeaot_tls).
THEOREM OverrunsStayBounded == LoaderSpec => []OverrunsAreBounded
  <1>1. LoaderInit => StrayInv
    BY StrayInvInitially
  <1>2. LoadInv /\ StrayInv /\ [LoaderNext]_loaderVars => StrayInv'
    BY StrayInvIsKept
  <1>3. StrayInv => OverrunsAreBounded
    BY DEF StrayInv
  <1>4. QED
    BY <1>1, <1>2, <1>3, LoadInvHolds, PTL DEF LoaderSpec
=============================================================================
