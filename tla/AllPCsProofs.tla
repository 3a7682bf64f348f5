---------------------------- MODULE AllPCsProofs ----------------------------
(***************************************************************************)
(* Proofs about FindAllPCs, for every file, every width of bytes and       *)
(* addresses: the scan of .text lists what reads as a call of trace_pc,    *)
(* the call ends as the file deserves, the list is complete, and the       *)
(* relocations give the calls and jumps of the linked file.                *)
(***************************************************************************)
EXTENDS AllPCs, SortingProofs, SequenceTheorems

-----------------------------------------------------------------------------
(* Arithmetic. *)

(* Addresses keep their alignment when they wrap. *)
LEMMA WrapKeepsAlignment ==
    ASSUME NEW x \in Int
    PROVE  (x % Word) % 4 = x % 4
<1> DEFINE q == Word \div 4
           d == x \div Word
<1>1. q \in Int /\ Word = 4 * q /\ Word \in Nat \ {0}
  BY CallAssumption
<1>2. d \in Int /\ x % Word \in Int
  BY <1>1
<1>3. x = Word * d + (x % Word)
  BY <1>1, Z3
<1>4. PICK e \in Int : e = q * d
  BY <1>1, <1>2
<1>5. Word * d = 4 * e
  BY <1>1, <1>2, <1>4, Z3
<1>6. ASSUME NEW r \in Int, x = 4 * e + r
      PROVE  r % 4 = x % 4
  BY <1>6
<1> QED
  <2> DEFINE r == x % Word
  <2>1. r \in Int /\ x = 4 * e + r
    BY <1>2, <1>3, <1>5
  <2> HIDE DEF r
  <2>2. r % 4 = x % 4
    BY <2>1, <1>6
  <2> QED
    BY <2>2 DEF r

LEMMA FileType ==
    ASSUME file \in Files
    PROVE  /\ file.machine \in Machines
           /\ file.addr \in Nat
           /\ Len(file.text) \in Nat
           /\ \A k \in 1..Len(file.text) : file.text[k] \in 0..(Byte - 1)
<1>1. file.text \in Seq(0..(Byte - 1)) /\ file.machine \in Machines /\ file.addr \in Nat
  BY FilesAssumption
<1>2. Len(file.text) \in Nat
  BY <1>1, LenProperties
<1>3. \A k \in 1..Len(file.text) : file.text[k] \in 0..(Byte - 1)
  BY <1>1, ElementOfSeq
<1> QED
  BY <1>1, <1>2, <1>3

(* The low 24 bits are a number below 2^24. *)
LEMMA Low24Range ==
    ASSUME file \in Files, NEW i \in Nat, i + 3 <= Len(file.text)
    PROVE  Low24(file.text, i) \in 0..(Byte3 - 1) /\ Byte3 \in Nat \ {0}
<1> DEFINE a == file.text[i + 1]
           b == file.text[i + 2]
           c == file.text[i + 3]
<1>1. Byte \in Nat \ {0}
  BY CallAssumption
<1>2. a \in 0..(Byte - 1) /\ b \in 0..(Byte - 1) /\ c \in 0..(Byte - 1)
  BY FileType
<1>3. Low24(file.text, i) = a + Byte * b + Byte * Byte * c
  <2>1. (i + 1) + 1 = i + 2 /\ (i + 2) + 1 = i + 3
    OBVIOUS
  <2> QED
    BY <2>1 DEF Low24, ByteAt
<1> HIDE DEF a, b, c
<1>4. PICK u \in Int : u = Byte * b
  BY <1>1, <1>2
<1>5. PICK s \in Int : s = Byte * Byte
  BY <1>1
<1>6. PICK v \in Int : v = s * c
  BY <1>2, <1>5
<1>7. u >= 0 /\ u <= s - Byte
  <2>1. Byte * b <= Byte * (Byte - 1) /\ Byte * b >= 0
    BY <1>1, <1>2, Z3
  <2>2. Byte * (Byte - 1) = Byte * Byte - Byte
    BY <1>1, Z3
  <2> QED
    BY <2>1, <2>2, <1>4, <1>5, <1>1
<1>8. s >= 1
  BY <1>1, <1>5, Z3
<1>9. v >= 0 /\ v <= Byte3 - s
  <2>1. s * c <= s * (Byte - 1) /\ s * c >= 0
    BY <1>1, <1>2, <1>5, <1>8, Z3
  <2>2. s * (Byte - 1) = s * Byte - s
    BY <1>1, <1>5, Z3
  <2>3. Byte3 = s * Byte
    BY <1>5 DEF Byte3
  <2> QED
    BY <2>1, <2>2, <2>3, <1>5, <1>6, <1>1
<1>10. Byte3 \in Nat \ {0}
  BY <1>1, <1>8, <1>5, Z3 DEF Byte3
<1>11. Low24(file.text, i) = a + u + v
  BY <1>3, <1>4, <1>5, <1>6
<1> QED
  BY <1>11, <1>10, <1>9, <1>8, <1>7, <1>5, <1>4, <1>6, <1>2, <1>1

-----------------------------------------------------------------------------
(* One byte of the scan. *)

Site(o) == o - arch.opcodeOffset

(* The scan takes the byte at o for the opcode of a call of trace_pc. *)
Taken(o) ==
    LET op == ByteAt(file.text, o)
        i == Site(o)
    IN  /\ op \in arch.opcodes /\ Window(i)
        /\ Target(file.machine, file.text, i, file.addr + i, op) = tracePC

LEMMA TakenOnAmd64 ==
    ASSUME file \in Files, file.machine = "amd64", NEW o \in Nat, o < Len(file.text)
    PROVE  Taken(o) <=> Site(o) \in ReadAsCalls
<1>1. /\ arch.opcodes = {CallOpcode} /\ arch.opcodeOffset = 0 /\ arch.callLen = 5
      /\ arches["amd64"].callLen = 5
  BY DEF arch, arches, Machines
<1>2. Site(o) = o /\ CallLen = 5 /\ Len(file.text) \in Nat /\ file.addr \in Nat
  BY <1>1, FileType DEF Site, CallLen
<1>3. Window(o) <=> o \in Readable
  BY <1>1, <1>2 DEF Window, Readable
<1>4. IsCall(file.text, o) <=> ByteAt(file.text, o) \in arch.opcodes
  BY <1>1 DEF IsCall
<1>5. InReach(file.text, o)
  BY DEF InReach
<1>6. ASSUME o \in Readable
      PROVE  Target(file.machine, file.text, o, file.addr + o, ByteAt(file.text, o))
                = Callee(file.text, o, file.addr + o)
  <2> DEFINE v == SignedOf(Uint32(file.text, o + 1), Byte * Byte3)
  <2>1. o + 5 <= Len(file.text)
    BY <1>6, <1>2 DEF Readable
  <2>2. Low24(file.text, o + 1) \in Int /\ Byte3 \in Nat
    BY <2>1, <1>2, Low24Range
  <2>3. ByteAt(file.text, (o + 1) + 3) \in Int
    BY <2>1, <1>2, FileType, CallAssumption DEF ByteAt
  <2>4. v \in Int
    <3>1. \A k, b \in Int : k * b \in Int
      OBVIOUS
    <3>2. Uint32(file.text, o + 1) \in Int /\ Byte * Byte3 \in Int
      BY <2>2, <2>3, <3>1, CallAssumption DEF Uint32
    <3> QED
      BY <3>2 DEF SignedOf
  <2> HIDE DEF v
  <2>5. (file.addr + o) + v + 5 = (file.addr + o) + 5 + v
    BY <2>4, <1>2
  <2> QED
    BY <2>5, <1>1, <1>2 DEF v, Target, Callee, Operand
<1>7. Taken(o) <=> /\ ByteAt(file.text, o) \in arch.opcodes /\ Window(o)
                   /\ Target(file.machine, file.text, o, file.addr + o, ByteAt(file.text, o)) = tracePC
  BY <1>2 DEF Taken
<1>8. o \in ReadAsCalls <=> /\ o \in Readable /\ IsCall(file.text, o) /\ InReach(file.text, o)
                          /\ Callee(file.text, o, file.addr + o) = tracePC
  BY DEF ReadAsCalls
<1> QED
  BY <1>2, <1>3, <1>4, <1>5, <1>6, <1>7, <1>8

(* Of the four opcode bytes, the two that the scan knows are those whose   *)
(* operand is in reach, and Offset is the operand.                         *)
LEMMA OffsetIsOperand ==
    ASSUME file \in Files, file.machine = "arm64", NEW i \in Nat, i + 4 <= Len(file.text)
    PROVE  LET op == ByteAt(file.text, i + 3)
           IN  /\ op \in {BranchLink, BranchLink + 3}
                     <=> IsCall(file.text, i) /\ InReach(file.text, i)
               /\ op \in {BranchLink, BranchLink + 3}
                     => Offset(file.text, i, op) = Operand(file.text, i)
               /\ Offset(file.text, i, op) \in Int
<1> DEFINE op == ByteAt(file.text, i + 3)
           l == Low24(file.text, i)
           t == op % 4
<1>1. op \in Nat /\ BranchLink \in Nat /\ BranchLink % 4 = 0
  <2>1. i + 3 + 1 \in 1..Len(file.text)
    BY FileType
  <2> QED
    BY <2>1, FileType, CallAssumption DEF ByteAt
<1>2. l \in 0..(Byte3 - 1) /\ Byte3 \in Nat \ {0}
  BY Low24Range, FileType
<1>3. t \in 0..3 /\ (op \in BranchLink..(BranchLink + 3) <=> op = BranchLink + t)
  BY <1>1, SMT
<1>4. IsCall(file.text, i) <=> op = BranchLink + t
  BY <1>3 DEF IsCall
<1>5. Operand(file.text, i) = SignedOf(l + Byte3 * t, 4 * Byte3)
  BY DEF Operand
<1>6. InReach(file.text, i) <=> Operand(file.text, i) \in (-Byte3)..(Byte3 - 1)
  BY DEF InReach
<1>7. Offset(file.text, i, op) = IF op = BranchLink + 3 THEN l - Byte3 ELSE l
  BY DEF Offset
<1>8. /\ Byte3 * 0 = 0 /\ Byte3 * 1 = Byte3 /\ Byte3 * 2 = 2 * Byte3 /\ Byte3 * 3 = 3 * Byte3
  BY <1>2
<1> HIDE DEF op, l, t
<1>9. CASE t = 0
  <2>1. Operand(file.text, i) = l
    BY <1>9, <1>5, <1>8, <1>2 DEF SignedOf
  <2>2. InReach(file.text, i)
    BY <2>1, <1>6, <1>2
  <2> QED
    BY <2>1, <2>2, <1>1, <1>2, <1>3, <1>4, <1>7, <1>9 DEF op
<1>10. CASE t = 3
  <2>1. Operand(file.text, i) = l - Byte3
    BY <1>10, <1>5, <1>8, <1>2 DEF SignedOf
  <2>2. InReach(file.text, i)
    BY <2>1, <1>6, <1>2
  <2> QED
    BY <2>1, <2>2, <1>1, <1>2, <1>3, <1>4, <1>7, <1>10 DEF op
<1>11. CASE t \in {1, 2}
  <2>1. Operand(file.text, i) = IF t = 1 THEN l + Byte3 ELSE l - 2 * Byte3
    BY <1>11, <1>5, <1>8, <1>2 DEF SignedOf
  <2>2. ~InReach(file.text, i)
    BY <2>1, <1>6, <1>2, <1>11
  <2>3. op \notin {BranchLink, BranchLink + 3}
    <3>1. (BranchLink + 3) % 4 = 3
      BY <1>1
    <3> QED
      BY <3>1, <1>1, <1>11 DEF t
  <2> QED
    BY <2>2, <2>3, <1>2, <1>7 DEF op
<1> QED
  BY <1>3, <1>9, <1>10, <1>11

LEMMA TakenOnArm64 ==
    ASSUME file \in Files, file.machine = "arm64", Words, NEW o \in Nat, o < Len(file.text)
    PROVE  Taken(o) <=> Site(o) \in ReadAsCalls
<1> DEFINE i == Site(o)
           op == ByteAt(file.text, o)
<1>1. /\ arch.opcodes = {BranchLink, BranchLink + 3} /\ arch.opcodeOffset = 3 /\ arch.callLen = 4
  BY DEF arch, arches, Machines
<1>2. /\ i = o - 3 /\ i + 3 = o /\ i \in Int
      /\ CallLen = 4 /\ Len(file.text) \in Nat /\ file.addr \in Nat
      /\ file.addr % 4 = 0 /\ tracePC % 4 = 0
  BY <1>1, FileType DEF Site, CallLen, Words
<1>3. Taken(o) => i \in Nat /\ i + 4 <= Len(file.text)
  BY <1>1, <1>2 DEF Taken, Window
<1>4. i \in ReadAsCalls => i \in Nat /\ i + 4 <= Len(file.text)
  BY <1>2 DEF ReadAsCalls, Readable
<1>5. SUFFICES ASSUME i \in Nat, i + 4 <= Len(file.text)
               PROVE  Taken(o) <=> i \in ReadAsCalls
  BY <1>3, <1>4
<1>6. Window(i)
  BY <1>1, <1>2, <1>5 DEF Window
<1>7. /\ op \in arch.opcodes <=> IsCall(file.text, i) /\ InReach(file.text, i)
      /\ op \in arch.opcodes => Offset(file.text, i, op) = Operand(file.text, i)
      /\ Offset(file.text, i, op) \in Int
  BY <1>1, <1>2, <1>5, OffsetIsOperand
<1>8. Target(file.machine, file.text, i, file.addr + i, op)
         = (file.addr + i + 4 * Offset(file.text, i, op)) % Word
  BY DEF Target
<1>9. Callee(file.text, i, file.addr + i) = (file.addr + i + 4 * Operand(file.text, i)) % Word
  BY DEF Callee
<1>10. Taken(o) => i % 4 = 0
  <2> DEFINE f == Offset(file.text, i, op)
             x == file.addr + i + 4 * f
  <2>1. f \in Int /\ x \in Int
    BY <1>7, <1>2
  <2>2. (x % Word) % 4 = x % 4
    BY <2>1, WrapKeepsAlignment
  <2>3. x % 4 = i % 4
    <3>1. ASSUME NEW a \in Int, NEW b \in Int, NEW c \in Int, a % 4 = 0
          PROVE  (a + b + 4 * c) % 4 = b % 4
      BY <3>1
    <3>2. file.addr \in Int /\ file.addr % 4 = 0 /\ i \in Int /\ f \in Int
      BY <2>1, <1>2
    <3> HIDE DEF f, i
    <3> QED
      BY <3>1, <3>2, Zenon
  <2>4. Taken(o) => x % Word = tracePC
    BY <1>8 DEF Taken
  <2> QED
    BY <2>2, <2>3, <2>4, <1>2
<1>11. i \in Readable <=> i % 4 = 0
  BY <1>2, <1>5 DEF Readable
<1>12. Taken(o) <=> /\ op \in arch.opcodes
                    /\ Target(file.machine, file.text, i, file.addr + i, op) = tracePC
  BY <1>6 DEF Taken
<1>13. i \in ReadAsCalls <=> /\ i \in Readable /\ IsCall(file.text, i) /\ InReach(file.text, i)
                           /\ Callee(file.text, i, file.addr + i) = tracePC
  BY DEF ReadAsCalls
<1> HIDE DEF i, op
<1> QED
  BY <1>7, <1>8, <1>9, <1>10, <1>11, <1>12, <1>13

LEMMA SiteFound ==
    ASSUME file \in Files, Words, NEW o \in Nat, o < Len(file.text)
    PROVE  Taken(o) <=> Site(o) \in ReadAsCalls
<1>1. file.machine \in {"amd64", "arm64"}
  BY FileType DEF Words, Machines
<1> QED
  BY <1>1, TakenOnAmd64, TakenOnArm64

-----------------------------------------------------------------------------
(* What the loops are over. *)

LoopsInv ==
    /\ file \in Files
    /\ n \in Nat
    /\ at \in {"open", "symbols", "relocs", "units", "entries", "list"} => n >= 1
    /\ cus \in Seq(1..Len(file.units))

LEMMA LoopsInit == Init => LoopsInv
BY EmptySeq DEF Init, LoopsInv

LEMMA FileLists ==
    ASSUME file \in Files
    PROVE  /\ file.symbols \in Seq(Symbols) /\ Len(file.symbols) \in Nat
           /\ file.units \in Seq(Units) /\ Len(file.units) \in Nat
<1>1. file.symbols \in Seq(Symbols) /\ file.units \in Seq(Units)
  BY FilesAssumption
<1> QED
  BY <1>1, LenProperties

(* The elements that the loops read. *)
LEMMA SymbolType ==
    ASSUME LoopsInv, at = "symbols", n <= Len(file.symbols)
    PROVE  n \in 1..Len(file.symbols) /\ file.symbols[n] \in Symbols
<1>1. n \in 1..Len(file.symbols)
  BY FileLists DEF LoopsInv
<1> QED
  BY <1>1, FileLists, ElementOfSeq DEF LoopsInv

LEMMA UnitType ==
    ASSUME LoopsInv, at = "units", n <= Len(file.units)
    PROVE  n \in 1..Len(file.units) /\ file.units[n] \in Units
<1>1. n \in 1..Len(file.units)
  BY FileLists DEF LoopsInv
<1> QED
  BY <1>1, FileLists, ElementOfSeq DEF LoopsInv

LEMMA EntryType ==
    ASSUME LoopsInv, at = "entries", n <= Len(cus)
    PROVE  n \in 1..Len(cus) /\ cus[n] \in 1..Len(file.units) /\ file.units[cus[n]] \in Units
<1>1. n \in 1..Len(cus)
  BY LenProperties DEF LoopsInv
<1>2. cus[n] \in 1..Len(file.units)
  BY <1>1, ElementOfSeq DEF LoopsInv
<1> QED
  BY <1>1, <1>2, FileLists, ElementOfSeq DEF LoopsInv

LEMMA LoopsStep == LoopsInv /\ [Next]_vars => LoopsInv'
<1> SUFFICES ASSUME LoopsInv, [Next]_vars PROVE LoopsInv'
  OBVIOUS
<1>1. CASE OpenSymbols \/ OpenUnits \/ EndOfText \/ EndOfRelocs
  BY <1>1 DEF LoopsInv, OpenSymbols, OpenUnits, EndOfText, EndOfRelocs, End, args, info, lines
<1>2. CASE ReadSymbol \/ EndOfSymbols
  BY <1>2 DEF LoopsInv, ReadSymbol, EndOfSymbols, args, info, lines
<1>3. CASE ScanByte \/ ReadReloc
  BY <1>3 DEF LoopsInv, ScanByte, ReadReloc, args, info, lines
<1>4. CASE NextUnit
  <2>1. /\ file' = file /\ n' = n + 1
        /\ cus' = cus \/ cus' = Append(cus, n)
    BY <1>4 DEF NextUnit, args, info, lines
  <2>2. n \in 1..Len(file.units)
    BY <1>4, UnitType DEF NextUnit
  <2>3. Append(cus, n) \in Seq(1..Len(file.units))
    BY <2>2, AppendProperties DEF LoopsInv
  <2> QED
    BY <2>1, <2>3 DEF LoopsInv
<1>5. CASE EndOfUnits \/ ReadEntries \/ EndOfEntries \/ ListUnit \/ EndOfList
  BY <1>5 DEF LoopsInv, EndOfUnits, ReadEntries, EndOfEntries, ListUnit, EndOfList, End, args, info, lines
<1>6. CASE Return \/ UNCHANGED vars
  BY <1>6 DEF LoopsInv, Return, vars, args, info, lines
<1> QED
  BY <1>1, <1>2, <1>3, <1>4, <1>5, <1>6 DEF Next

-----------------------------------------------------------------------------
(* The scan. *)

(* The calls whose opcode byte is before offset m. *)
SitesBelow(m) == {i \in ReadAsCalls : i + arch.opcodeOffset < m}

FoundSoFar ==
    /\ points \in Seq(Int) \X Seq(Int)
    /\ ToSet(points[1]) = {file.addr + i : i \in SitesBelow(n)}
    /\ Ascending(points[1])

(* What was scanned was found; the other loops leave the points alone or   *)
(* are not those of a scan.                                                *)
ScanInv ==
    /\ file \in Files
    /\ at \in {"open", "symbols"} => points = << << >>, << >> >>
    /\ at = "relocs" => Has(".rela.text")
    /\ at \in {"units", "entries", "list"} => ~filter
    /\ at = "text" => n \in 0..Len(file.text)
    /\ (at = "text" /\ Words) => FoundSoFar
    /\ TextPointsReadAsCalls

LEMMA ArchType ==
    ASSUME file \in Files
    PROVE  arch.opcodeOffset \in Nat /\ arch.callLen \in Nat /\ arch.relaOffset \in Nat
BY FileType DEF arch, arches, Machines

(* Where a call can begin, all of it is in .text.  *)
LEMMA ReadableType ==
    ASSUME file \in Files, NEW i \in Readable
    PROVE  i \in Nat /\ i + CallLen <= Len(file.text)
<1>1. Len(file.text) \in Nat /\ CallLen \in Nat
  BY FileType DEF CallLen
<1>2. i \in 0..(Len(file.text) - CallLen)
  BY DEF Readable
<1> QED
  BY <1>1, <1>2

(* Nothing is before the first byte, and no call is after the last. *)
LEMMA ScanEnds ==
    ASSUME file \in Files
    PROVE  /\ SitesBelow(0) = {}
           /\ Words => SitesBelow(Len(file.text)) = ReadAsCalls
<1>1. ReadAsCalls \subseteq Readable /\ Len(file.text) \in Nat /\ arch.opcodeOffset \in Nat
  BY FileType, ArchType DEF ReadAsCalls
<1>2. SitesBelow(0) = {}
  <2>1. \A i \in ReadAsCalls : ~(i + arch.opcodeOffset < 0)
    BY <1>1, ReadableType
  <2> QED
    BY <2>1 DEF SitesBelow
<1>3. Words => /\ file.machine \in {"amd64", "arm64"}
               /\ arch.opcodeOffset = IF file.machine = "amd64" THEN 0 ELSE 3
  BY FileType DEF Words, Machines, arch, arches
<1>4. ASSUME Words, NEW i \in Readable
      PROVE  i + arch.opcodeOffset < Len(file.text)
  <2>1. i \in Nat /\ i + CallLen <= Len(file.text)
    BY <1>4, ReadableType
  <2>2. CASE file.machine = "amd64"
    BY <2>1, <2>2, <1>1, <1>3, <1>4 DEF CallLen
  <2>3. CASE file.machine = "arm64"
    BY <2>1, <2>3, <1>1, <1>3, <1>4 DEF CallLen
  <2> QED
    BY <2>2, <2>3, <1>3, <1>4
<1>5. Words => \A i \in ReadAsCalls : i + arch.opcodeOffset < Len(file.text)
  BY <1>1, <1>4
<1> QED
  BY <1>2, <1>5 DEF SitesBelow

LEMMA NextSite ==
    ASSUME file \in Files, NEW o \in Nat
    PROVE  SitesBelow(o + 1) = SitesBelow(o) \cup (IF Site(o) \in ReadAsCalls THEN {Site(o)} ELSE {})
<1>1. ReadAsCalls \subseteq Int /\ arch.opcodeOffset \in Nat
  <2>1. ReadAsCalls \subseteq Readable
    BY DEF ReadAsCalls
  <2>2. \A i \in Readable : i \in Nat
    BY ReadableType
  <2> QED
    BY <2>1, <2>2, ArchType
<1>2. \A i \in Int : i + arch.opcodeOffset < o + 1
                        <=> (i + arch.opcodeOffset < o \/ i = Site(o))
  <2>1. ASSUME NEW i \in Int, NEW k \in Nat
        PROVE  i + k < o + 1 <=> (i + k < o \/ i = o - k)
    BY <2>1
  <2> QED
    BY <2>1, <1>1 DEF Site
<1>3. Site(o) + arch.opcodeOffset < o + 1
  BY <1>1 DEF Site
<1> QED
  BY <1>1, <1>2, <1>3 DEF SitesBelow

(* A number above all others can be appended. *)
LEMMA AppendAscending ==
    ASSUME NEW s \in Seq(Int), NEW p \in Int, Ascending(s), \A q \in ToSet(s) : q < p
    PROVE  /\ Append(s, p) \in Seq(Int)
           /\ Ascending(Append(s, p))
           /\ ToSet(Append(s, p)) = ToSet(s) \cup {p}
<1> DEFINE t == Append(s, p)
<1>1. /\ t \in Seq(Int) /\ Len(t) = Len(s) + 1 /\ Len(s) \in Nat
      /\ \A k \in 1..Len(s) : t[k] = s[k]
      /\ t[Len(s) + 1] = p
  BY AppendProperties, LenProperties
<1>2. \A k \in 1..Len(s) : s[k] \in ToSet(s)
  BY DEF ToSet
<1> HIDE DEF t
<1>3. Ascending(t)
  <2> SUFFICES ASSUME NEW j \in 1..Len(t), NEW k \in 1..Len(t), j < k
               PROVE  t[j] < t[k]
    BY DEF Ascending
  <2>1. j \in 1..Len(s) /\ t[j] = s[j]
    BY <1>1
  <2>2. CASE k = Len(s) + 1
    BY <2>1, <2>2, <1>1, <1>2
  <2>3. CASE k \in 1..Len(s)
    BY <2>1, <2>3, <1>1 DEF Ascending
  <2>4. k = Len(s) + 1 \/ k \in 1..Len(s)
    <3>1. k \in 1..(Len(s) + 1) /\ Len(s) \in Nat
      BY <1>1, Zenon
    <3> QED
      BY <3>1
  <2> QED
    BY <2>2, <2>3, <2>4
<1>4. ToSet(t) = ToSet(s) \cup {p}
  <2>1. ToSet(t) \subseteq ToSet(s) \cup {p}
    BY <1>1, <1>2 DEF ToSet
  <2>2. ToSet(s) \subseteq ToSet(t)
    BY <1>1 DEF ToSet
  <2>3. p \in ToSet(t)
    BY <1>1 DEF ToSet
  <2> QED
    BY <2>1, <2>2, <2>3
<1> QED
  BY <1>1, <1>3, <1>4 DEF t

(* A byte of the scan: the site is appended if it is a call. *)
LEMMA ScanByteKeeps ==
    ASSUME ScanInv, ScanByte, at' = "text", Words
    PROVE  /\ ToSet(points'[1]) = {file.addr + i : i \in SitesBelow(n + 1)}
           /\ Ascending(points'[1])
           /\ points' \in Seq(Int) \X Seq(Int)
<1> DEFINE s == points[1]
           p == file.addr + Site(n)
<1>1. /\ file \in Files /\ at = "text" /\ n \in Nat /\ n < Len(file.text)
      /\ points = <<s, points[2]>> /\ s \in Seq(Int) /\ points[2] \in Seq(Int)
      /\ ToSet(s) = {file.addr + i : i \in SitesBelow(n)} /\ Ascending(s)
  BY FileType DEF ScanInv, ScanByte, FoundSoFar
<1>2. CASE Taken(n)
  <2>1. points' = <<Append(s, p), points[2]>>
    <3>1. Found(p, TRUE, FALSE)
      <4> DEFINE op == ByteAt(file.text, n)
                 i == Site(n)
                 target == Target(file.machine, file.text, i, file.addr + i, op)
      <4>1. op \in arch.opcodes /\ Window(i) /\ target = tracePC
        BY <1>2 DEF Taken
      <4>2. Found(file.addr + i, target = tracePC, target \in traceCmp)
        BY <4>1 DEF ScanByte, Site, Words
      <4>3. (target = tracePC) = TRUE /\ (target \in traceCmp) = FALSE
        BY <4>1 DEF traceCmp
      <4> HIDE DEF op, i, target
      <4> QED
        BY <4>2, <4>3 DEF i
    <3>2. points' = [points EXCEPT ![1] = Append(@, p)]
      BY <3>1 DEF Found
    <3> QED
      BY <3>2, <1>1
  <2>2. Site(n) \in ReadAsCalls
    BY <1>1, <1>2, SiteFound
  <2>3. p \in Int /\ \A q \in ToSet(s) : q < p
    <3>1. file.addr \in Nat /\ arch.opcodeOffset \in Nat
      BY <1>1, FileType, ArchType
    <3>2. \A i \in SitesBelow(n) : i \in Nat /\ i + arch.opcodeOffset < n
      BY <1>1, ReadableType DEF SitesBelow, ReadAsCalls
    <3>3. \A i \in SitesBelow(n) : file.addr + i < p
      BY <1>1, <3>1, <3>2 DEF Site
    <3>4. p \in Int
      BY <1>1, <3>1 DEF Site
    <3> QED
      BY <1>1, <3>3, <3>4
  <2>4. /\ Append(s, p) \in Seq(Int) /\ Ascending(Append(s, p))
        /\ ToSet(Append(s, p)) = ToSet(s) \cup {p}
    BY <1>1, <2>3, AppendAscending
  <2>5. SitesBelow(n + 1) = SitesBelow(n) \cup {Site(n)}
    BY <1>1, <2>2, NextSite
  <2> QED
    BY <1>1, <2>1, <2>4, <2>5
<1>3. CASE ~Taken(n)
  <2>1. points' = points
    BY <1>3 DEF ScanByte, Taken, Site, Words, traceCmp, Found
  <2>2. Site(n) \notin ReadAsCalls
    BY <1>1, <1>3, SiteFound
  <2>3. SitesBelow(n + 1) = SitesBelow(n)
    BY <1>1, <2>2, NextSite
  <2> QED
    BY <1>1, <2>1, <2>3
<1> QED
  BY <1>2, <1>3

-----------------------------------------------------------------------------
(* The steps. *)

LEMMA ScanInit == Init => ScanInv
BY DEF Init, ScanInv, TextPointsReadAsCalls, Has

(* The scan begins with nothing found. *)
LEMMA EndOfSymbolsKeeps == ScanInv /\ EndOfSymbols => ScanInv'
<1> SUFFICES ASSUME ScanInv, EndOfSymbols PROVE ScanInv'
  OBVIOUS
<1>1. /\ file \in Files /\ file' = file /\ filter' = filter /\ tracePC' = tracePC
      /\ points = << << >>, << >> >> /\ points' = points
      /\ at' \in {"relocs", "text", "error"}
      /\ at' = "relocs" => Has(".rela.text")
      /\ at' = "text" => n' = 0
  BY DEF ScanInv, EndOfSymbols, args, info, lines
<1>2. Len(file.text) \in Nat /\ SitesBelow(0) = {}
  BY <1>1, FileType, ScanEnds
<1>3. SitesBelow(0)' = {}
  BY <1>1, <1>2 DEF SitesBelow, ReadAsCalls, Readable, CallLen, IsCall, InReach, Callee, Operand, arch
<1>4. << >> \in Seq(Int) /\ ToSet(<< >>) = {} /\ Ascending(<< >>)
  BY DEF ToSet, Ascending
<1>5. points'[1] = << >> /\ points' \in Seq(Int) \X Seq(Int)
  BY <1>1, <1>4
<1>6. at' = "text" => FoundSoFar'
  <2>1. ASSUME at' = "text"
        PROVE  SitesBelow(n)' = {}
    BY <1>1, <1>3, <2>1 DEF SitesBelow
  <2> QED
    BY <1>4, <1>5, <2>1, <1>1 DEF FoundSoFar, Ascending
<1>7. at' = "text" => n' \in 0..Len(file'.text)
  BY <1>1, <1>2
<1>8. TextPointsReadAsCalls'
  BY <1>1 DEF TextPointsReadAsCalls
<1> QED
  BY <1>1, <1>5, <1>6, <1>7, <1>8 DEF ScanInv, Has

LEMMA SameSites ==
    ASSUME file' = file, tracePC' = tracePC
    PROVE  /\ ReadAsCalls' = ReadAsCalls /\ arch' = arch /\ (Words <=> Words')
           /\ SitesBelow(n)' = SitesBelow(n')
<1>1. ReadAsCalls' = ReadAsCalls /\ arch' = arch
  BY DEF ReadAsCalls, Readable, CallLen, IsCall, InReach, Callee, Operand, arch
<1> QED
  BY <1>1 DEF SitesBelow, Words

LEMMA ScanByteStep == ScanInv /\ ScanByte => ScanInv'
<1> SUFFICES ASSUME ScanInv, ScanByte PROVE ScanInv'
  OBVIOUS
<1>1. /\ file \in Files /\ file' = file /\ filter' = filter /\ tracePC' = tracePC
      /\ at = "text" /\ n \in Nat /\ n < Len(file.text) /\ n' = n + 1
      /\ Len(file.text) \in Nat
      /\ at' \in {"text", "panic"}
  BY FileType DEF ScanInv, ScanByte, args, info, lines
<1>2. (Words' <=> Words) /\ SitesBelow(n)' = SitesBelow(n + 1)
  BY <1>1, SameSites
<1>3. (at' = "text" /\ Words) => /\ ToSet(points'[1]) = {file.addr + i : i \in SitesBelow(n + 1)}
                                 /\ Ascending(points'[1])
  BY ScanByteKeeps
<1>4. (at' = "text" /\ Words) => FoundSoFar'
  BY <1>1, <1>2, <1>3, ScanByteKeeps DEF FoundSoFar, Ascending
<1>5. TextPointsReadAsCalls'
  BY <1>1 DEF TextPointsReadAsCalls
<1> QED
  BY <1>1, <1>2, <1>4, <1>5 DEF ScanInv

LEMMA EndOfTextStep == ScanInv /\ EndOfText => ScanInv'
<1> SUFFICES ASSUME ScanInv, EndOfText PROVE ScanInv'
  OBVIOUS
<1>1. /\ file \in Files /\ file' = file /\ filter' = filter /\ tracePC' = tracePC
      /\ at = "text" /\ at' = "sort" /\ points' = points /\ n = Len(file.text)
  BY DEF ScanInv, EndOfText, End, args, info, lines
<1>2. Words => /\ ToSet(points[1]) = {file.addr + i : i \in ReadAsCalls}
               /\ Ascending(points[1])
  BY <1>1, ScanEnds DEF ScanInv, FoundSoFar
<1>3. (Words' <=> Words) /\ ReadAsCalls' = ReadAsCalls
  BY <1>1, SameSites
<1>4. TextPointsReadAsCalls'
  BY <1>1, <1>2, <1>3 DEF TextPointsReadAsCalls, Ascending
<1> QED
  BY <1>1, <1>4 DEF ScanInv

(* Steps out of the scan: what they say of the points they leave alone.    *)
LEMMA OtherSteps ==
    LoopsInv /\ ScanInv /\ (\/ OpenSymbols \/ ReadSymbol \/ ReadReloc \/ EndOfRelocs \/ OpenUnits \/ NextUnit
                \/ EndOfUnits \/ ReadEntries \/ EndOfEntries \/ ListUnit \/ EndOfList)
        => ScanInv'
<1> SUFFICES ASSUME LoopsInv, ScanInv,
                    \/ OpenSymbols \/ ReadSymbol \/ ReadReloc \/ EndOfRelocs \/ OpenUnits \/ NextUnit
                    \/ EndOfUnits \/ ReadEntries \/ EndOfEntries \/ ListUnit \/ EndOfList
             PROVE  ScanInv'
  OBVIOUS
<1>1. CASE OpenSymbols \/ OpenUnits
  BY <1>1 DEF ScanInv, TextPointsReadAsCalls, OpenSymbols, OpenUnits, End, args, info, lines, Has
<1>2. CASE ReadSymbol
  BY <1>2 DEF ScanInv, TextPointsReadAsCalls, ReadSymbol, args, info, lines, Has
<1>3. CASE ReadReloc \/ EndOfRelocs
  BY <1>3 DEF ScanInv, TextPointsReadAsCalls, ReadReloc, EndOfRelocs, End, args, info, lines, Has
<1>4. CASE NextUnit
  <2>1. file.units[n] \in Units
    BY <1>4, UnitType DEF NextUnit
  <2> QED
    BY <1>4, <2>1 DEF ScanInv, TextPointsReadAsCalls, NextUnit, Units, args, info, lines, Has
<1>5. CASE ReadEntries
  <2>1. file.units[cus[n]] \in Units
    BY <1>5, EntryType DEF ReadEntries
  <2> QED
    BY <1>5, <2>1 DEF ScanInv, TextPointsReadAsCalls, ReadEntries, Units, args, info, lines, Has
<1>6. CASE EndOfUnits \/ EndOfEntries \/ ListUnit \/ EndOfList
  BY <1>6 DEF ScanInv, TextPointsReadAsCalls, EndOfUnits, EndOfEntries, ListUnit, EndOfList, End,
              args, info, lines, Has
<1> QED
  BY <1>1, <1>2, <1>3, <1>4, <1>5, <1>6

LEMMA ReturnStep ==
    ASSUME ScanInv, Return \/ UNCHANGED vars
    PROVE  ScanInv'
<1>1. /\ file' = file /\ filter' = filter /\ tracePC' = tracePC /\ points' = points
      /\ (at = "sort" /\ at' = "done") \/ (at' = at /\ n' = n)
  BY DEF Return, vars, args, info, lines
<1>2. (Words' <=> Words) /\ ReadAsCalls' = ReadAsCalls /\ SitesBelow(n)' = SitesBelow(n')
  BY <1>1, SameSites
<1>3. TextPointsReadAsCalls'
  BY <1>1, <1>2 DEF ScanInv, TextPointsReadAsCalls, Ascending, Has
<1>4. FoundSoFar /\ n' = n => FoundSoFar'
  BY <1>1, <1>2 DEF FoundSoFar, Ascending
<1> QED
  BY <1>1, <1>2, <1>3, <1>4 DEF ScanInv, Has

(* The scan of .text lists each place whose bytes read as a call of        *)
(* trace_pc in reach once, and no other, for all files, widths and opcodes *)
(* (text.go:77-91): no call in reach is missed, and what is listed beyond  *)
(* the calls reads just as one, on arm64 at an aligned word.               *)
THEOREM ScanReadsCalls == Spec => []TextPointsReadAsCalls
<1>1. LoopsInv /\ ScanInv /\ [Next]_vars => ScanInv'
  BY EndOfSymbolsKeeps, ScanByteStep, EndOfTextStep, OtherSteps, ReturnStep DEF Next
<1>2. ScanInv => TextPointsReadAsCalls
  BY DEF ScanInv
<1> QED
  BY LoopsInit, LoopsStep, ScanInit, <1>1, <1>2, PTL DEF Spec

-----------------------------------------------------------------------------
(* How the call with a filter ends. *)

(* Symbol k is a callback of the kind, with an address in .text. *)
Callback(name, k) == file.symbols[k].name = name /\ InText(file.symbols[k])

TraceInv ==
    filter =>
        /\ at \in {"open", "symbols", "text", "relocs", "sort", "done", "error", "panic"}
        /\ at \notin {"open", "error"} => Has(".symtab") /\ Has(".text")
        /\ at = "open" => n = 1 /\ tracePC = 0
        /\ at = "symbols" => /\ \A k \in 1..Len(file.symbols) : k < n => ~Callback("cmp", k)
                             /\ tracePC # 0 => Defined("pc")
        /\ at \in {"text", "relocs", "sort", "done"} => ~Defined("cmp")
        /\ at = "text" => ~Has(".rela.text") /\ Defined("pc")
        /\ at = "relocs" => Has(".rela.text") /\ Has(".debug_info")
        /\ at \in {"sort", "done"} =>
              IF Has(".rela.text") THEN Has(".debug_info") /\ ~file.torn ELSE Defined("pc")
        /\ at = "panic" =>
              Defined("cmp") \/ (file.machine = "other" /\ ~Has(".rela.text") /\ Defined("pc"))
        /\ at = "error" =>
              \/ {".symtab", ".text"} \cap file.missing # {}
              \/ Has(".rela.text") /\ (file.torn \/ ~Has(".debug_info"))
              \/ ~Has(".rela.text") /\ tracePC = 0

LEMMA TraceInit == Init => TraceInv
BY DEF Init, TraceInv

LEMMA SameFile ==
    ASSUME file' = file, NEW name, NEW part
    PROVE  (Defined(name)' <=> Defined(name)) /\ (Has(part)' <=> Has(part))
BY DEF Defined, InText, Has

LEMMA ReadSymbolTraces == LoopsInv /\ TraceInv /\ ReadSymbol => TraceInv'
<1> SUFFICES ASSUME LoopsInv, TraceInv, ReadSymbol, filter PROVE TraceInv'
  BY DEF TraceInv, ReadSymbol, args
<1> DEFINE s == file.symbols[n]
<1>1. /\ n \in 1..Len(file.symbols) /\ n' = n + 1 /\ at = "symbols"
      /\ file' = file /\ filter' = filter
      /\ tracePC' = IF s.name = "pc" /\ InText(s) THEN s.value ELSE tracePC
      /\ at' = IF OtherCallback(s) /\ InText(s) THEN "panic" ELSE at
  BY SymbolType DEF ReadSymbol, args
<1>2. /\ \A k \in 1..Len(file.symbols) : k < n => ~Callback("cmp", k)
      /\ tracePC # 0 => Defined("pc")
      /\ Has(".symtab") /\ Has(".text")
  BY <1>1 DEF TraceInv
<1>3. tracePC' # 0 => Defined("pc")
  BY <1>1, <1>2 DEF Defined
<1>4. OtherCallback(s) /\ InText(s) <=> Callback("cmp", n)
  BY DEF OtherCallback, Callback
<1>5. CASE Callback("cmp", n)
  <2>1. Defined("cmp") /\ at' = "panic"
    BY <1>1, <1>4, <1>5 DEF Defined, Callback
  <2> QED
    BY <2>1, <1>1, <1>2, SameFile DEF TraceInv
<1>6. CASE ~Callback("cmp", n)
  <2>1. at' = "symbols"
    BY <1>1, <1>4, <1>6
  <2>2. \A k \in 1..Len(file.symbols) : k < n + 1 => ~Callback("cmp", k)
    <3>1. \A k \in 1..Len(file.symbols) : k < n + 1 => k < n \/ k = n
      BY <1>1, FileLists DEF LoopsInv
    <3> QED
      BY <3>1, <1>2, <1>6
  <2>3. (\A k \in 1..Len(file.symbols) : k < n => ~Callback("cmp", k))'
    BY <1>1, <2>2 DEF Callback, InText
  <2> QED
    BY <2>1, <2>3, <1>1, <1>2, <1>3, SameFile DEF TraceInv
<1> QED
  BY <1>5, <1>6

LEMMA EndOfSymbolsTraces == LoopsInv /\ TraceInv /\ EndOfSymbols => TraceInv'
<1> SUFFICES ASSUME LoopsInv, TraceInv, EndOfSymbols, filter PROVE TraceInv'
  BY DEF TraceInv, EndOfSymbols, args
<1>1. /\ at = "symbols" /\ n \in Nat /\ n > Len(file.symbols) /\ Len(file.symbols) \in Nat
      /\ file' = file /\ filter' = filter /\ tracePC' = tracePC
      /\ at' = IF Has(".rela.text")
               THEN IF Has(".debug_info") THEN "relocs" ELSE "error"
               ELSE IF tracePC # 0 THEN "text" ELSE "error"
  BY FileLists DEF EndOfSymbols, LoopsInv, args, info
<1>2. ~Defined("cmp")
  BY <1>1 DEF TraceInv, Callback, Defined
<1> QED
  BY <1>1, <1>2, SameFile DEF TraceInv

LEMMA TraceStep == LoopsInv /\ TraceInv /\ [Next]_vars => TraceInv'
<1> SUFFICES ASSUME LoopsInv, TraceInv, [Next]_vars, filter PROVE TraceInv'
  BY DEF TraceInv, Next, OpenSymbols, ReadSymbol, EndOfSymbols, ScanByte, EndOfText, ReadReloc,
         EndOfRelocs, OpenUnits, NextUnit, EndOfUnits, ReadEntries, EndOfEntries, ListUnit, EndOfList,
         Return, End,
         args, vars
<1>1. CASE OpenSymbols
  <2>1. /\ n = 1 /\ tracePC = 0 /\ at = "open"
        /\ file' = file /\ filter' = filter /\ n' = n /\ tracePC' = tracePC
        /\ at' = IF Has(".symtab") /\ Has(".text") THEN "symbols" ELSE "error"
    BY <1>1 DEF TraceInv, OpenSymbols, End, args, info
  <2>2. \A k \in 1..Len(file.symbols)' : ~(k < n')
    BY <2>1
  <2>3. at' = "error" => {".symtab", ".text"} \cap file.missing # {}
    BY <2>1 DEF Has
  <2> QED
    BY <2>1, <2>2, <2>3, SameFile DEF TraceInv
<1>2. CASE ReadSymbol
  BY <1>2, ReadSymbolTraces
<1>3. CASE EndOfSymbols
  BY <1>3, EndOfSymbolsTraces
<1>4. CASE ScanByte
  <2>1. /\ at = "text" /\ file' = file /\ filter' = filter
        /\ at' = "text" \/ (at' = "panic" /\ file.machine = "other")
    BY <1>4 DEF ScanByte, args
  <2> QED
    BY <2>1, SameFile DEF TraceInv
<1>5. CASE EndOfText
  <2>1. at = "text" /\ at' = "sort" /\ file' = file /\ filter' = filter
    BY <1>5 DEF EndOfText, End, args
  <2> QED
    BY <2>1, SameFile DEF TraceInv
<1>6. CASE ReadReloc
  <2>1. at = "relocs" /\ at' = "relocs" /\ file' = file /\ filter' = filter
    BY <1>6 DEF ReadReloc, args
  <2> QED
    BY <2>1, SameFile DEF TraceInv
<1>7. CASE EndOfRelocs
  <2>1. /\ at = "relocs" /\ file' = file /\ filter' = filter /\ tracePC' = tracePC
        /\ at' = IF file.torn THEN "error" ELSE "sort"
    BY <1>7 DEF EndOfRelocs, End, args, info
  <2> QED
    BY <2>1, SameFile DEF TraceInv
<1>8. CASE Return
  <2>1. at = "sort" /\ at' = "done" /\ file' = file /\ filter' = filter
    BY <1>8 DEF Return, args
  <2> QED
    BY <2>1, SameFile DEF TraceInv
<1>9. CASE UNCHANGED vars
  BY <1>9, SameFile DEF TraceInv, Callback, InText, vars, args, info
<1>10. ~(OpenUnits \/ NextUnit \/ EndOfUnits \/ ReadEntries \/ EndOfEntries \/ ListUnit \/ EndOfList)
  BY DEF TraceInv, OpenUnits, NextUnit, EndOfUnits, ReadEntries, EndOfEntries, ListUnit, EndOfList
<1> QED
  BY <1>1, <1>2, <1>3, <1>4, <1>5, <1>6, <1>7, <1>8, <1>9, <1>10 DEF Next

-----------------------------------------------------------------------------
(* How the call without a filter ends. *)

(* Unit k can be read, and is in the cache if it has code. *)
UnitRead(k) ==
    /\ Unit(k).form \in {"good", "namelessLeaf"}
    /\ Unit(k).form = "good" /\ Unit(k).code => \E j \in 1..Len(cus) : cus[j] = k

Cached(k) == Unit(k).form = "good" /\ Unit(k).code

ListInv ==
    ~filter =>
        /\ at \in {"open", "units", "entries", "list", "sort", "done", "error", "panic", "looping"}
        /\ at \in {"units", "entries", "list", "sort", "done"} => Has(".debug_info")
        /\ at = "open" => n = 1
        /\ at = "units" => \A k \in 1..Len(file.units) : k < n => UnitRead(k)
        /\ at \in {"entries", "list", "sort", "done"} => \A k \in 1..Len(file.units) : UnitRead(k)
        /\ \A j \in 1..Len(cus) : Cached(cus[j])
        /\ at = "entries" => \A j \in 1..Len(cus) : j < n => Unit(cus[j]).table = "good"
        /\ at \in {"list", "sort", "done"} => \A j \in 1..Len(cus) : Unit(cus[j]).table = "good"
        /\ at = "panic" => "noCompDir" \in Forms
        /\ at = "looping" => "broken" \in Tables
        /\ at = "error" =>
              ~Has(".debug_info") \/ Forms \cap {"nameless", "bad"} # {} \/ "missing" \in Tables

LEMMA ListInit == Init => ListInv
<1> SUFFICES ASSUME Init PROVE ListInv
  OBVIOUS
<1>1. Len(cus) = 0 /\ at = "open" /\ n = 1
  BY DEF Init
<1> QED
  BY <1>1 DEF ListInv

LEMMA SameUnits ==
    ASSUME file' = file, NEW part
    PROVE  /\ Forms' = Forms /\ Tables' = Tables /\ (Has(part)' <=> Has(part))
BY DEF Forms, Tables, Unit, Has

LEMMA SameLists ==
    ASSUME ListInv, ~filter, file' = file, filter' = filter, cus' = cus
    PROVE  /\ \A k \in 1..Len(file.units) : UnitRead(k) <=> UnitRead(k)'
           /\ \A j \in 1..Len(cus) : Cached(cus[j])'
           /\ \A j \in 1..Len(cus) : Unit(cus[j])' = Unit(cus[j])
BY DEF ListInv, UnitRead, Cached, Unit

LEMMA NextUnitLists ==
    ASSUME LoopsInv, ListInv, NextUnit, ~filter
    PROVE  ListInv'
<1> DEFINE u == file.units[n]
<1>1. /\ n \in 1..Len(file.units) /\ n \in Nat /\ u \in Units /\ u = Unit(n)
      /\ Len(file.units) \in Nat
  BY UnitType, FileLists DEF NextUnit, LoopsInv, Unit
<1>2. /\ at = "units" /\ file' = file /\ filter' = filter /\ n' = n + 1
      /\ at' = CASE u.form \in {"nameless", "bad"}      -> "error"
                 [] u.form = "noCompDir"                -> "panic"
                 [] u.form \in {"good", "namelessLeaf"} -> at
      /\ cus' = IF u.form = "good" /\ u.code THEN Append(cus, n) ELSE cus
  BY DEF NextUnit, args
<1>3. u.form \in {"good", "nameless", "namelessLeaf", "noCompDir", "bad"}
  BY <1>1 DEF Units
<1>4. /\ cus \in Seq(1..Len(file.units))
      /\ Has(".debug_info")
      /\ \A k \in 1..Len(file.units) : k < n => UnitRead(k)
      /\ \A j \in 1..Len(cus) : Cached(cus[j])
  BY <1>2 DEF ListInv, LoopsInv
<1>5. /\ Len(cus) \in Nat /\ Len(cus') \in Nat
      /\ \A j \in 1..Len(cus) : j \in 1..Len(cus') /\ cus'[j] = cus[j]
      /\ \A j \in 1..Len(cus') : j \in 1..Len(cus) \/ (cus'[j] = n /\ u.form = "good" /\ u.code)
      /\ u.form = "good" /\ u.code => \E j \in 1..Len(cus') : cus'[j] = n
  <2>1. CASE u.form = "good" /\ u.code
    <3>1. /\ cus' = Append(cus, n) /\ Len(cus) \in Nat /\ Len(cus') = Len(cus) + 1
          /\ \A j \in 1..Len(cus) : cus'[j] = cus[j]
          /\ cus'[Len(cus) + 1] = n
      BY <1>1, <1>2, <1>4, <2>1, AppendProperties, LenProperties
    <3>2. Len(cus) + 1 \in 1..Len(cus') /\ 1..Len(cus) \subseteq 1..Len(cus')
      BY <3>1
    <3>3. \A j \in 1..Len(cus') : j \in 1..Len(cus) \/ j = Len(cus) + 1
      BY <3>1
    <3> QED
      BY <3>1, <3>2, <3>3, <2>1
  <2>2. CASE ~(u.form = "good" /\ u.code)
    BY <2>2, <1>2, <1>4, LenProperties
  <2> QED
    BY <2>1, <2>2
<1>6. \A j \in 1..Len(cus') : Cached(cus[j])'
  BY <1>1, <1>2, <1>4, <1>5 DEF Cached, Unit
<1>7. CASE u.form \in {"nameless", "bad"}
  <2>1. at' = "error" /\ u.form \in Forms
    BY <1>1, <1>2, <1>7 DEF Forms
  <2>2. Forms' \cap {"nameless", "bad"} # {}
    BY <2>1, <1>2, <1>7, SameUnits
  <2> QED
    BY <2>1, <2>2, <1>2, <1>6 DEF ListInv
<1>8. CASE u.form = "noCompDir"
  <2>1. at' = "panic" /\ "noCompDir" \in Forms'
    BY <1>1, <1>2, <1>8, SameUnits DEF Forms
  <2> QED
    BY <2>1, <1>2, <1>6 DEF ListInv
<1>9. CASE u.form \in {"good", "namelessLeaf"}
  <2>1. at' = "units"
    BY <1>2, <1>9
  <2>2. \A k \in 1..Len(file.units) : k < n + 1 => k < n \/ k = n
    BY <1>1
  <2>3. \A k \in 1..Len(file.units) : k < n => UnitRead(k)'
    BY <1>2, <1>4, <1>5 DEF UnitRead, Unit
  <2>4. Unit(n).form \in {"good", "namelessLeaf"}
        /\ (Unit(n).form = "good" /\ Unit(n).code => \E j \in 1..Len(cus') : cus'[j] = n)
    BY <1>1, <1>5, <1>9
  <2>5. \A k \in 1..Len(file.units) : k < n + 1 => UnitRead(k)'
    BY <1>2, <2>2, <2>3, <2>4 DEF UnitRead, Unit
  <2> QED
    BY <2>1, <2>5, <1>2, <1>4, <1>6, SameUnits DEF ListInv
<1> QED
  BY <1>3, <1>7, <1>8, <1>9

LEMMA ReadEntriesLists ==
    ASSUME LoopsInv, ListInv, ReadEntries, ~filter
    PROVE  ListInv'
<1> DEFINE u == file.units[cus[n]]
<1>1. /\ n \in 1..Len(cus) /\ n \in Nat /\ Len(cus) \in Nat
      /\ cus[n] \in 1..Len(file.units) /\ u \in Units /\ u = Unit(cus[n])
  BY EntryType, LenProperties DEF ReadEntries, LoopsInv, Unit
<1>2. /\ at = "entries" /\ file' = file /\ filter' = filter /\ n' = n + 1 /\ cus' = cus
      /\ at' = CASE u.table = "good"    -> at
                 [] u.table = "missing" -> "error"
                 [] u.table = "broken"  -> "looping"
  BY DEF ReadEntries, args
<1>3. u.table \in {"good", "missing", "broken"}
  BY <1>1 DEF Units
<1>4. /\ Has(".debug_info")
      /\ \A k \in 1..Len(file.units) : UnitRead(k)
      /\ \A j \in 1..Len(cus) : Cached(cus[j])
      /\ \A j \in 1..Len(cus) : j < n => Unit(cus[j]).table = "good"
  BY <1>2 DEF ListInv
<1>5. u.table \in Tables
  BY <1>1, <1>4 DEF Tables, Cached
<1>6. /\ (\A k \in 1..Len(file.units) : UnitRead(k))'
      /\ (\A j \in 1..Len(cus) : Cached(cus[j]))'
  BY <1>2, <1>4 DEF UnitRead, Cached, Unit
<1>7. CASE u.table = "good"
  <2>1. at' = "entries"
    BY <1>2, <1>7
  <2>2. \A j \in 1..Len(cus) : j < n + 1 => j < n \/ j = n
    BY <1>1
  <2>3. (\A j \in 1..Len(cus) : j < n => Unit(cus[j]).table = "good")'
    BY <2>2, <1>1, <1>2, <1>4, <1>7 DEF Unit
  <2> QED
    BY <2>1, <2>3, <1>2, <1>4, <1>6, SameUnits DEF ListInv
<1>8. CASE u.table = "missing"
  <2>1. at' = "error" /\ "missing" \in Tables'
    BY <1>2, <1>5, <1>8, SameUnits
  <2> QED
    BY <2>1, <1>2, <1>6 DEF ListInv
<1>9. CASE u.table = "broken"
  <2>1. at' = "looping" /\ "broken" \in Tables'
    BY <1>2, <1>5, <1>9, SameUnits
  <2> QED
    BY <2>1, <1>2, <1>6 DEF ListInv
<1> QED
  BY <1>3, <1>7, <1>8, <1>9

LEMMA ListStep == LoopsInv /\ ListInv /\ [Next]_vars => ListInv'
<1> SUFFICES ASSUME LoopsInv, ListInv, [Next]_vars PROVE ListInv'
  OBVIOUS
<1>1. filter' = filter /\ file' = file
  BY DEF Next, OpenSymbols, ReadSymbol, EndOfSymbols, ScanByte, EndOfText, ReadReloc,
         EndOfRelocs, OpenUnits, NextUnit, EndOfUnits, ReadEntries, EndOfEntries, ListUnit, EndOfList,
         Return, End,
         args, vars
<1>2. CASE filter
  BY <1>1, <1>2 DEF ListInv
<1>3. CASE ~filter
  <2> USE <1>3
  <2>1. CASE OpenUnits
    <3>1. /\ at = "open" /\ n = 1 /\ n' = n /\ cus' = cus
          /\ at' = IF Has(".debug_info") THEN "units" ELSE "error"
      BY <2>1 DEF OpenUnits, End, ListInv, lines
    <3>2. \A k \in 1..Len(file.units) : ~(k < n)
      BY <3>1
    <3> QED
      BY <3>1, <3>2, <1>1, SameUnits, SameLists DEF ListInv
  <2>2. CASE NextUnit
    BY <2>2, NextUnitLists
  <2>3. CASE EndOfUnits
    <3>1. /\ at = "units" /\ at' = "entries" /\ n \in Nat /\ n > Len(file.units) /\ n' = 1
          /\ cus' = cus /\ Len(file.units) \in Nat
      BY <2>3, FileLists DEF EndOfUnits, LoopsInv, lines
    <3>2. \A k \in 1..Len(file.units) : k < n
      BY <3>1
    <3>3. \A j \in 1..Len(cus) : ~(j < 1)
      OBVIOUS
    <3> QED
      BY <3>1, <3>2, <3>3, <1>1, SameUnits, SameLists DEF ListInv
  <2>4. CASE ReadEntries
    BY <2>4, ReadEntriesLists
  <2>5. CASE EndOfEntries
    <3>1. /\ at = "entries" /\ at' = "list" /\ n \in Nat /\ n > Len(cus)
          /\ cus' = cus /\ Len(cus) \in Nat
      BY <2>5, LenProperties DEF EndOfEntries, LoopsInv, lines
    <3>2. \A j \in 1..Len(cus) : j < n
      BY <3>1
    <3> QED
      BY <3>1, <3>2, <1>1, SameUnits, SameLists DEF ListInv
  <2>6. CASE Return
    <3>1. at = "sort" /\ at' = "done" /\ cus' = cus
      BY <2>6 DEF Return, lines
    <3> QED
      BY <3>1, <1>1, SameUnits, SameLists DEF ListInv
  <2>7. CASE UNCHANGED vars
    <3>1. at' = at /\ n' = n /\ cus' = cus
      BY <2>7 DEF vars, lines
    <3> QED
      BY <3>1, <1>1, SameUnits, SameLists DEF ListInv
  <2>8. CASE ListUnit \/ EndOfList
    <3>1. at = "list" /\ at' \in {"list", "sort"} /\ cus' = cus
      BY <2>8 DEF ListUnit, EndOfList, End, lines
    <3> QED
      BY <3>1, <1>1, SameUnits, SameLists DEF ListInv
  <2>9. ~(OpenSymbols \/ ReadSymbol \/ EndOfSymbols \/ ScanByte \/ EndOfText \/ ReadReloc \/ EndOfRelocs)
    BY DEF ListInv, OpenSymbols, ReadSymbol, EndOfSymbols, ScanByte, EndOfText, ReadReloc, EndOfRelocs
  <2> QED
    BY <2>1, <2>2, <2>3, <2>4, <2>5, <2>6, <2>7, <2>8, <2>9 DEF Next
<1> QED
  BY <1>2, <1>3

(* The call lists the file exactly if nothing is wrong with it, and ends   *)
(* with a panic or never only where one of the named things is, for all    *)
(* files (dwarf.go:85-109, symbols.go:113, debugline.go:148).              *)
THEOREM OutcomeIsDeserved == Spec => []OutcomeFits
<1>1. TraceInv /\ ListInv => OutcomeFits
  <2> SUFFICES ASSUME TraceInv, ListInv PROVE OutcomeFits
    OBVIOUS
  <2>1. CASE filter
    BY <2>1 DEF TraceInv, OutcomeFits
  <2>2. CASE ~filter
    <3>1. at = "done" => Forms \subseteq {"good", "namelessLeaf"}
      BY <2>2 DEF ListInv, UnitRead, Forms
    <3>2. at = "done" => Tables \subseteq {"good"}
      BY <2>2 DEF ListInv, UnitRead, Tables
    <3> QED
      BY <2>2, <3>1, <3>2 DEF ListInv, OutcomeFits
  <2> QED
    BY <2>1, <2>2
<1> QED
  BY LoopsInit, LoopsStep, TraceInit, TraceStep, ListInit, ListStep, <1>1, PTL DEF Spec

-----------------------------------------------------------------------------
(* Counting in lists. *)

(* As many elements one to one. *)
LEMMA OneToOne ==
    ASSUME NEW S, IsFiniteSet(S), NEW T, NEW f \in [S -> T],
           \A a, b \in S : f[a] = f[b] => a = b,
           \A b \in T : \E a \in S : f[a] = b
    PROVE  IsFiniteSet(T) /\ Cardinality(T) = Cardinality(S)
<1>1. f \in Bijection(S, T)
  BY DEF Bijection, Injection, Surjection, IsInjective
<1>2. ExistsBijection(S, T)
  BY <1>1 DEF ExistsBijection
<1> QED
  BY <1>2, FS_Bijection

LEMMA CountType ==
    ASSUME NEW s, Len(s) \in Nat, NEW a
    PROVE  /\ IsFiniteSet({k \in 1..Len(s) : s[k] = a})
           /\ Count(s, a) \in Nat
<1>1. IsFiniteSet(1..Len(s))
  BY FS_Interval
<1>2. IsFiniteSet({k \in 1..Len(s) : s[k] = a})
  BY <1>1, FS_Subset
<1> QED
  BY <1>2, FS_CardinalityType DEF Count

(* A list behind another. *)
LEMMA CountOfConcat ==
    ASSUME NEW D, NEW s \in Seq(D), NEW t \in Seq(D), NEW a
    PROVE  Count(s \o t, a) = Count(s, a) + Count(t, a)
<1> DEFINE u == s \o t
           l == Len(s)
           A == {k \in 1..Len(s) : s[k] = a}
           B == {k \in 1..Len(t) : t[k] = a}
           C == {k \in (l + 1)..Len(u) : u[k] = a}
           f == [k \in B |-> k + l]
<1>1. /\ l \in Nat /\ Len(t) \in Nat /\ Len(u) = l + Len(t)
      /\ \A k \in 1..l : u[k] = s[k]
      /\ \A k \in 1..Len(t) : u[k + l] = t[k]
  <2>1. /\ Len(u) = Len(s) + Len(t)
        /\ \A k \in 1..(Len(s) + Len(t)) : u[k] = IF k <= Len(s) THEN s[k] ELSE t[k - Len(s)]
    BY ConcatProperties
  <2>2. Len(s) \in Nat /\ Len(t) \in Nat
    BY LenProperties
  <2>3. \A k \in 1..Len(t) : k + Len(s) \in 1..(Len(s) + Len(t)) /\ ~(k + Len(s) <= Len(s)) /\ (k + Len(s)) - Len(s) = k
    BY <2>2
  <2>4. \A k \in 1..Len(s) : k \in 1..(Len(s) + Len(t)) /\ k <= Len(s)
    BY <2>2
  <2> HIDE DEF u
  <2> QED
    BY <2>1, <2>2, <2>3, <2>4
<1> HIDE DEF u, l
<1>2. {k \in 1..Len(u) : u[k] = a} = A \cup C
  <2>1. \A k \in 1..Len(u) : k \in 1..l \/ k \in (l + 1)..Len(u)
    BY <1>1
  <2>2. \A k \in 1..l : k \in 1..Len(u)
    BY <1>1
  <2>3. \A k \in (l + 1)..Len(u) : k \in 1..Len(u)
    BY <1>1
  <2> QED
    BY <2>1, <2>2, <2>3, <1>1 DEF l
<1>3. A \cap C = {}
  BY <1>1 DEF l
<1>4. /\ IsFiniteSet(A) /\ Cardinality(A) = Count(s, a) /\ Count(s, a) \in Nat
      /\ IsFiniteSet(B) /\ Cardinality(B) = Count(t, a) /\ Count(t, a) \in Nat
  BY <1>1, CountType DEF Count, l
<1>5. IsFiniteSet(C) /\ Cardinality(C) = Cardinality(B)
  <2>1. \A k \in B : k + l \in C
    BY <1>1
  <2>2. f \in [B -> C]
    BY <2>1
  <2>3. \A j, k \in B : f[j] = f[k] => j = k
    BY <1>1
  <2>4. ASSUME NEW m \in C
        PROVE  \E k \in B : f[k] = m
    <3>1. m - l \in 1..Len(t) /\ (m - l) + l = m
      BY <1>1
    <3>2. m - l \in B
      BY <3>1, <1>1
    <3> QED
      BY <3>1, <3>2
  <2> HIDE DEF f, B, C
  <2> QED
    BY <1>4, <2>2, <2>3, <2>4, OneToOne
<1>6. Cardinality(A \cup C) = Cardinality(A) + Cardinality(C)
  <2> HIDE DEF A, C
  <2>1. Cardinality(A \cap C) = 0
    BY <1>3, FS_EmptySet
  <2>2. Cardinality(A \cup C) = Cardinality(A) + Cardinality(C) - Cardinality(A \cap C)
    BY <1>4, <1>5, FS_Union
  <2>3. Cardinality(A) \in Nat /\ Cardinality(C) \in Nat
    BY <1>4, <1>5
  <2> QED
    BY <2>1, <2>2, <2>3
<1>7. Count(u, a) = Cardinality(A \cup C)
  BY <1>2 DEF Count
<1> QED
  BY <1>4, <1>5, <1>6, <1>7 DEF u

(* The elements of a set as a list. *)
LEMMA ListOfSet ==
    ASSUME NEW D, NEW S \in SUBSET D, IsFiniteSet(S)
    PROVE  /\ SetToSeq(S) \in Seq(D)
           /\ \A a : Count(SetToSeq(S), a) = IF a \in S THEN 1 ELSE 0
<1> DEFINE n0 == Cardinality(S)
           s == SetToSeq(S)
<1>1. n0 \in Nat /\ ExistsBijection(1..n0, S)
  BY FS_CardinalityType
<1>2. PICK g : g \in Bijection(1..n0, S)
  BY <1>1 DEF ExistsBijection
<1>3. g \in [1..n0 -> S] /\ IsInjective(g)
  BY <1>2 DEF Bijection, Injection, IsInjective
<1>4. s = CHOOSE f \in [1..n0 -> S] : IsInjective(f)
  BY DEF SetToSeq
<1>5. s \in [1..n0 -> S] /\ IsInjective(s)
  BY <1>3, <1>4
<1> HIDE DEF s
<1>6. s \in Injection(1..n0, S)
  BY <1>5 DEF Injection
<1>7. IsFiniteSet(1..n0) /\ Cardinality(1..n0) = n0
  BY <1>1, FS_Interval
<1>8. s \in Surjection(1..n0, S)
  BY <1>6, <1>7, FS_Injection
<1>9. Len(s) = n0 /\ \A k \in 1..n0 : s[k] \in S
  BY <1>1, <1>5, FunctionIsList
<1>10. s \in Seq(D)
  <2>1. \A k \in 1..n0 : s[k] \in D
    BY <1>9
  <2>2. s \in [1..n0 -> D]
    BY <2>1, <1>5
  <2> QED
    BY <2>2, <1>1, FunctionIsList
<1>11. ASSUME NEW a, a \in S
       PROVE  Count(s, a) = 1
  <2>1. PICK k \in 1..n0 : s[k] = a
    BY <1>8, <1>11 DEF Surjection
  <2>2. {m \in 1..Len(s) : s[m] = a} = {k}
    BY <2>1, <1>5, <1>9 DEF IsInjective
  <2> QED
    BY <2>2, FS_Singleton DEF Count
<1>12. ASSUME NEW a, a \notin S
       PROVE  Count(s, a) = 0
  <2>1. {m \in 1..Len(s) : s[m] = a} = {}
    BY <1>9, <1>12
  <2> QED
    BY <2>1, FS_EmptySet DEF Count
<1> QED
  BY <1>10, <1>11, <1>12 DEF s

(* Sorting: each number as often as before, the lower ones first.          *)
LEMMA SortedPCs ==
    ASSUME NEW s \in Seq(Int)
    PROVE  /\ SortPCs(s) \in Seq(Int)
           /\ \A j, k \in 1..Len(SortPCs(s)) : j < k => SortPCs(s)[j] <= SortPCs(s)[k]
           /\ \A a : Count(SortPCs(s), a) = Count(s, a)
<1> DEFINE ks == 1..Len(s)
           R == {p \in ks \X ks : s[p[1]] < s[p[2]] \/ (s[p[1]] = s[p[2]] /\ p[1] <= p[2])}
           by == Sorted(ks, R)
           t == SortPCs(s)
<1>1. Len(s) \in Nat /\ \A k \in ks : s[k] \in Int /\ k \in Int
  BY LenProperties, ElementOfSeq
<1>2. \A j, k \in ks : <<j, k>> \in R <=> s[j] < s[k] \/ (s[j] = s[k] /\ j <= k)
  OBVIOUS
<1>3. IsFiniteSet(ks) /\ Cardinality(ks) = Len(s)
  <2> DEFINE m == Len(s)
  <2>1. m \in Nat /\ m \in Int /\ 1 \in Int
    BY <1>1
  <2> HIDE DEF m
  <2>2. IsFiniteSet(1..m) /\ Cardinality(1..m) = IF 1 > m THEN 0 ELSE m - 1 + 1
    BY <2>1, FS_Interval
  <2>3. Cardinality(1..m) = m
    BY <2>1, <2>2
  <2> QED
    BY <2>2, <2>3 DEF m
<1>4. t = [k \in ks |-> s[by[k]]]
  BY DEF SortPCs
<1> HIDE DEF R, ks
<1>5. IsTotalOrder(R, ks)
  BY <1>1, <1>2 DEF IsTotalOrder
<1>6. /\ by \in [1..Len(s) -> ks]
      /\ \A k \in ks : \E i \in 1..Len(s) : by[i] = k
      /\ \A i, j \in 1..Len(s) : i < j => <<by[i], by[j]>> \in R /\ by[i] # by[j]
  BY <1>3, <1>5, SortedIsSorted
<1> HIDE DEF by, t
<1> USE DEF ks
<1>7. \A k \in 1..Len(s) : by[k] \in 1..Len(s) /\ t[k] = s[by[k]]
  BY <1>4, <1>6
<1>8. t \in [1..Len(s) -> Int]
  <2>1. \A k \in ks : s[by[k]] \in Int
    BY <1>1, <1>7
  <2> QED
    BY <2>1, <1>4
<1>9. t \in Seq(Int) /\ Len(t) = Len(s)
  BY <1>1, <1>8, FunctionIsList
<1>10. ASSUME NEW j \in 1..Len(s), NEW k \in 1..Len(s), j < k
       PROVE  t[j] <= t[k]
  <2>1. <<by[j], by[k]>> \in R
    BY <1>6, <1>10
  <2>2. s[by[j]] < s[by[k]] \/ s[by[j]] = s[by[k]]
    BY <2>1, <1>2, <1>7
  <2>3. s[by[j]] \in Int /\ s[by[k]] \in Int
    BY <1>1, <1>7
  <2> QED
    BY <2>2, <2>3, <1>7
<1>11. \A j, k \in 1..Len(s) : by[j] = by[k] => j = k
  <2>1. \A j, k \in 1..Len(s) : j < k \/ k < j \/ j = k
    BY <1>1
  <2> QED
    BY <2>1, <1>6
<1>12. ASSUME NEW a
       PROVE  Count(t, a) = Count(s, a)
  <2> DEFINE T == {k \in 1..Len(t) : t[k] = a}
             U == {k \in 1..Len(s) : s[k] = a}
             f == [k \in T |-> by[k]]
  <2>1. IsFiniteSet(T)
    BY <1>1, <1>9, CountType
  <2>2. f \in [T -> U]
    <3>1. \A k \in T : by[k] \in U
      BY <1>7, <1>9
    <3> QED
      BY <3>1
  <2>3. \A j, k \in T : f[j] = f[k] => j = k
    BY <1>9, <1>11
  <2>4. ASSUME NEW k \in U
        PROVE  \E j \in T : f[j] = k
    <3>1. PICK j \in 1..Len(s) : by[j] = k
      BY <1>6
    <3>2. j \in T
      BY <3>1, <1>7, <1>9
    <3> QED
      BY <3>1, <3>2
  <2> HIDE DEF T, U, f
  <2>5. Cardinality(U) = Cardinality(T)
    BY <2>1, <2>2, <2>3, <2>4, OneToOne
  <2> QED
    BY <2>5 DEF Count, T, U
<1> QED
  BY <1>9, <1>10, <1>12 DEF t

-----------------------------------------------------------------------------
(* Types.  A symbol is of one kind only. *)

Named(name) == {k \in 1..Len(file.symbols) : file.symbols[k].name = name}

TypeInv ==
    /\ at \in {"open", "symbols", "text", "relocs", "units", "entries", "list", "sort",
               "done", "error", "panic", "looping"}
    /\ tracePC \in 0..(Word - 1)
    /\ tracePCIdx \subseteq Named("pc") /\ traceCmpIdx \subseteq Named("cmp")
    /\ points[1] \in Seq(Int) /\ points[2] \in Seq(Int) /\ points \in Seq(Int) \X Seq(Int)

LEMMA TypeInit == Init => TypeInv
<1> SUFFICES ASSUME Init PROVE TypeInv
  OBVIOUS
<1>1. 0 \in 0..(Word - 1)
  BY CallAssumption
<1>2. << >> \in Seq(Int)
  OBVIOUS
<1> QED
  BY <1>1, <1>2 DEF Init, TypeInv

LEMMA FoundTypes ==
    ASSUME TypeInv, NEW pc \in Int, NEW inPC \in BOOLEAN, NEW inCmp \in BOOLEAN, Found(pc, inPC, inCmp)
    PROVE  points'[1] \in Seq(Int) /\ points'[2] \in Seq(Int) /\ points' \in Seq(Int) \X Seq(Int)
<1>1. /\ points \in Seq(Int) \X Seq(Int) /\ points[1] \in Seq(Int) /\ points[2] \in Seq(Int)
      /\ points = <<points[1], points[2]>>
  BY DEF TypeInv
<1>2. \/ points' = <<Append(points[1], pc), points[2]>>
      \/ points' = <<points[1], Append(points[2], pc)>>
      \/ points' = points
  BY <1>1 DEF Found
<1>3. \A s \in Seq(Int) : Append(s, pc) \in Seq(Int)
  BY AppendProperties
<1>4. \A s, t \in Seq(Int) : /\ <<s, t>> \in Seq(Int) \X Seq(Int)
                              /\ <<s, t>>[1] = s /\ <<s, t>>[2] = t
  OBVIOUS
<1>5. \E s, t \in Seq(Int) : points' = <<s, t>>
  BY <1>1, <1>2, <1>3, Zenon
<1> QED
  BY <1>4, <1>5

LEMMA TypeStep == LoopsInv /\ TypeInv /\ [Next]_vars => TypeInv'
<1> SUFFICES ASSUME LoopsInv, TypeInv, [Next]_vars PROVE TypeInv'
  OBVIOUS
<1>1. CASE ReadSymbol
  <2> DEFINE s == file.symbols[n]
  <2>1. /\ n \in 1..Len(file.symbols) /\ s \in Symbols /\ file' = file /\ points' = points
        /\ at' \in {"panic", at}
        /\ tracePCIdx' = IF s.name = "pc" THEN tracePCIdx \cup {n} ELSE tracePCIdx
        /\ traceCmpIdx' = IF OtherCallback(s) THEN traceCmpIdx \cup {n} ELSE traceCmpIdx
        /\ tracePC' = s.value \/ tracePC' = tracePC
    BY <1>1, SymbolType DEF ReadSymbol, args
  <2>2. s.value \in 0..(Word - 1)
    BY <2>1 DEF Symbols
  <2>3. tracePCIdx' \subseteq Named("pc") /\ traceCmpIdx' \subseteq Named("cmp")
    BY <2>1 DEF TypeInv, Named, OtherCallback
  <2>4. Named("pc")' = Named("pc") /\ Named("cmp")' = Named("cmp")
    BY <2>1 DEF Named
  <2> QED
    BY <2>1, <2>2, <2>3, <2>4 DEF TypeInv
<1>2. CASE ScanByte
  <2>1. /\ file' = file /\ UNCHANGED info
        /\ at' = "panic" \/ at' = at
        /\ \/ points' = points
           \/ \E target : Found(file.addr + (n - arch.opcodeOffset), target = tracePC, target \in traceCmp)
    BY <1>2 DEF ScanByte, args
  <2>2. file.addr \in Int /\ arch.opcodeOffset \in Int /\ n \in Int
    BY FileType, ArchType DEF LoopsInv
  <2>3. points'[1] \in Seq(Int) /\ points'[2] \in Seq(Int) /\ points' \in Seq(Int) \X Seq(Int)
    <3>1. CASE points' = points
      BY <3>1 DEF TypeInv
    <3>2. ASSUME NEW target,
                 Found(file.addr + (n - arch.opcodeOffset), target = tracePC, target \in traceCmp)
          PROVE  points'[1] \in Seq(Int) /\ points'[2] \in Seq(Int) /\ points' \in Seq(Int) \X Seq(Int)
      <4>1. file.addr + (n - arch.opcodeOffset) \in Int
        BY <2>2
      <4>2. (target = tracePC) \in BOOLEAN /\ (target \in traceCmp) \in BOOLEAN
        OBVIOUS
      <4> QED
        BY <3>2, <4>1, <4>2, FoundTypes
    <3> QED
      BY <2>1, <3>1, <3>2
  <2> QED
    BY <2>1, <2>3 DEF TypeInv, Named, info
<1>3. CASE ReadReloc
  <2> DEFINE r == file.rela[n]
  <2>1. /\ file' = file /\ UNCHANGED <<info, at>> /\ n <= Len(file.rela) /\ at = "relocs"
        /\ \/ points' = points
           \/ Found(CallOf(r), r.sym \in tracePCIdx, r.sym \in traceCmpIdx)
    BY <1>3 DEF ReadReloc, args
  <2>2. file.rela \in Seq(Relocs) /\ Len(file.rela) \in Nat /\ n \in Nat /\ n >= 1
    BY <2>1, FilesAssumption, LenProperties DEF LoopsInv
  <2>3. r \in Relocs
    <3>1. n \in 1..Len(file.rela)
      BY <2>1, <2>2
    <3> QED
      BY <3>1, <2>2, ElementOfSeq
  <2>4. CallOf(r) \in Int
    <3>1. r.off \in Int /\ arch.relaOffset \in Int /\ Word \in Nat \ {0}
      BY <2>3, ArchType, CallAssumption DEF Relocs, LoopsInv
    <3> QED
      BY <3>1 DEF CallOf
  <2>5. (r.sym \in tracePCIdx) \in BOOLEAN /\ (r.sym \in traceCmpIdx) \in BOOLEAN
    OBVIOUS
  <2>6. points'[1] \in Seq(Int) /\ points'[2] \in Seq(Int) /\ points' \in Seq(Int) \X Seq(Int)
    <3>1. CASE points' = points
      BY <3>1 DEF TypeInv
    <3>2. CASE Found(CallOf(r), r.sym \in tracePCIdx, r.sym \in traceCmpIdx)
      BY <3>2, <2>4, <2>5, FoundTypes
    <3> QED
      BY <2>1, <3>1, <3>2
  <2> QED
    BY <2>1, <2>6 DEF TypeInv, Named, info
<1>4. CASE OpenSymbols \/ EndOfSymbols \/ EndOfText \/ EndOfRelocs \/ OpenUnits \/ EndOfUnits
           \/ EndOfEntries \/ ListUnit \/ EndOfList \/ Return \/ UNCHANGED vars
  <2>1. /\ file' = file /\ UNCHANGED <<info, points>>
        /\ at' \in {at, "symbols", "error", "relocs", "text", "sort", "units", "entries", "list", "done"}
    BY <1>4 DEF OpenSymbols, EndOfSymbols, EndOfText, EndOfRelocs, OpenUnits, EndOfUnits,
                EndOfEntries, ListUnit, EndOfList, Return, End, vars, args
  <2> QED
    BY <2>1 DEF TypeInv, Named, info
<1>5. CASE NextUnit
  <2>1. file.units[n].form \in {"good", "nameless", "namelessLeaf", "noCompDir", "bad"}
    BY <1>5, UnitType DEF NextUnit, Units
  <2>2. /\ file' = file /\ UNCHANGED <<info, points>>
        /\ at' \in {at, "error", "panic"}
    BY <1>5, <2>1 DEF NextUnit, args
  <2> QED
    BY <2>2 DEF TypeInv, Named, info
<1>6. CASE ReadEntries
  <2>1. file.units[cus[n]].table \in {"good", "missing", "broken"}
    BY <1>6, EntryType DEF ReadEntries, Units
  <2>2. /\ file' = file /\ UNCHANGED <<info, points>>
        /\ at' \in {at, "error", "looping"}
    BY <1>6, <2>1 DEF ReadEntries, args
  <2> QED
    BY <2>2 DEF TypeInv, Named, info
<1> QED
  BY <1>1, <1>2, <1>3, <1>4, <1>5, <1>6 DEF Next

-----------------------------------------------------------------------------
(* The cache: the units with code in their order, and the rows of each.    *)

RowsOf(j) == ToSet(Unit(cus[j]).rows)

EntriesInv ==
    /\ entries \in Seq(SUBSET Nat) /\ Len(entries) <= Len(cus)
    /\ \A j \in 1..Len(entries) : entries[j] = RowsOf(j) /\ IsFiniteSet(entries[j])
    /\ \A i, j \in 1..Len(cus) : i < j => cus[i] < cus[j]
    /\ at = "open" => n = 1 /\ cus = << >>
    /\ at = "units" => \A j \in 1..Len(cus) : cus[j] < n
    /\ at \in {"open", "units"} => entries = << >>
    /\ at = "entries" => Len(entries) = n - 1 /\ n <= Len(cus) + 1
    /\ at = "list" => n <= Len(cus) + 1
    /\ (at \in {"list", "sort"} /\ ~filter) => Len(entries) = Len(cus)

LEMMA EntriesInit == Init => EntriesInv
<1> SUFFICES ASSUME Init PROVE EntriesInv
  OBVIOUS
<1>1. Len(cus) = 0 /\ Len(entries) = 0 /\ entries \in Seq(SUBSET Nat)
  BY DEF Init
<1> QED
  BY <1>1 DEF Init, EntriesInv

(* The rows of a unit are finitely many addresses. *)
LEMMA RowsType ==
    ASSUME NEW u \in Units
    PROVE  ToSet(u.rows) \subseteq Nat /\ IsFiniteSet(ToSet(u.rows))
<1> DEFINE s == u.rows
           f == [k \in 1..Len(s) |-> s[k]]
<1>1. s \in Seq(Nat)
  BY DEF Units
<1> HIDE DEF s
<1>2. Len(s) \in Nat /\ DOMAIN s = 1..Len(s) /\ \A k \in 1..Len(s) : s[k] \in Nat
  BY <1>1, LenProperties, ElementOfSeq
<1>3. ToSet(s) \subseteq Nat
  BY <1>2 DEF ToSet
<1>4. f \in Surjection(1..Len(s), ToSet(s))
  BY <1>2 DEF Surjection, ToSet
<1>5. IsFiniteSet(1..Len(s))
  BY <1>2, FS_Interval
<1>6. IsFiniteSet(ToSet(s))
  <2> HIDE DEF f
  <2> QED
    BY <1>4, <1>5, FS_Surjection
<1> QED
  BY <1>3, <1>6 DEF s

LEMMA EntriesStep == LoopsInv /\ ListInv /\ EntriesInv /\ [Next]_vars => EntriesInv'
<1> SUFFICES ASSUME LoopsInv, ListInv, EntriesInv, [Next]_vars PROVE EntriesInv'
  OBVIOUS
<1>0. /\ cus \in Seq(1..Len(file.units)) /\ n \in Nat /\ Len(cus) \in Nat
      /\ \A j \in 1..Len(cus) : cus[j] \in 1..Len(file.units)
      /\ file' = file /\ filter' = filter
      /\ entries \in Seq(SUBSET Nat) /\ Len(entries) \in Nat /\ Len(entries) <= Len(cus)
      /\ \A j \in 1..Len(entries) : entries[j] = RowsOf(j) /\ IsFiniteSet(entries[j])
      /\ \A i, j \in 1..Len(cus) : i < j => cus[i] < cus[j]
  <2>1. file' = file /\ filter' = filter
    BY DEF Next, OpenSymbols, ReadSymbol, EndOfSymbols, ScanByte, EndOfText, ReadReloc,
           EndOfRelocs, OpenUnits, NextUnit, EndOfUnits, ReadEntries, EndOfEntries, ListUnit, EndOfList,
           Return, End, args, vars
  <2> QED
    BY <2>1, LenProperties, ElementOfSeq DEF LoopsInv, EntriesInv
<1>1. CASE NextUnit
  <2> DEFINE u == file.units[n]
  <2>1. /\ at = "units" /\ n \in 1..Len(file.units) /\ n' = n + 1 /\ entries' = entries
        /\ u.form \in {"good", "nameless", "namelessLeaf", "noCompDir", "bad"}
        /\ cus' = cus \/ cus' = Append(cus, n)
    BY <1>1, UnitType DEF NextUnit, Units
  <2>2. at' \in {"units", "error", "panic"}
    BY <1>1, <2>1 DEF NextUnit
  <2>3. entries = << >> /\ \A j \in 1..Len(cus) : cus[j] < n
    BY <2>1 DEF EntriesInv
  <2>4. /\ Len(cus') \in Nat /\ Len(cus') >= Len(cus)
        /\ \A i, j \in 1..Len(cus') : i < j => cus'[i] < cus'[j]
        /\ \A j \in 1..Len(cus') : cus'[j] < n + 1
    <3>1. CASE cus' = cus
      BY <3>1, <1>0, <2>3
    <3>2. CASE cus' = Append(cus, n)
      <4>1. /\ Len(cus') = Len(cus) + 1
            /\ \A j \in 1..Len(cus) : cus'[j] = cus[j]
            /\ cus'[Len(cus) + 1] = n
        BY <3>2, <1>0, <2>1, AppendProperties
      <4>2. \A j \in 1..Len(cus') : j \in 1..Len(cus) \/ j = Len(cus) + 1
        BY <4>1, <1>0
      <4>3. \A j \in 1..Len(cus) : cus[j] \in Int /\ cus[j] < n
        BY <1>0, <2>3
      <4>4. \A j \in 1..Len(cus') : cus'[j] < n + 1
        BY <4>1, <4>2, <4>3, <1>0
      <4>5. ASSUME NEW i \in 1..Len(cus'), NEW j \in 1..Len(cus'), i < j
            PROVE  cus'[i] < cus'[j]
        <5>1. i \in 1..Len(cus)
          BY <4>1, <4>5, <1>0
        <5> QED
          BY <5>1, <4>1, <4>2, <4>3, <4>5, <1>0
      <4> QED
        BY <4>1, <4>4, <4>5, <1>0
    <3> QED
      BY <2>1, <3>1, <3>2
  <2>5. Len(entries') = 0
    BY <2>1, <2>3
  <2> QED
    BY <1>0, <2>1, <2>2, <2>3, <2>4, <2>5 DEF EntriesInv
<1>2. CASE ReadEntries
  <2> DEFINE u == file.units[cus[n]]
  <2>1. /\ at = "entries" /\ n \in 1..Len(cus) /\ u \in Units /\ n' = n + 1 /\ cus' = cus
        /\ u.table \in {"good", "missing", "broken"} /\ u = Unit(cus[n])
    BY <1>2, EntryType DEF ReadEntries, Units, Unit
  <2>2. \/ u.table = "good" /\ at' = "entries" /\ entries' = Append(entries, ToSet(u.rows))
        \/ at' \in {"error", "looping"} /\ entries' = entries
    BY <1>2, <2>1 DEF ReadEntries
  <2>3. Len(entries) = n - 1
    BY <2>1 DEF EntriesInv
  <2>4. CASE u.table = "good" /\ at' = "entries" /\ entries' = Append(entries, ToSet(u.rows))
    <3>1. ToSet(u.rows) \in SUBSET Nat /\ IsFiniteSet(ToSet(u.rows))
      BY <2>1, RowsType
    <3>2. /\ entries' \in Seq(SUBSET Nat) /\ Len(entries') = n
          /\ \A j \in 1..Len(entries) : entries'[j] = entries[j]
          /\ entries'[n] = RowsOf(n)
      <4>1. /\ entries' \in Seq(SUBSET Nat) /\ Len(entries') = Len(entries) + 1
            /\ \A j \in 1..Len(entries) : entries'[j] = entries[j]
            /\ entries'[Len(entries) + 1] = ToSet(u.rows)
        BY <2>4, <3>1, <1>0, AppendProperties
      <4> QED
        BY <4>1, <2>1, <2>3, <1>0 DEF RowsOf
    <3>3. \A j \in 1..Len(entries') : j \in 1..Len(entries) \/ j = n
      BY <3>2, <2>3, <1>0
    <3>4. \A j : RowsOf(j)' = RowsOf(j)
      BY <1>0, <2>1 DEF RowsOf, Unit
    <3>5. RowsOf(n) = ToSet(u.rows)
      BY <2>1 DEF RowsOf
    <3>6. \A j \in 1..Len(entries') : entries'[j] = RowsOf(j)' /\ IsFiniteSet(entries'[j])
      BY <3>1, <3>2, <3>3, <3>4, <3>5, <1>0
    <3> QED
      BY <2>1, <2>4, <3>2, <3>6, <1>0 DEF EntriesInv
  <2>5. CASE at' \in {"error", "looping"} /\ entries' = entries
    <3>1. \A j : RowsOf(j)' = RowsOf(j)
      BY <1>0, <2>1 DEF RowsOf, Unit
    <3> QED
      BY <2>1, <2>5, <3>1, <1>0 DEF EntriesInv
  <2> QED
    BY <2>2, <2>4, <2>5
<1>3. CASE ~NextUnit /\ ~ReadEntries
  <2>1. cus' = cus /\ entries' = entries
    BY <1>3 DEF Next, OpenSymbols, ReadSymbol, EndOfSymbols, ScanByte, EndOfText, ReadReloc,
                EndOfRelocs, OpenUnits, EndOfUnits, EndOfEntries, ListUnit, EndOfList,
                Return, End, lines, vars
  <2>2. \A j : RowsOf(j)' = RowsOf(j)
    BY <1>0, <2>1 DEF RowsOf, Unit
  <2>3. at' = "open" => at = "open" /\ n' = n
    BY <1>3 DEF ListInv, Next, OpenSymbols, ReadSymbol, EndOfSymbols, ScanByte, EndOfText, ReadReloc,
                EndOfRelocs, OpenUnits, EndOfUnits, EndOfEntries, ListUnit, EndOfList,
                Return, End, vars
  <2>4. at' = "units" => (at = "open" \/ at = "units") /\ n' = n
    BY <1>3 DEF Next, OpenSymbols, ReadSymbol, EndOfSymbols, ScanByte, EndOfText, ReadReloc,
                EndOfRelocs, OpenUnits, EndOfUnits, EndOfEntries, ListUnit, EndOfList,
                Return, End, vars
  <2>5. at' = "entries" => (at = "units" /\ n' = 1) \/ (at = "entries" /\ n' = n)
    BY <1>3 DEF Next, OpenSymbols, ReadSymbol, EndOfSymbols, ScanByte, EndOfText, ReadReloc,
                EndOfRelocs, OpenUnits, EndOfUnits, EndOfEntries, ListUnit, EndOfList,
                Return, End, vars
  <2>6. at' = "list" => \/ at = "entries" /\ n > Len(cus) /\ n' = 1
                        \/ at = "list" /\ (n' = n \/ (n <= Len(cus) /\ n' = n + 1))
    BY <1>3 DEF Next, OpenSymbols, ReadSymbol, EndOfSymbols, ScanByte, EndOfText, ReadReloc,
                EndOfRelocs, OpenUnits, EndOfUnits, EndOfEntries, ListUnit, EndOfList,
                Return, End, vars
  <2>7. at' = "sort" /\ ~filter => at \in {"list", "sort"}
    BY <1>3 DEF ListInv, Next, OpenSymbols, ReadSymbol, EndOfSymbols, ScanByte, EndOfText, ReadReloc,
                EndOfRelocs, OpenUnits, EndOfUnits, EndOfEntries, ListUnit, EndOfList,
                Return, End, vars
  <2> QED
    BY <2>1, <2>2, <2>3, <2>4, <2>5, <2>6, <2>7, <1>0 DEF EntriesInv
<1> QED
  BY <1>1, <1>2, <1>3

-----------------------------------------------------------------------------
(* The list. *)

(* How many of the first m entries of the cache have the address a.        *)
Having(m, a) == {j \in 1..m : a \in entries[j]}

PcsInv ==
    /\ pcs \in Seq(Int)
    /\ at \in {"open", "units", "entries"} => pcs = << >>
    /\ at = "list" => \A a : Count(pcs, a) = Cardinality(Having(n - 1, a))
    /\ (at = "sort" /\ ~filter) => \A a : Count(pcs, a) = Cardinality(Having(Len(entries), a))
    /\ at = "done" =>
          /\ \A j, k \in 1..Len(pcs) : j < k => pcs[j] <= pcs[k]
          /\ \A a : Count(pcs, a) = IF filter THEN Count(points[1], a) + Count(points[2], a)
                                    ELSE Cardinality(UnitsWithRow(a))

LEMMA PcsInit == Init => PcsInv
BY EmptySeq DEF Init, PcsInv

(* Each cached unit that has the address is a unit with code that has it,  *)
(* and the other way round.                                                *)
LEMMA CacheIsUnits ==
    ASSUME LoopsInv, ListInv, EntriesInv, at = "sort", ~filter, NEW a
    PROVE  Cardinality(Having(Len(entries), a)) = Cardinality(UnitsWithRow(a))
<1> DEFINE J == Having(Len(entries), a)
           f == [j \in J |-> cus[j]]
<1>1. /\ Len(cus) \in Nat /\ Len(entries) = Len(cus)
      /\ \A j \in 1..Len(cus) : cus[j] \in 1..Len(file.units)
      /\ \A j \in 1..Len(entries) : entries[j] = ToSet(Unit(cus[j]).rows)
      /\ \A i, j \in 1..Len(cus) : i < j => cus[i] < cus[j]
  BY LenProperties, ElementOfSeq DEF LoopsInv, EntriesInv, RowsOf
<1>2. /\ \A j \in 1..Len(cus) : Cached(cus[j])
      /\ \A k \in 1..Len(file.units) : Cached(k) => \E j \in 1..Len(cus) : cus[j] = k
  BY DEF ListInv, UnitRead, Cached
<1>3. IsFiniteSet(J)
  <2>1. IsFiniteSet(1..Len(entries))
    BY <1>1, FS_Interval
  <2> QED
    BY <2>1, FS_Subset DEF Having
<1>4. UnitsWithRow(a) = {k \in 1..Len(file.units) : Cached(k) /\ a \in ToSet(Unit(k).rows)}
  BY DEF UnitsWithRow, Cached, Unit
<1>5. f \in [J -> UnitsWithRow(a)]
  <2>1. \A j \in J : cus[j] \in UnitsWithRow(a)
    BY <1>1, <1>2, <1>4 DEF Having
  <2> QED
    BY <2>1
<1>6. ASSUME NEW i \in J, NEW j \in J, f[i] = f[j]
      PROVE  i = j
  <2>1. i \in 1..Len(cus) /\ j \in 1..Len(cus) /\ cus[i] = cus[j]
    BY <1>1, <1>6 DEF Having
  <2>2. cus[i] \in Int /\ cus[j] \in Int
    BY <2>1, <1>1
  <2>3. ~(i < j) /\ ~(j < i)
    BY <2>1, <2>2, <1>1
  <2> QED
    BY <2>1, <2>3
<1>7. ASSUME NEW k \in UnitsWithRow(a)
      PROVE  \E j \in J : f[j] = k
  <2>1. PICK j \in 1..Len(cus) : cus[j] = k
    BY <1>2, <1>4
  <2>2. j \in J
    BY <2>1, <1>1, <1>4 DEF Having
  <2> QED
    BY <2>1, <2>2
<1> HIDE DEF J, f
<1>8. Cardinality(UnitsWithRow(a)) = Cardinality(J)
  BY <1>3, <1>5, <1>6, <1>7, OneToOne
<1> QED
  BY <1>8 DEF J

LEMMA ListUnitKeeps ==
    ASSUME LoopsInv, ScanInv, EntriesInv, PcsInv, ListUnit
    PROVE  PcsInv'
<1>1. /\ at = "list" /\ at' = "list" /\ n' = n + 1 /\ entries' = entries
      /\ pcs' = pcs \o SetToSeq(entries[n]) /\ n <= Len(cus)
  BY DEF ListUnit, lines, AppendEach
<1>2. /\ ~filter /\ n \in Nat /\ n >= 1 /\ Len(entries) = Len(cus) /\ Len(cus) \in Nat
      /\ pcs \in Seq(Int)
      /\ \A a : Count(pcs, a) = Cardinality(Having(n - 1, a))
  BY <1>1, LenProperties DEF LoopsInv, ScanInv, EntriesInv, PcsInv
<1>3. n \in 1..Len(entries)
  BY <1>1, <1>2
<1>4. entries[n] \in SUBSET Int /\ IsFiniteSet(entries[n])
  <2>1. entries[n] \in SUBSET Nat /\ IsFiniteSet(entries[n])
    BY <1>3, ElementOfSeq DEF EntriesInv
  <2> QED
    BY <2>1
<1>5. /\ SetToSeq(entries[n]) \in Seq(Int)
      /\ \A a : Count(SetToSeq(entries[n]), a) = IF a \in entries[n] THEN 1 ELSE 0
  BY <1>4, ListOfSet
<1>6. pcs' \in Seq(Int)
  BY <1>1, <1>2, <1>5, ConcatProperties
<1>7. ASSUME NEW a
      PROVE  Count(pcs', a) = Cardinality(Having(n, a))
  <2>1. Count(pcs', a) = Cardinality(Having(n - 1, a)) + (IF a \in entries[n] THEN 1 ELSE 0)
    BY <1>1, <1>2, <1>5, CountOfConcat
  <2>2. Having(n, a) = IF a \in entries[n] THEN Having(n - 1, a) \cup {n} ELSE Having(n - 1, a)
    <3>1. \A j \in 1..n : j \in 1..(n - 1) \/ j = n
      BY <1>2
    <3>2. \A j \in 1..(n - 1) : j \in 1..n
      BY <1>2
    <3>3. n \in 1..n
      BY <1>2
    <3> QED
      BY <3>1, <3>2, <3>3 DEF Having
  <2>3. IsFiniteSet(Having(n - 1, a)) /\ n \notin Having(n - 1, a)
    <3>1. IsFiniteSet(1..(n - 1)) /\ n \notin 1..(n - 1)
      BY <1>2, FS_Interval
    <3> QED
      BY <3>1, FS_Subset DEF Having
  <2>4. /\ Cardinality(Having(n - 1, a)) \in Nat
        /\ Cardinality(Having(n - 1, a) \cup {n}) = Cardinality(Having(n - 1, a)) + 1
    BY <2>3, FS_AddElement, FS_CardinalityType
  <2> QED
    BY <2>1, <2>2, <2>4
<1>8. (n + 1) - 1 = n
  BY <1>2
<1>9. \A a : Having(n, a)' = Having(n + 1, a)
  BY <1>1 DEF Having
<1>10. \A a : (Having(n - 1, a))' = Having(n, a)
  BY <1>1, <1>8 DEF Having
<1>11. \A a : Count(pcs', a) = Cardinality(Having(n - 1, a))'
  BY <1>7, <1>10
<1> QED
  BY <1>1, <1>6, <1>11 DEF PcsInv, Count

LEMMA ReturnSorts ==
    ASSUME LoopsInv, TypeInv, ListInv, EntriesInv, PcsInv, Return
    PROVE  PcsInv'
<1> DEFINE s == IF filter THEN points[1] \o points[2] ELSE pcs
<1>1. /\ at = "sort" /\ at' = "done" /\ pcs' = SortPCs(s)
      /\ file' = file /\ filter' = filter /\ points' = points
  BY DEF Return, args
<1>2. s \in Seq(Int)
  <2>1. points[1] \o points[2] \in Seq(Int)
    BY ConcatProperties DEF TypeInv
  <2> QED
    BY <2>1 DEF PcsInv
<1> HIDE DEF s
<1>3. /\ pcs' \in Seq(Int)
      /\ \A j, k \in 1..Len(pcs') : j < k => pcs'[j] <= pcs'[k]
      /\ \A a : Count(pcs', a) = Count(s, a)
  BY <1>1, <1>2, SortedPCs
<1>4. ASSUME NEW a
      PROVE  Count(s, a) = IF filter THEN Count(points[1], a) + Count(points[2], a)
                           ELSE Cardinality(UnitsWithRow(a))
  <2>1. CASE filter
    BY <2>1, CountOfConcat DEF TypeInv, s
  <2>2. CASE ~filter
    <3>1. Count(pcs, a) = Cardinality(Having(Len(entries), a))
      BY <2>2, <1>1 DEF PcsInv
    <3> QED
      BY <3>1, <2>2, <1>1, CacheIsUnits DEF s
  <2> QED
    BY <2>1, <2>2
<1>5. \A a : UnitsWithRow(a)' = UnitsWithRow(a)
  BY <1>1 DEF UnitsWithRow
<1>6. \A a : Count(pcs', a) = IF filter' THEN Count(points'[1], a) + Count(points'[2], a)
                              ELSE Cardinality(UnitsWithRow(a))'
  BY <1>1, <1>3, <1>4, <1>5
<1> QED
  BY <1>1, <1>3, <1>6 DEF PcsInv, Count

LEMMA PcsStep ==
    LoopsInv /\ ScanInv /\ TypeInv /\ ListInv /\ EntriesInv /\ PcsInv /\ [Next]_vars => PcsInv'
<1> SUFFICES ASSUME LoopsInv, ScanInv, TypeInv, ListInv, EntriesInv, PcsInv, [Next]_vars PROVE PcsInv'
  OBVIOUS
<1>1. CASE ListUnit
  BY <1>1, ListUnitKeeps
<1>2. CASE Return
  BY <1>2, ReturnSorts
<1>3. CASE EndOfEntries
  <2>1. at = "entries" /\ at' = "list" /\ n' = 1 /\ pcs' = pcs /\ pcs = << >>
    BY <1>3 DEF EndOfEntries, PcsInv
  <2>2. ASSUME NEW a
        PROVE  Count(pcs', a) = Cardinality(Having(n - 1, a))'
    <3>1. (Having(n - 1, a))' = {}
      BY <2>1 DEF Having
    <3>2. {k \in 1..Len(pcs') : pcs'[k] = a} = {}
      BY <2>1
    <3> QED
      BY <3>1, <3>2 DEF Count
  <2> QED
    BY <2>1, <2>2 DEF PcsInv, Count
<1>4. CASE EndOfList
  <2>1. /\ at = "list" /\ at' = "sort" /\ n > Len(cus) /\ pcs' = pcs /\ entries' = entries
    BY <1>4 DEF EndOfList, End, lines
  <2>2. n - 1 = Len(entries)
    BY <2>1, LenProperties DEF LoopsInv, ScanInv, EntriesInv
  <2>3. \A a : Having(Len(entries), a)' = Having(Len(entries), a)
    BY <2>1 DEF Having
  <2>4. \A a : Count(pcs', a) = Cardinality(Having(Len(entries), a))'
    BY <2>1, <2>2, <2>3 DEF PcsInv
  <2>5. pcs' \in Seq(Int)
    BY <2>1 DEF PcsInv
  <2> QED
    BY <2>1, <2>4, <2>5 DEF PcsInv
<1>5. CASE UNCHANGED vars
  <2>1. UNCHANGED <<file, filter, at, n, points, cus, entries, pcs>>
    BY <1>5 DEF vars, args, lines
  <2>2. \A a, m : Having(m, a)' = Having(m, a) /\ UnitsWithRow(a)' = UnitsWithRow(a)
    BY <2>1 DEF Having, UnitsWithRow
  <2>3. \A a : (Having(n - 1, a))' = Having(n - 1, a) /\ (Having(Len(entries), a))' = Having(Len(entries), a)
    BY <2>1 DEF Having
  <2>5. at = "list" => \A a : Count(pcs', a) = Cardinality(Having(n - 1, a))'
    BY <2>1, <2>3 DEF PcsInv
  <2>6. at = "sort" /\ ~filter => \A a : Count(pcs', a) = Cardinality(Having(Len(entries), a))'
    BY <2>1, <2>3 DEF PcsInv
  <2>7. /\ pcs' \in Seq(Int)
        /\ at \in {"open", "units", "entries"} => pcs' = << >>
        /\ at = "done" => \A j, k \in 1..Len(pcs') : j < k => pcs'[j] <= pcs'[k]
    BY <2>1 DEF PcsInv
  <2>8. at = "done" => \A a : Count(pcs', a) = IF filter' THEN Count(points'[1], a) + Count(points'[2], a)
                                              ELSE Cardinality(UnitsWithRow(a))'
    BY <2>1, <2>2 DEF PcsInv
  <2> QED
    BY <2>1, <2>5, <2>6, <2>7, <2>8 DEF PcsInv
<1>6. CASE \/ OpenSymbols \/ ReadSymbol \/ EndOfSymbols \/ ScanByte \/ EndOfText \/ ReadReloc
           \/ EndOfRelocs \/ OpenUnits \/ NextUnit \/ EndOfUnits \/ ReadEntries
  <2>1. /\ pcs' = pcs /\ filter' = filter
        /\ at \in {"open", "symbols", "text", "relocs", "units", "entries"}
        /\ at' \in {at, "symbols", "text", "relocs", "units", "entries", "sort", "error", "panic", "looping"}
        /\ at' = "sort" => at \in {"text", "relocs"}
    <3>1. CASE NextUnit
      <4>1. file.units[n].form \in {"good", "nameless", "namelessLeaf", "noCompDir", "bad"}
        BY <3>1, UnitType DEF NextUnit, Units
      <4> QED
        BY <3>1, <4>1 DEF NextUnit, args
    <3>2. CASE ReadEntries
      <4>1. file.units[cus[n]].table \in {"good", "missing", "broken"}
        BY <3>2, EntryType DEF ReadEntries, Units
      <4> QED
        BY <3>2, <4>1 DEF ReadEntries, args
    <3>3. CASE ~NextUnit /\ ~ReadEntries
      BY <3>3, <1>6 DEF OpenSymbols, ReadSymbol, EndOfSymbols, ScanByte, EndOfText, ReadReloc,
                 EndOfRelocs, OpenUnits, EndOfUnits, End, args
    <3> QED
      BY <3>1, <3>2, <3>3
  <2>2. at' = "sort" => filter
    BY <2>1 DEF ListInv
  <2>3. at' \in {"open", "units", "entries"} => at \in {"open", "units", "entries"}
    BY <1>6, <2>1 DEF OpenSymbols, ReadSymbol, EndOfSymbols, ScanByte, EndOfText, ReadReloc,
                 EndOfRelocs, OpenUnits, NextUnit, EndOfUnits, ReadEntries, End
  <2> QED
    BY <2>1, <2>2, <2>3 DEF PcsInv
<1> QED
  BY <1>1, <1>2, <1>3, <1>4, <1>5, <1>6 DEF Next

THEOREM PcsInvariant ==
    Spec => [](LoopsInv /\ ScanInv /\ TraceInv /\ ListInv /\ TypeInv /\ EntriesInv /\ PcsInv)
<1>1. LoopsInv /\ ScanInv /\ [Next]_vars => ScanInv'
  BY EndOfSymbolsKeeps, ScanByteStep, EndOfTextStep, OtherSteps, ReturnStep DEF Next
<1> QED
  BY LoopsInit, LoopsStep, ScanInit, <1>1, TraceInit, TraceStep, ListInit, ListStep, TypeInit, TypeStep,
     EntriesInit, EntriesStep, PcsInit, PcsStep, PTL DEF Spec

(* The values of a call have their types, whatever the file; in            *)
(* particular no symbol is a callback of both kinds.                       *)
THEOREM AllPCsTypeOK == Spec => []TypeOK
<1>1. ASSUME LoopsInv, TypeInv, EntriesInv, PcsInv
      PROVE  TypeOK
  <2>1. tracePCIdx \cap traceCmpIdx = {} /\ tracePCIdx \cup traceCmpIdx \subseteq 1..Len(file.symbols)
    BY <1>1 DEF TypeInv, Named
  <2> QED
    BY <1>1, <2>1 DEF TypeOK, TypeInv, LoopsInv, EntriesInv, PcsInv
<1> QED
  BY <1>1, PcsInvariant, PTL

(* The list returned is in order and complete: each call found, or each    *)
(* address of a row as often as there are units with code that have it,    *)
(* for all files and in whatever order the maps are gone through           *)
(* (dwarf.go:85-109).                                                      *)
THEOREM ListIsCompleteHolds == Spec => []ListIsComplete
<1>1. PcsInv => ListIsComplete
  BY DEF PcsInv, ListIsComplete
<1> QED
  BY <1>1, PcsInvariant, PTL

-----------------------------------------------------------------------------
(* Numbers written in bytes. *)

LEMMA Division ==
    ASSUME NEW m \in Nat \ {0}, NEW a \in Nat
    PROVE  a \div m \in Nat /\ a % m \in 0..(m - 1) /\ a = m * (a \div m) + (a % m)
<1>1. a % m \in 0..(m - 1)
  OBVIOUS
<1>2. a \div m \in Nat
  OBVIOUS
<1>3. a = m * (a \div m) + (a % m)
  OBVIOUS
<1> QED
  BY <1>1, <1>2, <1>3

(* There is one quotient and one remainder. *)
LEMMA OneQuotient ==
    ASSUME NEW m \in Nat \ {0}, NEW q \in Nat, NEW r \in 0..(m - 1), NEW a \in Nat, a = m * q + r
    PROVE  a \div m = q /\ a % m = r
<1> DEFINE u == a \div m
           w == a % m
<1>1. u \in Nat /\ w \in 0..(m - 1) /\ a = m * u + w
  BY Division
<1> HIDE DEF u, w
<1>2. \A x, y, d \in Nat : x = y + 1 + d => m * x = m * y + m + m * d /\ m * d \in Nat /\ m * y \in Nat
  OBVIOUS
<1>3. ASSUME u < q PROVE FALSE
  <2>1. PICK d \in Nat : q = u + 1 + d
    <3>1. q - u - 1 \in Nat /\ q = u + 1 + (q - u - 1)
      BY <1>1, <1>3
    <3> QED
      BY <3>1
  <2> QED
    BY <1>1, <1>2, <2>1
<1>4. ASSUME q < u PROVE FALSE
  <2>1. PICK d \in Nat : u = q + 1 + d
    <3>1. u - q - 1 \in Nat /\ u = q + 1 + (u - q - 1)
      BY <1>1, <1>4
    <3> QED
      BY <3>1
  <2> QED
    BY <1>1, <1>2, <2>1
<1>5. u = q
  BY <1>1, <1>3, <1>4
<1>6. w = r
  BY <1>1, <1>5
<1> QED
  BY <1>5, <1>6 DEF u, w

LEMMA ByteType == /\ Byte \in Nat /\ Byte >= 8 /\ Byte * Byte \in Nat \ {0} /\ Byte3 \in Nat \ {0}
                  /\ Byte * Byte >= 8 * Byte /\ Byte3 >= 64 * Byte
<1>1. Byte \in Nat /\ Byte >= 8
  BY CallAssumption
<1>2. PICK s \in Nat : s = Byte * Byte
  BY <1>1
<1>3. s >= 8 * Byte
  BY <1>1, <1>2, Z3
<1>4. s * Byte \in Nat /\ s * Byte >= 8 * Byte * Byte
  BY <1>1, <1>2, <1>3, Z3
<1>5. Byte3 = s * Byte
  BY <1>2 DEF Byte3
<1>6. 8 * Byte * Byte = 8 * s
  BY <1>1, <1>2
<1> QED
  BY <1>1, <1>2, <1>3, <1>4, <1>5, <1>6

(* The bytes that Patched writes. *)
Digit(v, d) ==
    CASE d = 0 -> v % Byte
      [] d = 1 -> (v \div Byte) % Byte
      [] d = 2 -> (v \div (Byte * Byte)) % Byte
      [] d = 3 -> v \div Byte3

(* Two bytes at once are two times one byte. *)
LEMMA DigitFacts ==
    ASSUME NEW v \in Nat
    PROVE  /\ Digit(v, 0) \in 0..(Byte - 1) /\ Digit(v, 1) \in 0..(Byte - 1) /\ Digit(v, 2) \in 0..(Byte - 1)
           /\ Digit(v, 3) \in Nat
           /\ v = Digit(v, 0) + Byte * Digit(v, 1) + Byte * Byte * Digit(v, 2) + Byte3 * Digit(v, 3)
           /\ v \div (Byte * Byte) = (v \div Byte) \div Byte
           /\ v \div Byte3 = ((v \div Byte) \div Byte) \div Byte
<1> DEFINE S == Byte * Byte
           q1 == v \div Byte
           b0 == v % Byte
           q2 == q1 \div Byte
           b1 == q1 % Byte
           b3 == q2 \div Byte
           b2 == q2 % Byte
<1>1. Byte \in Nat \ {0} /\ S \in Nat \ {0} /\ Byte3 \in Nat \ {0}
  BY ByteType
<1>2. q1 \in Nat /\ b0 \in 0..(Byte - 1) /\ v = Byte * q1 + b0
  BY <1>1, Division
<1>3. q2 \in Nat /\ b1 \in 0..(Byte - 1) /\ q1 = Byte * q2 + b1
  <2>1. PICK a \in Nat : a = q1
    BY <1>2
  <2>2. a \div Byte \in Nat /\ a % Byte \in 0..(Byte - 1) /\ a = Byte * (a \div Byte) + (a % Byte)
    BY <1>1, Division
  <2> QED
    BY <2>1, <2>2
<1>4. b3 \in Nat /\ b2 \in 0..(Byte - 1) /\ q2 = Byte * b3 + b2
  <2>1. PICK a \in Nat : a = q2
    BY <1>3
  <2>2. a \div Byte \in Nat /\ a % Byte \in 0..(Byte - 1) /\ a = Byte * (a \div Byte) + (a % Byte)
    BY <1>1, Division
  <2> QED
    BY <2>1, <2>2
<1>5. Digit(v, 0) = b0 /\ Digit(v, 1) = b1
  BY DEF Digit
<1> HIDE DEF q1, b0, q2, b1, b3, b2
<1>6. Byte * b1 \in Nat /\ Byte * b1 + b0 \in 0..(S - 1)
  <2>1. Byte * b1 <= Byte * (Byte - 1) /\ Byte * b1 >= 0
    BY <1>1, <1>3, Z3
  <2>2. Byte * (Byte - 1) = S - Byte
    BY <1>1, Z3
  <2> QED
    BY <1>1, <1>2, <1>3, <2>1, <2>2
<1>7. S * b2 \in Nat /\ S * b2 + Byte * b1 + b0 \in 0..(Byte3 - 1)
  <2> HIDE DEF S
  <2>1. S * b2 <= S * (Byte - 1) /\ S * b2 >= 0
    BY <1>1, <1>4, Z3
  <2>2. S * (Byte - 1) = S * Byte - S /\ Byte3 = S * Byte
    BY <1>1, Z3 DEF Byte3, S
  <2> QED
    BY <1>1, <1>2, <1>4, <1>6, <2>1, <2>2
<1>8. v = S * q2 + (Byte * b1 + b0)
  <2>1. Byte * (Byte * q2 + b1) = S * q2 + Byte * b1
    BY <1>1, <1>3, Z3
  <2> QED
    BY <1>1, <1>2, <1>3, <1>6, <2>1
<1>9. v = Byte3 * b3 + (S * b2 + Byte * b1 + b0)
  <2>1. S * (Byte * b3 + b2) = Byte3 * b3 + S * b2
    BY <1>1, <1>4, Z3 DEF Byte3
  <2>2. Byte3 * b3 \in Nat
    BY <1>1, <1>4
  <2>3. S * q2 = Byte3 * b3 + S * b2
    BY <1>4, <2>1
  <2>4. PICK x, y, z, w \in Nat : x = S * q2 /\ y = Byte3 * b3 /\ z = S * b2 /\ w = Byte * b1
    <3>1. S * q2 \in Nat
      BY <1>1, <1>3
    <3> QED
      BY <1>6, <1>7, <2>2, <3>1
  <2> HIDE DEF S
  <2>5. v = x + (w + b0) /\ x = y + z
    BY <1>8, <2>3, <2>4
  <2>6. v = y + (z + w + b0)
    BY <1>2, <2>4, <2>5
  <2> QED
    BY <2>4, <2>6
<1>10. v \div S = q2
  BY <1>1, <1>3, <1>6, <1>8, OneQuotient
<1>11. v \div Byte3 = b3
  BY <1>1, <1>4, <1>7, <1>9, OneQuotient
<1>12. Digit(v, 2) = b2 /\ Digit(v, 3) = b3
  BY <1>10, <1>11 DEF Digit, b2, S
<1>13. v = b0 + Byte * b1 + S * b2 + Byte3 * b3
  <2>1. Byte3 * b3 \in Nat
    BY <1>1, <1>4
  <2> QED
    BY <1>2, <1>6, <1>7, <1>9, <2>1
<1>14. q2 = (v \div Byte) \div Byte /\ b3 = ((v \div Byte) \div Byte) \div Byte
  BY DEF q1, q2, b3
<1> HIDE DEF S
<1>15. S = Byte * Byte
  BY DEF S
<1> QED
  BY <1>2, <1>3, <1>4, <1>5, <1>10, <1>11, <1>12, <1>13, <1>14, <1>15

(* Adding 4 carries at most one into the next byte ... *)
LEMMA Carry ==
    ASSUME NEW m \in Nat, m > 4, NEW a \in Nat, NEW e \in 0..4
    PROVE  (a + e) \div m \in {a \div m, (a \div m) + 1}
<1> DEFINE q == a \div m
           r == a % m
<1>1. q \in Nat /\ r \in 0..(m - 1) /\ a = m * q + r
  <2>1. m \in Nat \ {0}
    OBVIOUS
  <2> QED
    BY <2>1, Division
<1> HIDE DEF q, r
<1>2. CASE r + e < m
  <2>1. a + e = m * q + (r + e) /\ r + e \in 0..(m - 1) /\ a + e \in Nat /\ m \in Nat \ {0}
    BY <1>1, <1>2
  <2>2. (a + e) \div m = q
    BY <1>1, <2>1, OneQuotient
  <2> QED
    BY <2>2 DEF q
<1>3. CASE r + e >= m
  <2>1. m * (q + 1) = m * q + m /\ m * q \in Nat
    BY <1>1
  <2>2. /\ a + e = m * (q + 1) + (r + e - m) /\ r + e - m \in 0..(m - 1) /\ a + e \in Nat
        /\ m \in Nat \ {0} /\ q + 1 \in Nat
    BY <1>1, <1>3, <2>1
  <2>3. (a + e) \div m = q + 1
    <3>1. PICK x \in Nat : x = a + e
      BY <2>2
    <3>2. PICK y \in Nat : y = q + 1
      BY <2>2
    <3>3. PICK z \in 0..(m - 1) : z = r + e - m
      BY <2>2
    <3>4. x = m * y + z /\ m \in Nat \ {0}
      BY <2>2, <3>1, <3>2, <3>3
    <3>5. x \div m = y
      BY <3>4, OneQuotient
    <3> QED
      BY <3>1, <3>2, <3>5
  <2>4. (a + e) \div m \in {q, q + 1}
    BY <2>3
  <2> QED
    BY <2>4 DEF q
<1>4. r + e < m \/ r + e >= m
  BY <1>1
<1> QED
  BY <1>2, <1>3, <1>4

(* ... which changes this by one, modulo Byte. *)
LEMMA CarryIn ==
    ASSUME NEW a \in Nat, NEW b \in {a, a + 1}
    PROVE  (b % Byte) - (a % Byte) \in {0, 1, 1 - Byte}
<1> DEFINE q == a \div Byte
           r == a % Byte
<1>1. Byte \in Nat \ {0} /\ Byte >= 8
  BY ByteType
<1>2. q \in Nat /\ r \in 0..(Byte - 1) /\ a = Byte * q + r
  BY <1>1, Division
<1> HIDE DEF q, r
<1>3. CASE b = a
  BY <1>1, <1>3
<1>4. CASE b = a + 1 /\ r + 1 < Byte
  <2>1. b \in Nat /\ b = Byte * q + (r + 1) /\ r + 1 \in 0..(Byte - 1)
    BY <1>1, <1>2, <1>4
  <2>2. b % Byte = r + 1
    BY <1>1, <1>2, <2>1, OneQuotient
  <2>3. (b % Byte) - r = 1
    BY <2>2, <1>2
  <2> QED
    BY <2>3 DEF r
<1>5. CASE b = a + 1 /\ r + 1 = Byte
  <2>1. Byte * (q + 1) = Byte * q + Byte /\ Byte * q \in Nat
    BY <1>1, <1>2
  <2>2. b \in Nat /\ b = Byte * (q + 1) + 0 /\ 0 \in 0..(Byte - 1) /\ q + 1 \in Nat
    BY <1>1, <1>2, <1>5, <2>1
  <2>3. b % Byte = 0
    BY <1>1, <2>2, OneQuotient
  <2>4. (b % Byte) - r = 1 - Byte
    BY <1>1, <1>2, <1>5, <2>3
  <2> QED
    BY <2>4 DEF r
<1> QED
  BY <1>1, <1>2, <1>3, <1>4, <1>5

LEMMA DigitsOfNext ==
    ASSUME NEW v \in Nat, NEW d \in 1..3
    PROVE  Digit(v + 4, d) - Digit(v, d) \in {0, 1, 1 - Byte}
<1> DEFINE q1 == v \div Byte
           p1 == (v + 4) \div Byte
           q2 == q1 \div Byte
           p2 == p1 \div Byte
           q3 == q2 \div Byte
           p3 == p2 \div Byte
<1>1. Byte \in Nat \ {0} /\ Byte > 4 /\ v + 4 \in Nat
  BY ByteType
<1>2. q1 \in Nat /\ p1 \in {q1, q1 + 1}
  BY <1>1, Carry, Division
<1>3. \A a, b \in Nat : b \in {a, a + 1} =>
         a \div Byte \in Nat /\ b \div Byte \in {a \div Byte, (a \div Byte) + 1}
  <2> SUFFICES ASSUME NEW a \in Nat, NEW b \in Nat, b \in {a, a + 1}
               PROVE  a \div Byte \in Nat /\ b \div Byte \in {a \div Byte, (a \div Byte) + 1}
    OBVIOUS
  <2>1. PICK e \in 0..4 : b = a + e
    <3>1. CASE b = a
      <4>1. b = a + 0
        BY <3>1
      <4> QED
        BY <4>1
    <3>2. CASE b = a + 1
      BY <3>2
    <3> QED
      BY <3>1, <3>2
  <2> QED
    BY <1>1, <2>1, Carry, Division
<1> HIDE DEF q1, p1
<1>4. q2 \in Nat /\ p2 \in {q2, q2 + 1}
  <2>1. q1 \in Nat /\ p1 \in Nat
    BY <1>2
  <2> QED
    BY <1>2, <1>3, <2>1
<1> HIDE DEF q2, p2
<1>5. q3 \in Nat /\ p3 \in {q3, q3 + 1}
  <2>1. q2 \in Nat /\ p2 \in Nat
    BY <1>4
  <2> QED
    BY <1>4, <1>3, <2>1
<1> HIDE DEF q3, p3
<1>6. Digit(v, 1) = q1 % Byte /\ Digit(v + 4, 1) = p1 % Byte
  BY DEF Digit, q1, p1
<1>7. Digit(v, 2) = q2 % Byte /\ Digit(v + 4, 2) = p2 % Byte
  <2>1. v \div (Byte * Byte) = q2
    BY DigitFacts DEF q1, q2
  <2>2. (v + 4) \div (Byte * Byte) = p2
    BY <1>1, DigitFacts DEF p1, p2
  <2> QED
    BY <2>1, <2>2 DEF Digit
<1>8. Digit(v, 3) = q3 /\ Digit(v + 4, 3) = p3
  <2>1. v \div Byte3 = q3
    BY DigitFacts DEF q1, q2, q3
  <2>2. (v + 4) \div Byte3 = p3
    BY <1>1, DigitFacts DEF p1, p2, p3
  <2> QED
    BY <2>1, <2>2 DEF Digit
<1>9. CASE d = 1
  BY <1>2, <1>6, <1>9, CarryIn
<1>10. CASE d = 2
  BY <1>4, <1>7, <1>10, CarryIn
<1>11. CASE d = 3
  <2>1. p3 - q3 \in {0, 1}
    BY <1>5
  <2> QED
    BY <1>8, <1>11, <2>1
<1> QED
  BY <1>9, <1>10, <1>11

(* Two addresses 0 and 4 that are called from one place are told apart by  *)
(* the low byte of the operand, and by more than a carry.                  *)
LEMMA LowByteTells ==
    ASSUME NEW x \in Int, NEW f \in Int, NEW g \in Int, (x + f) % Word = 0, (x + g) % Word = 4,
           NEW a \in Int, NEW b \in Int, NEW k \in Int, NEW l \in Int,
           f = a + Byte * k, g = b + Byte * l, b - a \in {0, 1, 1 - Byte}
    PROVE  FALSE
<1>1. PICK w \in Int : Word = Byte * w
  <2>1. Word \div Byte \in Int /\ Word = Byte * (Word \div Byte) + (Word % Byte) /\ Word % Byte = 0
    BY CallAssumption, Division
  <2>2. PICK d \in Int : d = Word \div Byte
    BY <2>1
  <2>3. Word = Byte * d + 0 /\ Byte * d \in Int
    BY <2>1, <2>2, CallAssumption
  <2> QED
    BY <2>3
<1>2. Byte \in Nat /\ Byte >= 8 /\ Word \in Nat \ {0}
  BY ByteType, CallAssumption
<1>3. PICK i \in Int : x + f = Word * i
  <2>1. PICK y \in Int : y = x + f
    OBVIOUS
  <2>2. y \div Word \in Int /\ y = Word * (y \div Word) + (y % Word)
    BY <1>2, Z3
  <2>3. y % Word = 0
    BY <2>1
  <2>4. PICK d \in Int : d = y \div Word
    BY <2>2
  <2>5. x + f = Word * d + 0 /\ Word * d \in Int
    BY <1>2, <2>1, <2>2, <2>3, <2>4
  <2> QED
    BY <2>5
<1>4. PICK j \in Int : x + g = Word * j + 4
  <2>1. PICK y \in Int : y = x + g
    OBVIOUS
  <2>2. y \div Word \in Int /\ y = Word * (y \div Word) + (y % Word)
    BY <1>2, Z3
  <2>3. y % Word = 4
    BY <2>1
  <2>4. PICK d \in Int : d = y \div Word
    BY <2>2
  <2>5. x + g = Word * d + 4 /\ Word * d \in Int
    BY <1>2, <2>1, <2>2, <2>3, <2>4
  <2> QED
    BY <2>5
<1>5. g - f = Word * j - Word * i + 4
  <2>1. Word * j \in Int /\ Word * i \in Int
    BY <1>2
  <2> QED
    BY <1>3, <1>4, <2>1
<1>6. Word * j = Byte * (w * j) /\ Word * i = Byte * (w * i)
  BY <1>1, <1>2, Z3
<1>7. PICK y, z \in Int : y = w * j /\ z = w * i
  OBVIOUS
<1>8. PICK t \in Int : t = y - z + k - l
  OBVIOUS
<1>9. b - a = 4 + Byte * t
  <2>1. g - f = Byte * y - Byte * z + 4
    BY <1>5, <1>6, <1>7
  <2>2. Byte * t = Byte * y - Byte * z + Byte * k - Byte * l
    BY <1>2, <1>8, Z3
  <2>3. PICK d, e, u, v \in Int : d = Byte * y /\ e = Byte * z /\ u = Byte * k /\ v = Byte * l
    BY <1>2
  <2>4. g - f = d - e + 4 /\ f = a + u /\ g = b + v /\ Byte * t = d - e + u - v
    BY <2>1, <2>2, <2>3
  <2> QED
    BY <2>4
<1>10. CASE t >= 0
  <2>1. Byte * t >= 0
    BY <1>2, <1>10, Z3
  <2> QED
    BY <1>2, <1>9, <2>1
<1>11. CASE t = -1
  <2>1. Byte * t = 0 - Byte
    BY <1>2, <1>11
  <2> QED
    BY <1>2, <1>9, <2>1
<1>12. CASE t <= -2
  <2>1. Byte * t <= Byte * (-2)
    BY <1>2, <1>12, Z3
  <2>2. Byte * (-2) = 0 - 2 * Byte
    BY <1>2
  <2> QED
    BY <1>2, <1>9, <2>1, <2>2
<1> QED
  BY <1>10, <1>11, <1>12

(* A number that fits is read as it was written. *)
LEMMA ReadBack ==
    ASSUME NEW m \in Nat \ {0}, NEW a \in Int, 0 - m <= 2 * a, 2 * a < m
    PROVE  a % m \in 0..(m - 1) /\ SignedOf(a % m, m) = a
<1> DEFINE u == a % m
           q == a \div m
<1>1. u \in 0..(m - 1) /\ q \in Int /\ a = m * q + u
  BY Z3
<1> HIDE DEF u, q
<1>2. CASE q >= 1
  <2>1. m * q >= m
    BY <1>2, <1>1, Z3
  <2> QED
    BY <1>1, <2>1
<1>3. CASE q <= -2
  <2>1. m * q <= m * (-2)
    BY <1>1, <1>3, Z3
  <2> QED
    BY <1>1, <2>1
<1>4. CASE q = 0
  BY <1>1, <1>4 DEF SignedOf
<1>5. CASE q = -1
  <2>1. m * q = 0 - m
    BY <1>5
  <2>2. a = u - m
    BY <1>1, <2>1
  <2> QED
    BY <1>1, <2>2 DEF SignedOf
<1>6. SignedOf(u, m) = a
  BY <1>1, <1>2, <1>3, <1>4, <1>5
<1> QED
  BY <1>1, <1>6 DEF u

-----------------------------------------------------------------------------
(* A relocated call. *)

Relocated(r) == file \in Files /\ Linkable /\ r \in ToSet(file.rela) /\ InCall(r)

LEMMA RelocFacts ==
    ASSUME NEW r, Relocated(r)
    PROVE  /\ r.off \in Nat /\ Len(file.text) \in Nat
           /\ Place(r) \in Readable /\ IsCall(file.text, Place(r))
           /\ file.machine = "amd64" =>
                 /\ OperandAt = 1 /\ CallLen = 5 /\ r.off >= 1 /\ r.off + 4 <= Len(file.text)
                 /\ 2 * Len(file.text) <= Byte * Byte3
           /\ file.machine # "amd64" =>
                 /\ file.machine = "arm64" /\ OperandAt = 0 /\ CallLen = 4
                 /\ r.off % 4 = 0 /\ r.off + 4 <= Len(file.text)
                 /\ 2 * Len(file.text) <= 16 * Byte3
<1>1. /\ Len(file.text) \in Nat /\ file.machine \in Machines /\ file.rela \in Seq(Relocs)
  BY FileType, FilesAssumption DEF Relocated
<1>2. PICK k \in 1..Len(file.rela) : r = file.rela[k]
  BY <1>1 DEF Relocated, ToSet
<1>3. r \in Relocs
  BY <1>1, <1>2, ElementOfSeq
<1>4. Place(r) \in Readable /\ IsCall(file.text, Place(r)) /\ file.machine # "other"
  BY DEF Relocated, Linkable, InCall
<1>5. 2 * Len(file.text) <= (IF file.machine = "amd64" THEN Byte * Byte3 ELSE 16 * Byte3)
  BY DEF Relocated, Linkable
<1>6. r.off \in Nat
  BY <1>3 DEF Relocs
<1>7. Place(r) \in 0..(Len(file.text) - CallLen) /\ (file.machine = "arm64" => Place(r) % 4 = 0)
  BY <1>4 DEF Readable
<1>8. CASE file.machine = "amd64"
  <2>1. OperandAt = 1 /\ CallLen = 5
    BY <1>8 DEF OperandAt, CallLen
  <2>2. r.off >= 1 /\ r.off + 4 <= Len(file.text)
    BY <2>1, <1>1, <1>6, <1>7 DEF Place
  <2> QED
    BY <1>1, <1>4, <1>5, <1>6, <1>8, <2>1, <2>2
<1>9. CASE file.machine # "amd64"
  <2>1. OperandAt = 0 /\ CallLen = 4 /\ file.machine = "arm64"
    BY <1>1, <1>4, <1>9 DEF OperandAt, CallLen, Machines
  <2>2. r.off % 4 = 0 /\ r.off + 4 <= Len(file.text)
    <3>1. r.off - OperandAt = r.off
      BY <2>1, <1>6
    <3>2. Place(r) = r.off
      BY <3>1 DEF Place
    <3>3. r.off \in 0..(Len(file.text) - 4) /\ r.off % 4 = 0
      BY <2>1, <1>7, <3>2
    <3> QED
      BY <1>1, <1>6, <3>3
  <2> QED
    BY <1>1, <1>4, <1>5, <1>6, <1>9, <2>1, <2>2
<1> QED
  BY <1>8, <1>9

(* What the linker writes into its operand. *)
Written(r, s) == Displacement(r, s) % OperandValues

Elsewhere(r, k) == k \notin {r.off + 1, r.off + 2, r.off + 3, r.off + 4}

LEMMA PatchedFacts ==
    ASSUME NEW r, Relocated(r), NEW s
    PROVE  /\ Patched(r, s)[r.off + 1] = Digit(Written(r, s), 0)
           /\ Patched(r, s)[r.off + 2] = Digit(Written(r, s), 1)
           /\ Patched(r, s)[r.off + 3] = Digit(Written(r, s), 2)
           /\ Patched(r, s)[r.off + 4] =
                 (IF file.machine = "amd64" THEN Digit(Written(r, s), 3)
                  ELSE file.text[r.off + 4] - (file.text[r.off + 4] % 4) + Digit(Written(r, s), 3))
           /\ \A k \in 1..Len(file.text) : Elsewhere(r, k) => Patched(r, s)[k] = file.text[k]
<1> DEFINE v == Written(r, s)
           P == Patched(r, s)
           text == file.text
           byte(k) == CASE k = r.off + 1 -> v % Byte
                        [] k = r.off + 2 -> (v \div Byte) % Byte
                        [] k = r.off + 3 -> (v \div (Byte * Byte)) % Byte
                        [] k = r.off + 4 -> IF file.machine = "amd64" THEN v \div Byte3
                                            ELSE text[r.off + 4] - (text[r.off + 4] % 4) + v \div Byte3
                        [] OTHER         -> text[k]
<1>1. r.off \in Nat /\ Len(text) \in Nat /\ r.off + 4 <= Len(text)
  BY RelocFacts
<1>2. r.off + 3 + 1 = r.off + 4
  BY <1>1
<1>3. P = [k \in 1..Len(text) |-> byte(k)]
  BY <1>2 DEF Patched, Written, ByteAt
<1>4. \A k \in 1..Len(text) : P[k] = byte(k)
  BY <1>3
<1> HIDE DEF P, v
<1>5. /\ r.off + 1 \in 1..Len(text) /\ r.off + 2 \in 1..Len(text)
      /\ r.off + 3 \in 1..Len(text) /\ r.off + 4 \in 1..Len(text)
      /\ r.off + 1 # r.off + 2 /\ r.off + 1 # r.off + 3 /\ r.off + 1 # r.off + 4
      /\ r.off + 2 # r.off + 3 /\ r.off + 2 # r.off + 4 /\ r.off + 3 # r.off + 4
  BY <1>1
<1>6. /\ byte(r.off + 1) = Digit(v, 0)
      /\ byte(r.off + 2) = Digit(v, 1)
      /\ byte(r.off + 3) = Digit(v, 2)
      /\ byte(r.off + 4) = (IF file.machine = "amd64" THEN Digit(v, 3)
                            ELSE text[r.off + 4] - (text[r.off + 4] % 4) + Digit(v, 3))
  BY <1>5 DEF Digit
<1>7. \A k : Elsewhere(r, k) => byte(k) = text[k]
  BY DEF Elsewhere
<1> HIDE DEF byte
<1> QED
  BY <1>4, <1>5, <1>6, <1>7 DEF P, v

LEMMA Negative ==
    ASSUME NEW m \in Nat \ {0}, NEW a \in Int, 0 - m <= a, a < 0
    PROVE  a % m = a + m
<1> DEFINE u == a % m
           q == a \div m
<1>1. u \in 0..(m - 1) /\ q \in Int /\ a = m * q + u
  BY Z3
<1> HIDE DEF u, q
<1>2. CASE q >= 0
  <2>1. m * q >= 0
    BY <1>2, <1>1, Z3
  <2> QED
    BY <1>1, <2>1
<1>3. CASE q <= -2
  <2>1. m * q <= m * (-2)
    BY <1>1, <1>3, Z3
  <2> QED
    BY <1>1, <2>1
<1>4. CASE q = -1
  <2>1. m * q = 0 - m
    BY <1>4
  <2>2. u = a + m
    BY <1>1, <2>1
  <2> QED
    BY <2>2 DEF u
<1> QED
  BY <1>1, <1>2, <1>3, <1>4

(* A displacement that fits is read as it was written. *)
LEMMA WrittenFacts ==
    ASSUME NEW r, Relocated(r), NEW s \in Int, Reaches(r, s)
    PROVE  /\ file.machine = "amd64" =>
                 /\ Written(r, s) \in 0..(Byte * Byte3 - 1)
                 /\ SignedOf(Written(r, s), Byte * Byte3) = s - 4 - r.off
           /\ file.machine # "amd64" =>
                 /\ Written(r, s) \in 0..(4 * Byte3 - 1)
                 /\ 4 * SignedOf(Written(r, s), 4 * Byte3) = s - r.off
                 /\ SignedOf(Written(r, s), 4 * Byte3) \in Int
<1> DEFINE m == OperandValues
<1>1. m \in Nat \ {0}
  <2>1. Byte * Byte3 \in Nat \ {0}
    <3>1. PICK b, c \in Nat \ {0} : b = Byte /\ c = Byte3
      BY ByteType
    <3>2. b * c \in Nat \ {0}
      BY Z3
    <3> QED
      BY <3>1, <3>2
  <2> QED
    BY <2>1, ByteType DEF OperandValues
<1>2. PICK o \in Nat : o = r.off
  BY RelocFacts
<1>3. PICK a \in Int : a = Displacement(r, s)
  <2>1. s - 4 - o \in Int /\ (s - o) \div 4 \in Int
    BY <1>2
  <2> QED
    BY <1>2, <2>1 DEF Displacement
<1>4. 0 - m <= 2 * a /\ 2 * a < m
  BY <1>1, <1>3 DEF Reaches
<1> HIDE DEF m
<1>5. a % m \in 0..(m - 1) /\ SignedOf(a % m, m) = a
  BY <1>1, <1>4, ReadBack
<1>6. Written(r, s) = a % m
  BY <1>3 DEF Written, m
<1>7. CASE file.machine = "amd64"
  BY <1>3, <1>5, <1>6, <1>7 DEF m, OperandValues, Displacement
<1>8. CASE file.machine # "amd64"
  <2>1. o % 4 = 0 /\ s % 4 = 0 /\ a = (s - o) \div 4
    BY <1>2, <1>3, <1>8, RelocFacts DEF Reaches, Displacement
  <2>2. 4 * a = s - o
    BY <2>1
  <2> QED
    BY <1>2, <1>5, <1>6, <1>8, <2>2 DEF m, OperandValues
<1> QED
  BY <1>7, <1>8

(* Two places that a call reaches wherever it is. *)
LEMMA NearReached ==
    ASSUME NEW r, Relocated(r), NEW s \in {0, 4}
    PROVE  Reaches(r, s)
<1>1. CASE file.machine = "amd64"
  <2>1. PICK o, l, m \in Nat : o = r.off /\ l = Len(file.text) /\ m = Byte * Byte3
    BY <1>1, RelocFacts, ByteType
  <2>2. o >= 1 /\ o + 4 <= l /\ 2 * l <= m
    BY <1>1, <2>1, RelocFacts
  <2>3. 0 - m <= 2 * (s - 4 - o) /\ 2 * (s - 4 - o) < m
    BY <2>2
  <2> QED
    BY <1>1, <2>1, <2>3 DEF Reaches, Displacement, OperandValues
<1>2. CASE file.machine # "amd64"
  <2>1. PICK o, l, b \in Nat : o = r.off /\ l = Len(file.text) /\ b = Byte3
    BY <1>2, RelocFacts, ByteType
  <2>2. o % 4 = 0 /\ o + 4 <= l /\ 2 * l <= 16 * b /\ b >= 64
    BY <1>2, <2>1, RelocFacts, ByteType
  <2>3. s % 4 = 0
    OBVIOUS
  <2>4. PICK a \in Int : a = (s - o) \div 4 /\ 4 * a = s - o
    <3>1. 4 * ((s - o) \div 4) = s - o /\ (s - o) \div 4 \in Int
      BY <2>2, <2>3
    <3> QED
      BY <3>1
  <2>5. 0 - 4 * b <= 2 * a /\ 2 * a < 4 * b
    BY <2>2, <2>4
  <2> QED
    BY <1>2, <2>1, <2>3, <2>4, <2>5 DEF Reaches, Displacement, OperandValues
<1> QED
  BY <1>1, <1>2

LEMMA SmallInWord == \A s \in {0, 4} : s % Word = s
<1>1. Word \in Nat /\ Word > 8
  BY CallAssumption
<1> QED
  BY <1>1

(* Where the relocation is, the callback is called.                        *)
LEMMA OwnCallOnAmd64 ==
    ASSUME NEW r, Relocated(r), NEW s \in Int, Reaches(r, s), file.machine = "amd64"
    PROVE  IsCall(Patched(r, s), Place(r)) /\ Callee(Patched(r, s), Place(r), Place(r)) = s % Word
<1> DEFINE P == Patched(r, s)
           v == Written(r, s)
           p == Place(r)
<1>1. /\ r.off \in Nat /\ Len(file.text) \in Nat /\ r.off >= 1 /\ r.off + 4 <= Len(file.text)
      /\ p = r.off - 1 /\ IsCall(file.text, p) /\ CallLen = 5
  BY RelocFacts DEF Place
<1>2. v \in Nat /\ SignedOf(v, Byte * Byte3) = s - 4 - r.off
  <2>1. Byte * Byte3 \in Nat
    BY ByteType
  <2> QED
    BY <2>1, WrittenFacts
<1>3. /\ P[r.off + 1] = Digit(v, 0) /\ P[r.off + 2] = Digit(v, 1)
      /\ P[r.off + 3] = Digit(v, 2) /\ P[r.off + 4] = Digit(v, 3)
      /\ \A k \in 1..Len(file.text) : Elsewhere(r, k) => P[k] = file.text[k]
  BY PatchedFacts
<1> HIDE DEF P, v, p
<1>4. P[r.off] = file.text[r.off]
  <2>1. r.off \in 1..Len(file.text) /\ Elsewhere(r, r.off)
    BY <1>1 DEF Elsewhere
  <2> QED
    BY <2>1, <1>3
<1>5. p + 1 = r.off /\ p + 1 + 1 = r.off + 1 /\ p + 1 + 1 + 1 = r.off + 2 /\ p + 1 + 2 + 1 = r.off + 3
      /\ p + 1 + 3 + 1 = r.off + 4
  BY <1>1
<1>6. IsCall(P, p)
  BY <1>1, <1>4, <1>5 DEF IsCall, ByteAt
<1>7. Uint32(P, p + 1) = v
  <2>1. v = Digit(v, 0) + Byte * Digit(v, 1) + Byte * Byte * Digit(v, 2) + Byte3 * Digit(v, 3)
    BY <1>2, DigitFacts
  <2> QED
    BY <1>3, <1>5, <2>1 DEF Uint32, Low24, ByteAt
<1>8. Operand(P, p) = s - 4 - r.off
  BY <1>2, <1>7 DEF Operand
<1>9. p + CallLen + Operand(P, p) = s
  BY <1>1, <1>8
<1>10. Callee(P, p, p) = s % Word
  BY <1>9 DEF Callee
<1> QED
  BY <1>6, <1>10 DEF P, p

LEMMA OwnCallOnArm64 ==
    ASSUME NEW r, Relocated(r), NEW s \in Int, Reaches(r, s), file.machine # "amd64"
    PROVE  IsCall(Patched(r, s), Place(r)) /\ Callee(Patched(r, s), Place(r), Place(r)) = s % Word
<1> DEFINE P == Patched(r, s)
           v == Written(r, s)
           p == Place(r)
           top == file.text[r.off + 4]
           d == Digit(v, 3)
<1>1. /\ r.off \in Nat /\ Len(file.text) \in Nat /\ r.off + 4 <= Len(file.text)
      /\ p = r.off /\ IsCall(file.text, p)
  <2>1. r.off \in Nat /\ OperandAt = 0
    BY RelocFacts
  <2> QED
    BY <2>1, RelocFacts DEF Place
<1>2. Byte3 \in Nat \ {0}
  BY ByteType
<1>3. /\ v \in Nat /\ v < 4 * Byte3 /\ 4 * SignedOf(v, 4 * Byte3) = s - r.off
      /\ SignedOf(v, 4 * Byte3) \in Int
  BY <1>2, WrittenFacts
<1>4. /\ P[r.off + 1] = Digit(v, 0) /\ P[r.off + 2] = Digit(v, 1)
      /\ P[r.off + 3] = Digit(v, 2) /\ P[r.off + 4] = top - (top % 4) + d
  BY PatchedFacts
<1>5. /\ Digit(v, 0) \in Nat /\ Digit(v, 1) \in Nat /\ Digit(v, 2) \in Nat /\ d \in Nat
      /\ v = Digit(v, 0) + Byte * Digit(v, 1) + Byte * Byte * Digit(v, 2) + Byte3 * d
  BY <1>3, ByteType, DigitFacts
<1> HIDE DEF P, v, p, d, top
<1>6. d \in 0..3
  <2>1. Byte * Digit(v, 1) \in Nat /\ Byte * Byte * Digit(v, 2) \in Nat
    BY <1>5, ByteType
  <2>2. Byte3 * d <= v
    <3>1. Byte3 * d \in Nat
      BY <1>2, <1>5
    <3> QED
      BY <1>3, <1>5, <2>1, <3>1
  <2>3. ASSUME d >= 4 PROVE FALSE
    <3>1. Byte3 * d >= Byte3 * 4
      BY <1>2, <1>5, <2>3, Z3
    <3>2. Byte3 * d \in Nat
      BY <1>2, <1>5
    <3> QED
      BY <1>2, <1>3, <2>2, <3>1, <3>2
  <2> QED
    BY <1>5, <2>3
<1>7. top \in BranchLink..(BranchLink + 3) /\ BranchLink \in Nat /\ BranchLink % 4 = 0
  <2>1. p + 3 + 1 = r.off + 4
    BY <1>1
  <2> QED
    BY <1>1, <2>1, CallAssumption DEF IsCall, ByteAt, top
<1>8. P[r.off + 4] = BranchLink + d /\ (BranchLink + d) % 4 = d
  BY <1>4, <1>6, <1>7
<1>9. p + 1 = r.off + 1 /\ p + 1 + 1 = r.off + 2 /\ p + 2 + 1 = r.off + 3 /\ p + 3 + 1 = r.off + 4
  BY <1>1
<1>10. IsCall(P, p)
  <2>1. BranchLink + d \in BranchLink..(BranchLink + 3)
    BY <1>6, <1>7
  <2> QED
    BY <1>8, <1>9, <2>1 DEF IsCall, ByteAt
<1>11. Low24(P, p) + Byte3 * (ByteAt(P, p + 3) % 4) = v
  BY <1>4, <1>5, <1>8, <1>9 DEF Low24, ByteAt
<1>12. Operand(P, p) = SignedOf(v, 4 * Byte3)
  BY <1>11 DEF Operand
<1>13. p + 4 * Operand(P, p) = s
  BY <1>1, <1>3, <1>12
<1>14. Callee(P, p, p) = s % Word
  BY <1>13 DEF Callee
<1> QED
  BY <1>10, <1>14 DEF P, p

(* Nowhere else is it called wherever it is put: there the operand has the *)
(* same low byte for a callback at 0 and for one at 4, or one that differs *)
(* by a carry (amd64), or is untouched (arm64).                            *)
LEMMA NoOtherCallOnAmd64 ==
    ASSUME NEW r, Relocated(r), file.machine = "amd64", NEW p \in Readable, p # Place(r),
           \A s \in {0, 4} : Callee(Patched(r, s), p, p) = s
    PROVE  FALSE
<1> DEFINE N == Len(file.text)
           P(s) == Patched(r, s)
           v == Written(r, 0)
           m == Byte * Byte3
<1>1. /\ r.off \in Nat /\ N \in Nat /\ r.off >= 1 /\ r.off + 4 <= N /\ 2 * N <= m
      /\ Place(r) = r.off - 1 /\ CallLen = 5
  BY RelocFacts DEF Place
<1>2. p \in Nat /\ p + 5 <= N /\ p + 2 # r.off + 1
  BY <1>1 DEF Readable
<1>3. m \in Nat
  BY ByteType
<1>4. v \in Nat /\ Written(r, 4) = v + 4
  <2>1. /\ Written(r, 0) = (0 - 4 - r.off) % m /\ Written(r, 4) = (4 - 4 - r.off) % m
    BY DEF Written, Displacement, OperandValues
  <2> HIDE DEF m
  <2>2. m \in Nat \ {0} /\ m >= 5 + r.off
    BY <1>1, <1>3
  <2>3. PICK a, b \in Int : a = 0 - 4 - r.off /\ b = 4 - 4 - r.off
    BY <1>1
  <2>4. 0 - m <= a /\ a < 0 /\ 0 - m <= b /\ b < 0
    BY <1>1, <2>2, <2>3
  <2>5. a % m = a + m /\ b % m = b + m
    BY <2>2, <2>4, Negative
  <2>6. Written(r, 0) = a % m /\ Written(r, 4) = b % m
    BY <2>1, <2>3
  <2>7. Written(r, 0) = a + m /\ Written(r, 4) = b + m
    BY <2>5, <2>6
  <2>8. a + m \in Nat /\ b + m = (a + m) + 4
    <3>1. PICK o \in Nat : o = r.off
      BY <1>1
    <3> QED
      BY <2>2, <2>3, <3>1
  <2> QED
    BY <2>7, <2>8, Zenon
<1> HIDE DEF v, m, N
<1>5. \A k \in 1..N : file.text[k] \in Int
  BY FileType DEF Relocated, N
<1>6. \A d \in 0..3 : Digit(v, d) \in Int /\ Digit(v + 4, d) \in Int
  <2>1. ASSUME NEW u \in Nat, NEW d \in 0..3 PROVE Digit(u, d) \in Int
    <3>1. Byte \in Nat
      BY ByteType
    <3>2. Digit(u, 0) \in Int /\ Digit(u, 1) \in Int /\ Digit(u, 2) \in Int /\ Digit(u, 3) \in Int
      <4>1. Digit(u, 0) \in 0..(Byte - 1) /\ Digit(u, 1) \in 0..(Byte - 1) /\ Digit(u, 2) \in 0..(Byte - 1)
        BY DigitFacts
      <4>2. Digit(u, 3) \in Nat
        BY DigitFacts
      <4> QED
        BY <3>1, <4>1, <4>2
    <3>3. d = 0 \/ d = 1 \/ d = 2 \/ d = 3
      OBVIOUS
    <3> QED
      BY <3>2, <3>3
  <2>2. v + 4 \in Nat
    BY <1>4
  <2> QED
    BY <1>4, <2>1, <2>2
<1>7. /\ P(0)[r.off + 1] = Digit(v, 0) /\ P(0)[r.off + 2] = Digit(v, 1)
      /\ P(0)[r.off + 3] = Digit(v, 2) /\ P(0)[r.off + 4] = Digit(v, 3)
      /\ \A k \in 1..N : Elsewhere(r, k) => P(0)[k] = file.text[k]
  BY PatchedFacts DEF v, N
<1>8. /\ P(4)[r.off + 1] = Digit(v + 4, 0) /\ P(4)[r.off + 2] = Digit(v + 4, 1)
      /\ P(4)[r.off + 3] = Digit(v + 4, 2) /\ P(4)[r.off + 4] = Digit(v + 4, 3)
      /\ \A k \in 1..N : Elsewhere(r, k) => P(4)[k] = file.text[k]
  BY PatchedFacts, <1>4 DEF N
<1> HIDE DEF P
<1>9. \A k \in 1..N : P(0)[k] \in Int /\ P(4)[k] \in Int
  <2> SUFFICES ASSUME NEW k \in 1..N PROVE P(0)[k] \in Int /\ P(4)[k] \in Int
    OBVIOUS
  <2>1. CASE Elsewhere(r, k)
    BY <1>5, <1>7, <1>8, <2>1
  <2>2. CASE ~Elsewhere(r, k)
    <3>1. k = r.off + 1 \/ k = r.off + 2 \/ k = r.off + 3 \/ k = r.off + 4
      BY <2>2 DEF Elsewhere
    <3>2. /\ Digit(v, 0) \in Int /\ Digit(v, 1) \in Int /\ Digit(v, 2) \in Int /\ Digit(v, 3) \in Int
          /\ Digit(v + 4, 0) \in Int /\ Digit(v + 4, 1) \in Int /\ Digit(v + 4, 2) \in Int
          /\ Digit(v + 4, 3) \in Int
      BY <1>6
    <3> QED
      BY <1>7, <1>8, <3>1, <3>2
  <2> QED
    BY <2>1, <2>2
<1>10. P(4)[p + 2] - P(0)[p + 2] \in {0, 1, 1 - Byte}
  <2>1. p + 2 \in 1..N
    BY <1>1, <1>2
  <2>2. CASE Elsewhere(r, p + 2)
    <3>1. P(4)[p + 2] = P(0)[p + 2] /\ P(0)[p + 2] \in Int
      BY <1>7, <1>8, <1>9, <2>1, <2>2
    <3> QED
      BY <3>1
  <2>3. CASE ~Elsewhere(r, p + 2)
    <3>1. p + 2 = r.off + 2 \/ p + 2 = r.off + 3 \/ p + 2 = r.off + 4
      BY <1>2, <2>3 DEF Elsewhere
    <3>2. /\ Digit(v + 4, 1) - Digit(v, 1) \in {0, 1, 1 - Byte}
          /\ Digit(v + 4, 2) - Digit(v, 2) \in {0, 1, 1 - Byte}
          /\ Digit(v + 4, 3) - Digit(v, 3) \in {0, 1, 1 - Byte}
      BY <1>4, DigitsOfNext
    <3> QED
      BY <1>7, <1>8, <3>1, <3>2
  <2> QED
    BY <2>2, <2>3
<1>11. \A s \in {0, 4} : \E k \in Int : Operand(P(s), p) = P(s)[p + 2] + Byte * k
  <2> SUFFICES ASSUME NEW s \in {0, 4}
               PROVE  \E k \in Int : Operand(P(s), p) = P(s)[p + 2] + Byte * k
    OBVIOUS
  <2>1. PICK a, b, c, d \in Int : a = P(s)[p + 2] /\ b = P(s)[p + 3] /\ c = P(s)[p + 4] /\ d = P(s)[p + 5]
    <3>1. p + 2 \in 1..N /\ p + 3 \in 1..N /\ p + 4 \in 1..N /\ p + 5 \in 1..N
      BY <1>1, <1>2
    <3> QED
      BY <1>9, <3>1
  <2>2. p + 1 + 1 = p + 2 /\ p + 1 + 1 + 1 = p + 3 /\ p + 1 + 2 + 1 = p + 4 /\ p + 1 + 3 + 1 = p + 5
    BY <1>2
  <2>3. Uint32(P(s), p + 1) = a + Byte * b + Byte * Byte * c + Byte3 * d
    BY <2>1, <2>2 DEF Uint32, Low24, ByteAt
  <2>4. PICK S \in Nat : S = Byte * Byte
    BY ByteType
  <2>5. PICK k \in Int : k = b + Byte * c + S * d
    BY ByteType
  <2>6. Byte * k = Byte * b + Byte * Byte * c + Byte3 * d /\ Byte3 = Byte * S
    <3>1. Byte3 = Byte * S
      BY <2>4, ByteType, Z3 DEF Byte3
    <3>2. Byte * (b + Byte * c + S * d) = Byte * b + Byte * Byte * c + Byte * S * d
      BY ByteType, Z3
    <3> QED
      BY <2>5, <3>1, <3>2
  <2>7. Uint32(P(s), p + 1) = a + Byte * k
    <3>1. PICK x, y, z \in Int : x = Byte * b /\ y = Byte * Byte * c /\ z = Byte3 * d
      BY ByteType
    <3>2. Byte * k = x + y + z
      BY <2>6, <3>1
    <3> QED
      BY <2>3, <3>1, <3>2
  <2>8. Operand(P(s), p) = a + Byte * k \/ Operand(P(s), p) = a + Byte * k - Byte * Byte3
    <3>1. Operand(P(s), p) = SignedOf(Uint32(P(s), p + 1), Byte * Byte3)
      BY DEF Operand
    <3>2. \A y, z : SignedOf(y, z) = y \/ SignedOf(y, z) = y - z
      BY DEF SignedOf
    <3>3. \/ Operand(P(s), p) = Uint32(P(s), p + 1)
          \/ Operand(P(s), p) = Uint32(P(s), p + 1) - Byte * Byte3
      BY <3>1, <3>2, Zenon
    <3>4. PICK y, z \in Int : y = a + Byte * k /\ z = Byte * Byte3
      BY ByteType
    <3>5. Uint32(P(s), p + 1) = y
      BY <2>7, <3>4
    <3>6. Operand(P(s), p) = y \/ Operand(P(s), p) = y - z
      BY <3>3, <3>4, <3>5
    <3>7. Byte \in Nat /\ Byte3 \in Nat
      BY ByteType
    <3> QED
      BY <3>4, <3>6, <3>7
  <2>9. /\ Byte * (k - Byte3) = Byte * k - Byte * Byte3
        /\ k - Byte3 \in Int /\ Byte * k \in Int /\ Byte * Byte3 \in Int
    BY ByteType
  <2>10. a + Byte * k - Byte * Byte3 = a + Byte * (k - Byte3)
    BY <2>9
  <2> QED
    BY <2>1, <2>8, <2>9, <2>10
<1>12. PICK k \in Int : Operand(P(0), p) = P(0)[p + 2] + Byte * k
  BY <1>11
<1>13. PICK l \in Int : Operand(P(4), p) = P(4)[p + 2] + Byte * l
  BY <1>11
<1>14. PICK a, b, x, f, g \in Int :
          /\ a = P(0)[p + 2] /\ b = P(4)[p + 2] /\ x = p + 5
          /\ f = Operand(P(0), p) /\ g = Operand(P(4), p)
  <2>1. p + 2 \in 1..N
    BY <1>1, <1>2
  <2>2. P(0)[p + 2] \in Int /\ P(4)[p + 2] \in Int /\ p + 5 \in Int /\ Byte * k \in Int /\ Byte * l \in Int
    BY <1>2, <1>9, <2>1, ByteType
  <2>3. Operand(P(0), p) \in Int /\ Operand(P(4), p) \in Int
    BY <1>12, <1>13, <2>2
  <2> QED
    BY <2>2, <2>3
<1>15. (x + f) % Word = 0 /\ (x + g) % Word = 4
  <2>1. Callee(P(0), p, p) = 0 /\ Callee(P(4), p, p) = 4
    BY DEF P
  <2> QED
    BY <1>1, <1>14, <2>1 DEF Callee
<1>16. f = a + Byte * k /\ g = b + Byte * l /\ b - a \in {0, 1, 1 - Byte}
  BY <1>10, <1>12, <1>13, <1>14
<1> QED
  BY <1>15, <1>16, LowByteTells

LEMMA NoOtherCallOnArm64 ==
    ASSUME NEW r, Relocated(r), file.machine # "amd64", NEW p \in Readable, p # Place(r),
           \A s \in {0, 4} : Callee(Patched(r, s), p, p) = s
    PROVE  FALSE
<1>1. /\ r.off \in Nat /\ Len(file.text) \in Nat /\ r.off % 4 = 0 /\ r.off + 4 <= Len(file.text)
      /\ Place(r) = r.off /\ CallLen = 4 /\ file.machine = "arm64"
  <2>1. r.off \in Nat /\ OperandAt = 0
    BY RelocFacts
  <2> QED
    BY <2>1, RelocFacts DEF Place
<1>2. p \in Nat /\ p + 4 <= Len(file.text) /\ p % 4 = 0 /\ p # r.off
  BY <1>1 DEF Readable
<1>3. p >= r.off + 4 \/ r.off >= p + 4
  BY <1>1, <1>2
<1>4. ASSUME NEW s PROVE \A k \in {p + 1, p + 2, p + 3, p + 4} : Patched(r, s)[k] = file.text[k]
  <2>1. \A k \in {p + 1, p + 2, p + 3, p + 4} : k \in 1..Len(file.text) /\ Elsewhere(r, k)
    BY <1>1, <1>2, <1>3 DEF Elsewhere
  <2> QED
    BY <2>1, PatchedFacts
<1>5. p + 1 + 1 = p + 2 /\ p + 2 + 1 = p + 3 /\ p + 3 + 1 = p + 4
  BY <1>2
<1>6. ASSUME NEW s PROVE Operand(Patched(r, s), p) = Operand(file.text, p)
  <2>1. /\ Patched(r, s)[p + 1] = file.text[p + 1] /\ Patched(r, s)[p + 2] = file.text[p + 2]
        /\ Patched(r, s)[p + 3] = file.text[p + 3] /\ Patched(r, s)[p + 4] = file.text[p + 4]
    BY <1>4
  <2> HIDE DEF Patched
  <2> QED
    BY <1>1, <1>5, <2>1 DEF Operand, Low24, ByteAt
<1>7. Callee(Patched(r, 0), p, p) = Callee(Patched(r, 4), p, p)
  BY <1>1, <1>6 DEF Callee
<1> QED
  BY <1>7

-----------------------------------------------------------------------------
(* The loop over the relocations. *)

(* The relocations before m that are of calls of a callback, one per point *)
(* of its kind.                                                            *)
CallNo(c, m) ==
    {k \in 1..(m - 1) : /\ file.rela[k].type = arch.callRelocType
                        /\ file.rela[k].sym \in Named(CallbackOf(c))}

PointsOf(c, m) ==
    /\ ToSet(points[c]) = {CallOf(file.rela[k]) : k \in CallNo(c, m)}
    /\ Len(points[c]) = Cardinality(CallNo(c, m))

SymbolsBelow(name, m) == {k \in Named(name) : k < m}

RelocInv ==
    /\ at = "open" => tracePCIdx = {} /\ traceCmpIdx = {}
    /\ at = "symbols" => tracePCIdx = SymbolsBelow("pc", n) /\ traceCmpIdx = SymbolsBelow("cmp", n)
    /\ at = "relocs" =>
          /\ tracePCIdx = Named("pc") /\ traceCmpIdx = Named("cmp")
          /\ n <= Len(file.rela) + 1
          /\ PointsOf(1, n) /\ PointsOf(2, n)
    /\ (at \in {"sort", "done"} /\ filter /\ Has(".rela.text")) =>
          PointsOf(1, Len(file.rela) + 1) /\ PointsOf(2, Len(file.rela) + 1)

LEMMA RelocInit == Init => RelocInv
BY DEF Init, RelocInv

LEMMA RelaType ==
    ASSUME file \in Files
    PROVE  /\ file.rela \in Seq(Relocs) /\ Len(file.rela) \in Nat
           /\ \A k \in 1..Len(file.rela) : file.rela[k] \in Relocs
<1>1. file.rela \in Seq(Relocs)
  BY FilesAssumption
<1> QED
  BY <1>1, LenProperties, ElementOfSeq

LEMMA AppendOne ==
    ASSUME NEW s \in Seq(Int), NEW x \in Int
    PROVE  ToSet(Append(s, x)) = ToSet(s) \cup {x} /\ Len(Append(s, x)) = Len(s) + 1 /\ Len(s) \in Nat
<1>1. /\ Len(s) \in Nat /\ Len(Append(s, x)) = Len(s) + 1 /\ Append(s, x) \in Seq(Int)
      /\ \A k \in 1..Len(s) : Append(s, x)[k] = s[k]
      /\ Append(s, x)[Len(s) + 1] = x
  BY AppendProperties, LenProperties
<1>2. DOMAIN s = 1..Len(s) /\ DOMAIN Append(s, x) = 1..(Len(s) + 1)
  BY <1>1, LenProperties
<1>3. \A k : k \in 1..(Len(s) + 1) <=> k \in 1..Len(s) \/ k = Len(s) + 1
  BY <1>1
<1> QED
  BY <1>1, <1>2, <1>3 DEF ToSet

(* Both are of the file, and what they say of the points is so too. *)
LEMMA SamePoints ==
    ASSUME file' = file, NEW c, NEW m
    PROVE  /\ CallNo(c, m)' = CallNo(c, m)
           /\ \A k : CallOf(file.rela[k])' = CallOf(file.rela[k])
           /\ points'[c] = points[c] => (PointsOf(c, m)' <=> PointsOf(c, m))
<1>1. CallNo(c, m)' = CallNo(c, m)
  BY DEF CallNo, Named, arch
<1>2. \A k : CallOf(file.rela[k])' = CallOf(file.rela[k])
  BY DEF CallOf, arch
<1> QED
  BY <1>1, <1>2 DEF PointsOf

(* One relocation more. *)
LEMMA PointAdded ==
    ASSUME file \in Files, NEW c \in {1, 2}, NEW m \in 1..Len(file.rela),
           points[c] \in Seq(Int), PointsOf(c, m), file' = file,
           file.rela[m].type = arch.callRelocType, file.rela[m].sym \in Named(CallbackOf(c)),
           points'[c] = Append(points[c], CallOf(file.rela[m]))
    PROVE  PointsOf(c, m + 1)'
<1> DEFINE K == CallNo(c, m)
           L == CallNo(c, m + 1)
<1>1. m \in Nat /\ m >= 1
  BY RelaType
<1>2. file.rela[m] \in Relocs /\ CallOf(file.rela[m]) \in Int
  <2>1. file.rela[m] \in Relocs
    BY RelaType
  <2>2. file.rela[m].off \in Int /\ arch.relaOffset \in Int /\ Word \in Nat \ {0}
    BY <2>1, ArchType, CallAssumption DEF Relocs
  <2> QED
    BY <2>1, <2>2 DEF CallOf
<1>3. L = K \cup {m} /\ m \notin K
  BY <1>1 DEF CallNo
<1>4. IsFiniteSet(K) /\ Cardinality(L) = Cardinality(K) + 1
  <2>1. IsFiniteSet(1..(m - 1)) /\ K \in SUBSET (1..(m - 1))
    <3>1. IsFiniteSet(1..(m - 1))
      BY <1>1, FS_Interval
    <3> QED
      BY <3>1 DEF CallNo
  <2>2. IsFiniteSet(K)
    BY <2>1, FS_Subset
  <2> HIDE DEF K, L
  <2> QED
    BY <1>3, <2>2, FS_AddElement
<1>5. L' = L /\ \A k : CallOf(file.rela[k])' = CallOf(file.rela[k])
  BY SamePoints
<1>6. ToSet(points[c]) = {CallOf(file.rela[k]) : k \in K} /\ Len(points[c]) = Cardinality(K)
  BY DEF PointsOf
<1>7. /\ ToSet(points'[c]) = ToSet(points[c]) \cup {CallOf(file.rela[m])}
      /\ Len(points'[c]) = Len(points[c]) + 1
  BY <1>2, AppendOne
<1> HIDE DEF K, L
<1>8. ToSet(points'[c]) = {CallOf(file.rela[k]) : k \in L}
  BY <1>3, <1>6, <1>7
<1>9. Len(points'[c]) = Cardinality(L)
  BY <1>4, <1>6, <1>7
<1>10. ToSet(points'[c]) = {CallOf(file.rela[k])' : k \in L}
  BY <1>5, <1>8
<1> QED
  BY <1>5, <1>9, <1>10 DEF PointsOf, L

LEMMA PointsKept ==
    ASSUME file \in Files, NEW c \in {1, 2}, NEW m \in 1..Len(file.rela), PointsOf(c, m), file' = file,
           ~(file.rela[m].type = arch.callRelocType /\ file.rela[m].sym \in Named(CallbackOf(c))),
           points'[c] = points[c]
    PROVE  PointsOf(c, m + 1)'
<1>1. m \in Nat /\ m >= 1
  BY RelaType
<1>2. CallNo(c, m + 1) = CallNo(c, m)
  BY <1>1 DEF CallNo
<1>3. PointsOf(c, m + 1)
  BY <1>2 DEF PointsOf
<1> QED
  BY <1>3, SamePoints

LEMMA ReadRelocKeeps == LoopsInv /\ TypeInv /\ RelocInv /\ ReadReloc => RelocInv'
<1> SUFFICES ASSUME LoopsInv, TypeInv, RelocInv, ReadReloc PROVE RelocInv'
  OBVIOUS
<1>0. PICK m \in 1..Len(file.rela) : m = n
  <2>1. n \in 1..Len(file.rela)
    BY RelaType DEF ReadReloc, LoopsInv
  <2> QED
    BY <2>1
<1> DEFINE r == file.rela[m]
<1>1. /\ at = "relocs" /\ n <= Len(file.rela) /\ at' = at /\ file' = file /\ n' = n + 1
      /\ UNCHANGED <<tracePCIdx, traceCmpIdx>>
      /\ IF r.type = arch.callRelocType
         THEN Found(CallOf(r), r.sym \in tracePCIdx, r.sym \in traceCmpIdx)
         ELSE UNCHANGED points
  BY <1>0 DEF ReadReloc, args, info
<1>2. /\ tracePCIdx = Named("pc") /\ traceCmpIdx = Named("cmp") /\ PointsOf(1, m) /\ PointsOf(2, m)
      /\ file \in Files
      /\ points[1] \in Seq(Int) /\ points[2] \in Seq(Int) /\ points \in Seq(Int) \X Seq(Int)
  BY <1>0, <1>1 DEF RelocInv, TypeInv, LoopsInv
<1>3. Named("pc") \cap Named("cmp") = {} /\ CallbackOf(1) = "pc" /\ CallbackOf(2) = "cmp"
  BY DEF Named, CallbackOf
<1>4. PointsOf(1, m + 1)' /\ PointsOf(2, m + 1)'
  <2>1. CASE r.type = arch.callRelocType /\ r.sym \in Named("pc")
    <3>1. points' = [points EXCEPT ![1] = Append(@, CallOf(r))]
      BY <1>1, <1>2, <2>1 DEF Found
    <3>2. points'[1] = Append(points[1], CallOf(r)) /\ points'[2] = points[2]
      BY <1>2, <3>1
    <3>3. PointsOf(1, m + 1)'
      BY <1>1, <1>2, <1>3, <2>1, <3>2, PointAdded
    <3>4. PointsOf(2, m + 1)'
      BY <1>1, <1>2, <1>3, <2>1, <3>2, PointsKept
    <3> QED
      BY <3>3, <3>4
  <2>2. CASE r.type = arch.callRelocType /\ r.sym \in Named("cmp")
    <3>1. points' = [points EXCEPT ![2] = Append(@, CallOf(r))]
      BY <1>1, <1>2, <1>3, <2>2 DEF Found
    <3>2. points'[2] = Append(points[2], CallOf(r)) /\ points'[1] = points[1]
      BY <1>2, <3>1
    <3>3. PointsOf(2, m + 1)'
      BY <1>1, <1>2, <1>3, <2>2, <3>2, PointAdded
    <3>4. PointsOf(1, m + 1)'
      BY <1>1, <1>2, <1>3, <2>2, <3>2, PointsKept
    <3> QED
      BY <3>3, <3>4
  <2>3. CASE ~(r.type = arch.callRelocType /\ r.sym \in Named("pc"))
             /\ ~(r.type = arch.callRelocType /\ r.sym \in Named("cmp"))
    <3>1. points' = points
      BY <1>1, <1>2, <2>3 DEF Found
    <3>2. PointsOf(1, m + 1)'
      BY <1>1, <1>2, <1>3, <2>3, <3>1, PointsKept
    <3>3. PointsOf(2, m + 1)'
      BY <1>1, <1>2, <1>3, <2>3, <3>1, PointsKept
    <3> QED
      BY <3>2, <3>3
  <2> QED
    BY <2>1, <2>2, <2>3
<1>5. Named("pc")' = Named("pc") /\ Named("cmp")' = Named("cmp")
  BY <1>1 DEF Named
<1>6. n' <= Len(file'.rela) + 1
  BY <1>1, RelaType DEF LoopsInv
<1>7. PointsOf(1, n)' /\ PointsOf(2, n)'
  BY <1>0, <1>1, <1>4 DEF PointsOf, CallNo
<1> QED
  BY <1>1, <1>2, <1>5, <1>6, <1>7 DEF RelocInv

LEMMA ReadSymbolIndexes == LoopsInv /\ RelocInv /\ ReadSymbol => RelocInv'
<1> SUFFICES ASSUME LoopsInv, RelocInv, ReadSymbol PROVE RelocInv'
  OBVIOUS
<1> DEFINE s == file.symbols[n]
<1>1. /\ at = "symbols" /\ n \in 1..Len(file.symbols) /\ file' = file /\ n' = n + 1
      /\ at' \in {"panic", at}
      /\ tracePCIdx' = IF s.name = "pc" THEN tracePCIdx \cup {n} ELSE tracePCIdx
      /\ traceCmpIdx' = IF s.name = "cmp" THEN traceCmpIdx \cup {n} ELSE traceCmpIdx
  BY SymbolType DEF ReadSymbol, OtherCallback, args
<1>2. tracePCIdx = SymbolsBelow("pc", n) /\ traceCmpIdx = SymbolsBelow("cmp", n)
  BY <1>1 DEF RelocInv
<1>3. ASSUME NEW name
      PROVE  SymbolsBelow(name, n)' = IF s.name = name THEN SymbolsBelow(name, n) \cup {n}
                                      ELSE SymbolsBelow(name, n)
  <2>1. \A k \in 1..Len(file.symbols) : k < n + 1 <=> k < n \/ k = n
    BY <1>1
  <2>2. SymbolsBelow(name, n)' = {k \in Named(name) : k < n + 1}
    BY <1>1 DEF SymbolsBelow, Named
  <2> QED
    BY <1>1, <2>1, <2>2 DEF SymbolsBelow, Named
<1>4. tracePCIdx' = SymbolsBelow("pc", n)' /\ traceCmpIdx' = SymbolsBelow("cmp", n)'
  BY <1>1, <1>2, <1>3
<1> QED
  BY <1>1, <1>4 DEF RelocInv

LEMMA BeginRelocs == LoopsInv /\ ScanInv /\ TraceInv /\ RelocInv /\ EndOfSymbols => RelocInv'
<1> SUFFICES ASSUME LoopsInv, ScanInv, TraceInv, RelocInv, EndOfSymbols PROVE RelocInv'
  OBVIOUS
<1>1. /\ at = "symbols" /\ n > Len(file.symbols) /\ file' = file /\ points' = points
      /\ UNCHANGED <<tracePCIdx, traceCmpIdx>>
      /\ at' \in {"relocs", "text", "error"} /\ (at' = "relocs" => n' = 1)
      /\ points = << << >>, << >> >>
  BY DEF EndOfSymbols, ScanInv, args, info
<1>2. tracePCIdx = Named("pc") /\ traceCmpIdx = Named("cmp")
  <2>1. n \in Nat /\ Len(file.symbols) \in Nat
    BY FileLists DEF LoopsInv
  <2>2. \A k \in 1..Len(file.symbols) : k < n
    BY <1>1, <2>1
  <2> QED
    BY <1>1, <2>2 DEF RelocInv, SymbolsBelow, Named
<1>3. Named("pc")' = Named("pc") /\ Named("cmp")' = Named("cmp")
  BY <1>1 DEF Named
<1>4. 1 <= Len(file.rela) + 1
  BY RelaType DEF LoopsInv
<1>5. PointsOf(1, 1)' /\ PointsOf(2, 1)'
  <2>1. CallNo(1, 1)' = {} /\ CallNo(2, 1)' = {}
    BY DEF CallNo
  <2>2. points'[1] = << >> /\ points'[2] = << >> /\ ToSet(<< >>) = {} /\ Len(<< >>) = 0
    BY <1>1 DEF ToSet
  <2>3. Cardinality({}) = 0
    BY FS_EmptySet
  <2> QED
    BY <2>1, <2>2, <2>3 DEF PointsOf
<1>6. at' = "relocs" => PointsOf(1, n)' /\ PointsOf(2, n)'
  BY <1>1, <1>5 DEF PointsOf, CallNo
<1> QED
  BY <1>1, <1>2, <1>3, <1>4, <1>6 DEF RelocInv

LEMMA RelocStep ==
    LoopsInv /\ ScanInv /\ TraceInv /\ TypeInv /\ RelocInv /\ [Next]_vars => RelocInv'
<1> SUFFICES ASSUME LoopsInv, ScanInv, TraceInv, TypeInv, RelocInv, [Next]_vars PROVE RelocInv'
  OBVIOUS
<1>1. CASE ReadReloc
  BY <1>1, ReadRelocKeeps
<1>2. CASE ReadSymbol
  BY <1>2, ReadSymbolIndexes
<1>3. CASE EndOfSymbols
  BY <1>3, BeginRelocs
<1>4. CASE OpenSymbols
  <2>1. at = "open" /\ filter /\ at' \in {"symbols", "error"} /\ UNCHANGED <<n, tracePCIdx, traceCmpIdx>>
    BY <1>4 DEF OpenSymbols, End, info
  <2>2. n = 1 /\ SymbolsBelow("pc", n)' = {} /\ SymbolsBelow("cmp", n)' = {}
    <3>1. n = 1 /\ n' = 1
      BY <2>1 DEF TraceInv
    <3> QED
      BY <3>1 DEF SymbolsBelow, Named
  <2> QED
    BY <2>1, <2>2 DEF RelocInv
<1>5. CASE EndOfRelocs
  <2>1. /\ at = "relocs" /\ n > Len(file.rela) /\ at' \in {"sort", "error"}
        /\ UNCHANGED <<file, filter, points>>
    BY <1>5 DEF EndOfRelocs, End, args
  <2>2. n = Len(file.rela) + 1 /\ PointsOf(1, n) /\ PointsOf(2, n)
    BY <2>1, RelaType DEF RelocInv, LoopsInv
  <2>3. PICK m \in Nat : m = n
    BY DEF LoopsInv
  <2>4. PointsOf(1, m)' /\ PointsOf(2, m)' /\ m = Len(file'.rela) + 1
    BY <2>1, <2>2, <2>3, SamePoints
  <2>5. PointsOf(1, Len(file.rela) + 1)' /\ PointsOf(2, Len(file.rela) + 1)'
    BY <2>4 DEF PointsOf, CallNo
  <2> QED
    BY <2>1, <2>5 DEF RelocInv
<1>6. CASE Return \/ UNCHANGED vars
  <2>1. /\ UNCHANGED <<file, filter, points, n, tracePCIdx, traceCmpIdx>>
        /\ (at = "sort" /\ at' = "done") \/ at' = at
    BY <1>6 DEF Return, vars, args, info
  <2>2. PICK m, l : m = n /\ l = Len(file.rela) + 1
    OBVIOUS
  <2>3. m = n' /\ l = Len(file'.rela) + 1
    BY <2>1, <2>2
  <2>4. /\ PointsOf(1, m)' <=> PointsOf(1, m)
        /\ PointsOf(2, m)' <=> PointsOf(2, m)
        /\ PointsOf(1, l)' <=> PointsOf(1, l)
        /\ PointsOf(2, l)' <=> PointsOf(2, l)
    BY <2>1, SamePoints
  <2>5. /\ PointsOf(1, n)' <=> PointsOf(1, m)'
        /\ PointsOf(2, n)' <=> PointsOf(2, m)'
        /\ PointsOf(1, Len(file.rela) + 1)' <=> PointsOf(1, l)'
        /\ PointsOf(2, Len(file.rela) + 1)' <=> PointsOf(2, l)'
    BY <2>3 DEF PointsOf, CallNo
  <2>6. /\ PointsOf(1, n)' <=> PointsOf(1, n)
        /\ PointsOf(2, n)' <=> PointsOf(2, n)
        /\ PointsOf(1, Len(file.rela) + 1)' <=> PointsOf(1, Len(file.rela) + 1)
        /\ PointsOf(2, Len(file.rela) + 1)' <=> PointsOf(2, Len(file.rela) + 1)
    BY <2>2, <2>4, <2>5
  <2>7. /\ Named("pc")' = Named("pc") /\ Named("cmp")' = Named("cmp")
        /\ Has(".rela.text")' <=> Has(".rela.text")
        /\ SymbolsBelow("pc", n)' = SymbolsBelow("pc", n)
        /\ SymbolsBelow("cmp", n)' = SymbolsBelow("cmp", n)
    BY <2>1 DEF Named, SymbolsBelow, Has
  <2> QED
    BY <2>1, <2>6, <2>7 DEF RelocInv
<1>7. CASE \/ ScanByte \/ EndOfText \/ OpenUnits \/ NextUnit \/ EndOfUnits \/ ReadEntries
           \/ EndOfEntries \/ ListUnit \/ EndOfList
  <2>1. /\ file' = file /\ filter' = filter
        /\ at' \notin {"open", "symbols", "relocs", "done"}
        /\ at' = "sort" => at = "text" \/ at = "list"
    <3>1. CASE NextUnit
      <4>1. file.units[n].form \in {"good", "nameless", "namelessLeaf", "noCompDir", "bad"}
        BY <3>1, UnitType DEF NextUnit, Units
      <4> QED
        BY <3>1, <4>1 DEF NextUnit, args
    <3>2. CASE ReadEntries
      <4>1. file.units[cus[n]].table \in {"good", "missing", "broken"}
        BY <3>2, EntryType DEF ReadEntries, Units
      <4> QED
        BY <3>2, <4>1 DEF ReadEntries, args
    <3>3. CASE ~NextUnit /\ ~ReadEntries
      BY <3>3, <1>7 DEF ScanByte, EndOfText, OpenUnits, EndOfUnits, EndOfEntries, ListUnit,
                 EndOfList, End, args
    <3> QED
      BY <3>1, <3>2, <3>3
  <2>2. at' = "sort" => ~(filter /\ Has(".rela.text"))
    BY <2>1 DEF TraceInv, ScanInv
  <2>3. Has(".rela.text")' <=> Has(".rela.text")
    BY <2>1 DEF Has
  <2> QED
    BY <2>1, <2>2, <2>3 DEF RelocInv
<1> QED
  BY <1>1, <1>2, <1>3, <1>4, <1>5, <1>6, <1>7 DEF Next

(* Before the operand that the linker patches is the call, and nowhere     *)
(* else.                                                                   *)
LEMMA LinkedCall ==
    ASSUME NEW r, Relocated(r), NEW p \in Readable
    PROVE  Follows(r, p) <=> p = Place(r)
<1>1. Follows(r, Place(r))
  <2> SUFFICES ASSUME NEW s \in Placements, Reaches(r, s)
               PROVE  /\ IsCall(Patched(r, s), Place(r))
                      /\ Callee(Patched(r, s), Place(r), Place(r)) = s % Word
    BY DEF Follows
  <2>1. s \in Int
    BY PlacementsAssumption
  <2> QED
    BY <2>1, OwnCallOnAmd64, OwnCallOnArm64
<1>2. ASSUME Follows(r, p), p # Place(r)
      PROVE  FALSE
  <2>1. \A s \in {0, 4} : s \in Placements /\ Reaches(r, s) /\ s % Word = s
    BY PlacementsAssumption, NearReached, SmallInWord
  <2>2. \A s \in {0, 4} : Callee(Patched(r, s), p, p) = s
    BY <1>2, <2>1 DEF Follows
  <2> QED
    BY <1>2, <2>2, NoOtherCallOnAmd64, NoOtherCallOnArm64
<1> QED
  BY <1>1, <1>2

(* What the relocations give are the calls and jumps of the linked file. *)
LEMMA PointsAreLinked ==
    ASSUME file \in Files, Linkable, NEW c \in {1, 2}, PointsOf(c, Len(file.rela) + 1)
    PROVE  /\ ToSet(points[c]) = LinkedCalls(c) \cup Jumps(c)
           /\ Len(points[c]) = Cardinality(RelocsTo(CallbackOf(c)))
<1> DEFINE K == CallNo(c, Len(file.rela) + 1)
           R == RelocsTo(CallbackOf(c))
           rela == file.rela
<1>1. rela \in Seq(Relocs) /\ Len(rela) \in Nat /\ DOMAIN rela = 1..Len(rela)
  BY RelaType, LenProperties
<1>2. arch.callRelocType = "call" /\ arch.relaOffset = OperandAt
  <2>1. file.machine \in {"amd64", "arm64"}
    BY FileType DEF Linkable, Machines
  <2> QED
    BY <2>1 DEF arch, arches, OperandAt, Machines
<1>3. R = {rela[k] : k \in K} /\ K \in SUBSET (1..Len(rela))
  <2>1. Len(rela) + 1 - 1 = Len(rela)
    BY <1>1
  <2>2. K = {k \in 1..Len(rela) : rela[k].type = "call" /\ rela[k].sym \in Named(CallbackOf(c))}
    BY <1>2, <2>1 DEF CallNo
  <2>3. ToSet(rela) = {rela[k] : k \in 1..Len(rela)}
    BY <1>1 DEF ToSet
  <2> HIDE DEF K
  <2> QED
    BY <2>2, <2>3 DEF RelocsTo, Named
<1>4. Len(points[c]) = Cardinality(R)
  <2> DEFINE f == [k \in K |-> rela[k]]
  <2>1. IsFiniteSet(K)
    <3>1. IsFiniteSet(1..Len(rela))
      BY <1>1, FS_Interval
    <3> QED
      BY <1>3, <3>1, FS_Subset
  <2>2. f \in [K -> R] /\ \A r \in R : \E k \in K : f[k] = r
    BY <1>3
  <2>3. \A j, k \in K : f[j] = f[k] => j = k
    BY <1>3 DEF Linkable
  <2> HIDE DEF f, K, R
  <2>4. Cardinality(R) = Cardinality(K)
    BY <2>1, <2>2, <2>3, OneToOne
  <2> QED
    BY <2>4 DEF PointsOf, K
<1>5. \A r \in R : InCall(r) => Relocated(r)
  BY DEF Relocated, RelocsTo
<1>6. \A r : CallOf(r) = Place(r) % Word
  BY <1>2 DEF CallOf, Place
<1>7. ToSet(points[c]) = {Place(r) % Word : r \in R}
  <2> HIDE DEF R
  <2>1. ToSet(points[c]) = {CallOf(rela[k]) : k \in K}
    BY DEF PointsOf
  <2> HIDE DEF K
  <2> QED
    BY <1>3, <1>6, <2>1
<1>8. ASSUME NEW r \in R, InCall(r)
      PROVE  Place(r) % Word = Place(r) /\ Place(r) \in Readable
  <2>1. Place(r) \in Readable
    BY <1>8 DEF InCall
  <2>2. file.addr = 0 /\ file.addr + Len(file.text) < Word /\ Word \in Nat
    <3>1. file.addr + Len(file.text) < Word
      BY FilesAssumption
    <3>2. file.addr = 0
      BY DEF Linkable
    <3>3. Word \in Nat
      BY CallAssumption
    <3> QED
      BY <3>1, <3>2, <3>3
  <2>3. Place(r) \in Nat /\ Place(r) < Word
    <3>1. Place(r) \in Nat /\ Place(r) + CallLen <= Len(file.text)
      BY <2>1, ReadableType
    <3>2. CallLen \in Nat /\ Len(file.text) \in Nat
      BY FileType DEF CallLen
    <3> QED
      BY <2>2, <3>1, <3>2
  <2> QED
    BY <2>1, <2>2, <2>3
<1>9. ASSUME NEW p
      PROVE  p \in LinkedCalls(c) <=> \E r \in R : InCall(r) /\ p = Place(r)
  <2>1. ASSUME NEW r \in R, InCall(r), NEW q \in Readable PROVE Follows(r, q) <=> q = Place(r)
    BY <1>5, <2>1, LinkedCall
  <2> HIDE DEF R
  <2>2. LinkedCalls(c) = {q \in Readable : \E r \in R : InCall(r) /\ Follows(r, q)}
    BY DEF LinkedCalls, R
  <2> QED
    BY <1>8, <2>1, <2>2
<1>10. Jumps(c) = {Place(r) % Word : r \in {q \in R : ~InCall(q)}}
  BY DEF Jumps
<1> HIDE DEF R
<1>11. ToSet(points[c]) = LinkedCalls(c) \cup Jumps(c)
  BY <1>7, <1>8, <1>9, <1>10
<1> QED
  BY <1>4, <1>11 DEF R

(* The relocations of an object give the pcs at which the linked program   *)
(* calls a callback, and those at which it jumps to it, each once and each *)
(* under its kind (rela.go:84-105).  The offset of a relocation less that  *)
(* of the operand is the instruction the linker patches, and if that is a  *)
(* call no other call follows the callback to all the Placements it        *)
(* reaches, of which there may be any besides the first byte of .text and  *)
(* the fifth.                                                              *)
THEOREM RelocsGiveCallsAndJumps == Spec => []RelaPointsAreCallsAndJumps
<1>1. ASSUME LoopsInv, RelocInv PROVE RelaPointsAreCallsAndJumps
  <2> SUFFICES ASSUME filter, Has(".rela.text"), at \in {"sort", "done"}, Linkable, NEW c \in 1..2
               PROVE  /\ ToSet(points[c]) = LinkedCalls(c) \cup Jumps(c)
                      /\ Len(points[c]) = Cardinality(RelocsTo(CallbackOf(c)))
    BY DEF RelaPointsAreCallsAndJumps
  <2>1. c \in {1, 2}
    OBVIOUS
  <2>2. PointsOf(c, Len(file.rela) + 1) /\ file \in Files
    BY <1>1, <2>1 DEF RelocInv, LoopsInv
  <2> QED
    BY <2>1, <2>2, PointsAreLinked
<1>2. LoopsInv /\ ScanInv /\ [Next]_vars => ScanInv'
  BY EndOfSymbolsKeeps, ScanByteStep, EndOfTextStep, OtherSteps, ReturnStep DEF Next
<1> QED
  BY <1>1, <1>2, LoopsInit, LoopsStep, ScanInit, TraceInit, TraceStep, TypeInit, TypeStep,
     RelocInit, RelocStep, PTL DEF Spec
=============================================================================
