------------------------------- MODULE AllPCs -------------------------------
(***************************************************************************)
(* FindAllPCs (parser/dwarf.go): the pcs addr2line works on with -all, the *)
(* rows of the line table, or with -all-trace-pc, the calls of the         *)
(* coverage callbacks __sanitizer_cov_trace_*, taken from the relocations  *)
(* of .text if there are any and else from the instructions.               *)
(*                                                                         *)
(* A file has its machine, the address and bytes of .text, its symbols,    *)
(* the relocations of .text, the units of its debugging data, and the      *)
(* parts it does not have.  The name of a symbol is "pc" for               *)
(* __sanitizer_cov_trace_pc, "cmp" for any other callback, else "other".   *)
(***************************************************************************)
EXTENDS CallTarget, Sorting, SequencesExt

CONSTANTS
    Files,
    Placements   \* of the properties: where the linker puts a callback, as its
                 \* distance from the start of .text

Parts == {".symtab", ".text", ".rela.text", ".debug_info"}

Symbols == [name : {"pc", "cmp", "other"}, value : 0..(Word - 1), size : Nat]

(* sym is the number of the symbol, 0 being none.                          *)
Relocs == [off : 0..(Word - 1), type : {"call", "none", "other"}, sym : Nat]

(* An entry on the top level is a well formed unit, has no name (and       *)
(* children, or none), or no directory, or it cannot be read or is no      *)
(* unit.  A unit has code or not; its line table is there, missing, or     *)
(* cannot be decoded.  The rows are addresses.                             *)
Units == [form : {"good", "nameless", "namelessLeaf", "noCompDir", "bad"}, code : BOOLEAN,
          table : {"good", "missing", "broken"}, rows : Seq(Nat)]

ASSUME FilesAssumption ==
    \A f \in Files :
        /\ f.machine \in Machines
        /\ f.text \in Seq(0..(Byte - 1))
        /\ f.addr \in Nat /\ f.addr + Len(f.text) < Word
        /\ f.symbols \in Seq(Symbols)
        /\ f.rela \in Seq(Relocs) /\ f.torn \in BOOLEAN
        /\ f.units \in Seq(Units)
        /\ f.missing \subseteq Parts

ASSUME PlacementsAssumption == Placements \subseteq Int /\ {0, 4} \subseteq Placements

VARIABLES
    file, filter,   \* the arguments; filter is filterTracePC
    at,             \* the loop the call is in, or how it ended
    n,              \* where the loop is
    tracePC,        \* info.tracePC, 0 for none
    tracePCIdx,     \* info.tracePCIdx: the numbers of the symbols, and of
    traceCmpIdx,    \*   those of the other callbacks
    points,         \* the pcs found, of trace_pc and of the other callbacks
    cus,            \* compileUnitsCMap: the units with code
    entries,        \* lineEntriesCMap: the addresses of the units' rows
    pcs             \* the list that is returned

args == <<file, filter>>
info == <<tracePC, tracePCIdx, traceCmpIdx>>
lines == <<cus, entries>>
vars == <<args, at, n, info, points, lines, pcs>>

Init ==
    /\ file \in Files /\ filter \in BOOLEAN
    /\ at = "open"
    /\ n = 1
    /\ tracePC = 0 /\ tracePCIdx = {} /\ traceCmpIdx = {}
    /\ points = << << >>, << >> >>
    /\ cus = << >> /\ entries = << >>
    /\ pcs = << >>

arch == arches[file.machine]
Has(part) == part \notin file.missing

(* The callbacks of the other kind, info.traceCmp: a nil map.              *)
traceCmp == {}

End(how) == at' = how /\ UNCHANGED <<args, n, info, points, lines, pcs>>

-----------------------------------------------------------------------------
(* Variants of definitions below, each with one plausible bug; only the    *)
(* mutation runs use them.                                                 *)

WindowOneShort(i) == i >= 0 /\ i + arch.callLen < Len(file.text)

AtOffset(r) == r.off

AnyCallback(s) == s.name # "other"

AppendNew(s, addresses) == s \o SetToSeq(addresses \ ToSet(s))

EndOfRelocsAnyhow ==
    /\ at = "relocs" /\ n > Len(file.rela)
    /\ End("sort")

-----------------------------------------------------------------------------
(* GetTracePCInfo *)

InText(s) == file.addr <= s.value /\ s.value + s.size <= file.addr + Len(file.text)

OpenSymbols ==
    /\ at = "open" /\ filter
    /\ End(IF Has(".symtab") /\ Has(".text") THEN "symbols" ELSE "error")

OtherCallback(s) == s.name = "cmp"

(* A callback but trace_pc with an address in .text is put into the nil    *)
(* map.  An undefined symbol has the address 0, as has the .text of a      *)
(* relocatable file.                                                       *)
ReadSymbol ==
    /\ at = "symbols" /\ n <= Len(file.symbols)
    /\ LET s == file.symbols[n]
       IN  /\ tracePCIdx' = IF s.name = "pc" THEN tracePCIdx \cup {n} ELSE tracePCIdx
           /\ traceCmpIdx' = IF OtherCallback(s) THEN traceCmpIdx \cup {n} ELSE traceCmpIdx
           /\ tracePC' = IF s.name = "pc" /\ InText(s) THEN s.value ELSE tracePC
           /\ at' = IF OtherCallback(s) /\ InText(s) THEN "panic" ELSE at
    /\ n' = n + 1
    /\ UNCHANGED <<args, points, lines, pcs>>

(* If there is a section .rela.text (IsSectionExist) it is read, and the   *)
(* byte order asked of the debugging data; else trace_pc must be in .text. *)
EndOfSymbols ==
    /\ at = "symbols" /\ n > Len(file.symbols)
    /\ IF Has(".rela.text")
       THEN at' = (IF Has(".debug_info") THEN "relocs" ELSE "error") /\ n' = 1
       ELSE at' = (IF tracePC # 0 THEN "text" ELSE "error") /\ n' = 0
    /\ UNCHANGED <<args, info, points, lines, pcs>>

-----------------------------------------------------------------------------
(* FindAllCoverPoints: every byte of .text that may be an opcode. *)

Window(i) == i >= 0 /\ i + arch.callLen <= Len(file.text)

Found(pc, inPC, inCmp) ==
    points' = CASE inPC            -> [points EXCEPT ![1] = Append(@, pc)]
                [] ~inPC /\ inCmp  -> [points EXCEPT ![2] = Append(@, pc)]
                [] ~inPC /\ ~inCmp -> points

(* Of a machine that arches does not have, target is a nil function.       *)
ScanByte ==
    /\ at = "text" /\ n < Len(file.text)
    /\ LET opcode == ByteAt(file.text, n)
           i == n - arch.opcodeOffset
           pc == file.addr + i
           target == Target(file.machine, file.text, i, pc, opcode)
       IN  IF opcode \in arch.opcodes /\ Window(i)
           THEN IF file.machine = "other"
                THEN at' = "panic" /\ UNCHANGED points
                ELSE Found(pc, target = tracePC, target \in traceCmp) /\ UNCHANGED at
           ELSE UNCHANGED <<at, points>>
    /\ n' = n + 1
    /\ UNCHANGED <<args, info, lines, pcs>>

EndOfText ==
    /\ at = "text" /\ n = Len(file.text)
    /\ End("sort")

-----------------------------------------------------------------------------
(* FindAllCoverPointsInRelaSec: the relocations of calls. *)

CallOf(r) == (r.off - arch.relaOffset) % Word

ReadReloc ==
    /\ at = "relocs" /\ n <= Len(file.rela)
    /\ LET r == file.rela[n]
       IN  IF r.type = arch.callRelocType
           THEN Found(CallOf(r), r.sym \in tracePCIdx, r.sym \in traceCmpIdx)
           ELSE UNCHANGED points
    /\ n' = n + 1
    /\ UNCHANGED <<args, at, info, lines, pcs>>

(* binary.Read meets the end of the section, or half a relocation.         *)
EndOfRelocs ==
    /\ at = "relocs" /\ n > Len(file.rela)
    /\ End(IF file.torn THEN "error" ELSE "sort")

-----------------------------------------------------------------------------
(* GenLineEntries and the line entries of all units. *)

OpenUnits ==
    /\ at = "open" /\ ~filter
    /\ End(IF Has(".debug_info") THEN "units" ELSE "error")

(* FindAllCompileUnits, the next unit.  One without a name is left without *)
(* SkipChildren, and the entry read next is its child; a directory that is *)
(* missing fails a type assertion.  Units without code are left out.       *)
NextUnit ==
    /\ at = "units" /\ n <= Len(file.units)
    /\ LET u == file.units[n]
       IN  /\ at' = CASE u.form \in {"nameless", "bad"}      -> "error"
                      [] u.form = "noCompDir"                -> "panic"
                      [] u.form \in {"good", "namelessLeaf"} -> at
           /\ cus' = IF u.form = "good" /\ u.code THEN Append(cus, n) ELSE cus
    /\ n' = n + 1
    /\ UNCHANGED <<args, info, points, entries, pcs>>

EndOfUnits ==
    /\ at = "units" /\ n > Len(file.units)
    /\ at' = "entries" /\ n' = 1
    /\ UNCHANGED <<args, info, points, lines, pcs>>

(* getLineEntries: the rows by address.  Without a reader it is an error;  *)
(* a table that cannot be decoded gives the same error for ever, and the   *)
(* loop leaves only on io.EOF.                                             *)
ReadEntries ==
    /\ at = "entries" /\ n <= Len(cus)
    /\ LET u == file.units[cus[n]]
       IN  /\ at' = CASE u.table = "good"    -> at
                      [] u.table = "missing" -> "error"
                      [] u.table = "broken"  -> "looping"
           /\ entries' = IF u.table = "good" THEN Append(entries, ToSet(u.rows)) ELSE entries
    /\ n' = n + 1
    /\ UNCHANGED <<args, info, points, cus, pcs>>

EndOfEntries ==
    /\ at = "entries" /\ n > Len(cus)
    /\ at' = "list" /\ n' = 1
    /\ UNCHANGED <<args, info, points, lines, pcs>>

(* The cached entries of a unit are listed, in the order of a Go map. *)
AppendEach(s, addresses) == s \o SetToSeq(addresses)

ListUnit ==
    /\ at = "list" /\ n <= Len(cus)
    /\ pcs' = AppendEach(pcs, entries[n])
    /\ n' = n + 1
    /\ UNCHANGED <<args, at, info, points, lines>>

EndOfList ==
    /\ at = "list" /\ n > Len(cus)
    /\ End("sort")

-----------------------------------------------------------------------------
(* The positions of the list by what is there. *)
SortPCs(s) ==
    LET ks == 1..Len(s)
        upTo == {p \in ks \X ks :
                    s[p[1]] < s[p[2]] \/ (s[p[1]] = s[p[2]] /\ p[1] <= p[2])}
        by == Sorted(ks, upTo)
    IN  [k \in ks |-> s[by[k]]]

Return ==
    /\ at = "sort"
    /\ pcs' = SortPCs(IF filter THEN points[1] \o points[2] ELSE pcs)
    /\ at' = "done"
    /\ UNCHANGED <<args, n, info, points, lines>>

Next ==
    \/ OpenSymbols \/ ReadSymbol \/ EndOfSymbols
    \/ ScanByte \/ EndOfText
    \/ ReadReloc \/ EndOfRelocs
    \/ OpenUnits \/ NextUnit \/ EndOfUnits \/ ReadEntries \/ EndOfEntries
    \/ ListUnit \/ EndOfList
    \/ Return

Spec == Init /\ [][Next]_vars

-----------------------------------------------------------------------------
(* Properties. *)

TypeOK ==
    /\ at \in {"open", "symbols", "text", "relocs", "units", "entries", "list", "sort",
               "done", "error", "panic", "looping"}
    /\ n \in Nat
    /\ tracePC \in 0..(Word - 1)
    /\ tracePCIdx \cap traceCmpIdx = {}
    /\ tracePCIdx \cup traceCmpIdx \subseteq 1..Len(file.symbols)
    /\ points \in Seq(Int) \X Seq(Int)
    /\ cus \in Seq(1..Len(file.units)) /\ Len(entries) <= Len(cus)
    /\ pcs \in Seq(Int)

(* What the machines' manuals say: how long a call is, where its operand   *)
(* is, where one can begin, which instruction is one, and what it calls.   *)
CallLen == IF file.machine = "amd64" THEN 5 ELSE 4
OperandAt == IF file.machine = "amd64" THEN 1 ELSE 0

Readable == {i \in 0..(Len(file.text) - CallLen) : file.machine = "arm64" => i % 4 = 0}

IsCall(text, i) ==
    IF file.machine = "amd64"
    THEN ByteAt(text, i) = CallOpcode
    ELSE ByteAt(text, i + 3) \in BranchLink..(BranchLink + 3)

Operand(text, i) ==
    IF file.machine = "amd64"
    THEN SignedOf(Uint32(text, i + 1), Byte * Byte3)
    ELSE SignedOf(Low24(text, i) + Byte3 * (ByteAt(text, i + 3) % 4), 4 * Byte3)

Callee(text, i, pc) ==
    IF file.machine = "amd64"
    THEN (pc + CallLen + Operand(text, i)) % Word
    ELSE (pc + 4 * Operand(text, i)) % Word

(* An arm64 call whose operand needs no more than 25 of its 26 bits: the   *)
(* scan knows no others, those over 64 MB.                                 *)
InReach(text, i) == file.machine = "amd64" \/ Operand(text, i) \in (-Byte3)..(Byte3 - 1)

(* Where the bytes read as a call of trace_pc.  It need not be one: on     *)
(* amd64 they may be within an instruction, on both in data.               *)
ReadAsCalls ==
    {i \in Readable : /\ IsCall(file.text, i) /\ InReach(file.text, i)
                      /\ Callee(file.text, i, file.addr + i) = tracePC}

(* The machine is known, and what must be aligned is.                      *)
Words ==
    /\ file.machine # "other"
    /\ file.machine = "arm64" => file.addr % 4 = 0 /\ tracePC % 4 = 0

Ascending(s) == \A j, k \in 1..Len(s) : j < k => s[j] < s[k]

(* The scan lists every place in .text, up to both its ends, whose bytes   *)
(* read as a call of trace_pc in reach, and no other, each once            *)
(* (text.go:77-91, arch.go:59-75).  So no call in reach is missed; and     *)
(* since the scan does not know where instructions begin, on amd64 the     *)
(* inside of an instruction that reads so is listed too.  On arm64 only    *)
(* aligned words are, and no call over 64 MB.                              *)
TextPointsReadAsCalls ==
    (filter /\ ~Has(".rela.text") /\ at \in {"sort", "done"} /\ Words) =>
        /\ ToSet(points[1]) = {file.addr + i : i \in ReadAsCalls}
        /\ Ascending(points[1])

(* What the linker makes of a relocated call when the callback is at s:    *)
(* it writes the displacement into the operand.                            *)
OperandValues == IF file.machine = "amd64" THEN Byte * Byte3 ELSE 4 * Byte3
Displacement(r, s) == IF file.machine = "amd64" THEN s - 4 - r.off ELSE (s - r.off) \div 4

Patched(r, s) ==
    LET v == Displacement(r, s) % OperandValues
        top == ByteAt(file.text, r.off + 3)
    IN  [k \in 1..Len(file.text) |->
            CASE k = r.off + 1 -> v % Byte
              [] k = r.off + 2 -> (v \div Byte) % Byte
              [] k = r.off + 3 -> (v \div (Byte * Byte)) % Byte
              [] k = r.off + 4 -> IF file.machine = "amd64" THEN v \div Byte3
                                  ELSE top - (top % 4) + v \div Byte3
              [] OTHER         -> file.text[k]]

(* A call can be linked to a callback at s: the displacement fits.         *)
Reaches(r, s) ==
    /\ file.machine = "arm64" => s % 4 = 0
    /\ -OperandValues <= 2 * Displacement(r, s) /\ 2 * Displacement(r, s) < OperandValues

(* An object whose .text is no longer than what a call can reach, and no   *)
(* two of whose relocations are at one place.                              *)
Linkable ==
    /\ file.machine # "other" /\ file.addr = 0
    /\ 2 * Len(file.text) <= (IF file.machine = "amd64" THEN Byte * Byte3 ELSE 16 * Byte3)
    /\ \A j, k \in 1..Len(file.rela) : j # k => file.rela[j].off # file.rela[k].off

(* The relocation is of the operand of a call.  On amd64 compilers use the *)
(* type for jumps too, as for a callback called last or from a thunk.      *)
Place(r) == r.off - OperandAt
InCall(r) == Place(r) \in Readable /\ IsCall(file.text, Place(r))

CallbackOf(c) == IF c = 1 THEN "pc" ELSE "cmp"
RelocsTo(name) ==
    {r \in ToSet(file.rela) : /\ r.type = "call" /\ r.sym \in 1..Len(file.symbols)
                              /\ file.symbols[r.sym].name = name}

(* In the linked file, p calls the callback that r names, wherever of the  *)
(* Placements it is put, before .text, in it or behind it.                 *)
Follows(r, p) ==
    \A s \in {t \in Placements : Reaches(r, t)} :
        IsCall(Patched(r, s), p) /\ Callee(Patched(r, s), p, p) = s % Word

LinkedCalls(c) ==
    {p \in Readable : \E r \in RelocsTo(CallbackOf(c)) : InCall(r) /\ Follows(r, p)}
Jumps(c) == {Place(r) % Word : r \in {q \in RelocsTo(CallbackOf(c)) : ~InCall(q)}}

(* The pcs from the relocations are those of the calls of the callback in  *)
(* the linked file, and those of the jumps to it, which the scan of that   *)
(* file does not list (rela.go:84-105); each once, and the two kinds of    *)
(* callbacks apart.                                                        *)
RelaPointsAreCallsAndJumps ==
    (filter /\ Has(".rela.text") /\ at \in {"sort", "done"} /\ Linkable) =>
        \A c \in 1..2 :
            /\ ToSet(points[c]) = LinkedCalls(c) \cup Jumps(c)
            /\ Len(points[c]) = Cardinality(RelocsTo(CallbackOf(c)))

Count(s, a) == Cardinality({k \in 1..Len(s) : s[k] = a})
UnitsWithRow(a) ==
    {k \in 1..Len(file.units) : /\ file.units[k].form = "good" /\ file.units[k].code
                                /\ a \in ToSet(file.units[k].rows)}

(* The list is sorted and complete: the points of both kinds, or each      *)
(* address of a row once for each unit with code that has it               *)
(* (dwarf.go:85-109).                                                      *)
ListIsComplete ==
    at = "done" =>
        /\ \A j, k \in 1..Len(pcs) : j < k => pcs[j] <= pcs[k]
        /\ \A a \in ToSet(pcs) \cup ToSet(points[1]) \cup ToSet(points[2])
                       \cup UNION {ToSet(file.units[k].rows) : k \in 1..Len(file.units)} :
              Count(pcs, a) = IF filter THEN Count(points[1], a) + Count(points[2], a)
                              ELSE Cardinality(UnitsWithRow(a))

Defined(name) == \E k \in 1..Len(file.symbols) : file.symbols[k].name = name /\ InText(file.symbols[k])
Unit(k) == file.units[k]
Forms == {Unit(k).form : k \in 1..Len(file.units)}
Tables == {Unit(k).table : k \in {l \in 1..Len(file.units) : Unit(l).form = "good" /\ Unit(l).code}}

(* A file is listed exactly if nothing is wrong with it.  What it takes to *)
(* bring the call down is a callback other than trace_pc whose address is  *)
(* in .text, or is 0 in a relocatable file (symbols.go:113); a machine     *)
(* that is not known, with trace_pc in .text; or a unit without directory. *)
(* One line table that cannot be decoded keeps it running for ever.        *)
OutcomeFits ==
    /\ (at = "panic" /\ filter) =>
          Defined("cmp") \/ (file.machine = "other" /\ ~Has(".rela.text") /\ Defined("pc"))
    /\ (at = "panic" /\ ~filter) => "noCompDir" \in Forms
    /\ at = "looping" => ~filter /\ "broken" \in Tables
    /\ (at = "error" /\ filter) =>
          \/ {".symtab", ".text"} \cap file.missing # {}
          \/ Has(".rela.text") /\ (file.torn \/ ~Has(".debug_info"))
          \/ ~Has(".rela.text") /\ tracePC = 0
    /\ (at = "error" /\ ~filter) =>
          ~Has(".debug_info") \/ Forms \cap {"nameless", "bad"} # {} \/ "missing" \in Tables
    /\ (at = "done" /\ filter) =>
          /\ Has(".symtab") /\ Has(".text") /\ ~Defined("cmp")
          /\ IF Has(".rela.text") THEN Has(".debug_info") /\ ~file.torn ELSE Defined("pc")
    /\ (at = "done" /\ ~filter) =>
          Has(".debug_info") /\ Forms \subseteq {"good", "namelessLeaf"} /\ Tables \subseteq {"good"}
=============================================================================
