----------------------------- MODULE AddrLookup -----------------------------
(***************************************************************************)
(* One call of FindAllFramesByAddr (parser/dwarf.go), up to the innermost  *)
(* frame: the unit of the address, its subprogram, its row of the line     *)
(* table (GetCompileUnitByAddr, GetSubprogramByAddr, GetLineEntryByAddr).  *)
(*                                                                         *)
(* A program is what its compiler and linker left: the functions in the    *)
(* order their entries and their line sequences come in, each with its     *)
(* unit and its parts, a part being an address range [lo, hi).  The line   *)
(* table has a sequence of rows per part, closed by an end row at hi.      *)
(***************************************************************************)
EXTENDS SortSearch, FiniteSets

CONSTANTS
    Progs,     \* programs: sequences of [unit : Nat \ {0}, parts : Seq(<<lo, hi>>)]
    PCs,       \* addresses to look up
    RowStep    \* distance of the rows of a part

ASSUME LookupAssumption ==
    /\ PCs \subseteq Nat
    /\ RowStep \in Nat \ {0}
    /\ \A prog \in Progs : prog \in Seq([unit : Nat \ {0}, parts : Seq(Nat \X Nat)])
    /\ \A prog \in Progs : \A f \in 1..Len(prog) :
          /\ prog[f].parts # << >>
          /\ \A k \in 1..Len(prog[f].parts) : prog[f].parts[k][1] < prog[f].parts[k][2]

VARIABLES
    prog, pc,   \* the program and the address
    at,         \* where the call is
    ranges,     \* GetCompileUnitByAddr: the ranges of all units, sorted by end
    unit,       \* the unit found
    sp,         \* the subprogram found
    table,      \* lineEntries: address |-> row
    row         \* the line entry found

input == <<prog, pc>>
vars == <<input, at, ranges, unit, sp, table, row, search>>

Funcs == 1..Len(prog)
Parts(f) == {prog[f].parts[k] : k \in 1..Len(prog[f].parts)}

NoRow == [addr |-> -1, fn |-> 0, part |-> 0, end |-> TRUE]

Init ==
    /\ prog \in Progs
    /\ pc \in PCs
    /\ at = "units"
    /\ ranges = << >>
    /\ unit = 0
    /\ sp = 0
    /\ table = << >>
    /\ row = NoRow
    /\ NoSearch

-----------------------------------------------------------------------------
(* GetCompileUnitByAddr *)

Ranges ==
    UNION {{[start |-> p[1], end |-> p[2], cu |-> prog[f].unit] : p \in Parts(f)} : f \in Funcs}

NotSorted(s) == TRUE   \* for a mutation run only
SortedByEnd(s) == \A k, l \in 1..Len(s) : k < l => s[k].end <= s[l].end

(* The ranges of all units in one slice, sorted by their end - in any      *)
(* order among equal ends - and searched for the first that starts after   *)
(* the address.                                                            *)
SortRanges ==
    /\ at = "units"
    /\ \E s \in [1..Cardinality(Ranges) -> Ranges] :
          /\ {s[k] : k \in 1..Len(s)} = Ranges
          /\ SortedByEnd(s)
          /\ ranges' = s
          /\ Begin([k \in 1..Len(s) |-> s[k].start], pc)
    /\ at' = "searchUnit"
    /\ UNCHANGED <<input, unit, sp, table, row>>

ProbeUnit ==
    /\ at = "searchUnit"
    /\ Probe
    /\ UNCHANGED <<input, at, ranges, unit, sp, table, row>>

(* The unit of the range before that one, wherever that range ends. *)
FoundUnit ==
    /\ at = "searchUnit"
    /\ ~Searching
    /\ IF i = 0
       THEN at' = "noUnit" /\ UNCHANGED unit
       ELSE at' = "subprogram" /\ unit' = ranges[i].cu
    /\ UNCHANGED <<input, ranges, sp, table, row, search>>

-----------------------------------------------------------------------------
(* GetSubprogramByAddr: the first subprogram of the unit that has the      *)
(* address between the start of its first and the end of its last range.   *)
InHullWithEnd(f) ==   \* for a mutation run only
    LET parts == prog[f].parts
    IN  parts[1][1] <= pc /\ pc <= parts[Len(parts)][2]

InHull(f) ==
    LET parts == prog[f].parts
    IN  parts[1][1] <= pc /\ pc < parts[Len(parts)][2]

IsFirst(f, S) == f \in S /\ \A g \in S : f <= g

(* Without one, FindAllFramesByAddr dereferences a nil pointer. *)
FindSubprogram ==
    LET candidates == {f \in Funcs : prog[f].unit = unit /\ InHull(f)}
    IN  /\ at = "subprogram"
        /\ \/ /\ \E f \in candidates : IsFirst(f, candidates) /\ sp' = f
              /\ at' = "table"
           \/ /\ candidates = {}
              /\ at' = "panic" /\ UNCHANGED sp
        /\ UNCHANGED <<input, ranges, unit, table, row, search>>

-----------------------------------------------------------------------------
(* GetLineEntryByAddr *)

(* The rows of a unit, and their order in its line table. *)
PartRows(f, k) ==
    LET p == prog[f].parts[k]
    IN  {[addr |-> a, fn |-> f, part |-> k, end |-> a = p[2]] :
            a \in {b \in p[1]..p[2] : b = p[2] \/ (b - p[1]) % RowStep = 0}}

Rows(u) ==
    UNION {UNION {PartRows(f, k) : k \in 1..Len(prog[f].parts)} :
              f \in {g \in Funcs : prog[g].unit = u}}

After(r, q) ==
    \/ r.fn > q.fn
    \/ r.fn = q.fn /\ r.part > q.part
    \/ r.fn = q.fn /\ r.part = q.part /\ r.addr > q.addr

FirstEntries(u) ==   \* for a mutation run only
    [a \in {r.addr : r \in Rows(u)} |->
        CHOOSE r \in Rows(u) :
            r.addr = a /\ \A q \in Rows(u) : q.addr = a /\ q # r => After(q, r)]

EntriesOfAllUnits(u) ==   \* for a mutation run only
    LET all == UNION {Rows(v) : v \in {prog[f].unit : f \in Funcs}}
    IN  [a \in {r.addr : r \in all} |->
            CHOOSE r \in all : r.addr = a /\ \A q \in all : q.addr = a /\ q # r => After(r, q)]

(* lineEntries[ent.Address] = ent for row after row: the last one of an    *)
(* address stays, an end row like any other.                               *)
LineEntries(u) ==
    [a \in {r.addr : r \in Rows(u)} |->
        CHOOSE r \in Rows(u) :
            r.addr = a /\ \A q \in Rows(u) : q.addr = a /\ q # r => After(r, q)]

ReadTable ==
    /\ at = "table"
    /\ table' = LineEntries(unit)
    /\ at' = "entry"
    /\ UNCHANGED <<input, ranges, unit, sp, row, search>>

(* The line table cannot be decoded: LineReader.Next returns the same      *)
(* error again and again, and the loop leaves only on io.EOF.              *)
ReadTableForever ==
    /\ at = "table"
    /\ at' = "looping"
    /\ UNCHANGED <<input, ranges, unit, sp, table, row, search>>

(* les[pc], or the search for the first entry of a greater address.        *)
LookupEntry ==
    /\ at = "entry"
    /\ IF pc \in DOMAIN table
       THEN row' = table[pc] /\ at' = "done" /\ UNCHANGED search
       ELSE /\ \E s \in [1..Cardinality(DOMAIN table) -> DOMAIN table] :
                  /\ \A k, l \in 1..Len(s) : k < l => s[k] < s[l]
                  /\ Begin(s, pc)
            /\ at' = "searchRow" /\ UNCHANGED row
    /\ UNCHANGED <<input, ranges, unit, sp, table>>

ProbeRow ==
    /\ at = "searchRow"
    /\ Probe
    /\ UNCHANGED <<input, at, ranges, unit, sp, table, row>>

FoundRowAfter ==   \* for a mutation run only
    /\ at = "searchRow"
    /\ ~Searching
    /\ IF i = Len(keys)
       THEN at' = "noRow" /\ UNCHANGED row
       ELSE at' = "done" /\ row' = table[keys[i + 1]]
    /\ UNCHANGED <<input, ranges, unit, sp, table, search>>

FoundRow ==
    /\ at = "searchRow"
    /\ ~Searching
    /\ IF i = 0
       THEN at' = "noRow" /\ UNCHANGED row
       ELSE at' = "done" /\ row' = table[keys[i]]
    /\ UNCHANGED <<input, ranges, unit, sp, table, search>>

-----------------------------------------------------------------------------
Next ==
    \/ SortRanges \/ ProbeUnit \/ FoundUnit
    \/ FindSubprogram
    \/ ReadTable \/ ReadTableForever \/ LookupEntry \/ ProbeRow \/ FoundRow

Spec == Init /\ [][Next]_vars

-----------------------------------------------------------------------------
(* Properties. *)

Has(f) == \E p \in Parts(f) : p[1] <= pc /\ pc < p[2]
Covered == \E f \in Funcs : Has(f)

(* No two parts overlap, as in a linked image.  In a relocatable object    *)
(* (a .ko) every section starts at 0, and they may.                        *)
Disjoint ==
    \A f, g \in Funcs : \A k \in 1..Len(prog[f].parts), l \in 1..Len(prog[g].parts) :
        LET p == prog[f].parts[k]
            q == prog[g].parts[l]
        IN  <<f, k>> # <<g, l>> => p[2] <= q[1] \/ q[2] <= p[1]

IsSplit(f) == Len(prog[f].parts) > 1

(* The parts of a function in the order of their addresses: DW_AT_ranges   *)
(* may list them in any, such as a cold part placed below a hot one.       *)
PartsAscend(f) ==
    \A k, l \in 1..Len(prog[f].parts) : k < l => prog[f].parts[k][2] <= prog[f].parts[l][1]

(* The rows of the unit are in the order of their addresses. *)
Ascending == \A r, q \in Rows(unit) : After(r, q) => r.addr >= q.addr

TypeOK ==
    /\ at \in {"units", "searchUnit", "subprogram", "table", "entry", "searchRow",
               "done", "noUnit", "noRow", "panic", "looping"}
    /\ ranges \in Seq(Ranges)
    /\ unit \in {0} \cup {prog[f].unit : f \in Funcs}
    /\ sp \in {0} \cup Funcs
    /\ row \in {NoRow} \cup Rows(unit)
    /\ SearchInv

(* The ranges are sorted by end and searched by start: where they do not   *)
(* overlap, an address in one of them is found in its unit, and only one   *)
(* in none of them is answered with an error (debuginfo.go:72-81).         *)
UnitIsOwner ==
    Disjoint =>
        /\ at = "noUnit" => ~Covered
        /\ unit # 0 => \A f \in Funcs : Has(f) => unit = prog[f].unit

(* An address that a function covers panics only if the parts of that      *)
(* function are not in ascending order; otherwise it is found in this      *)
(* function or in one that comes earlier and is split, and nothing but the *)
(* hole of a split one is taken for code (debuginfo.go:231).               *)
SubprogramIsOwner ==
    Disjoint =>
        /\ at = "panic" => \A f \in Funcs : Has(f) => ~PartsAscend(f)
        /\ sp # 0 =>
              /\ Has(sp) \/ IsSplit(sp)
              /\ \A f \in Funcs : Has(f) /\ PartsAscend(f) => sp = f \/ (sp < f /\ IsSplit(sp))

(* The line entry is the nearest row of the unit that is not after the     *)
(* address, and none is found only if all are after it                     *)
(* (debugline.go:68-85).                                                   *)
RowIsNearest ==
    /\ at = "done" =>
          /\ row.addr <= pc
          /\ \A r \in Rows(unit) : ~(row.addr < r.addr /\ r.addr <= pc)
    /\ at = "noRow" => \A r \in Rows(unit) : r.addr > pc

(* The row is one of the function that covers the address, unless an end   *)
(* row that comes later in the table has replaced the row there            *)
(* (debugline.go:146-152); in a table in the order of its addresses none   *)
(* does.                                                                   *)
OwnRowUnlessReplaced ==
    (at = "done" /\ Disjoint) =>
        \A f \in Funcs : Has(f) =>
            \/ row.fn = f /\ ~row.end
            \/ /\ ~Ascending /\ row.end
               /\ \E r \in Rows(unit) : r.fn = f /\ ~r.end /\ r.addr = row.addr /\ After(row, r)

(* An address that no unit covers is answered with the error of            *)
(* debuginfo.go:79.  The code does not keep this.                          *)
UncoveredIsAnError == Disjoint => at # "panic"

-----------------------------------------------------------------------------
(* The inductive invariant behind UnitIsOwner; AddrLookupProofs proves it. *)

RangesInv ==
    at # "units" =>
        /\ ranges \in Seq(Ranges)
        /\ {ranges[k] : k \in 1..Len(ranges)} = Ranges
        /\ SortedByEnd(ranges)

KeysInv ==
    at = "searchUnit" =>
        /\ x = pc
        /\ Len(keys) = Len(ranges)
        /\ \A k \in 1..Len(ranges) : keys[k] = ranges[k].start

LookupInv ==
    /\ prog \in Progs /\ pc \in PCs
    /\ at \in {"units", "searchUnit"} => SearchInv
    /\ RangesInv
    /\ KeysInv
    /\ UnitIsOwner
    /\ at \in {"units", "searchUnit"} => unit = 0


(* What the later steps have found; behind SubprogramIsOwner.              *)
StageInv ==
    /\ at \in {"units", "searchUnit", "noUnit"} => unit = 0
    /\ at \in {"subprogram", "panic", "table", "looping", "entry", "searchRow", "done", "noRow"} =>
          unit \in {prog[f].unit : f \in Funcs}
    /\ at \in {"table", "looping", "entry", "searchRow", "done", "noRow"} =>
          IsFirst(sp, {f \in Funcs : prog[f].unit = unit /\ InHull(f)})
    /\ at \in {"units", "searchUnit", "noUnit", "subprogram", "panic"} => sp = 0
    /\ at = "panic" => \A f \in Funcs : prog[f].unit = unit => ~InHull(f)

(* What the search for the row knows; behind RowIsNearest.                 *)
TableInv ==
    at \in {"entry", "searchRow", "done", "noRow"} => table = LineEntries(unit)

KeysOfTable ==
    at = "searchRow" =>
        /\ x = pc /\ pc \notin DOMAIN table
        /\ {keys[k] : k \in 1..Len(keys)} = DOMAIN table
        /\ \A k, l \in 1..Len(keys) : k < l => keys[k] < keys[l]

RowInv ==
    /\ at # "done" => row = NoRow
    /\ at = "done" => row.addr \in DOMAIN table /\ row = table[row.addr]

EntryInv == StageInv /\ TypeOK /\ TableInv /\ KeysOfTable /\ RowInv /\ RowIsNearest
=============================================================================
