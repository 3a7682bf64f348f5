-------------------------- MODULE AddrLookupProofs --------------------------
(***************************************************************************)
(* Proofs about the lookup, for every program and every address: the       *)
(* binary search keeps SearchInv whatever it is given; sorting by end      *)
(* while searching by start is right wherever no two ranges overlap; what  *)
(* is found are the subprogram and the row that the properties say; where  *)
(* functions are in one piece nothing goes wrong; and the lookup ends.     *)
(***************************************************************************)
EXTENDS AddrLookup, SortingProofs, SequenceTheorems

-----------------------------------------------------------------------------
(* sort.Search *)

LEMMA BeginKeepsInv ==
    ASSUME NEW ks \in Seq(Int), NEW v \in Int, Begin(ks, v)
    PROVE  SearchInv'
<1>1. Len(ks) \in Nat
  OBVIOUS
<1> QED
  BY <1>1 DEF Begin, SearchInv

LEMMA ProbeKeepsInv ==
    ASSUME SearchInv, Probe
    PROVE  SearchInv'
<1> DEFINE h == (i + j) \div 2
<1>1. /\ i \in Nat /\ j \in Nat /\ i < j /\ j <= Len(keys) /\ Len(keys) \in Nat
      /\ keys \in Seq(Int) /\ x \in Int /\ keys' = keys /\ x' = x
  BY DEF SearchInv, Probe, Searching
<1>2. h \in Nat /\ i <= h /\ h < j
  BY <1>1
<1>3. keys[h + 1] \in Int
  BY <1>1, <1>2
<1>4. CASE keys[h + 1] > x
  <2>1. j' = h /\ i' = i
    BY <1>4 DEF Probe
  <2> QED
    BY <2>1, <1>1, <1>2, <1>4 DEF SearchInv
<1>5. CASE ~(keys[h + 1] > x)
  <2>1. i' = h + 1 /\ j' = j
    BY <1>5 DEF Probe
  <2> QED
    BY <2>1, <1>1, <1>2, <1>3, <1>5 DEF SearchInv
<1> QED
  BY <1>4, <1>5

-----------------------------------------------------------------------------
(* The ranges of a program. *)

LEMMA ProgType ==
    ASSUME prog \in Progs
    PROVE  /\ prog \in Seq([unit : Nat \ {0}, parts : Seq(Nat \X Nat)])
           /\ Len(prog) \in Nat
           /\ \A f \in Funcs :
                 /\ prog[f].unit \in Nat \ {0} /\ prog[f].parts \in Seq(Nat \X Nat)
                 /\ Len(prog[f].parts) \in Nat
                 /\ \A k \in 1..Len(prog[f].parts) :
                       /\ prog[f].parts[k] \in Nat \X Nat
                       /\ prog[f].parts[k][1] < prog[f].parts[k][2]
<1>1. prog \in Seq([unit : Nat \ {0}, parts : Seq(Nat \X Nat)]) /\ Len(prog) \in Nat
  BY LookupAssumption
<1>2. ASSUME NEW f \in Funcs
      PROVE  /\ prog[f].unit \in Nat \ {0} /\ prog[f].parts \in Seq(Nat \X Nat)
             /\ Len(prog[f].parts) \in Nat
             /\ \A k \in 1..Len(prog[f].parts) :
                   /\ prog[f].parts[k] \in Nat \X Nat
                   /\ prog[f].parts[k][1] < prog[f].parts[k][2]
  <2>1. prog[f] \in [unit : Nat \ {0}, parts : Seq(Nat \X Nat)]
    BY <1>1, ElementOfSeq DEF Funcs
  <2>2. prog[f].unit \in Nat \ {0} /\ prog[f].parts \in Seq(Nat \X Nat)
    BY <2>1
  <2>3. Len(prog[f].parts) \in Nat
        /\ \A k \in 1..Len(prog[f].parts) : prog[f].parts[k] \in Nat \X Nat
    BY <2>2, ElementOfSeq
  <2> QED
    BY <2>2, <2>3, LookupAssumption DEF Funcs
<1> QED
  BY <1>1, <1>2

(* A range is a part of a function, and no two of them are the same part. *)
LEMMA RangeOfPart ==
    ASSUME prog \in Progs, NEW r \in Ranges
    PROVE  /\ r.start \in Nat /\ r.end \in Nat /\ r.start < r.end
           /\ r \in [start : Nat, end : Nat, cu : Nat \ {0}]
           /\ \E f \in Funcs : \E k \in 1..Len(prog[f].parts) :
                 r = [start |-> prog[f].parts[k][1], end |-> prog[f].parts[k][2], cu |-> prog[f].unit]
<1>1. PICK f \in Funcs : \E k \in 1..Len(prog[f].parts) :
                 r = [start |-> prog[f].parts[k][1], end |-> prog[f].parts[k][2], cu |-> prog[f].unit]
  BY DEF Ranges, Parts
<1>2. PICK k \in 1..Len(prog[f].parts) :
                 r = [start |-> prog[f].parts[k][1], end |-> prog[f].parts[k][2], cu |-> prog[f].unit]
  BY <1>1
<1>3. /\ prog[f].parts[k] \in Nat \X Nat /\ prog[f].parts[k][1] < prog[f].parts[k][2]
      /\ prog[f].unit \in Nat \ {0}
  BY ProgType
<1>4. prog[f].parts[k][1] \in Nat /\ prog[f].parts[k][2] \in Nat
  BY <1>3
<1> QED
  BY <1>2, <1>3, <1>4

LEMMA RangesApart ==
    ASSUME prog \in Progs, Disjoint, NEW r \in Ranges, NEW q \in Ranges, r # q
    PROVE  r.end <= q.start \/ q.end <= r.start
<1>1. PICK f \in Funcs : \E k \in 1..Len(prog[f].parts) :
         r = [start |-> prog[f].parts[k][1], end |-> prog[f].parts[k][2], cu |-> prog[f].unit]
  BY RangeOfPart
<1>2. PICK k \in 1..Len(prog[f].parts) :
         r = [start |-> prog[f].parts[k][1], end |-> prog[f].parts[k][2], cu |-> prog[f].unit]
  BY <1>1
<1>3. PICK g \in Funcs : \E l \in 1..Len(prog[g].parts) :
         q = [start |-> prog[g].parts[l][1], end |-> prog[g].parts[l][2], cu |-> prog[g].unit]
  BY RangeOfPart
<1>4. PICK l \in 1..Len(prog[g].parts) :
         q = [start |-> prog[g].parts[l][1], end |-> prog[g].parts[l][2], cu |-> prog[g].unit]
  BY <1>3
<1>5. <<f, k>> # <<g, l>>
  BY <1>2, <1>4
<1>6. prog[f].parts[k][2] <= prog[g].parts[l][1] \/ prog[g].parts[l][2] <= prog[f].parts[k][1]
  BY <1>5 DEF Disjoint
<1> QED
  BY <1>2, <1>4, <1>6

(* An address a function has is in one of the ranges of its unit. *)
LEMMA HasRange ==
    ASSUME prog \in Progs, NEW f \in Funcs, Has(f)
    PROVE  \E r \in Ranges : r.start <= pc /\ pc < r.end /\ r.cu = prog[f].unit
<1>1. PICK p \in Parts(f) : p[1] <= pc /\ pc < p[2]
  BY DEF Has
<1> DEFINE r == [start |-> p[1], end |-> p[2], cu |-> prog[f].unit]
<1>2. r \in Ranges
  BY DEF Ranges
<1> QED
  BY <1>1, <1>2

LEMMA RangesFinite == ASSUME prog \in Progs PROVE IsFiniteSet(Ranges)
<1> DEFINE R(f) == {[start |-> p[1], end |-> p[2], cu |-> prog[f].unit] : p \in Parts(f)}
<1>1. ASSUME NEW f \in Funcs PROVE IsFiniteSet(R(f))
  <2> DEFINE n == Len(prog[f].parts)
             g == [k \in 1..n |-> [start |-> prog[f].parts[k][1], end |-> prog[f].parts[k][2],
                                   cu |-> prog[f].unit]]
  <2>1. n \in Nat
    BY ProgType
  <2>2. g \in Surjection(1..n, R(f))
    BY DEF Surjection, Parts
  <2>3. IsFiniteSet(1..n)
    BY <2>1, FS_Interval
  <2> QED
    BY <2>2, <2>3, FS_Surjection
<1>2. IsFiniteSet({R(f) : f \in Funcs})
  <2> DEFINE g == [f \in Funcs |-> R(f)]
  <2>1. g \in Surjection(Funcs, {R(f) : f \in Funcs})
    BY DEF Surjection
  <2>2. IsFiniteSet(Funcs)
    BY ProgType, FS_Interval DEF Funcs
  <2> QED
    BY <2>1, <2>2, FS_Surjection
<1>3. IsFiniteSet(UNION {R(f) : f \in Funcs})
  BY <1>1, <1>2, FS_UNION
<1> QED
  BY <1>3 DEF Ranges

-----------------------------------------------------------------------------
(* What the search leaves behind when the ranges do not overlap.           *)

LEMMA BeforeFirst ==
    ASSUME LookupInv, at = "searchUnit", i = j, i = 0, Disjoint
    PROVE  ~Covered
<1> SUFFICES ASSUME NEW f \in Funcs, Has(f)
             PROVE  FALSE
  BY DEF Covered
<1>0. prog \in Progs /\ pc \in Nat
  BY LookupAssumption DEF LookupInv
<1>1. /\ ranges \in Seq(Ranges) /\ Len(ranges) \in Nat
      /\ {ranges[k] : k \in 1..Len(ranges)} = Ranges
      /\ SortedByEnd(ranges)
      /\ Len(keys) = Len(ranges) /\ x = pc
      /\ \A k \in 1..Len(ranges) : keys[k] = ranges[k].start /\ ranges[k] \in Ranges
  BY DEF LookupInv, RangesInv, KeysInv
<1>2. PICK r \in Ranges : r.start <= pc /\ pc < r.end
  BY <1>0, HasRange
<1>3. PICK k \in 1..Len(ranges) : ranges[k] = r
  BY <1>1
<1>4. ranges[1].start > pc
  BY <1>1 DEF LookupInv, SearchInv
<1>5. /\ r.start \in Nat /\ r.end \in Nat /\ r.start < r.end
      /\ ranges[1].start \in Nat /\ ranges[1].end \in Nat /\ ranges[1].start < ranges[1].end
  BY <1>0, <1>1, RangeOfPart
<1>6. r # ranges[1] /\ k # 1
  BY <1>2, <1>3, <1>4, <1>5, <1>0
<1>7. ranges[1].end <= r.end
  BY <1>1, <1>3, <1>6 DEF SortedByEnd
<1>8. r.end <= ranges[1].start \/ ranges[1].end <= r.start
  BY <1>0, <1>1, <1>6, RangesApart
<1> QED
  BY <1>0, <1>2, <1>4, <1>5, <1>7, <1>8

LEMMA OwnUnit ==
    ASSUME LookupInv, at = "searchUnit", i = j, i # 0, Disjoint, NEW f \in Funcs, Has(f)
    PROVE  ranges[i].cu = prog[f].unit
<1>0. prog \in Progs /\ pc \in Nat
  BY LookupAssumption DEF LookupInv
<1>1. /\ ranges \in Seq(Ranges) /\ Len(ranges) \in Nat
      /\ {ranges[k] : k \in 1..Len(ranges)} = Ranges
      /\ SortedByEnd(ranges)
      /\ Len(keys) = Len(ranges) /\ x = pc
      /\ \A k \in 1..Len(ranges) : keys[k] = ranges[k].start /\ ranges[k] \in Ranges
  BY DEF LookupInv, RangesInv, KeysInv
<1>2. PICK r \in Ranges : r.start <= pc /\ pc < r.end /\ r.cu = prog[f].unit
  BY <1>0, HasRange
<1>3. PICK k \in 1..Len(ranges) : ranges[k] = r
  BY <1>1
<1>4. /\ i \in 1..Len(ranges)
      /\ ranges[i].start <= pc
      /\ i < Len(ranges) => ranges[i + 1].start > pc
  <2>1. /\ i \in 0..Len(keys) /\ keys[i] <= x
        /\ i < Len(keys) => keys[i + 1] > x
    BY DEF LookupInv, SearchInv
  <2>2. i \in 1..Len(ranges)
    BY <2>1, <1>1
  <2> QED
    BY <2>1, <2>2, <1>1
<1>5. \A q \in Ranges : q.start \in Nat /\ q.end \in Nat /\ q.start < q.end
  BY <1>0, RangeOfPart
<1>6. CASE k < i
  <2>1. r.end <= ranges[i].end
    BY <1>1, <1>3, <1>4, <1>6 DEF SortedByEnd
  <2>2. r = ranges[i] \/ r.end <= ranges[i].start \/ ranges[i].end <= r.start
    BY <1>0, <1>1, <1>4, RangesApart
  <2>3. r = ranges[i]
    BY <2>1, <2>2, <1>0, <1>1, <1>2, <1>4, <1>5
  <2> QED
    BY <2>3, <1>2
<1>7. CASE k > i
  <2>1. i + 1 \in 1..Len(ranges) /\ ranges[i + 1] \in Ranges /\ ranges[i + 1].start > pc
    <3>1. i + 1 \in 1..Len(ranges) /\ i < Len(ranges)
      BY <1>1, <1>4, <1>7
    <3> QED
      BY <3>1, <1>1, <1>4
  <2>2. r # ranges[i + 1]
    BY <2>1, <1>0, <1>2, <1>5
  <2>3. ranges[i + 1].end <= r.end
    <3>1. i + 1 < k
      BY <2>1, <2>2, <1>3, <1>4, <1>7
    <3> QED
      BY <2>1, <3>1, <1>1, <1>3 DEF SortedByEnd
  <2>4. r.end <= ranges[i + 1].start \/ ranges[i + 1].end <= r.start
    BY <2>1, <2>2, <1>0, RangesApart
  <2> QED
    BY <2>1, <2>3, <2>4, <1>0, <1>2, <1>5
<1> QED
  BY <1>2, <1>3, <1>4, <1>6, <1>7

-----------------------------------------------------------------------------
LEMMA InitLookup == ASSUME Init PROVE LookupInv
<1>1. SearchInv
  BY LookupAssumption, EmptySeq DEF Init, NoSearch, SearchInv
<1> QED
  BY <1>1 DEF Init, LookupInv, RangesInv, KeysInv, UnitIsOwner

LEMMA SortRangesLookup == ASSUME LookupInv, SortRanges PROVE LookupInv'
<1>0. prog \in Progs /\ pc \in Nat /\ prog' = prog /\ pc' = pc /\ unit = 0 /\ unit' = unit
      /\ at' = "searchUnit"
  BY LookupAssumption DEF LookupInv, SortRanges, input
<1>1. PICK s \in [1..Cardinality(Ranges) -> Ranges] :
          /\ {s[k] : k \in 1..Len(s)} = Ranges
          /\ SortedByEnd(s)
          /\ ranges' = s
          /\ Begin([k \in 1..Len(s) |-> s[k].start], pc)
  BY DEF SortRanges
<1>2. Cardinality(Ranges) \in Nat
  BY <1>0, RangesFinite, FS_CardinalityType
<1>3. s \in Seq(Ranges) /\ Len(s) \in Nat /\ Len(s) = Cardinality(Ranges)
  BY <1>1, <1>2
<1> DEFINE ks == [k \in 1..Len(s) |-> s[k].start]
<1>4. \A k \in 1..Len(s) : s[k].start \in Int
  BY <1>0, <1>3, RangeOfPart
<1>5. ks \in Seq(Int) /\ Len(ks) = Len(s)
  BY <1>3, <1>4
<1>6. SearchInv'
  <2>1. Begin(ks, pc)
    BY <1>1
  <2> HIDE DEF ks
  <2> QED
    BY <2>1, <1>0, <1>5, BeginKeepsInv
<1>7. Ranges' = Ranges
  BY <1>0 DEF Ranges, Funcs, Parts
<1>8. RangesInv'
  BY <1>1, <1>3, <1>7 DEF RangesInv, SortedByEnd
<1>9. KeysInv'
  BY <1>0, <1>1, <1>5 DEF KeysInv, Begin
<1>10. UnitIsOwner'
  BY <1>0 DEF UnitIsOwner
<1> QED
  BY <1>0, <1>6, <1>8, <1>9, <1>10 DEF LookupInv

(* UnitIsOwner speaks of the program, the address, the unit and the place. *)
LEMMA OwnerUnchanged ==
    ASSUME UnitIsOwner, UNCHANGED <<prog, pc, unit>>, at' # "noUnit" \/ at' = at
    PROVE  UnitIsOwner'
  BY DEF UnitIsOwner, Disjoint, Covered, Has, Funcs, Parts

LEMMA RangesUnchanged ==
    ASSUME RangesInv, UNCHANGED <<prog, ranges>>, at # "units" \/ at' = "units"
    PROVE  RangesInv'
<1>1. Ranges' = Ranges
  BY DEF Ranges, Funcs, Parts
<1> QED
  BY <1>1 DEF RangesInv, SortedByEnd

LEMMA FoundUnitLookup == ASSUME LookupInv, FoundUnit PROVE LookupInv'
<1>1. /\ at = "searchUnit" /\ ~(i < j) /\ unit = 0
      /\ UNCHANGED <<prog, pc, ranges, keys, x, i, j>>
      /\ at' \in {"noUnit", "subprogram"}
  BY DEF LookupInv, FoundUnit, Searching, input, search
<1>2. i = j
  BY <1>1 DEF LookupInv, SearchInv
<1>3. SearchInv'
  BY <1>1 DEF LookupInv, SearchInv
<1>4. RangesInv' /\ KeysInv'
  BY <1>1, RangesUnchanged DEF LookupInv, KeysInv
<1>5. Disjoint' = Disjoint /\ Covered' = Covered /\ Funcs' = Funcs
      /\ \A f \in Funcs : Has(f)' = Has(f)
  BY <1>1 DEF Disjoint, Covered, Has, Funcs, Parts
<1>6. UnitIsOwner'
  <2>1. CASE i = 0
    <3>1. at' = "noUnit" /\ unit' = 0
      BY <2>1, <1>1 DEF FoundUnit
    <3> QED
      BY <2>1, <3>1, <1>1, <1>2, <1>5, BeforeFirst DEF UnitIsOwner
  <2>2. CASE i # 0
    <3>1. at' = "subprogram" /\ unit' = ranges[i].cu
      BY <2>2 DEF FoundUnit
    <3> QED
      BY <2>2, <3>1, <1>1, <1>2, <1>5, OwnUnit DEF UnitIsOwner
  <2> QED
    BY <2>1, <2>2
<1> QED
  BY <1>1, <1>3, <1>4, <1>6 DEF LookupInv

(* The steps after the unit is found leave what LookupInv says alone. *)
LEMMA LaterLookup ==
    ASSUME LookupInv, at \notin {"units", "searchUnit"},
           at' \notin {"units", "searchUnit", "noUnit"},
           UNCHANGED <<prog, pc, ranges, unit>>
    PROVE  LookupInv'
<1>1. RangesInv'
  BY RangesUnchanged DEF LookupInv
<1>2. UnitIsOwner'
  BY OwnerUnchanged DEF LookupInv
<1> QED
  BY <1>1, <1>2 DEF LookupInv, KeysInv

LEMMA NextLookup == ASSUME LookupInv, [Next]_vars PROVE LookupInv'
<1>1. CASE SortRanges
  BY <1>1, SortRangesLookup
<1>2. CASE ProbeUnit
  <2>1. /\ at = "searchUnit" /\ at' = at /\ Probe
        /\ UNCHANGED <<prog, pc, ranges, unit, keys, x>>
    BY <1>2 DEF ProbeUnit, Probe, input
  <2>2. SearchInv'
    BY <2>1, ProbeKeepsInv DEF LookupInv
  <2>3. RangesInv' /\ UnitIsOwner'
    BY <2>1, RangesUnchanged, OwnerUnchanged DEF LookupInv
  <2>4. KeysInv'
    BY <2>1 DEF LookupInv, KeysInv
  <2> QED
    BY <2>1, <2>2, <2>3, <2>4 DEF LookupInv
<1>3. CASE FoundUnit
  BY <1>3, FoundUnitLookup
<1>4. CASE FindSubprogram
  BY <1>4, LaterLookup DEF FindSubprogram, input
<1>5. CASE ReadTable \/ ReadTableForever
  BY <1>5, LaterLookup DEF ReadTable, ReadTableForever, input
<1>6. CASE LookupEntry
  BY <1>6, LaterLookup DEF LookupEntry, input
<1>7. CASE ProbeRow \/ FoundRow
  BY <1>7, LaterLookup DEF ProbeRow, FoundRow, input
<1>8. CASE UNCHANGED vars
  <2>1. UNCHANGED <<prog, pc, at, ranges, unit, keys, x, i, j>>
    BY <1>8 DEF vars, input, search
  <2>2. RangesInv' /\ UnitIsOwner'
    BY <2>1, RangesUnchanged, OwnerUnchanged DEF LookupInv
  <2> QED
    BY <2>1, <2>2 DEF LookupInv, KeysInv, SearchInv
<1> QED
  BY <1>1, <1>2, <1>3, <1>4, <1>5, <1>6, <1>7, <1>8 DEF Next

(* In every program whose ranges do not overlap, an address is found in    *)
(* the unit that covers it, and only an uncovered one is an error: sorting *)
(* by end and searching by start agree (debuginfo.go:72-81).               *)
THEOREM UnitFound == Spec => []UnitIsOwner
<1>1. Init => LookupInv
  BY InitLookup
<1>2. LookupInv /\ [Next]_vars => LookupInv'
  BY NextLookup
<1>3. LookupInv => UnitIsOwner
  BY DEF LookupInv
<1> QED
  BY <1>1, <1>2, <1>3, PTL DEF Spec

-----------------------------------------------------------------------------
(* The rows of a unit. *)

LEMMA RowOfPart ==
    ASSUME prog \in Progs, NEW u, NEW r \in Rows(u)
    PROVE  \E f \in Funcs : \E k \in 1..Len(prog[f].parts) :
              /\ prog[f].unit = u
              /\ r = [addr |-> r.addr, fn |-> f, part |-> k, end |-> r.addr = prog[f].parts[k][2]]
              /\ r.addr \in prog[f].parts[k][1]..prog[f].parts[k][2]
              /\ r.addr \in Nat
<1>1. PICK f \in {g \in Funcs : prog[g].unit = u} :
          r \in UNION {PartRows(f, k) : k \in 1..Len(prog[f].parts)}
  BY DEF Rows
<1>2. PICK k \in 1..Len(prog[f].parts) : r \in PartRows(f, k)
  BY <1>1
<1>3. PICK a \in prog[f].parts[k][1]..prog[f].parts[k][2] :
          r = [addr |-> a, fn |-> f, part |-> k, end |-> a = prog[f].parts[k][2]]
  BY <1>2 DEF PartRows
<1>4. prog[f].parts[k] \in Nat \X Nat
  BY ProgType
<1>5. prog[f].parts[k][1] \in Nat /\ prog[f].parts[k][2] \in Nat
  BY <1>4
<1>6. a \in Nat /\ r.addr = a
  BY <1>3, <1>5
<1> QED
  BY <1>1, <1>3, <1>6

LEMMA RowType ==
    ASSUME prog \in Progs, NEW u, NEW r \in Rows(u)
    PROVE  /\ r.addr \in Nat /\ r.fn \in Funcs /\ r.part \in 1..Len(prog[r.fn].parts)
           /\ r.fn \in Nat /\ r.part \in Nat
           /\ prog[r.fn].unit = u
           /\ r = [addr |-> r.addr, fn |-> r.fn, part |-> r.part, end |-> r.end]
           /\ r.end = (r.addr = prog[r.fn].parts[r.part][2])
           /\ prog[r.fn].parts[r.part][1] <= r.addr /\ r.addr <= prog[r.fn].parts[r.part][2]
<1>1. PICK f \in Funcs : \E k \in 1..Len(prog[f].parts) :
              /\ prog[f].unit = u
              /\ r = [addr |-> r.addr, fn |-> f, part |-> k, end |-> r.addr = prog[f].parts[k][2]]
              /\ r.addr \in prog[f].parts[k][1]..prog[f].parts[k][2]
              /\ r.addr \in Nat
  BY RowOfPart
<1>2. PICK k \in 1..Len(prog[f].parts) :
              /\ prog[f].unit = u
              /\ r = [addr |-> r.addr, fn |-> f, part |-> k, end |-> r.addr = prog[f].parts[k][2]]
              /\ r.addr \in prog[f].parts[k][1]..prog[f].parts[k][2]
              /\ r.addr \in Nat
  BY <1>1
<1>3. r.fn = f /\ r.part = k /\ r.end = (r.addr = prog[f].parts[k][2])
  BY <1>2
<1>4. f \in Nat /\ k \in Nat
  BY ProgType DEF Funcs
<1>5. prog[f].parts[k] \in Nat \X Nat
  BY ProgType
<1>6. prog[f].parts[k][1] \in Nat /\ prog[f].parts[k][2] \in Nat
  BY <1>5
<1>7. prog[f].parts[k][1] <= r.addr /\ r.addr <= prog[f].parts[k][2]
  BY <1>2, <1>6
<1> QED
  BY <1>2, <1>3, <1>4, <1>7

(* Every part has a row at its start, which is no end row. *)
LEMMA FirstRowOfPart ==
    ASSUME prog \in Progs, NEW f \in Funcs, NEW k \in 1..Len(prog[f].parts)
    PROVE  [addr |-> prog[f].parts[k][1], fn |-> f, part |-> k, end |-> FALSE]
              \in Rows(prog[f].unit)
<1> DEFINE p == prog[f].parts[k]
<1>1. p \in Nat \X Nat /\ p[1] < p[2]
  BY ProgType
<1>2. p[1] \in Nat /\ p[2] \in Nat
  BY <1>1
<1>3. (p[1] - p[1]) % RowStep = 0
  BY <1>2, LookupAssumption
<1>4. p[1] \in {b \in p[1]..p[2] : b = p[2] \/ (b - p[1]) % RowStep = 0}
  BY <1>1, <1>2, <1>3
<1>5. (p[1] = p[2]) = FALSE
  BY <1>1, <1>2
<1>6. [addr |-> p[1], fn |-> f, part |-> k, end |-> FALSE] \in PartRows(f, k)
  BY <1>4, <1>5 DEF PartRows
<1> QED
  BY <1>6 DEF Rows


(* Among the rows of one address there is a last one, and it is the entry. *)
LEMMA LastRow ==
    ASSUME prog \in Progs, NEW u, NEW r \in Rows(u)
    PROVE  /\ LineEntries(u)[r.addr] \in Rows(u)
           /\ LineEntries(u)[r.addr].addr = r.addr
           /\ \A q \in Rows(u) : q.addr = r.addr /\ q # LineEntries(u)[r.addr]
                                    => After(LineEntries(u)[r.addr], q)
<1> DEFINE S == {q \in Rows(u) : q.addr = r.addr}
           F == {q.fn : q \in S}
<1>1. F \in SUBSET (1..Len(prog)) /\ F # {} /\ Len(prog) \in Nat
  BY RowType, ProgType DEF Funcs
<1>2. PICK f \in F : \A g \in F : g <= f
  <2> HIDE DEF F
  <2> QED
    BY <1>1, GreatestOf
<1> DEFINE K == {q.part : q \in {q \in S : q.fn = f}}
<1>3. K \in SUBSET (1..Len(prog[f].parts)) /\ K # {} /\ Len(prog[f].parts) \in Nat
  <2>1. f \in Funcs
    BY <1>1 DEF Funcs
  <2>2. K # {}
    OBVIOUS
  <2>3. ASSUME NEW q \in S, q.fn = f PROVE q.part \in 1..Len(prog[f].parts)
    BY <2>3, RowType
  <2> QED
    BY <2>1, <2>2, <2>3, ProgType
<1>4. PICK k \in K : \A l \in K : l <= k
  <2> HIDE DEF K
  <2> QED
    BY <1>3, GreatestOf
<1>5. PICK e \in S : e.fn = f /\ e.part = k
  OBVIOUS
<1>6. ASSUME NEW q \in Rows(u), q.addr = r.addr, q # e PROVE After(e, q)
  <2>1. q \in S /\ q.fn \in F /\ q.fn <= f
    BY <1>2, <1>6
  <2>2. /\ q.fn \in Nat /\ q.part \in Nat /\ e.fn \in Nat /\ e.part \in Nat
        /\ q = [addr |-> q.addr, fn |-> q.fn, part |-> q.part, end |-> q.end]
        /\ e = [addr |-> e.addr, fn |-> e.fn, part |-> e.part, end |-> e.end]
        /\ q.end = (q.addr = prog[q.fn].parts[q.part][2])
        /\ e.end = (e.addr = prog[e.fn].parts[e.part][2])
    BY RowType
  <2>3. CASE q.fn = f
    <3>1. q.part \in K /\ q.part <= k
      BY <2>1, <2>3, <1>4
    <3>2. q.part # k
      <4>1. q.part = k => q = e
        BY <2>2, <2>3, <1>5, <1>6
      <4> QED
        BY <4>1, <1>6
    <3> QED
      BY <2>2, <2>3, <3>1, <3>2, <1>5 DEF After
  <2> QED
    BY <2>1, <2>2, <2>3, <1>5 DEF After
<1>7. LineEntries(u)[r.addr] = CHOOSE c \in Rows(u) :
          c.addr = r.addr /\ \A q \in Rows(u) : q.addr = r.addr /\ q # c => After(c, q)
  BY DEF LineEntries
<1>8. e \in Rows(u) /\ e.addr = r.addr
  OBVIOUS
<1>9. \E c \in Rows(u) :
          c.addr = r.addr /\ \A q \in Rows(u) : q.addr = r.addr /\ q # c => After(c, q)
  BY <1>6, <1>8
<1> QED
  BY <1>7, <1>9

LEMMA TableOfUnit ==
    ASSUME NEW u
    PROVE  DOMAIN LineEntries(u) = {r.addr : r \in Rows(u)}
  BY DEF LineEntries

LEMMA RowsFinite == ASSUME prog \in Progs, NEW u PROVE IsFiniteSet({r.addr : r \in Rows(u)})
<1> DEFINE Span(f) == UNION {0..prog[f].parts[k][2] : k \in 1..Len(prog[f].parts)}
<1>1. ASSUME NEW f \in Funcs PROVE IsFiniteSet(Span(f))
  <2> DEFINE n == Len(prog[f].parts)
             g == [k \in 1..n |-> 0..prog[f].parts[k][2]]
             I == {0..prog[f].parts[k][2] : k \in 1..n}
  <2>1. n \in Nat
    BY ProgType
  <2>2. g \in Surjection(1..n, I)
    BY DEF Surjection
  <2>3. IsFiniteSet(I)
    BY <2>1, <2>2, FS_Interval, FS_Surjection
  <2>4. ASSUME NEW k \in 1..n PROVE IsFiniteSet(0..prog[f].parts[k][2])
    <3>1. prog[f].parts[k] \in Nat \X Nat
      BY ProgType
    <3>2. prog[f].parts[k][2] \in Int
      BY <3>1
    <3>3. \A m \in Int : IsFiniteSet(0..m)
      BY FS_Interval
    <3> QED
      BY <3>2, <3>3
  <2> QED
    BY <2>3, <2>4, FS_UNION
<1>2. IsFiniteSet({Span(f) : f \in Funcs})
  <2> DEFINE g == [f \in Funcs |-> Span(f)]
  <2>1. g \in Surjection(Funcs, {Span(f) : f \in Funcs})
    BY DEF Surjection
  <2>2. IsFiniteSet(Funcs)
    BY ProgType, FS_Interval DEF Funcs
  <2> QED
    BY <2>1, <2>2, FS_Surjection
<1>3. IsFiniteSet(UNION {Span(f) : f \in Funcs})
  BY <1>1, <1>2, FS_UNION
<1>4. ASSUME NEW r \in Rows(u) PROVE r.addr \in UNION {Span(f) : f \in Funcs}
  <2>1. /\ r.addr \in Nat /\ r.fn \in Funcs /\ r.part \in 1..Len(prog[r.fn].parts)
        /\ r.addr <= prog[r.fn].parts[r.part][2]
    BY RowType
  <2>2. prog[r.fn].parts[r.part] \in Nat \X Nat
    BY <2>1, ProgType
  <2>3. r.addr \in 0..prog[r.fn].parts[r.part][2]
    BY <2>1, <2>2
  <2>4. r.addr \in Span(r.fn)
    BY <2>1, <2>3
  <2> QED
    BY <2>1, <2>4
<1>5. {r.addr : r \in Rows(u)} \in SUBSET UNION {Span(f) : f \in Funcs}
  BY <1>4
<1> QED
  BY <1>3, <1>5, FS_Subset


-----------------------------------------------------------------------------
(* The steps and EntryInv. *)

LEMMA SameUnit ==
    ASSUME UNCHANGED <<prog, pc, unit>>
    PROVE  /\ Funcs' = Funcs /\ Ranges' = Ranges
           /\ Rows(unit)' = Rows(unit)
           /\ LineEntries(unit)' = LineEntries(unit)
           /\ \A f \in Funcs : InHull(f)' = InHull(f)
           /\ {f \in Funcs : prog[f].unit = unit /\ InHull(f)}'
                = {f \in Funcs : prog[f].unit = unit /\ InHull(f)}
           /\ {prog[f].unit : f \in Funcs}' = {prog[f].unit : f \in Funcs}
<1>1. Funcs' = Funcs /\ Ranges' = Ranges
  BY DEF Funcs, Ranges, Parts
<1>2. Rows(unit)' = Rows(unit)
  BY <1>1 DEF Rows, PartRows, Funcs
<1>3. LineEntries(unit)' = LineEntries(unit)
  BY <1>2 DEF LineEntries, After
<1> QED
  BY <1>1, <1>2, <1>3 DEF InHull

LEMMA InitEntry == ASSUME Init PROVE EntryInv
<1>1. SearchInv /\ ranges \in Seq(Ranges)
  BY LookupAssumption, EmptySeq DEF Init, NoSearch, SearchInv
<1> QED
  BY <1>1 DEF Init, EntryInv, StageInv, TypeOK, TableInv, KeysOfTable, RowInv, RowIsNearest

LEMMA SortRangesEntry ==
    ASSUME LookupInv', EntryInv, SortRanges
    PROVE  EntryInv'
<1>1. /\ at = "units" /\ at' = "searchUnit"
      /\ UNCHANGED <<prog, pc, unit, sp, table, row>>
  BY DEF SortRanges, input
<1>2. SearchInv' /\ ranges' \in Seq(Ranges')
  BY <1>1 DEF LookupInv, RangesInv
<1> QED
  BY <1>1, <1>2, SameUnit
  DEF EntryInv, StageInv, TypeOK, TableInv, KeysOfTable, RowInv, RowIsNearest

LEMMA ProbeUnitEntry == ASSUME EntryInv, ProbeUnit PROVE EntryInv'
<1>1. /\ at = "searchUnit" /\ at' = at
      /\ UNCHANGED <<prog, pc, ranges, unit, sp, table, row>>
  BY DEF ProbeUnit, input
<1>2. SearchInv'
  BY ProbeKeepsInv DEF EntryInv, TypeOK, ProbeUnit
<1> QED
  BY <1>1, <1>2, SameUnit
  DEF EntryInv, StageInv, TypeOK, TableInv, KeysOfTable, RowInv, RowIsNearest

LEMMA FoundUnitEntry == ASSUME LookupInv, EntryInv, FoundUnit PROVE EntryInv'
<1>1. /\ at = "searchUnit" /\ unit = 0
      /\ UNCHANGED <<prog, pc, ranges, sp, table, row, keys, x, i, j>>
      /\ Funcs' = Funcs /\ Ranges' = Ranges
  BY DEF FoundUnit, input, search, EntryInv, StageInv, Funcs, Ranges, Parts
<1>2. SearchInv'
  BY <1>1 DEF EntryInv, TypeOK, SearchInv
<1>3. \/ at' = "noUnit" /\ unit' = 0
      \/ at' = "subprogram" /\ unit' \in {prog[f].unit : f \in Funcs}
  <2>1. CASE i = 0
    BY <2>1, <1>1 DEF FoundUnit
  <2>2. CASE i # 0
    <3>1. i \in 1..Len(ranges)
      BY <2>2, <1>1 DEF LookupInv, KeysInv, SearchInv
    <3>2. ranges[i] \in Ranges
      BY <3>1, <1>1 DEF LookupInv, RangesInv
    <3>3. ranges[i].cu \in {prog[f].unit : f \in Funcs}
      BY <3>2 DEF Ranges
    <3> QED
      BY <2>2, <3>3 DEF FoundUnit
  <2> QED
    BY <2>1, <2>2
<1>4. StageInv'
  BY <1>1, <1>3 DEF EntryInv, StageInv
<1>5. TypeOK'
  BY <1>1, <1>2, <1>3 DEF EntryInv, TypeOK, RowInv
<1> QED
  BY <1>1, <1>3, <1>4, <1>5 DEF EntryInv, TableInv, KeysOfTable, RowInv, RowIsNearest

LEMMA FindSubprogramEntry == ASSUME EntryInv, FindSubprogram PROVE EntryInv'
<1> DEFINE candidates == {f \in Funcs : prog[f].unit = unit /\ InHull(f)}
<1>1. /\ at = "subprogram" /\ sp = 0 /\ row = NoRow
      /\ UNCHANGED <<prog, pc, ranges, unit, table, row, keys, x, i, j>>
      /\ \/ at' = "table" /\ \E f \in candidates : IsFirst(f, candidates) /\ sp' = f
         \/ at' = "panic" /\ candidates = {} /\ sp' = sp
  BY DEF FindSubprogram, input, search, EntryInv, StageInv, RowInv
<1>2. candidates' = candidates
  BY <1>1, SameUnit
<1>3. /\ at' = "table" => IsFirst(sp, candidates)'
      /\ at' = "table" => sp' \in Funcs
      /\ at' = "panic" => sp' = 0
  <2>1. at' = "table" => sp' \in candidates /\ \A g \in candidates : sp' <= g
    BY <1>1 DEF IsFirst
  <2> QED
    BY <2>1, <1>1, <1>2 DEF IsFirst
<1>4. StageInv'
  <2>1. at' = "panic" => (\A f \in Funcs : prog[f].unit = unit => ~InHull(f))'
    BY <1>1, SameUnit
  <2> QED
    BY <2>1, <1>1, <1>3, SameUnit DEF EntryInv, StageInv
<1>5. SearchInv'
  BY <1>1 DEF EntryInv, TypeOK, SearchInv
<1>6. TypeOK'
  BY <1>1, <1>3, <1>5, SameUnit DEF EntryInv, TypeOK
<1> QED
  BY <1>1, <1>4, <1>6 DEF EntryInv, TableInv, KeysOfTable, RowInv, RowIsNearest


LEMMA ReadTableEntry == ASSUME EntryInv, ReadTable \/ ReadTableForever PROVE EntryInv'
<1>1. /\ at = "table" /\ row = NoRow
      /\ UNCHANGED <<prog, pc, ranges, unit, sp, row, keys, x, i, j>>
      /\ \/ at' = "entry" /\ table' = LineEntries(unit)
         \/ at' = "looping"
  BY DEF ReadTable, ReadTableForever, input, search, EntryInv, RowInv
<1>2. SearchInv'
  BY <1>1 DEF EntryInv, TypeOK, SearchInv
<1>3. TypeOK'
  BY <1>1, <1>2, SameUnit DEF EntryInv, TypeOK
<1>4. StageInv'
  BY <1>1, SameUnit DEF EntryInv, StageInv, IsFirst
<1>5. TableInv'
  BY <1>1, SameUnit DEF TableInv
<1> QED
  BY <1>1, <1>3, <1>4, <1>5 DEF EntryInv, KeysOfTable, RowInv, RowIsNearest

LEMMA ListIsSeq ==
    ASSUME NEW n \in Nat, NEW D \in SUBSET Nat, NEW s \in [1..n -> D]
    PROVE  s \in Seq(Int) /\ Len(s) = n
<1>1. s \in Seq(D) /\ Len(s) = n
  OBVIOUS
<1>2. \A k \in 1..n : s[k] \in Int
  <2>1. \A k \in 1..n : s[k] \in D
    OBVIOUS
  <2>2. \A d \in D : d \in Int
    OBVIOUS
  <2> QED
    BY <2>1, <2>2, Zenon
<1>3. s \in [1..n -> Int]
  BY <1>2
<1>4. s \in Seq(Int)
  BY <1>3
<1> QED
  BY <1>1, <1>4

(* The addresses of the table in ascending order are all of them. *)
LEMMA AllAddresses ==
    ASSUME NEW D \in SUBSET Nat, IsFiniteSet(D),
           NEW s \in [1..Cardinality(D) -> D],
           \A k, l \in 1..Len(s) : k < l => s[k] < s[l]
    PROVE  s \in Seq(Int) /\ Len(s) = Cardinality(D) /\ {s[k] : k \in 1..Len(s)} = D
<1> DEFINE n == Cardinality(D)
<1>1. n \in Nat
  BY FS_CardinalityType
<1>2. s \in Seq(Int) /\ Len(s) = n
  <2> HIDE DEF n
  <2> QED
    BY <1>1, ListIsSeq DEF n
<1>3. \A k, l \in 1..n : s[k] \in Nat /\ (k # l => s[k] # s[l])
  <2>1. \A k \in 1..n : s[k] \in Nat
    OBVIOUS
  <2>2. ASSUME NEW k \in 1..n, NEW l \in 1..n, k # l PROVE s[k] # s[l]
    <3>1. k < l \/ l < k
      BY <1>1, <2>2
    <3> QED
      BY <3>1, <2>1, <1>2
  <2> QED
    BY <2>1, <2>2
<1>4. s \in Injection(1..n, D)
  BY <1>3 DEF Injection, IsInjective
<1>5. Cardinality(1..n) = n
  BY <1>1, FS_Interval
<1>6. s \in Surjection(1..n, D)
  BY <1>4, <1>5, FS_Injection
<1> QED
  BY <1>2, <1>6 DEF Surjection

LEMMA LookupEntryEntry == ASSUME LookupInv, EntryInv, LookupEntry PROVE EntryInv'
<1>0. prog \in Progs /\ pc \in Nat
  BY LookupAssumption DEF LookupInv
<1>1. /\ at = "entry" /\ row = NoRow /\ table = LineEntries(unit)
      /\ UNCHANGED <<prog, pc, ranges, unit, sp, table>>
  BY DEF LookupEntry, input, EntryInv, RowInv, TableInv
<1>2. /\ Rows(unit)' = Rows(unit) /\ DOMAIN table = {r.addr : r \in Rows(unit)}
      /\ DOMAIN table \in SUBSET Nat
  <2>1. Rows(unit)' = Rows(unit)
    BY <1>1, SameUnit
  <2>2. DOMAIN table = {r.addr : r \in Rows(unit)}
    BY <1>1, TableOfUnit
  <2>3. \A r \in Rows(unit) : r.addr \in Nat
    BY <1>0, RowType
  <2> QED
    BY <2>1, <2>2, <2>3
<1>3. TableInv'
  BY <1>1, SameUnit DEF TableInv
<1>4. CASE pc \in DOMAIN table
  <2>1. row' = table[pc] /\ at' = "done" /\ UNCHANGED <<keys, x, i, j>>
    BY <1>4 DEF LookupEntry, search
  <2>2. row' \in Rows(unit) /\ row'.addr = pc
    <3>1. PICK r \in Rows(unit) : r.addr = pc
      BY <1>2, <1>4
    <3> QED
      BY <3>1, <2>1, <1>0, <1>1, LastRow
  <2>3. SearchInv'
    BY <2>1 DEF EntryInv, TypeOK, SearchInv
  <2>4. TypeOK'
    BY <2>1, <2>2, <2>3, <1>1, SameUnit DEF EntryInv, TypeOK
  <2>5. StageInv'
    BY <2>1, <1>1, SameUnit DEF EntryInv, StageInv, IsFirst
  <2>6. RowInv'
    BY <2>1, <2>2, <1>1, <1>4 DEF RowInv
  <2>7. RowIsNearest'
    BY <2>1, <2>2, <1>0, <1>1, <1>2, RowType DEF RowIsNearest
  <2> QED
    BY <2>1, <2>4, <2>5, <2>6, <2>7, <1>3 DEF EntryInv, KeysOfTable
<1>5. CASE pc \notin DOMAIN table
  <2>1. PICK s \in [1..Cardinality(DOMAIN table) -> DOMAIN table] :
            (\A k, l \in 1..Len(s) : k < l => s[k] < s[l]) /\ Begin(s, pc)
    BY <1>5 DEF LookupEntry
  <2>2. at' = "searchRow" /\ row' = row
    BY <1>5 DEF LookupEntry
  <2>3. s \in Seq(Int) /\ {s[k] : k \in 1..Len(s)} = DOMAIN table
    <3>1. IsFiniteSet(DOMAIN table)
      BY <1>0, <1>2, RowsFinite
    <3> QED
      BY <3>1, <2>1, <1>2, AllAddresses
  <2>4. SearchInv'
    BY <2>1, <2>3, <1>0, BeginKeepsInv
  <2>5. keys' = s /\ x' = pc
    BY <2>1 DEF Begin
  <2>6. TypeOK'
    BY <2>2, <2>4, <1>1, SameUnit DEF EntryInv, TypeOK
  <2>7. StageInv'
    BY <2>2, <1>1, SameUnit DEF EntryInv, StageInv, IsFirst
  <2>8. KeysOfTable'
    BY <2>1, <2>2, <2>3, <2>5, <1>1, <1>5 DEF KeysOfTable
  <2> QED
    BY <2>2, <2>6, <2>7, <2>8, <1>1, <1>3 DEF EntryInv, RowInv, RowIsNearest
<1> QED
  BY <1>4, <1>5

LEMMA ProbeRowEntry == ASSUME EntryInv, ProbeRow PROVE EntryInv'
<1>1. /\ at = "searchRow" /\ at' = at
      /\ UNCHANGED <<prog, pc, ranges, unit, sp, table, row, keys, x>>
  BY DEF ProbeRow, Probe, input
<1>2. SearchInv'
  BY ProbeKeepsInv DEF EntryInv, TypeOK, ProbeRow
<1>3. TypeOK'
  BY <1>1, <1>2, SameUnit DEF EntryInv, TypeOK
<1>4. StageInv'
  BY <1>1, SameUnit DEF EntryInv, StageInv, IsFirst
<1>5. TableInv'
  BY <1>1, SameUnit DEF EntryInv, TableInv
<1> QED
  BY <1>1, <1>3, <1>4, <1>5 DEF EntryInv, KeysOfTable, RowInv, RowIsNearest

LEMMA FoundRowEntry == ASSUME LookupInv, EntryInv, FoundRow PROVE EntryInv'
<1>0. prog \in Progs /\ pc \in Nat
  BY LookupAssumption DEF LookupInv
<1>1. /\ at = "searchRow" /\ ~(i < j) /\ row = NoRow /\ table = LineEntries(unit)
      /\ UNCHANGED <<prog, pc, ranges, unit, sp, table, keys, x, i, j>>
      /\ \/ i = 0 /\ at' = "noRow" /\ row' = row
         \/ i # 0 /\ at' = "done" /\ row' = table[keys[i]]
  BY DEF FoundRow, Searching, input, search, EntryInv, RowInv, TableInv
<1>2. /\ i \in 0..Len(keys) /\ i = j /\ Len(keys) \in Nat
      /\ i > 0 => keys[i] <= pc
      /\ i < Len(keys) => keys[i + 1] > pc
      /\ \A k \in 1..Len(keys) : keys[k] \in Int
      /\ \A k, l \in 1..Len(keys) : k < l => keys[k] < keys[l]
      /\ {keys[k] : k \in 1..Len(keys)} = DOMAIN table
  BY <1>1 DEF EntryInv, TypeOK, SearchInv, KeysOfTable
<1>3. /\ Rows(unit)' = Rows(unit) /\ DOMAIN table = {r.addr : r \in Rows(unit)}
  BY <1>0, <1>1, SameUnit, TableOfUnit
<1>4. ASSUME NEW r \in Rows(unit)
      PROVE  r.addr > pc \/ (i # 0 /\ r.addr <= keys[i])
  <2>1. PICK k \in 1..Len(keys) : keys[k] = r.addr
    BY <1>2, <1>3
  <2>2. CASE k <= i
    BY <2>1, <2>2, <1>2
  <2>3. CASE k > i
    <3>1. i + 1 \in 1..Len(keys) /\ i < Len(keys)
      BY <2>3, <1>2
    <3>2. keys[i + 1] <= keys[k]
      <4>1. CASE k = i + 1
        BY <4>1, <3>1, <1>2
      <4>2. CASE k > i + 1
        <5>1. keys[i + 1] < keys[k]
          BY <4>2, <3>1, <1>2
        <5> QED
          BY <5>1, <3>1, <1>2
      <4> QED
        BY <4>1, <4>2, <3>1, <2>3, <1>2
    <3> QED
      BY <3>1, <3>2, <2>1, <1>0, <1>2
  <2> QED
    BY <2>2, <2>3, <1>2
<1>5. CASE i # 0
  <2>1. keys[i] \in DOMAIN table /\ i \in 1..Len(keys)
    BY <1>2, <1>5
  <2>2. PICK r \in Rows(unit) : r.addr = keys[i]
    BY <2>1, <1>3
  <2>3. row' \in Rows(unit) /\ row'.addr = keys[i]
    BY <2>2, <1>0, <1>1, <1>5, LastRow
  <2>4. RowIsNearest'
    <3>1. ASSUME NEW q \in Rows(unit) PROVE ~(keys[i] < q.addr /\ q.addr <= pc)
      <4>1. q.addr \in Nat
        BY <1>0, RowType
      <4> QED
        BY <4>1, <2>1, <1>0, <1>2, <1>4
    <3> QED
      BY <3>1, <2>1, <2>3, <1>1, <1>2, <1>3, <1>5 DEF RowIsNearest
  <2>5. RowInv'
    BY <2>1, <2>3, <1>1, <1>5 DEF RowInv
  <2> HIDE <1>4
  <2>6. row' \in Rows(unit)'
    BY <2>3, <1>3
  <2> QED
    BY <2>4, <2>5, <2>6, <1>1, <1>5, SameUnit
    DEF EntryInv, TypeOK, SearchInv, StageInv, IsFirst, TableInv, KeysOfTable
<1>6. CASE i = 0
  <2>1. RowIsNearest'
    BY <1>1, <1>3, <1>4, <1>6 DEF RowIsNearest
  <2> QED
    BY <2>1, <1>1, <1>6, SameUnit
    DEF EntryInv, TypeOK, SearchInv, StageInv, IsFirst, TableInv, KeysOfTable, RowInv
<1> QED
  BY <1>5, <1>6


LEMMA NextEntry == ASSUME LookupInv, EntryInv, [Next]_vars PROVE EntryInv'
<1>0. LookupInv'
  BY NextLookup
<1>1. CASE SortRanges
  BY <1>0, <1>1, SortRangesEntry
<1>2. CASE ProbeUnit \/ FoundUnit
  BY <1>2, ProbeUnitEntry, FoundUnitEntry
<1>3. CASE FindSubprogram
  BY <1>3, FindSubprogramEntry
<1>4. CASE ReadTable \/ ReadTableForever
  BY <1>4, ReadTableEntry
<1>5. CASE LookupEntry
  BY <1>5, LookupEntryEntry
<1>6. CASE ProbeRow \/ FoundRow
  BY <1>6, ProbeRowEntry, FoundRowEntry
<1>7. CASE UNCHANGED vars
  <2>1. UNCHANGED <<prog, pc, at, ranges, unit, sp, table, row, keys, x, i, j>>
    BY <1>7 DEF vars, input, search
  <2>2. SearchInv'
    BY <2>1 DEF EntryInv, TypeOK, SearchInv
  <2>3. TypeOK'
    BY <2>1, <2>2, SameUnit DEF EntryInv, TypeOK
  <2>4. StageInv'
    BY <2>1, SameUnit DEF EntryInv, StageInv, IsFirst
  <2>5. TableInv' /\ KeysOfTable' /\ RowInv' /\ RowIsNearest'
    BY <2>1, SameUnit DEF EntryInv, TableInv, KeysOfTable, RowInv, RowIsNearest
  <2> QED
    BY <2>3, <2>4, <2>5 DEF EntryInv
<1> QED
  BY <1>1, <1>2, <1>3, <1>4, <1>5, <1>6, <1>7 DEF Next

(* The two invariants together, from which the theorems about the function *)
(* and the row follow (debuginfo.go:199-243, debugline.go:64-155).         *)
THEOREM LookupInvariant == Spec => [](LookupInv /\ EntryInv)
<1>1. Init => LookupInv /\ EntryInv
  BY InitLookup, InitEntry
<1>2. LookupInv /\ EntryInv /\ [Next]_vars => (LookupInv /\ EntryInv)'
  BY NextLookup, NextEntry
<1> QED
  BY <1>1, <1>2, PTL DEF Spec

-----------------------------------------------------------------------------
(* The function and the row of an address. *)

(* The hull of parts in ascending order contains every part. *)
LEMMA PartInHull ==
    ASSUME prog \in Progs, pc \in Nat, NEW f \in Funcs, Has(f), PartsAscend(f)
    PROVE  InHull(f)
<1> DEFINE parts == prog[f].parts
           n == Len(parts)
<1>1. PICK k \in 1..n : parts[k][1] <= pc /\ pc < parts[k][2]
  BY DEF Has, Parts
<1>2. n \in Nat /\ 1 \in 1..n /\ n \in 1..n
  BY <1>1, ProgType
<1>3. \A l \in 1..n : parts[l][1] \in Nat /\ parts[l][2] \in Nat /\ parts[l][1] < parts[l][2]
  <2>1. \A l \in 1..n : parts[l] \in Nat \X Nat /\ parts[l][1] < parts[l][2]
    BY ProgType
  <2> QED
    BY <2>1
<1>4. \A l, m \in 1..n : l < m => parts[l][2] <= parts[m][1]
  BY DEF PartsAscend
<1>5. parts[1][1] <= parts[k][1]
  <2>1. CASE k = 1
    BY <2>1, <1>2, <1>3
  <2>2. CASE 1 < k
    <3>1. parts[1][2] <= parts[k][1]
      BY <2>2, <1>2, <1>4
    <3> QED
      BY <3>1, <1>2, <1>3
  <2> QED
    BY <2>1, <2>2, <1>2
<1>6. parts[k][2] <= parts[n][2]
  <2>1. CASE k = n
    BY <2>1, <1>2, <1>3
  <2>2. CASE k < n
    <3>1. parts[k][2] <= parts[n][1]
      BY <2>2, <1>2, <1>4
    <3> QED
      BY <3>1, <1>2, <1>3
  <2> QED
    BY <2>1, <2>2, <1>2
<1>7. parts[1][1] <= pc /\ pc < parts[n][2]
  <2>1. /\ parts[1][1] \in Nat /\ parts[n][2] \in Nat
        /\ parts[k][1] \in Nat /\ parts[k][2] \in Nat
    BY <1>2, <1>3
  <2> HIDE DEF parts, n
  <2> QED
    BY <2>1, <1>1, <1>5, <1>6
<1> QED
  BY <1>7 DEF InHull

LEMMA HullOfOnePart ==
    ASSUME prog \in Progs, NEW f \in Funcs, InHull(f), ~IsSplit(f)
    PROVE  Has(f)
<1>1. Len(prog[f].parts) \in Nat /\ prog[f].parts # << >> /\ prog[f].parts \in Seq(Nat \X Nat)
  BY ProgType, LookupAssumption DEF Funcs
<1>2. Len(prog[f].parts) # 0
  BY <1>1, EmptySeq
<1>3. Len(prog[f].parts) = 1
  <2>1. ~(Len(prog[f].parts) > 1)
    BY DEF IsSplit
  <2>2. \A n \in Nat : n # 0 /\ ~(n > 1) => n = 1
    OBVIOUS
  <2> QED
    BY <2>1, <2>2, <1>1, <1>2, Zenon
<1>4. prog[f].parts[1] \in Parts(f)
  BY <1>3 DEF Parts
<1> QED
  BY <1>3, <1>4 DEF InHull, Has

LEMMA OneOwner ==
    ASSUME prog \in Progs, pc \in Nat, Disjoint,
           NEW f \in Funcs, NEW g \in Funcs, Has(f), Has(g)
    PROVE  f = g
<1>1. PICK k \in 1..Len(prog[f].parts) : prog[f].parts[k][1] <= pc /\ pc < prog[f].parts[k][2]
  BY DEF Has, Parts
<1>2. PICK l \in 1..Len(prog[g].parts) : prog[g].parts[l][1] <= pc /\ pc < prog[g].parts[l][2]
  BY DEF Has, Parts
<1>3. prog[f].parts[k] \in Nat \X Nat /\ prog[g].parts[l] \in Nat \X Nat
  BY ProgType
<1>4. /\ prog[f].parts[k][1] \in Nat /\ prog[f].parts[k][2] \in Nat
      /\ prog[g].parts[l][1] \in Nat /\ prog[g].parts[l][2] \in Nat
  BY <1>3
<1>5. f # g => \/ prog[f].parts[k][2] <= prog[g].parts[l][1]
               \/ prog[g].parts[l][2] <= prog[f].parts[k][1]
  BY DEF Disjoint
<1>6. \A lo, hi \in Nat : lo <= pc /\ pc < hi => ~(hi <= lo)
  OBVIOUS
<1> QED
  BY <1>1, <1>2, <1>4, <1>5, <1>6, Zenon

LEMMA OwnerFound == ASSUME LookupInv, EntryInv PROVE SubprogramIsOwner
<1> SUFFICES ASSUME Disjoint
             PROVE  /\ at = "panic" => \A f \in Funcs : Has(f) => ~PartsAscend(f)
                    /\ sp # 0 =>
                          /\ Has(sp) \/ IsSplit(sp)
                          /\ \A f \in Funcs : Has(f) /\ PartsAscend(f)
                                => sp = f \/ (sp < f /\ IsSplit(sp))
  BY DEF SubprogramIsOwner
<1>0. prog \in Progs /\ pc \in Nat
  BY LookupAssumption DEF LookupInv
<1>1. ASSUME NEW f \in Funcs, Has(f), PartsAscend(f), unit # 0
      PROVE  prog[f].unit = unit /\ InHull(f)
  BY <1>0, <1>1, PartInHull DEF LookupInv, UnitIsOwner
<1>2. at \in {"panic", "table", "looping", "entry", "searchRow", "done", "noRow"} => unit # 0
  BY <1>0, ProgType DEF EntryInv, StageInv
<1>3. ASSUME at = "panic", NEW f \in Funcs, Has(f), PartsAscend(f) PROVE FALSE
  BY <1>1, <1>2, <1>3 DEF EntryInv, StageInv
<1>4. ASSUME sp # 0
      PROVE  /\ Has(sp) \/ IsSplit(sp)
             /\ \A f \in Funcs : Has(f) /\ PartsAscend(f) => sp = f \/ (sp < f /\ IsSplit(sp))
  <2>1. at \in {"table", "looping", "entry", "searchRow", "done", "noRow"}
    BY <1>4 DEF EntryInv, StageInv, TypeOK
  <2>2. IsFirst(sp, {f \in Funcs : prog[f].unit = unit /\ InHull(f)})
    BY <2>1 DEF EntryInv, StageInv
  <2>3. /\ sp \in Funcs /\ InHull(sp)
        /\ \A f \in Funcs : prog[f].unit = unit /\ InHull(f) => sp <= f
    BY <2>2 DEF IsFirst
  <2>4. Has(sp) \/ IsSplit(sp)
    BY <2>3, <1>0, HullOfOnePart
  <2>5. ASSUME NEW f \in Funcs, Has(f), PartsAscend(f)
        PROVE  sp = f \/ (sp < f /\ IsSplit(sp))
    <3>1. sp <= f
      BY <2>1, <2>3, <2>5, <1>1, <1>2
    <3>2. ~IsSplit(sp) => sp = f
      BY <2>3, <2>4, <2>5, <1>0, OneOwner
    <3>3. sp \in Int /\ f \in Int
      BY <2>3 DEF Funcs
    <3> QED
      BY <3>1, <3>2, <3>3
  <2> QED
    BY <2>4, <2>5
<1> QED
  BY <1>3, <1>4


(* The row found is one of the part that has the address, or one that ends *)
(* a part exactly where that part begins and comes later in the table.     *)
LEMMA OwnRowFound == ASSUME LookupInv, EntryInv PROVE OwnRowUnlessReplaced
<1> SUFFICES ASSUME at = "done", Disjoint, NEW f \in Funcs, Has(f)
             PROVE  \/ row.fn = f /\ ~row.end
                    \/ /\ ~Ascending /\ row.end
                       /\ \E r \in Rows(unit) :
                             r.fn = f /\ ~r.end /\ r.addr = row.addr /\ After(row, r)
  BY DEF OwnRowUnlessReplaced
<1>0. prog \in Progs /\ pc \in Nat
  BY LookupAssumption DEF LookupInv
<1>1. unit = prog[f].unit
  <2>1. unit # 0
    BY <1>0, ProgType DEF EntryInv, StageInv
  <2> QED
    BY <2>1 DEF LookupInv, UnitIsOwner
<1>2. PICK k \in 1..Len(prog[f].parts) : prog[f].parts[k][1] <= pc /\ pc < prog[f].parts[k][2]
  BY DEF Has, Parts
<1> DEFINE lo == prog[f].parts[k][1]
           hi == prog[f].parts[k][2]
           first == [addr |-> lo, fn |-> f, part |-> k, end |-> FALSE]
<1>3. lo \in Nat /\ hi \in Nat /\ f \in Nat /\ k \in Nat
  <2>1. prog[f].parts[k] \in Nat \X Nat
    BY <1>0, ProgType
  <2>2. lo \in Nat /\ hi \in Nat
    BY <2>1
  <2>3. Len(prog) \in Nat /\ Len(prog[f].parts) \in Nat
    BY <1>0, ProgType
  <2>4. f \in Nat /\ k \in Nat
    BY <2>3 DEF Funcs
  <2> QED
    BY <2>2, <2>4
<1>4. first \in Rows(unit)
  BY <1>0, <1>1, FirstRowOfPart
<1>5. /\ row \in Rows(unit) /\ row.addr <= pc
      /\ \A r \in Rows(unit) : ~(row.addr < r.addr /\ r.addr <= pc)
      /\ \A q \in Rows(unit) : q.addr = row.addr /\ q # row => After(row, q)
  <2>1. row.addr \in DOMAIN table /\ row = table[row.addr] /\ table = LineEntries(unit)
    BY DEF EntryInv, RowInv, TableInv
  <2>2. PICK r \in Rows(unit) : r.addr = row.addr
    <3>1. row.addr \in {r.addr : r \in Rows(unit)}
      BY <2>1, TableOfUnit, Zenon
    <3> QED
      BY <3>1
  <2>3. row \in Rows(unit) /\ \A q \in Rows(unit) : q.addr = row.addr /\ q # row => After(row, q)
    BY <2>1, <2>2, <1>0, LastRow
  <2> QED
    BY <2>3 DEF EntryInv, RowIsNearest
<1> DEFINE g == row.fn
           l == row.part
           from == prog[g].parts[l][1]
           to == prog[g].parts[l][2]
<1>6. /\ row.addr \in Nat /\ g \in Funcs /\ l \in 1..Len(prog[g].parts) /\ g \in Nat /\ l \in Nat
      /\ prog[g].unit = unit
      /\ row.end = (row.addr = to) /\ from <= row.addr /\ row.addr <= to
  BY <1>0, <1>5, RowType
<1>7. from \in Nat /\ to \in Nat /\ from < to
  <2>1. prog[g].parts[l] \in Nat \X Nat /\ prog[g].parts[l][1] < prog[g].parts[l][2]
    BY <1>0, <1>6, ProgType
  <2> QED
    BY <2>1
<1>8. lo <= row.addr
  <2>1. ~(row.addr < first.addr /\ first.addr <= pc)
    BY <1>4, <1>5
  <2> HIDE DEF lo
  <2> QED
    BY <2>1, <1>0, <1>2, <1>3, <1>6 DEF lo
<1>9. CASE <<g, l>> = <<f, k>>
  <2>1. g = f /\ to = hi
    BY <1>9
  <2>2. row.addr # to
    <3> HIDE DEF hi, to
    <3> QED
      BY <2>1, <1>0, <1>2, <1>3, <1>5, <1>6 DEF hi
  <2> QED
    BY <2>1, <2>2, <1>6
<1>10. CASE <<g, l>> # <<f, k>>
  <2>1. to <= lo \/ hi <= from
    BY <1>10, <1>6 DEF Disjoint
  <2>2. pc < hi /\ row.addr <= pc
    BY <1>2, <1>5
  <2>3. row.addr = lo /\ row.addr = to
    <3> HIDE DEF lo, hi, from, to
    <3> QED
      BY <2>1, <2>2, <1>0, <1>3, <1>6, <1>7, <1>8
  <2>4. row.end
    BY <2>3, <1>6
  <2>5. After(row, first)
    <3>1. first.addr = row.addr /\ first # row
      BY <2>3, <2>4
    <3> QED
      BY <3>1, <1>4, <1>5
  <2> DEFINE start == [addr |-> from, fn |-> g, part |-> l, end |-> FALSE]
  <2>6. start \in Rows(unit)
    BY <1>0, <1>6, FirstRowOfPart
  <2>7. After(start, first)
    <3>1. g > f \/ (g = f /\ l > k)
      BY <2>3, <2>5, <1>3, <1>6 DEF After
    <3> QED
      BY <3>1 DEF After
  <2>8. ~(start.addr >= first.addr)
    <3> HIDE DEF lo, from, to
    <3> QED
      BY <2>3, <1>3, <1>7
  <2>9. ~Ascending
    BY <1>4, <2>6, <2>7, <2>8 DEF Ascending
  <2> QED
    BY <2>3, <2>4, <2>5, <2>9, <1>4
<1> QED
  BY <1>9, <1>10

-----------------------------------------------------------------------------
(* A lookup is always in one of its states, with its unit, function and    *)
(* row those of the program, and its search within bounds.                 *)
THEOREM TypeCorrect == Spec => []TypeOK
<1>1. LookupInv /\ EntryInv => TypeOK
  BY DEF EntryInv
<1> QED
  BY <1>1, LookupInvariant, PTL

(* An address that a function covers is found in it, or in an earlier one  *)
(* that is split; it panics only if the parts of its function are not in   *)
(* ascending order (debuginfo.go:231).                                     *)
THEOREM SubprogramFound == Spec => []SubprogramIsOwner
<1>1. LookupInv /\ EntryInv => SubprogramIsOwner
  BY OwnerFound
<1> QED
  BY <1>1, LookupInvariant, PTL

(* The line entry is the nearest row of the unit at or before the address, *)
(* whatever the order of the table (debugline.go:68-85).                   *)
THEOREM RowFound == Spec => []RowIsNearest
<1>1. LookupInv /\ EntryInv => RowIsNearest
  BY DEF EntryInv
<1> QED
  BY <1>1, LookupInvariant, PTL

(* It is a row of the function that covers the address unless the end row  *)
(* of a neighbour came later in an unsorted table (debugline.go:146-152).  *)
THEOREM OwnRow == Spec => []OwnRowUnlessReplaced
<1>1. LookupInv /\ EntryInv => OwnRowUnlessReplaced
  BY OwnRowFound
<1> QED
  BY <1>1, LookupInvariant, PTL
-----------------------------------------------------------------------------
(* Where every function is in one piece and no two overlap, as a compiler  *)
(* that splits none and a linker leave them, the lookup of an address that *)
(* a function covers never fails and never panics, and it ends with that   *)
(* function and its unit; if the table is in the order of its addresses,   *)
(* with a row of the function as well (dwarf.go:121-186).                  *)
InOnePiece == \A f \in Funcs : ~IsSplit(f)

FoundAsItIs ==
    Disjoint /\ InOnePiece =>
        \A f \in Funcs : Has(f) =>
            /\ at \notin {"noUnit", "panic", "noRow"}
            /\ at = "done" =>
                  /\ unit = prog[f].unit /\ sp = f
                  /\ Ascending => row.fn = f /\ ~row.end

THEOREM TidyLookups == Spec => []FoundAsItIs
<1>1. ASSUME LookupInv, EntryInv, Disjoint, InOnePiece, NEW f \in Funcs, Has(f)
      PROVE  /\ at \notin {"noUnit", "panic", "noRow"}
             /\ at = "done" =>
                   /\ unit = prog[f].unit /\ sp = f
                   /\ Ascending => row.fn = f /\ ~row.end
  <2>1. prog \in Progs /\ pc \in PCs /\ pc \in Nat /\ UnitIsOwner /\ SubprogramIsOwner
    BY <1>1, OwnerFound, LookupAssumption DEF LookupInv
  <2>2. at # "noUnit"
    BY <1>1, <2>1 DEF UnitIsOwner, Covered
  <2>3. PartsAscend(f)
    <3>1. Len(prog[f].parts) \in Nat /\ ~(Len(prog[f].parts) > 1)
      BY <1>1, <2>1, ProgType DEF InOnePiece, IsSplit
    <3> QED
      BY <3>1 DEF PartsAscend
  <2>4. at # "panic"
    BY <1>1, <2>1, <2>3 DEF SubprogramIsOwner
  <2>5. at \in {"done", "noRow"} => unit = prog[f].unit
    <3>1. at \in {"done", "noRow"} => unit \in {prog[g].unit : g \in Funcs}
      BY <1>1 DEF EntryInv, StageInv
    <3>2. \A g \in Funcs : prog[g].unit \in Nat \ {0}
      BY <2>1, ProgType
    <3>3. unit # 0 => unit = prog[f].unit
      BY <1>1, <2>1 DEF UnitIsOwner
    <3> QED
      BY <3>1, <3>2, <3>3
  <2>6. at # "noRow"
    <3>1. SUFFICES ASSUME at = "noRow" PROVE FALSE
      OBVIOUS
    <3>2. PICK k \in 1..Len(prog[f].parts) :
             prog[f].parts[k][1] <= pc /\ pc < prog[f].parts[k][2]
      BY <1>1 DEF Has, Parts
    <3> DEFINE r == [addr |-> prog[f].parts[k][1], fn |-> f, part |-> k, end |-> FALSE]
    <3>3. r \in Rows(unit)
      BY <2>1, <2>5, <3>1, FirstRowOfPart
    <3>4. r.addr > pc
      BY <1>1, <3>1, <3>3 DEF EntryInv, RowIsNearest
    <3>5. prog[f].parts[k][1] \in Nat
      BY <1>1, <2>1, ProgType
    <3> QED
      BY <2>1, <3>2, <3>4, <3>5
  <2>7. at = "done" => sp = f
    <3>1. at = "done" => sp \in Funcs /\ sp # 0
      <4>1. at = "done" => sp \in Funcs
        BY <1>1 DEF EntryInv, StageInv, IsFirst
      <4> QED
        BY <4>1 DEF Funcs
    <3> QED
      BY <1>1, <2>1, <2>3, <3>1 DEF SubprogramIsOwner, InOnePiece
  <2>8. at = "done" /\ Ascending => row.fn = f /\ ~row.end
    BY <1>1, OwnRowFound DEF OwnRowUnlessReplaced
  <2> QED
    BY <2>2, <2>4, <2>5, <2>6, <2>7, <2>8
<1>2. LookupInv /\ EntryInv => FoundAsItIs
  BY <1>1 DEF FoundAsItIs
<1> QED
  BY <1>2, LookupInvariant, PTL

(* Every step of a lookup goes on to a later stage or narrows a search, of *)
(* which the width is never negative: no binary search (sort.Search at     *)
(* debuginfo.go:75 and debugline.go:79) goes on for ever, sorted or not,   *)
(* and the only loop that does is the one of ReadTableForever.             *)
Stage ==
    CASE at = "units"      -> 6
      [] at = "searchUnit" -> 5
      [] at = "subprogram" -> 4
      [] at = "table"      -> 3
      [] at = "entry"      -> 2
      [] at = "searchRow"  -> 1
      [] OTHER             -> 0

Width == j - i

THEOREM LookupsEnd ==
    Spec => [](Width \in Nat) /\ [][Stage' < Stage \/ (Stage' = Stage /\ Width' < Width)]_vars
<1>1. LookupInv /\ EntryInv => Width \in Nat
  BY DEF EntryInv, TypeOK, SearchInv, Width
<1>2. ASSUME LookupInv, EntryInv, Next
      PROVE  Stage' < Stage \/ (Stage' = Stage /\ Width' < Width)
  <2>1. CASE SortRanges
    BY <2>1 DEF SortRanges, Stage
  <2>2. ASSUME Probe, at' = at
        PROVE  Stage' = Stage /\ Width' < Width
    <3>1. i \in Nat /\ j \in Nat /\ i < j
      BY <1>2, <2>2 DEF EntryInv, TypeOK, SearchInv, Probe, Searching
    <3>2. (j' = (i + j) \div 2 /\ i' = i) \/ (i' = (i + j) \div 2 + 1 /\ j' = j)
      BY <2>2 DEF Probe
    <3>3. (i + j) \div 2 \in Nat /\ i <= (i + j) \div 2 /\ (i + j) \div 2 < j
      BY <3>1
    <3>4. Width' < Width
      BY <3>1, <3>2, <3>3 DEF Width
    <3> QED
      BY <2>2, <3>4 DEF Stage
  <2>3. CASE ProbeUnit
    BY <2>2, <2>3 DEF ProbeUnit
  <2>4. CASE FoundUnit
    BY <2>4 DEF FoundUnit, Stage
  <2>5. CASE FindSubprogram
    BY <2>5 DEF FindSubprogram, Stage
  <2>6. CASE ReadTable \/ ReadTableForever
    BY <2>6 DEF ReadTable, ReadTableForever, Stage
  <2>7. CASE LookupEntry
    BY <2>7 DEF LookupEntry, Stage
  <2>8. CASE ProbeRow
    BY <2>2, <2>8 DEF ProbeRow
  <2>9. CASE FoundRow
    BY <2>9 DEF FoundRow, Stage
  <2> QED
    BY <1>2, <2>1, <2>3, <2>4, <2>5, <2>6, <2>7, <2>8, <2>9 DEF Next
<1> QED
  BY <1>1, <1>2, LookupInvariant, PTL DEF Spec
=============================================================================
