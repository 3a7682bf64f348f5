---------------------------- MODULE DieWalkProofs ----------------------------
(***************************************************************************)
(* Proofs about the walks over the entries, for every well formed sequence *)
(* of entries of any length: what findAllFuncs lists, with which depth,    *)
(* that the list is fit for cmd/callgraph, that the subroutines of a       *)
(* subprogram are inside it, which frames an address gets, and that the    *)
(* walks end.                                                              *)
(***************************************************************************)
EXTENDS DieWalk, SortingProofs, SequenceTheorems

-----------------------------------------------------------------------------
(* The inductive invariant. *)

FuncOf(t) == [die : 1..Len(t), depth : Int]

Finding == at \in {"findAllFuncs", "finalFuncs", "funcs"}

(* The reader's level is that of the next entry or below it, and findAll-  *)
(* Funcs counts the same.                                                  *)
ReaderInv ==
    at = "findAllFuncs" =>
        /\ nest \in Nat /\ depth = nest
        /\ first <=> pos = 1
        /\ pos = 1 => nest = 0
        /\ pos <= Len(dies) => dies[pos].level <= nest

(* What was read of the unit, and where it ends. *)
UnitInv ==
    Finding =>
        /\ pos \in 1..(Len(dies) + 1)
        /\ \A k \in 2..(pos - 1) : dies[k].tag # "unit"
        /\ at # "findAllFuncs" =>
              /\ pos > 1
              /\ pos <= Len(dies) => dies[pos].tag = "unit"

TypedLists ==
    /\ funcs \in Seq(FuncOf(dies))
    /\ final \in Seq(FuncOf(dies))

LevelsInv ==
    Finding =>
        /\ TypedLists
        /\ \A k \in 1..Len(funcs) : funcs[k].depth = dies[funcs[k].die].level
        /\ \A k \in 1..Len(final) : final[k].depth = dies[final[k].die].level

(* final before funcs is a list of the entries read, in their order. *)
OrderInv ==
    Finding =>
        /\ \A a, b \in 1..Len(funcs) : a < b => funcs[a].die < funcs[b].die
        /\ \A a, b \in 1..Len(final) : a < b => final[a].die < final[b].die
        /\ \A a \in 1..Len(final), b \in 1..Len(funcs) : final[a].die < funcs[b].die

(* ... of functions only, and of each with code. *)
ListedInv ==
    Finding =>
        /\ \A k \in 1..Len(funcs) :
              funcs[k].die < pos /\ IsFunc(dies[funcs[k].die]) /\ Listed(dies[funcs[k].die])
        /\ \A k \in 1..Len(final) : final[k].die < pos /\ HasCode(dies[final[k].die])
        /\ \A d \in 1..(pos - 1) : HasCode(dies[d]) =>
              \/ \E k \in 1..Len(funcs) : funcs[k].die = d
              \/ \E k \in 1..Len(final) : final[k].die = d
        /\ at = "findAllFuncs" => final = << >>
        /\ at = "funcs" => funcs = << >>

Subroutines == at \in {"getSubroutines", "subroutines", "frames"}

(* Behind its subprogram the walk has passed no other one. *)
SubInv ==
    /\ at = "getSubprogram" =>
          pos \in 1..(Len(dies) + 1) /\ nest \in Nat /\ funcs = << >> /\ depth \in Int
    /\ Subroutines =>
          /\ sp.die \in 1..Len(dies) /\ dies[sp.die].tag = "subprogram"
          /\ pos \in sp.die..(Len(dies) + 1) /\ nest \in Nat
          /\ first => pos = sp.die
          /\ \A m \in (sp.die + 1)..(pos - 1) : dies[m].tag # "subprogram"
          /\ funcs \in Seq(FuncOf(dies))
          /\ \A k \in 1..Len(funcs) :
                funcs[k].die > sp.die /\ funcs[k].die < pos /\ dies[funcs[k].die].tag = "inlined"
          /\ depth \in Int /\ sp.depth \in Int

WalkInv ==
    /\ dies \in Trees
    /\ ReaderInv /\ UnitInv
    /\ LevelsInv /\ OrderInv /\ ListedInv
    /\ SubInv

-----------------------------------------------------------------------------
(* The entries. *)

LEMMA TreeFacts ==
    ASSUME NEW t \in Trees
    PROVE  /\ t \in Seq(Entries) /\ Len(t) \in Nat /\ Len(t) >= 1
           /\ t[1].tag = "unit"
           /\ \A k \in 1..Len(t) : t[k] \in Entries /\ t[k].level \in Nat /\ t[k].form \in Forms
           /\ \A k \in 1..Len(t) : t[k].tag = "unit" <=> t[k].level = 0
           /\ \A k \in 2..Len(t) : t[k].level <= t[k - 1].level + 1
           /\ \A k \in 1..Len(t) : t[k].tag = "inlined" =>
                 \E i \in 1..(k - 1) : t[i].tag = "subprogram" /\ Inside(t, k, i)
<1>1. t \in Seq(Entries) /\ WellFormed(t)
  BY TreesAssumption
<1>2. Len(t) \in Nat /\ t # << >> /\ t[1].tag = "unit" /\ \A k \in 1..Len(t) : Fits(t, k)
  BY <1>1 DEF WellFormed
<1>3. Len(t) >= 1
  BY <1>1, <1>2
<1>4. \A k \in 1..Len(t) : t[k] \in Entries
  BY <1>1
<1>5. \A k \in 1..Len(t) : t[k].level \in Nat /\ t[k].form \in Forms
  BY <1>4 DEF Entries
<1>6. ASSUME NEW k \in 1..Len(t)
      PROVE  /\ t[k].tag = "unit" <=> t[k].level = 0
             /\ k > 1 => t[k].level <= t[k - 1].level + 1
             /\ t[k].tag = "inlined" =>
                   \E i \in 1..(k - 1) : t[i].tag = "subprogram" /\ Inside(t, k, i)
  <2>1. Fits(t, k)
    BY <1>2
  <2> QED
    BY <2>1 DEF Fits
<1>7. \A k \in 2..Len(t) : k \in 1..Len(t) /\ k > 1
  BY <1>2
<1> QED
  BY <1>1, <1>2, <1>3, <1>4, <1>5, <1>6, <1>7

(* When an entry is next, the reader is at its level; the level of the one *)
(* after it is at most that at which the reader goes on.                   *)
LEMMA LevelOfNext ==
    ASSUME dies \in Trees, pos \in 1..Len(dies), nest \in Nat,
           dies[pos].level <= nest, DieNext, ReadDie
    PROVE  /\ nest = dies[pos].level
           /\ pos' = pos + 1 /\ nest' \in Nat
           /\ nest' = IF HasChildren(dies, pos) THEN nest + 1 ELSE nest
           /\ pos + 1 <= Len(dies) => dies[pos + 1].level <= nest'
<1>1. /\ Len(dies) \in Nat
      /\ \A k \in 1..Len(dies) : dies[k].level \in Nat
      /\ \A k \in 2..Len(dies) : dies[k].level <= dies[k - 1].level + 1
  BY TreeFacts
<1>2. nest = dies[pos].level
  <2>1. ~(nest > dies[pos].level)
    BY <1>1 DEF DieNext, NullNext
  <2> QED
    BY <2>1, <1>1
<1>3. pos' = pos + 1 /\ nest' = IF HasChildren(dies, pos) THEN nest + 1 ELSE nest
  BY DEF ReadDie
<1>4. ASSUME pos + 1 <= Len(dies)
      PROVE  dies[pos + 1].level <= nest'
  <2>1. pos + 1 \in 2..Len(dies) /\ pos + 1 \in 1..Len(dies) /\ (pos + 1) - 1 = pos
    BY <1>1, <1>4
  <2>2. dies[pos + 1].level \in Nat /\ dies[pos + 1].level <= dies[pos].level + 1
    BY <1>1, <2>1
  <2>3. pos < Len(dies)
    BY <1>1, <1>4
  <2>4. CASE dies[pos + 1].level > dies[pos].level
    <3>1. HasChildren(dies, pos)
      BY <2>3, <2>4 DEF HasChildren
    <3> QED
      BY <3>1, <1>2, <1>3, <2>2
  <2>5. CASE ~(dies[pos + 1].level > dies[pos].level)
    <3>1. ~HasChildren(dies, pos)
      BY <2>5 DEF HasChildren
    <3> QED
      BY <3>1, <1>2, <1>3, <2>2, <2>5, <1>1
  <2> QED
    BY <2>4, <2>5
<1> QED
  BY <1>2, <1>3, <1>4

(* The next entry is one of the sequence. *)
LEMMA DieIsThere ==
    ASSUME dies \in Trees, pos \in 1..(Len(dies) + 1), nest \in Nat, DieNext
    PROVE  pos \in 1..Len(dies)
<1>1. Len(dies) \in Nat
  BY TreeFacts
<1>2. CASE pos > Len(dies)
  BY <1>1, <1>2 DEF DieNext, NullNext, NoneNext
<1> QED
  BY <1>1, <1>2

(* What is listed is an entry. *)
LEMMA ListedDie ==
    ASSUME NEW s \in Seq(FuncOf(dies)), NEW k \in 1..Len(s)
    PROVE  s[k] \in FuncOf(dies) /\ s[k].die \in 1..Len(dies) /\ s[k].depth \in Int
<1>1. s[k] \in FuncOf(dies)
  OBVIOUS
<1> QED
  BY <1>1 DEF FuncOf

-----------------------------------------------------------------------------
(* Initially. *)

LEMMA InitInv ==
    ASSUME Init
    PROVE  WalkInv
<1>1. /\ dies \in Trees /\ pos = 1 /\ nest = 0 /\ first = TRUE /\ depth = 0
      /\ funcs = << >> /\ final = << >>
      /\ at \in {"findAllFuncs", "getSubprogram"}
  BY DEF Init
<1>2. /\ Len(dies) \in Nat /\ Len(dies) >= 1 /\ dies[1].tag = "unit"
      /\ \A k \in 1..Len(dies) : dies[k].tag = "unit" <=> dies[k].level = 0
  BY <1>1, TreeFacts
<1>3. dies[1].level = 0
  BY <1>2
<1>4. funcs \in Seq(FuncOf(dies)) /\ Len(funcs) = 0 /\ Len(final) = 0
  BY <1>1
<1>5. ReaderInv
  BY <1>1, <1>2, <1>3 DEF ReaderInv
<1>6. UnitInv
  BY <1>1, <1>2 DEF UnitInv, Finding
<1>7. LevelsInv
  BY <1>1, <1>4 DEF LevelsInv, TypedLists
<1>8. OrderInv
  BY <1>4 DEF OrderInv
<1>9. ListedInv
  BY <1>1, <1>4 DEF ListedInv
<1>10. SubInv
  BY <1>1, <1>2 DEF SubInv, Subroutines
<1> QED
  BY <1>1, <1>5, <1>6, <1>7, <1>8, <1>9, <1>10 DEF WalkInv

-----------------------------------------------------------------------------
(* The steps of findAllFuncs. *)

LEMMA FindAllFuncsKeepsInv ==
    ASSUME WalkInv, FindAllFuncs
    PROVE  WalkInv'
<1>1. at = "findAllFuncs" /\ DieNext /\ ~AtNextUnit /\ dies' = dies /\ final' = final
  BY DEF FindAllFuncs
<1>2. /\ dies \in Trees /\ pos \in 1..(Len(dies) + 1) /\ nest \in Nat /\ depth = nest
      /\ (first <=> pos = 1) /\ final = << >> /\ funcs \in Seq(FuncOf(dies))
      /\ (pos <= Len(dies) => dies[pos].level <= nest)
  BY <1>1 DEF WalkInv, ReaderInv, UnitInv, LevelsInv, TypedLists, ListedInv, Finding
<1>3. pos \in 1..Len(dies) /\ Len(dies) \in Nat /\ Len(funcs) \in Nat
  BY <1>1, <1>2, DieIsThere, TreeFacts
<1>4. CASE IsFunc(Die) /\ Die.form = "broken"
  <2>1. at' \in {"error", "panic"}
    BY <1>4 DEF FindAllFuncs, Fail
  <2> QED
    BY <2>1, <1>1, <1>2
    DEF WalkInv, ReaderInv, UnitInv, LevelsInv, OrderInv, ListedInv, SubInv, Finding, Subroutines
<1>5. CASE ~(IsFunc(Die) /\ Die.form = "broken")
  <2>1. /\ ReadDie /\ first' = FALSE /\ at' = at /\ depth' = Deeper
        /\ funcs' = IF IsFunc(Die) /\ Listed(Die) THEN Append(funcs, Func) ELSE funcs
    BY <1>5 DEF FindAllFuncs, Uncounted
  <2>2. /\ nest = dies[pos].level /\ pos' = pos + 1 /\ nest' \in Nat
        /\ nest' = IF HasChildren(dies, pos) THEN nest + 1 ELSE nest
        /\ (pos + 1 <= Len(dies) => dies[pos + 1].level <= nest')
    BY <1>1, <1>2, <1>3, <2>1, LevelOfNext
  <2>3. ReaderInv'
    BY <1>1, <1>2, <1>3, <2>1, <2>2 DEF ReaderInv, Deeper
  <2>4. UnitInv'
    <3>1. \A k \in 2..(pos - 1) : dies[k].tag # "unit"
      BY <1>1 DEF WalkInv, UnitInv, Finding
    <3>2. pos > 1 => dies[pos].tag # "unit"
      BY <1>1, <1>2, <1>3 DEF AtNextUnit, Die
    <3>3. \A k \in 2..(pos' - 1) : dies[k].tag # "unit"
      BY <3>1, <3>2, <2>2, <1>3
    <3> QED
      BY <3>3, <1>1, <1>3, <2>1, <2>2 DEF UnitInv, Finding
  <2>5. Func = [die |-> pos, depth |-> dies[pos].level] /\ Func \in FuncOf(dies)
    <3>1. Func = [die |-> pos, depth |-> dies[pos].level]
      BY <1>2, <2>2 DEF Func
    <3> QED
      BY <3>1, <1>2, <1>3, <2>2 DEF FuncOf
  <2>6. /\ \A k \in 1..Len(funcs) : funcs[k].depth = dies[funcs[k].die].level
        /\ \A a, b \in 1..Len(funcs) : a < b => funcs[a].die < funcs[b].die
        /\ \A k \in 1..Len(funcs) :
              funcs[k].die < pos /\ IsFunc(dies[funcs[k].die]) /\ Listed(dies[funcs[k].die])
        /\ \A d \in 1..(pos - 1) : HasCode(dies[d]) => \E k \in 1..Len(funcs) : funcs[k].die = d
        /\ Len(final) = 0
    BY <1>1, <1>2 DEF WalkInv, LevelsInv, OrderInv, ListedInv, Finding
  <2>7. /\ funcs' \in Seq(FuncOf(dies))
        /\ \A k \in 1..Len(funcs') : funcs'[k].depth = dies[funcs'[k].die].level
        /\ \A a, b \in 1..Len(funcs') : a < b => funcs'[a].die < funcs'[b].die
        /\ \A k \in 1..Len(funcs') :
              funcs'[k].die < pos + 1 /\ IsFunc(dies[funcs'[k].die]) /\ Listed(dies[funcs'[k].die])
        /\ \A d \in 1..pos : HasCode(dies[d]) => \E k \in 1..Len(funcs') : funcs'[k].die = d
    <3>1. CASE IsFunc(Die) /\ Listed(Die)
      <4>1. funcs' = Append(funcs, Func)
        BY <2>1, <3>1
      <4>2. /\ Len(funcs') = Len(funcs) + 1 /\ funcs' \in Seq(FuncOf(dies))
            /\ funcs'[Len(funcs) + 1] = Func
            /\ \A k \in 1..Len(funcs) : funcs'[k] = funcs[k]
        BY <4>1, <1>2, <2>5
      <4>3. \A k \in 1..Len(funcs') : k \in 1..Len(funcs) \/ k = Len(funcs) + 1
        BY <4>2, <1>3
      <4>4. Func.die = pos /\ Func.depth = dies[pos].level
        BY <2>5
      <4>5. \A k \in 1..Len(funcs) : funcs[k].die \in 1..Len(dies)
        BY <1>2, ListedDie
      <4>6. \A k \in 1..Len(funcs') : funcs'[k].depth = dies[funcs'[k].die].level
        BY <4>2, <4>3, <4>4, <2>6
      <4>7. \A a, b \in 1..Len(funcs') : a < b => funcs'[a].die < funcs'[b].die
        BY <4>2, <4>3, <4>4, <4>5, <2>6, <1>3
      <4>8. \A k \in 1..Len(funcs') :
              funcs'[k].die < pos + 1 /\ IsFunc(dies[funcs'[k].die]) /\ Listed(dies[funcs'[k].die])
        BY <4>2, <4>3, <4>4, <4>5, <2>6, <1>3, <3>1 DEF Die
      <4>9. ASSUME NEW d \in 1..pos, HasCode(dies[d])
            PROVE  \E k \in 1..Len(funcs') : funcs'[k].die = d
        <5>1. CASE d = pos
          BY <5>1, <4>2, <4>4, <1>3
        <5>2. CASE d # pos
          <6>1. d \in 1..(pos - 1)
            BY <5>2, <1>3
          <6>2. PICK k \in 1..Len(funcs) : funcs[k].die = d
            BY <6>1, <4>9, <2>6
          <6>3. k \in 1..Len(funcs') /\ funcs'[k].die = d
            BY <6>2, <4>2, <1>3
          <6> QED
            BY <6>3
        <5> QED
          BY <5>1, <5>2
      <4> QED
        BY <4>2, <4>6, <4>7, <4>8, <4>9
    <3>2. CASE ~(IsFunc(Die) /\ Listed(Die))
      <4>1. funcs' = funcs
        BY <2>1, <3>2
      <4>2. ~HasCode(dies[pos])
        BY <3>2 DEF Die, HasCode, IsFunc, Listed
      <4>3. \A k \in 1..Len(funcs) : funcs[k].die \in 1..Len(dies)
        BY <1>2, ListedDie
      <4>4. \A k \in 1..Len(funcs) : funcs[k].die < pos + 1
        BY <2>6, <4>3, <1>3
      <4>5. \A d \in 1..pos : HasCode(dies[d]) => d \in 1..(pos - 1)
        BY <4>2, <1>3
      <4> QED
        BY <4>1, <4>4, <4>5, <2>6, <1>2
    <3> QED
      BY <3>1, <3>2
  <2>8. final' = << >> /\ Len(final') = 0 /\ final' \in Seq(FuncOf(dies)) /\ pos' - 1 = pos
    BY <1>1, <1>2, <1>3, <2>2
  <2>9. LevelsInv'
    BY <2>7, <2>8, <1>1 DEF LevelsInv, TypedLists, FuncOf
  <2>10. OrderInv'
    BY <2>7, <2>8 DEF OrderInv
  <2>11. ListedInv'
    <3>1. pos' - 1 = pos /\ pos' = pos + 1 /\ at' = "findAllFuncs" /\ dies' = dies
      BY <2>1, <2>2, <2>8, <1>1
    <3>2. \A k \in 1..Len(funcs') :
            funcs'[k].die < pos' /\ IsFunc(dies[funcs'[k].die]) /\ Listed(dies[funcs'[k].die])
      BY <3>1, <2>7
    <3>3. \A d \in 1..(pos' - 1) : HasCode(dies[d]) => \E k \in 1..Len(funcs') : funcs'[k].die = d
      BY <3>1, <2>7
    <3>4. \A k \in 1..Len(final') : final'[k].die < pos' /\ HasCode(dies[final'[k].die])
      BY <2>8
    <3> QED
      BY <3>1, <3>2, <3>3, <3>4, <2>8 DEF ListedInv, IsFunc, Listed, HasCode
  <2>12. SubInv'
    BY <2>1, <1>1 DEF SubInv, Subroutines
  <2> QED
    BY <1>1, <1>2, <2>3, <2>4, <2>9, <2>10, <2>11, <2>12 DEF WalkInv
<1> QED
  BY <1>4, <1>5

LEMMA NullKeepsInv ==
    ASSUME WalkInv, Null
    PROVE  WalkInv'
<1>1. /\ NullNext /\ nest' = nest - 1 /\ pos' = pos /\ depth' = depth - 1
      /\ UNCHANGED <<dies, at, first, funcs, final, sp, frames>>
  BY DEF Null, ReadNull
<1>2. dies \in Trees /\ Len(dies) \in Nat /\ \A k \in 1..Len(dies) : dies[k].level \in Nat
  BY TreeFacts DEF WalkInv
<1>3. dies[1].tag = "unit" /\ 1 \in 1..Len(dies) /\ dies[1].level = 0
  BY <1>2, TreeFacts
<1>4. ASSUME nest \in Nat, pos \in 1..(Len(dies) + 1)
      PROVE  /\ nest' \in Nat
             /\ (pos <= Len(dies) => dies[pos].level <= nest')
             /\ ~(pos = 1 /\ nest = 0)
  <2>1. CASE pos > Len(dies)
    BY <2>1, <1>1, <1>2, <1>3, <1>4 DEF NullNext
  <2>2. CASE ~(pos > Len(dies))
    <3>1. pos \in 1..Len(dies) /\ dies[pos].level \in Nat
      BY <2>2, <1>2, <1>4
    <3>2. nest > dies[pos].level
      BY <2>2, <1>1 DEF NullNext
    <3> QED
      BY <3>1, <3>2, <1>1, <1>3, <1>4
  <2> QED
    BY <2>1, <2>2
<1>5. ReaderInv'
  <2>1. CASE at = "findAllFuncs"
    <3>1. /\ nest \in Nat /\ depth = nest /\ (first <=> pos = 1) /\ (pos = 1 => nest = 0)
          /\ pos \in 1..(Len(dies) + 1)
      BY <2>1 DEF WalkInv, ReaderInv, UnitInv, Finding
    <3> QED
      BY <3>1, <1>1, <1>4 DEF ReaderInv
  <2>2. CASE at # "findAllFuncs"
    BY <2>2, <1>1 DEF ReaderInv
  <2> QED
    BY <2>1, <2>2
<1>6. UnitInv' /\ LevelsInv' /\ OrderInv' /\ ListedInv'
  BY <1>1 DEF WalkInv, UnitInv, LevelsInv, TypedLists, OrderInv, ListedInv, Finding, FuncOf,
              IsFunc, Listed, HasCode
<1>7. SubInv'
  <2>1. SubInv
    BY DEF WalkInv
  <2>2. CASE at = "getSubprogram"
    <3>1. nest' \in Nat /\ depth' \in Int
      BY <2>1, <2>2, <1>1, <1>4 DEF SubInv
    <3> QED
      BY <3>1, <2>1, <2>2, <1>1 DEF SubInv, Subroutines
  <2>3. CASE Subroutines
    <3>1. sp.die \in 1..Len(dies) /\ pos \in sp.die..(Len(dies) + 1) /\ nest \in Nat /\ depth \in Int
      BY <2>1, <2>3 DEF SubInv
    <3>2. pos \in 1..(Len(dies) + 1)
      BY <3>1, <1>2
    <3>3. nest' \in Nat /\ depth' \in Int
      BY <3>1, <3>2, <1>1, <1>4
    <3> QED
      BY <3>3, <2>1, <2>3, <1>1 DEF SubInv, Subroutines
  <2>4. CASE at # "getSubprogram" /\ ~Subroutines
    BY <2>4, <1>1 DEF SubInv, Subroutines
  <2> QED
    BY <2>2, <2>3, <2>4
<1> QED
  BY <1>1, <1>2, <1>5, <1>6, <1>7 DEF WalkInv

LEMMA EndOfUnitKeepsInv ==
    ASSUME WalkInv, EndOfUnit
    PROVE  WalkInv'
<1>1. /\ at = "findAllFuncs" /\ (NoneNext \/ (DieNext /\ AtNextUnit)) /\ at' = "finalFuncs"
      /\ UNCHANGED <<dies, reader, first, depth, funcs, final, sp, frames>>
  BY DEF EndOfUnit
<1>2. UNCHANGED <<dies, pos, nest, first, depth, funcs, final, sp, frames>>
  BY <1>1 DEF reader
<1>3. dies \in Trees /\ Len(dies) \in Nat /\ Len(dies) >= 1
  BY TreeFacts DEF WalkInv
<1>4. pos \in 1..(Len(dies) + 1) /\ (first <=> pos = 1)
  BY <1>1 DEF WalkInv, ReaderInv, UnitInv, Finding
<1>5. pos > 1 /\ (pos <= Len(dies) => dies[pos].tag = "unit")
  <2>1. CASE NoneNext
    BY <2>1, <1>3, <1>4 DEF NoneNext
  <2>2. CASE AtNextUnit
    BY <2>2, <1>3, <1>4 DEF AtNextUnit, Die
  <2> QED
    BY <2>1, <2>2, <1>1
<1>6. ReaderInv' /\ SubInv'
  BY <1>1 DEF ReaderInv, SubInv, Subroutines
<1>7. UnitInv'
  BY <1>1, <1>2, <1>5 DEF WalkInv, UnitInv, Finding
<1>8. LevelsInv' /\ OrderInv' /\ ListedInv'
  BY <1>1, <1>2 DEF WalkInv, LevelsInv, TypedLists, OrderInv, ListedInv, Finding, FuncOf,
                    IsFunc, Listed, HasCode
<1> QED
  BY <1>2, <1>3, <1>6, <1>7, <1>8 DEF WalkInv

LEMMA AllFuncsKeepsInv ==
    ASSUME WalkInv, AllFuncs
    PROVE  WalkInv'
<1>1. /\ at = "finalFuncs" /\ at' = "funcs" /\ funcs = << >>
      /\ UNCHANGED <<dies, reader, first, depth, funcs, final, sp, frames>>
  BY DEF AllFuncs
<1>2. UNCHANGED <<dies, pos, nest, first, depth, funcs, final, sp, frames>>
  BY <1>1 DEF reader
<1>3. ReaderInv' /\ SubInv'
  BY <1>1 DEF ReaderInv, SubInv, Subroutines
<1>4. UnitInv' /\ LevelsInv' /\ OrderInv'
  BY <1>1, <1>2 DEF WalkInv, UnitInv, LevelsInv, TypedLists, OrderInv, Finding, FuncOf
<1>5. ListedInv'
  BY <1>1, <1>2 DEF WalkInv, ListedInv, Finding, IsFunc, Listed, HasCode
<1> QED
  BY <1>2, <1>3, <1>4, <1>5 DEF WalkInv

(* The head of the list moves behind those kept, or out of it. *)
LEMMA FinalFuncKeepsInv ==
    ASSUME WalkInv, FinalFunc
    PROVE  WalkInv'
<1> DEFINE h == Head(funcs)
<1>1. /\ at = "finalFuncs" /\ at' = at /\ funcs # << >> /\ funcs' = Tail(funcs)
      /\ final' = IF HasRanges(h) THEN Append(final, h) ELSE final
      /\ UNCHANGED <<dies, pos, nest, first, depth, sp, frames>>
  BY DEF FinalFunc, reader
<1>2. dies \in Trees /\ funcs \in Seq(FuncOf(dies)) /\ final \in Seq(FuncOf(dies))
  BY <1>1 DEF WalkInv, LevelsInv, TypedLists, Finding
<1>3. /\ Len(funcs) \in Nat /\ Len(funcs) > 0 /\ Len(final) \in Nat
      /\ h = funcs[1] /\ 1 \in 1..Len(funcs) /\ h \in FuncOf(dies)
      /\ funcs' \in Seq(FuncOf(dies)) /\ Len(funcs') = Len(funcs) - 1
      /\ \A k \in 1..Len(funcs') : k + 1 \in 1..Len(funcs) /\ funcs'[k] = funcs[k + 1]
  BY <1>1, <1>2
<1>4. /\ \A k \in 1..Len(funcs) : funcs[k].die \in 1..Len(dies)
      /\ \A k \in 1..Len(final) : final[k].die \in 1..Len(dies)
      /\ Len(dies) \in Nat
  BY <1>2, ListedDie, TreeFacts
<1>5. /\ \A k \in 1..Len(funcs) : funcs[k].depth = dies[funcs[k].die].level
      /\ \A k \in 1..Len(final) : final[k].depth = dies[final[k].die].level
  BY <1>1 DEF WalkInv, LevelsInv, Finding
<1>6. /\ \A a, b \in 1..Len(funcs) : a < b => funcs[a].die < funcs[b].die
      /\ \A a, b \in 1..Len(final) : a < b => final[a].die < final[b].die
      /\ \A a \in 1..Len(final), b \in 1..Len(funcs) : final[a].die < funcs[b].die
  BY <1>1 DEF WalkInv, OrderInv, Finding
<1>7. /\ \A k \in 1..Len(funcs) :
            funcs[k].die < pos /\ IsFunc(dies[funcs[k].die]) /\ Listed(dies[funcs[k].die])
      /\ \A k \in 1..Len(final) : final[k].die < pos /\ HasCode(dies[final[k].die])
      /\ \A d \in 1..(pos - 1) : HasCode(dies[d]) =>
            \/ \E k \in 1..Len(funcs) : funcs[k].die = d
            \/ \E k \in 1..Len(final) : final[k].die = d
  BY <1>1 DEF WalkInv, ListedInv, Finding
<1>8. HasRanges(h) <=> HasCode(dies[h.die])
  <2>1. h.die \in 1..Len(dies) /\ IsFunc(dies[h.die]) /\ Listed(dies[h.die])
    BY <1>3, <1>4, <1>7
  <2>2. dies[h.die].form \in Forms
    BY <2>1, <1>2, TreeFacts
  <2> QED
    BY <2>1, <2>2 DEF HasRanges, HasCode, Listed, Forms
<1>9. /\ final' \in Seq(FuncOf(dies))
      /\ \A k \in 1..Len(final) : k \in 1..Len(final') /\ final'[k] = final[k]
      /\ \A k \in 1..Len(final') :
            \/ k \in 1..Len(final) /\ final'[k] = final[k]
            \/ k = Len(final) + 1 /\ final'[k] = h /\ HasRanges(h)
      /\ HasRanges(h) => Len(final) + 1 \in 1..Len(final') /\ final'[Len(final) + 1] = h
  <2>1. CASE HasRanges(h)
    <3>1. final' = Append(final, h)
      BY <1>1, <2>1
    <3>2. /\ final' \in Seq(FuncOf(dies)) /\ Len(final') = Len(final) + 1
          /\ final'[Len(final) + 1] = h
          /\ \A k \in 1..Len(final) : final'[k] = final[k]
      BY <3>1, <1>2, <1>3
    <3> HIDE DEF h
    <3> QED
      BY <3>2, <1>3, <2>1
  <2>2. CASE ~HasRanges(h)
    BY <2>2, <1>1, <1>2
  <2> QED
    BY <2>1, <2>2
<1> HIDE DEF h
<1>10. /\ \A k \in 1..Len(funcs') : funcs'[k].depth = dies[funcs'[k].die].level
       /\ \A k \in 1..Len(final') : final'[k].depth = dies[final'[k].die].level
  BY <1>3, <1>5, <1>9
<1>11. LevelsInv'
  BY <1>1, <1>3, <1>9, <1>10 DEF LevelsInv, TypedLists, FuncOf
<1>12. OrderInv'
  <2>1. \A a, b \in 1..Len(funcs') : a < b => funcs'[a].die < funcs'[b].die
    BY <1>3, <1>6
  <2>2. \A a, b \in 1..Len(final') : a < b => final'[a].die < final'[b].die
    BY <1>3, <1>6, <1>9
  <2>3. \A a \in 1..Len(final'), b \in 1..Len(funcs') : final'[a].die < funcs'[b].die
    BY <1>3, <1>6, <1>9
  <2> QED
    BY <2>1, <2>2, <2>3 DEF OrderInv
<1>13. ListedInv'
  <2>1. \A k \in 1..Len(funcs') :
          funcs'[k].die < pos /\ IsFunc(dies[funcs'[k].die]) /\ Listed(dies[funcs'[k].die])
    BY <1>3, <1>7
  <2>2. \A k \in 1..Len(final') : final'[k].die < pos /\ HasCode(dies[final'[k].die])
    BY <1>3, <1>7, <1>8, <1>9
  <2>3. ASSUME NEW d \in 1..(pos - 1), HasCode(dies[d])
        PROVE  \/ \E k \in 1..Len(funcs') : funcs'[k].die = d
               \/ \E k \in 1..Len(final') : final'[k].die = d
    <3>1. CASE \E k \in 1..Len(final) : final[k].die = d
      BY <3>1, <1>9
    <3>2. CASE \E k \in 1..Len(funcs) : funcs[k].die = d
      <4>1. PICK k \in 1..Len(funcs) : funcs[k].die = d
        BY <3>2
      <4>2. CASE k = 1
        BY <4>1, <4>2, <2>3, <1>3, <1>8, <1>9
      <4>3. CASE k # 1
        <5>1. k - 1 \in 1..Len(funcs') /\ (k - 1) + 1 = k
          BY <4>1, <4>3, <1>3
        <5>2. funcs'[k - 1] = funcs[k]
          BY <5>1, <1>3
        <5> QED
          BY <5>1, <5>2, <4>1
      <4> QED
        BY <4>2, <4>3
    <3> QED
      BY <3>1, <3>2, <2>3, <1>7
  <2> QED
    BY <2>1, <2>2, <2>3, <1>1 DEF ListedInv, IsFunc, Listed, HasCode
<1>14. UnitInv'
  BY <1>1 DEF WalkInv, UnitInv, Finding
<1>15. ReaderInv' /\ SubInv'
  BY <1>1 DEF ReaderInv, SubInv, Subroutines
<1> QED
  BY <1>1, <1>2, <1>11, <1>12, <1>13, <1>14, <1>15 DEF WalkInv

-----------------------------------------------------------------------------
(* The steps of the other walk leave what is about findAllFuncs alone.     *)

NotFinding == at \notin {"findAllFuncs", "finalFuncs", "funcs"}

LEMMA NotFindingInv ==
    ASSUME NotFinding
    PROVE  ReaderInv /\ UnitInv /\ LevelsInv /\ OrderInv /\ ListedInv
BY DEF NotFinding, Finding, ReaderInv, UnitInv, LevelsInv, OrderInv, ListedInv

LEMMA NotFindingInvNext ==
    ASSUME NotFinding'
    PROVE  ReaderInv' /\ UnitInv' /\ LevelsInv' /\ OrderInv' /\ ListedInv'
BY DEF NotFinding, Finding, ReaderInv, UnitInv, LevelsInv, OrderInv, ListedInv

LEMMA ReadKeepsRange ==
    ASSUME dies \in Trees, pos \in 1..Len(dies), nest \in Nat, ReadDie
    PROVE  pos' = pos + 1 /\ pos' \in 1..(Len(dies) + 1) /\ nest' \in Nat
BY TreeFacts DEF ReadDie

LEMMA GetSubprogramKeepsInv ==
    ASSUME WalkInv, GetSubprogram
    PROVE  WalkInv'
<1>1. at = "getSubprogram" /\ DieNext /\ dies' = dies /\ funcs' = funcs
  BY DEF GetSubprogram
<1>2. /\ dies \in Trees /\ pos \in 1..(Len(dies) + 1) /\ nest \in Nat
      /\ funcs = << >> /\ depth \in Int
  BY <1>1 DEF WalkInv, SubInv
<1>3. pos \in 1..Len(dies) /\ Len(dies) \in Nat
  BY <1>1, <1>2, DieIsThere, TreeFacts
<1>4. \/ Fail
      \/ ReadDie /\ at' = at /\ depth' \in {depth, depth + 1, Deeper}
      \/ /\ Die.tag = "subprogram" /\ sp' = Func /\ UNCHANGED reader
         /\ at' = "getSubroutines" /\ first' = TRUE /\ depth' = 0
  BY DEF GetSubprogram
<1>5. CASE Fail
  <2>1. NotFinding' /\ SubInv'
    BY <1>5 DEF Fail, NotFinding, SubInv, Subroutines
  <2> QED
    BY <2>1, <1>1, <1>2, NotFindingInvNext DEF WalkInv
<1>6. CASE ReadDie /\ at' = at /\ depth' \in {depth, depth + 1, Deeper}
  <2>1. pos' \in 1..(Len(dies) + 1) /\ nest' \in Nat
    BY <1>2, <1>3, <1>6, ReadKeepsRange
  <2>2. depth' \in Int
    BY <1>2, <1>6 DEF Deeper
  <2>3. NotFinding' /\ SubInv'
    BY <1>1, <1>2, <1>6, <2>1, <2>2 DEF NotFinding, SubInv, Subroutines
  <2> QED
    BY <2>3, <1>1, <1>2, NotFindingInvNext DEF WalkInv
<1>7. CASE /\ Die.tag = "subprogram" /\ sp' = Func /\ UNCHANGED reader
           /\ at' = "getSubroutines" /\ first' = TRUE /\ depth' = 0
  <2>1. sp'.die = pos /\ sp'.depth \in Int /\ pos' = pos /\ nest' = nest
    BY <1>2, <1>7 DEF Func, reader
  <2>2. funcs' \in Seq(FuncOf(dies)) /\ Len(funcs') = 0
    BY <1>1, <1>2
  <2>3. dies[sp'.die].tag = "subprogram"
    BY <2>1, <1>7 DEF Die
  <2>4. \A m \in (sp'.die + 1)..(pos' - 1) : dies[m].tag # "subprogram"
    BY <2>1, <1>3
  <2>5. sp'.die \in 1..Len(dies) /\ pos' \in sp'.die..(Len(dies) + 1)
    BY <2>1, <1>3
  <2>6. SubInv'
    BY <1>1, <1>2, <1>7, <2>1, <2>2, <2>3, <2>4, <2>5 DEF SubInv, Subroutines, FuncOf
  <2>7. NotFinding'
    BY <1>7 DEF NotFinding
  <2> QED
    BY <2>6, <2>7, <1>1, <1>2, NotFindingInvNext DEF WalkInv
<1> QED
  BY <1>4, <1>5, <1>6, <1>7

(* What the walk appends is inlined and was read after its subprogram.     *)
LEMMA GetSubroutinesKeepsInv ==
    ASSUME WalkInv, GetSubroutines
    PROVE  WalkInv'
<1>1. /\ at = "getSubroutines" /\ DieNext /\ ~EndOfSubprogram
      /\ dies' = dies /\ sp' = sp
  BY DEF GetSubroutines
<1>2. /\ dies \in Trees /\ Len(dies) \in Nat /\ nest \in Nat
      /\ sp.die \in 1..Len(dies) /\ dies[sp.die].tag = "subprogram"
      /\ pos \in sp.die..(Len(dies) + 1)
      /\ (first => pos = sp.die)
      /\ (\A m \in (sp.die + 1)..(pos - 1) : dies[m].tag # "subprogram")
      /\ funcs \in Seq(FuncOf(dies))
      /\ (\A k \in 1..Len(funcs) :
            funcs[k].die > sp.die /\ funcs[k].die < pos /\ dies[funcs[k].die].tag = "inlined")
      /\ depth \in Int /\ sp.depth \in Int
  BY <1>1, TreeFacts DEF WalkInv, SubInv, Subroutines
<1>3. pos \in 1..Len(dies)
  <2>1. pos \in 1..(Len(dies) + 1)
    BY <1>2
  <2> QED
    BY <2>1, <1>1, <1>2, DieIsThere
<1>4. \/ Fail
      \/ /\ ReadDie /\ at' = at /\ depth' \in {depth, sp.depth, Deeper}
         /\ first' = IF Die.tag = "subprogram" THEN FALSE ELSE first
         /\ \/ funcs' = funcs
            \/ Die.tag = "inlined" /\ funcs' = Append(funcs, Func)
  BY DEF GetSubroutines
<1>5. CASE Fail
  <2>1. NotFinding' /\ SubInv'
    BY <1>5 DEF Fail, NotFinding, SubInv, Subroutines
  <2> QED
    BY <2>1, <1>1, <1>2, NotFindingInvNext DEF WalkInv
<1>6. CASE /\ ReadDie /\ at' = at /\ depth' \in {depth, sp.depth, Deeper}
           /\ first' = IF Die.tag = "subprogram" THEN FALSE ELSE first
           /\ \/ funcs' = funcs
              \/ Die.tag = "inlined" /\ funcs' = Append(funcs, Func)
  <2>1. pos' = pos + 1 /\ pos' \in sp.die..(Len(dies) + 1) /\ nest' \in Nat /\ depth' \in Int
    BY <1>2, <1>3, <1>6, ReadKeepsRange DEF Deeper
  <2>2. Die.tag = "subprogram" <=> pos = sp.die
    <3>1. CASE Die.tag = "subprogram"
      BY <3>1, <1>1, <1>2 DEF EndOfSubprogram
    <3>2. CASE pos = sp.die
      BY <3>2, <1>2 DEF Die
    <3> QED
      BY <3>1, <3>2
  <2>3. first' = FALSE
    BY <1>2, <1>6, <2>2
  <2>4. \A m \in (sp.die + 1)..(pos' - 1) : dies[m].tag # "subprogram"
    BY <1>2, <2>1, <2>2 DEF Die
  <2>5. /\ funcs' \in Seq(FuncOf(dies))
        /\ \A k \in 1..Len(funcs') :
              funcs'[k].die > sp.die /\ funcs'[k].die < pos' /\ dies[funcs'[k].die].tag = "inlined"
    <3>1. \A k \in 1..Len(funcs) : funcs[k].die \in 1..Len(dies)
      BY <1>2, ListedDie
    <3>2. CASE funcs' = funcs
      BY <3>1, <3>2, <1>2, <1>3, <2>1
    <3>3. CASE Die.tag = "inlined" /\ funcs' = Append(funcs, Func)
      <4>1. Func.die = pos /\ Func \in FuncOf(dies)
        BY <1>2, <1>3 DEF Func, FuncOf
      <4>2. /\ funcs' \in Seq(FuncOf(dies)) /\ Len(funcs') = Len(funcs) + 1 /\ Len(funcs) \in Nat
            /\ funcs'[Len(funcs) + 1] = Func
            /\ \A k \in 1..Len(funcs) : funcs'[k] = funcs[k]
        BY <3>3, <4>1, <1>2
      <4>3. \A k \in 1..Len(funcs') : k \in 1..Len(funcs) \/ k = Len(funcs) + 1
        BY <4>2
      <4>4. pos > sp.die /\ dies[pos].tag = "inlined"
        BY <3>3, <2>2, <1>2 DEF Die
      <4>5. ASSUME NEW k \in 1..Len(funcs')
            PROVE  /\ funcs'[k].die > sp.die /\ funcs'[k].die < pos'
                   /\ dies[funcs'[k].die].tag = "inlined"
        <5>1. CASE k \in 1..Len(funcs)
          <6>1. funcs'[k] = funcs[k]
            BY <5>1, <4>2
          <6>2. funcs[k].die < pos'
            BY <5>1, <3>1, <1>2, <1>3, <2>1
          <6> QED
            BY <5>1, <6>1, <6>2, <1>2
        <5>2. CASE k = Len(funcs) + 1
          BY <5>2, <4>1, <4>2, <4>4, <1>2, <1>3, <2>1
        <5> QED
          BY <5>1, <5>2, <4>3
      <4> QED
        BY <4>2, <4>5
    <3> QED
      BY <3>2, <3>3, <1>6
  <2>6. SubInv'
    BY <1>1, <1>2, <1>6, <2>1, <2>3, <2>4, <2>5 DEF SubInv, Subroutines, FuncOf
  <2>7. NotFinding'
    BY <1>1, <1>6 DEF NotFinding
  <2> QED
    BY <2>6, <2>7, <1>1, <1>2, NotFindingInvNext DEF WalkInv
<1> QED
  BY <1>4, <1>5, <1>6

(* The steps that only end a walk, or make its frames. *)
LEMMA EndsKeepInv ==
    ASSUME WalkInv, NoSubprogramFound \/ AllSubroutines \/ MakeFrames
    PROVE  WalkInv'
<1>1. /\ UNCHANGED <<dies, pos, nest, first, depth, funcs, final, sp>>
      /\ \/ at' = "panic"
         \/ Subroutines /\ at' \in {"subroutines", "frames"}
  BY DEF NoSubprogramFound, AllSubroutines, MakeFrames, reader, Subroutines
<1>2. dies' \in Trees
  BY <1>1 DEF WalkInv
<1>3. NotFinding'
  BY <1>1 DEF NotFinding
<1>4. SubInv'
  <2>1. CASE at' = "panic"
    BY <2>1 DEF SubInv, Subroutines
  <2>2. CASE Subroutines /\ at' \in {"subroutines", "frames"}
    BY <2>2, <1>1 DEF WalkInv, SubInv, Subroutines, FuncOf
  <2> QED
    BY <2>1, <2>2, <1>1
<1> QED
  BY <1>2, <1>3, <1>4, NotFindingInvNext DEF WalkInv

LEMMA StutterKeepsInv ==
    ASSUME WalkInv, UNCHANGED vars
    PROVE  WalkInv'
<1>1. UNCHANGED <<dies, at, pos, nest, first, depth, funcs, final, sp, frames>>
  BY DEF vars, reader
<1> QED
  BY <1>1 DEF WalkInv, ReaderInv, UnitInv, LevelsInv, TypedLists, OrderInv, ListedInv, SubInv,
              Finding, Subroutines, FuncOf, IsFunc, Listed, HasCode

-----------------------------------------------------------------------------
(* The properties. *)

THEOREM WalkInvariant == Spec => []WalkInv
<1>1. Init => WalkInv
  BY InitInv
<1>2. WalkInv /\ [Next]_vars => WalkInv'
  BY FindAllFuncsKeepsInv, NullKeepsInv, EndOfUnitKeepsInv, FinalFuncKeepsInv, AllFuncsKeepsInv,
     GetSubprogramKeepsInv, GetSubroutinesKeepsInv, EndsKeepInv, StutterKeepsInv DEF Next
<1> QED
  BY <1>1, <1>2, PTL DEF Spec

(* The depth of a function is its level in the tree, for every tree that   *)
(* the walk of findAllFuncs may go over.                                   *)
THEOREM DepthIsLevelHolds == Spec => []DepthIsLevel
<1>1. WalkInv => DepthIsLevel
  BY DEF WalkInv, LevelsInv, DepthIsLevel, Finding
<1> QED
  BY <1>1, WalkInvariant, PTL

(* The list of findAllFuncs is complete, has nothing of another unit, and  *)
(* is in the order of the entries.                                         *)
THEOREM FuncsAreThoseOfUnitHolds == Spec => []FuncsAreThoseOfUnit
<1>1. ASSUME WalkInv, at = "funcs"
      PROVE  FuncsAreThoseOfUnit
  <2>1. /\ dies \in Trees /\ Len(dies) \in Nat
        /\ pos \in 1..(Len(dies) + 1) /\ pos > 1
        /\ \A k \in 2..(pos - 1) : dies[k].tag # "unit"
        /\ pos <= Len(dies) => dies[pos].tag = "unit"
    BY <1>1, TreeFacts DEF WalkInv, UnitInv, Finding
  <2>2. FirstUnit(dies) = 1..(pos - 1)
    <3>1. ASSUME NEW k \in FirstUnit(dies)
          PROVE  k \in 1..(pos - 1)
      <4>1. k \in 1..Len(dies) /\ \A m \in 2..k : dies[m].tag # "unit"
        BY <3>1 DEF FirstUnit
      <4>2. SUFFICES ASSUME pos <= k PROVE FALSE
        BY <2>1, <4>1
      <4>3. pos \in 2..k /\ pos <= Len(dies)
        BY <2>1, <4>1, <4>2
      <4> QED
        BY <2>1, <4>1, <4>3
    <3>2. ASSUME NEW k \in 1..(pos - 1)
          PROVE  k \in FirstUnit(dies)
      <4>1. k \in 1..Len(dies) /\ \A m \in 2..k : m \in 2..(pos - 1)
        BY <2>1
      <4> QED
        BY <2>1, <4>1 DEF FirstUnit
    <3> QED
      BY <3>1, <3>2
  <2>3. /\ funcs = << >> /\ Len(funcs) = 0 /\ final \in Seq(FuncOf(dies))
        /\ \A k \in 1..Len(final) : final[k].die < pos /\ HasCode(dies[final[k].die])
        /\ \A d \in 1..(pos - 1) : HasCode(dies[d]) =>
              \/ \E k \in 1..Len(funcs) : funcs[k].die = d
              \/ \E k \in 1..Len(final) : final[k].die = d
        /\ \A a, b \in 1..Len(final) : a < b => final[a].die < final[b].die
    BY <1>1 DEF WalkInv, LevelsInv, TypedLists, ListedInv, OrderInv, Finding
  <2>4. \A k \in 1..Len(final) : final[k].die \in 1..(pos - 1)
    <3>1. \A k \in 1..Len(final) : final[k].die \in 1..Len(dies)
      BY <2>3, ListedDie
    <3> QED
      BY <3>1, <2>1, <2>3
  <2>5. \A d \in 1..(pos - 1) : HasCode(dies[d]) => \E k \in 1..Len(final) : final[k].die = d
    BY <2>3
  <2>6. {final[k].die : k \in 1..Len(final)} = {d \in 1..(pos - 1) : HasCode(dies[d])}
    BY <2>3, <2>4, <2>5
  <2> QED
    BY <2>2, <2>3, <2>6 DEF FuncsAreThoseOfUnit
<1>2. WalkInv => FuncsAreThoseOfUnit
  BY <1>1 DEF FuncsAreThoseOfUnit
<1> QED
  BY <1>2, WalkInvariant, PTL

(* Only what is inlined in it gets into the list of a subprogram's sub-    *)
(* routines, wherever the walk stops.                                      *)
THEOREM SubroutinesAreInsideHolds == Spec => []SubroutinesAreInside
<1>1. ASSUME WalkInv, Subroutines, ~IsNested(sp.die), NEW k \in 1..Len(funcs)
      PROVE  Inside(dies, funcs[k].die, sp.die)
  <2> DEFINE d == funcs[k].die
  <2>1. /\ dies \in Trees /\ sp.die \in 1..Len(dies) /\ pos \in sp.die..(Len(dies) + 1)
        /\ (\A m \in (sp.die + 1)..(pos - 1) : dies[m].tag # "subprogram")
        /\ funcs \in Seq(FuncOf(dies))
        /\ d > sp.die /\ d < pos /\ dies[d].tag = "inlined"
    BY <1>1 DEF WalkInv, SubInv
  <2>2. d \in 1..Len(dies)
    BY <2>1, ListedDie
  <2> HIDE DEF d
  <2>3. PICK i \in 1..(d - 1) : dies[i].tag = "subprogram" /\ Inside(dies, d, i)
    BY <2>1, <2>2, TreeFacts
  <2>4. i \in 1..Len(dies) /\ Len(dies) \in Nat
    BY <2>1, <2>2, TreeFacts
  <2>5. CASE i > sp.die
    <3>1. i \in (sp.die + 1)..(pos - 1)
      BY <2>1, <2>2, <2>4, <2>5
    <3> QED
      BY <3>1, <2>1, <2>3
  <2>6. CASE i < sp.die
    <3>1. \A m \in (i + 1)..sp.die : m \in (i + 1)..d
      BY <2>1, <2>2, <2>4
    <3>2. Inside(dies, sp.die, i)
      BY <3>1, <2>3, <2>6 DEF Inside
    <3>3. IsNested(sp.die)
      BY <3>2, <2>3, <2>4 DEF IsNested
    <3> QED
      BY <3>3, <1>1
  <2>7. CASE i = sp.die
    BY <2>3, <2>7 DEF d
  <2> QED
    BY <2>1, <2>4, <2>5, <2>6, <2>7
<1>2. WalkInv => SubroutinesAreInside
  BY <1>1 DEF SubroutinesAreInside, Subroutines
<1> QED
  BY <1>2, WalkInvariant, PTL

-----------------------------------------------------------------------------
(* Types.  The reader's level cannot be over the entries it has read.      *)

TypeInv ==
    /\ dies \in Trees
    /\ at \in {"findAllFuncs", "finalFuncs", "getSubprogram", "getSubroutines", "subroutines"}
              \cup Ends
    /\ pos \in 1..(Len(dies) + 1) /\ nest \in 0..(pos - 1)
    /\ first \in BOOLEAN /\ depth \in Int
    /\ (at \in {"finalFuncs", "funcs"} => depth >= 0)
    /\ funcs \in Seq(FuncOf(dies)) /\ final \in Seq(FuncOf(dies))
    /\ sp.die \in 0..Len(dies) /\ sp.depth \in Int

LEMMA InitTypes ==
    ASSUME Init
    PROVE  TypeInv
<1>1. dies \in Trees /\ Len(dies) \in Nat /\ Len(dies) >= 1
  BY TreeFacts DEF Init
<1>2. funcs \in Seq(FuncOf(dies)) /\ final \in Seq(FuncOf(dies))
  BY DEF Init
<1>3. /\ pos \in 1..(Len(dies) + 1) /\ nest \in 0..(pos - 1) /\ first \in BOOLEAN /\ depth \in Int
      /\ sp.die \in 0..Len(dies) /\ sp.depth \in Int
  BY <1>1 DEF Init, NoSubprogram
<1> QED
  BY <1>1, <1>2, <1>3 DEF Init, TypeInv

(* Reading an entry, or a null entry, leaves the reader within its bounds. *)
LEMMA ReaderStays ==
    ASSUME TypeInv, dies' = dies,
           \/ UNCHANGED reader
           \/ DieNext /\ ReadDie
           \/ ReadNull
    PROVE  /\ pos' \in 1..(Len(dies) + 1) /\ nest' \in 0..(pos' - 1)
           /\ (DieNext => pos \in 1..Len(dies))
<1>1. /\ dies \in Trees /\ pos \in 1..(Len(dies) + 1) /\ nest \in 0..(pos - 1)
      /\ nest \in Nat /\ Len(dies) \in Nat
      /\ \A k \in 1..Len(dies) : dies[k].level \in Nat
  BY TreeFacts DEF TypeInv
<1>2. DieNext => pos \in 1..Len(dies)
  BY <1>1, DieIsThere
<1>3. CASE UNCHANGED reader
  BY <1>1, <1>2, <1>3 DEF reader
<1>4. CASE DieNext /\ ReadDie
  <2>1. pos' = pos + 1 /\ nest' \in {nest, nest + 1}
    BY <1>4 DEF ReadDie
  <2> QED
    BY <2>1, <1>1, <1>2, <1>4
<1>5. CASE ReadNull
  <2>1. nest > (IF pos > Len(dies) THEN 0 ELSE dies[pos].level) /\ nest' = nest - 1 /\ pos' = pos
    BY <1>5 DEF ReadNull, NullNext
  <2>2. nest > 0
    <3>1. CASE pos > Len(dies)
      BY <2>1, <3>1
    <3>2. CASE ~(pos > Len(dies))
      <4>1. dies[pos].level \in Nat
        BY <1>1, <3>2
      <4> QED
        BY <2>1, <3>2, <4>1, <1>1
    <3> QED
      BY <3>1, <3>2
  <2> QED
    BY <2>1, <2>2, <1>1, <1>2
<1> QED
  BY <1>3, <1>4, <1>5

(* Each step appends an entry read to a list, or takes the first off, or   *)
(* leaves it.                                                              *)
LEMMA StepKeepsTypes ==
    ASSUME TypeInv, WalkInv, [Next]_vars
    PROVE  TypeInv'
<1>1. /\ dies \in Trees /\ pos \in 1..(Len(dies) + 1) /\ nest \in 0..(pos - 1)
      /\ first \in BOOLEAN /\ depth \in Int
      /\ funcs \in Seq(FuncOf(dies)) /\ final \in Seq(FuncOf(dies))
      /\ sp.die \in 0..Len(dies) /\ sp.depth \in Int /\ Len(dies) \in Nat
  BY TreeFacts DEF TypeInv
<1>2. /\ dies' = dies
      /\ (UNCHANGED reader \/ (DieNext /\ ReadDie) \/ ReadNull)
  BY DEF Next, FindAllFuncs, Null, EndOfUnit, FinalFunc, AllFuncs, GetSubprogram, NoSubprogramFound,
         GetSubroutines, AllSubroutines, MakeFrames, vars, reader, Fail
<1>3. pos' \in 1..(Len(dies) + 1) /\ nest' \in 0..(pos' - 1) /\ (DieNext => pos \in 1..Len(dies))
  BY <1>2, ReaderStays
<1>4. /\ depth' \in {depth, depth - 1, depth + 1, Deeper, 0, sp.depth}
      /\ first' = first \/ first' = TRUE \/ first' = FALSE
  BY DEF Next, FindAllFuncs, Null, EndOfUnit, FinalFunc, AllFuncs, GetSubprogram, NoSubprogramFound,
         GetSubroutines, AllSubroutines, MakeFrames, vars, Fail, Uncounted
<1>5. depth' \in Int /\ first' \in BOOLEAN
  <2>1. Deeper \in Int /\ depth - 1 \in Int /\ depth + 1 \in Int
    BY <1>1 DEF Deeper
  <2>2. depth' \in Int
    BY <1>1, <1>4, <2>1
  <2> QED
    BY <1>1, <1>4, <2>2
<1>6. sp' = sp \/ (DieNext /\ sp' = Func)
  BY DEF Next, FindAllFuncs, Null, EndOfUnit, FinalFunc, AllFuncs, GetSubprogram, NoSubprogramFound,
         GetSubroutines, AllSubroutines, MakeFrames, vars, Fail
<1>7. DieNext => Func \in FuncOf(dies) /\ Func.die = pos /\ Func.depth = depth
  BY <1>1, <1>3 DEF Func, FuncOf
<1>8. sp'.die \in 0..Len(dies) /\ sp'.depth \in Int
  BY <1>1, <1>3, <1>6, <1>7
<1>9. /\ \/ funcs' = funcs
         \/ DieNext /\ funcs' = Append(funcs, Func)
         \/ funcs # << >> /\ funcs' = Tail(funcs)
      /\ \/ final' = final
         \/ funcs # << >> /\ final' = Append(final, Head(funcs))
  BY DEF Next, FindAllFuncs, Null, EndOfUnit, FinalFunc, AllFuncs, GetSubprogram, NoSubprogramFound,
         GetSubroutines, AllSubroutines, MakeFrames, vars, Fail
<1>10. funcs # << >> => Head(funcs) \in FuncOf(dies) /\ Tail(funcs) \in Seq(FuncOf(dies))
  BY <1>1, HeadTailProperties
<1>11. funcs' \in Seq(FuncOf(dies)) /\ final' \in Seq(FuncOf(dies))
  <2> DEFINE F == FuncOf(dies)
  <2>1. \A s \in Seq(F), e \in F : Append(s, e) \in Seq(F)
    BY AppendProperties
  <2>2. /\ funcs \in Seq(F) /\ final \in Seq(F)
        /\ DieNext => Func \in F
        /\ funcs # << >> => Head(funcs) \in F /\ Tail(funcs) \in Seq(F)
    BY <1>1, <1>7, <1>10
  <2> HIDE DEF F
  <2>3. funcs' \in Seq(F) /\ final' \in Seq(F)
    BY <1>9, <2>1, <2>2, Zenon
  <2> QED
    BY <2>3 DEF F
<1>12. at' \in {"findAllFuncs", "finalFuncs", "getSubprogram", "getSubroutines", "subroutines"} \cup Ends
  BY DEF TypeInv, Next, FindAllFuncs, Null, EndOfUnit, FinalFunc, AllFuncs, GetSubprogram,
         NoSubprogramFound, GetSubroutines, AllSubroutines, MakeFrames, vars, Fail, Ends
<1>13. at' \in {"finalFuncs", "funcs"} => depth' >= 0
  <2>1. SUFFICES ASSUME at' \in {"finalFuncs", "funcs"} PROVE depth' >= 0
    OBVIOUS
  <2>2. /\ depth' = depth
        /\ at \in {"findAllFuncs", "finalFuncs", "funcs"}
    BY <2>1
    DEF Next, FindAllFuncs, Null, EndOfUnit, FinalFunc, AllFuncs, GetSubprogram,
        NoSubprogramFound, GetSubroutines, AllSubroutines, MakeFrames, vars, Fail
  <2>3. at = "findAllFuncs" => depth = nest
    BY DEF WalkInv, ReaderInv
  <2>4. at \in {"finalFuncs", "funcs"} => depth >= 0
    BY DEF TypeInv
  <2> QED
    BY <2>2, <2>3, <2>4, <1>1
<1> QED
  BY <1>1, <1>2, <1>3, <1>5, <1>8, <1>11, <1>12, <1>13 DEF TypeInv, FuncOf

THEOREM TypeInvariant == Spec => []TypeInv
<1>1. Init => TypeInv
  BY InitTypes
<1>2. TypeInv /\ WalkInv /\ [Next]_vars => TypeInv'
  BY StepKeepsTypes
<1> QED
  BY <1>1, <1>2, WalkInvariant, PTL DEF Spec

-----------------------------------------------------------------------------
(* The frames.  Between the subprogram and where its walk is, no sub-      *)
(* routine with the address is left out; and the walk ends at another      *)
(* subprogram or at the end of all entries.                                *)
FramesInv ==
    /\ at # "frames" => frames = << >>
    /\ Subroutines =>
          /\ dies[sp.die].form = "in"
          /\ first <=> pos = sp.die
          /\ \A d \in (sp.die + 1)..(pos - 1) :
                dies[d].tag = "inlined" /\ dies[d].form = "in" => \E k \in 1..Len(funcs) : funcs[k].die = d
    /\ at \in {"subroutines", "frames"} =>
          \/ pos > Len(dies)
          \/ pos > sp.die /\ dies[pos].tag = "subprogram"
    /\ at = "frames" => frames = FramesOf({sp.die} \cup WithAddress(funcs))

(* What GetSubroutines does to the list. *)
LEMMA GetSubroutinesFrames ==
    ASSUME TypeInv, WalkInv, FramesInv, GetSubroutines
    PROVE  FramesInv'
<1>1. /\ at = "getSubroutines" /\ DieNext /\ ~EndOfSubprogram
      /\ dies' = dies /\ sp' = sp /\ frames' = frames
  BY DEF GetSubroutines
<1>2. /\ Len(dies) \in Nat /\ sp.die \in 1..Len(dies) /\ dies[sp.die].tag = "subprogram"
      /\ pos \in 1..Len(dies) /\ pos >= sp.die /\ funcs \in Seq(FuncOf(dies))
      /\ dies[sp.die].form = "in" /\ (first <=> pos = sp.die) /\ frames = << >>
      /\ \A d \in (sp.die + 1)..(pos - 1) :
            dies[d].tag = "inlined" /\ dies[d].form = "in" => \E k \in 1..Len(funcs) : funcs[k].die = d
  BY <1>1, TreeFacts, DieIsThere DEF TypeInv, WalkInv, SubInv, FramesInv, Subroutines
<1>3. CASE Fail
  BY <1>1, <1>2, <1>3 DEF Fail, FramesInv, Subroutines
<1>4. CASE ~Fail
  <2>1. /\ ReadDie /\ at' = at
        /\ first' = IF Die.tag = "subprogram" THEN FALSE ELSE first
        /\ \/ funcs' = funcs /\ ~(Die.tag = "inlined" /\ Die.form = "in")
           \/ funcs' = Append(funcs, Func)
    BY <1>4 DEF GetSubroutines
  <2>2. pos' = pos + 1
    BY <2>1 DEF ReadDie
  <2>3. pos = sp.die => first' = FALSE
    BY <2>1, <1>2 DEF Die
  <2>4. first' <=> pos' = sp.die
    BY <2>1, <2>2, <2>3, <1>2
  <2>5. Func \in FuncOf(dies) /\ Func.die = pos
    BY <1>2 DEF Func, FuncOf, TypeInv
  <2>6. ASSUME NEW d \in (sp.die + 1)..pos, dies[d].tag = "inlined", dies[d].form = "in"
        PROVE  \E k \in 1..Len(funcs') : funcs'[k].die = d
    <3>1. CASE funcs' = funcs /\ ~(Die.tag = "inlined" /\ Die.form = "in")
      BY <3>1, <2>6, <1>2 DEF Die
    <3>2. CASE funcs' = Append(funcs, Func)
      <4>1. /\ Len(funcs') = Len(funcs) + 1 /\ Len(funcs) \in Nat
            /\ funcs'[Len(funcs) + 1] = Func
            /\ \A k \in 1..Len(funcs) : funcs'[k] = funcs[k]
        BY <3>2, <2>5, <1>2
      <4>2. CASE d = pos
        BY <4>1, <4>2, <2>5
      <4>3. CASE d # pos
        <5>1. PICK k \in 1..Len(funcs) : funcs[k].die = d
          BY <4>3, <2>6, <1>2
        <5> QED
          BY <5>1, <4>1
      <4> QED
        BY <4>2, <4>3
    <3> QED
      BY <3>1, <3>2, <2>1
  <2> QED
    BY <1>1, <1>2, <2>1, <2>2, <2>4, <2>6 DEF FramesInv, Subroutines
<1> QED
  BY <1>3, <1>4

LEMMA StepKeepsFrames ==
    ASSUME TypeInv, WalkInv, FramesInv, [Next]_vars
    PROVE  FramesInv'
<1>1. CASE GetSubroutines
  BY <1>1, GetSubroutinesFrames
<1>2. CASE GetSubprogram
  <2>1. at = "getSubprogram" /\ DieNext /\ dies' = dies /\ frames' = frames /\ frames = << >>
    BY <1>2 DEF GetSubprogram, FramesInv
  <2>2. \/ at' \in {"error", "panic", "getSubprogram"}
        \/ /\ at' = "getSubroutines" /\ first' = TRUE /\ sp' = Func /\ pos' = pos
           /\ Die.form = "in"
    BY <1>2, <2>1 DEF GetSubprogram, Fail, reader
  <2>3. CASE at' \in {"error", "panic", "getSubprogram"}
    BY <2>1, <2>3 DEF FramesInv, Subroutines
  <2>4. CASE /\ at' = "getSubroutines" /\ first' = TRUE /\ sp' = Func /\ pos' = pos
             /\ Die.form = "in"
    <3>1. pos \in 1..(Len(dies) + 1) /\ Len(dies) \in Nat /\ sp'.die = pos
      BY <2>4, TreeFacts DEF TypeInv, Func
    <3>2. (sp'.die + 1)..(pos' - 1) = {}
      BY <2>4, <3>1
    <3> QED
      BY <2>1, <2>4, <3>1, <3>2 DEF FramesInv, Subroutines, Die
  <2> QED
    BY <2>2, <2>3, <2>4
<1>3. CASE AllSubroutines
  <2>1. /\ at = "getSubroutines" /\ at' = "subroutines"
        /\ UNCHANGED <<dies, pos, nest, first, funcs, sp, frames>>
        /\ NoneNext \/ (Die.tag = "subprogram" /\ ~first)
    BY <1>3 DEF AllSubroutines, reader, EndOfSubprogram
  <2>2. pos >= sp.die /\ (first <=> pos = sp.die)
    BY <2>1 DEF WalkInv, SubInv, FramesInv, Subroutines
  <2>3. pos \in Int /\ sp.die \in Int
    BY DEF TypeInv
  <2>4. pos > Len(dies) \/ (pos > sp.die /\ dies[pos].tag = "subprogram")
    BY <2>1, <2>2, <2>3 DEF NoneNext, Die
  <2> QED
    BY <2>1, <2>4 DEF FramesInv, Subroutines
<1>4. CASE MakeFrames
  <2>1. /\ at = "subroutines" /\ at' = "frames"
        /\ UNCHANGED <<dies, pos, nest, first, funcs, sp>>
        /\ frames' = FramesOf({sp.die} \cup WithAddress(funcs))
    BY <1>4 DEF MakeFrames, reader
  <2>2. (WithAddress(funcs))' = WithAddress(funcs)
    BY <2>1 DEF WithAddress
  <2> QED
    BY <2>1, <2>2 DEF FramesInv, Subroutines
<1>5. CASE Null
  <2>1. /\ at' = at /\ at # "frames" /\ at # "subroutines"
        /\ UNCHANGED <<dies, pos, first, funcs, sp, frames>>
    BY <1>5 DEF Null, ReadNull
  <2> QED
    BY <2>1 DEF FramesInv, Subroutines
<1>6. CASE FindAllFuncs \/ EndOfUnit \/ FinalFunc \/ AllFuncs \/ NoSubprogramFound
  <2>1. at # "frames" /\ frames' = frames
        /\ at' \in {"findAllFuncs", "finalFuncs", "funcs", "error", "panic"}
    BY <1>6 DEF FindAllFuncs, EndOfUnit, FinalFunc, AllFuncs, NoSubprogramFound, Fail
  <2> QED
    BY <2>1 DEF FramesInv, Subroutines
<1>7. CASE UNCHANGED vars
  <2>1. UNCHANGED <<dies, at, pos, first, funcs, sp, frames>>
    BY <1>7 DEF vars, reader
  <2>2. (WithAddress(funcs))' = WithAddress(funcs)
    BY <2>1 DEF WithAddress
  <2> QED
    BY <2>1, <2>2 DEF FramesInv, Subroutines
<1> QED
  BY <1>1, <1>2, <1>3, <1>4, <1>5, <1>6, <1>7 DEF Next

THEOREM FramesInvariant == Spec => []FramesInv
<1>1. Init => FramesInv
  BY DEF Init, FramesInv, Subroutines
<1>2. TypeInv /\ WalkInv /\ FramesInv /\ [Next]_vars => FramesInv'
  BY StepKeepsFrames
<1> QED
  BY <1>1, <1>2, TypeInvariant, WalkInvariant, PTL DEF Spec

(* FramesOf lists its functions from the last entry down to the first,     *)
(* each once, each with the one before it as its call site.                *)
LEMMA FramesDescend ==
    ASSUME NEW fs \in SUBSET Nat, IsFiniteSet(fs)
    PROVE  /\ Cardinality(fs) \in Nat
           /\ Len(FramesOf(fs)) = Cardinality(fs)
           /\ \A k \in 1..Len(FramesOf(fs)) :
                 FramesOf(fs)[k].func \in fs /\ FramesOf(fs)[k].site \in {0} \cup fs
           /\ \A a \in fs : \E k \in 1..Len(FramesOf(fs)) : FramesOf(fs)[k].func = a
           /\ \A j, k \in 1..Len(FramesOf(fs)) : j < k => FramesOf(fs)[j].func > FramesOf(fs)[k].func
           /\ \A k \in 1..Len(FramesOf(fs)) :
                 FramesOf(fs)[k].site = IF k = 1 THEN 0 ELSE FramesOf(fs)[k - 1].func
<1> DEFINE R == {p \in fs \X fs : p[1] >= p[2]}
           chain == Sorted(fs, R)
           n == Cardinality(fs)
           s == FramesOf(fs)
<1>1. \A a, b \in fs : <<a, b>> \in R <=> a >= b
  OBVIOUS
<1>2. \A a \in fs : a \in Int
  OBVIOUS
<1> HIDE DEF R
<1>3. IsTotalOrder(R, fs)
  BY <1>1, <1>2 DEF IsTotalOrder
<1>4. /\ n \in Nat
      /\ chain \in [1..n -> fs]
      /\ \A a \in fs : \E i \in 1..n : chain[i] = a
      /\ \A i, j \in 1..n : i < j => <<chain[i], chain[j]>> \in R /\ chain[i] # chain[j]
  BY <1>3, SortedIsSorted
<1>5. ASSUME NEW i \in 1..n, NEW j \in 1..n, i < j
      PROVE  chain[i] > chain[j]
  <2>1. <<chain[i], chain[j]>> \in R /\ chain[i] # chain[j]
    BY <1>4, <1>5
  <2>2. chain[i] \in fs /\ chain[j] \in fs
    BY <1>4
  <2> HIDE DEF chain, n
  <2>3. chain[i] >= chain[j] /\ chain[i] \in Int /\ chain[j] \in Int
    BY <1>1, <1>2, <2>1, <2>2
  <2> QED
    BY <2>1, <2>3
<1>6. Len(chain) = n
  BY <1>4
<1>7. s = [k \in 1..n |-> [func |-> chain[k], site |-> IF k = 1 THEN 0 ELSE chain[k - 1]]]
  BY <1>6 DEF FramesOf, R
<1> HIDE DEF chain, n, s
<1>8. ASSUME NEW k \in 1..n
      PROVE  /\ s[k] = [func |-> chain[k], site |-> IF k = 1 THEN 0 ELSE chain[k - 1]]
             /\ s[k].func = chain[k]
             /\ s[k].site = IF k = 1 THEN 0 ELSE s[k - 1].func
             /\ s[k].func \in fs /\ s[k].site \in {0} \cup fs
  <2>1. s[k] = [func |-> chain[k], site |-> IF k = 1 THEN 0 ELSE chain[k - 1]]
    BY <1>7
  <2>2. k # 1 => k - 1 \in 1..n
    BY <1>4
  <2>3. k # 1 => s[k - 1].func = chain[k - 1] /\ chain[k - 1] \in fs
    BY <1>4, <1>7, <2>2
  <2>4. chain[k] \in fs
    BY <1>4
  <2> QED
    BY <2>1, <2>3, <2>4
<1>9. Len(s) = n
  <2> DEFINE F(k) == [func |-> chain[k], site |-> IF k = 1 THEN 0 ELSE chain[k - 1]]
             D == {F(k) : k \in 1..n}
  <2>1. s = [k \in 1..n |-> F(k)]
    BY <1>7
  <2>2. \A k \in 1..n : F(k) \in D
    OBVIOUS
  <2> HIDE DEF F, D
  <2>3. s \in [1..n -> D]
    BY <2>1, <2>2
  <2> QED
    BY <2>3, <1>4, FunctionIsList
<1>10. \A k \in 1..n : s[k].func = chain[k]
  BY <1>8
<1>11. ASSUME NEW a \in fs
       PROVE  \E k \in 1..n : s[k].func = a
  <2>1. PICK k \in 1..n : chain[k] = a
    BY <1>4
  <2> QED
    BY <2>1, <1>10
<1>12. \A j, k \in 1..n : j < k => s[j].func > s[k].func
  BY <1>5, <1>10
<1> QED
  BY <1>4, <1>8, <1>9, <1>11, <1>12 DEF s, n

(* What the frames of an address are made of. *)
LEMMA FrameFuncs ==
    ASSUME TypeInv, WalkInv, FramesInv, at = "frames",
           NEW fs, fs = {sp.die} \cup WithAddress(funcs)
    PROVE  /\ fs \subseteq Chain /\ sp.die \in fs /\ IsFiniteSet(fs)
           /\ \A d \in fs : d \in 1..Len(dies) /\ d >= sp.die
           /\ ~HasNested(sp.die) => fs = Chain
<1>1. /\ dies \in Trees /\ Len(dies) \in Nat
      /\ sp.die \in 1..Len(dies) /\ dies[sp.die].tag = "subprogram" /\ dies[sp.die].form = "in"
      /\ pos \in 1..(Len(dies) + 1)
      /\ funcs \in Seq(FuncOf(dies))
      /\ \A k \in 1..Len(funcs) :
            funcs[k].die > sp.die /\ funcs[k].die < pos /\ dies[funcs[k].die].tag = "inlined"
      /\ \A d \in (sp.die + 1)..(pos - 1) :
            dies[d].tag = "inlined" /\ dies[d].form = "in" => \E k \in 1..Len(funcs) : funcs[k].die = d
      /\ pos > Len(dies) \/ (pos > sp.die /\ dies[pos].tag = "subprogram")
  BY TreeFacts DEF TypeInv, WalkInv, SubInv, FramesInv, Subroutines
<1>2. \A k \in 1..Len(funcs) : funcs[k].die \in 1..Len(dies)
  BY <1>1, ListedDie
<1>3. ASSUME NEW d \in fs
      PROVE  d \in 1..Len(dies) /\ d >= sp.die /\ d \in Chain
  <2>1. CASE d = sp.die
    BY <2>1, <1>1 DEF Chain, IsFunc
  <2>2. CASE d # sp.die
    <3>1. d \in WithAddress(funcs)
      BY <2>2
    <3>2. PICK k \in 1..Len(funcs) : dies[funcs[k].die].form = "in" /\ d = funcs[k].die
      BY <3>1 DEF WithAddress
    <3>3. d > sp.die /\ dies[d].tag = "inlined" /\ dies[d].form = "in" /\ d \in 1..Len(dies)
      BY <3>2, <1>1, <1>2
    <3> QED
      BY <3>3, <1>1 DEF Chain, IsFunc
  <2> QED
    BY <2>1, <2>2
<1>4. IsFiniteSet(fs)
  <2>1. IsFiniteSet(1..Len(dies))
    BY <1>1, FS_Interval
  <2>2. fs \in SUBSET (1..Len(dies))
    BY <1>3
  <2> QED
    BY <2>1, <2>2, FS_Subset
<1>5. ASSUME ~HasNested(sp.die), NEW d \in Chain
      PROVE  d \in fs
  <2>1. d \in 1..Len(dies) /\ d >= sp.die /\ IsFunc(dies[d]) /\ dies[d].form = "in"
    BY DEF Chain
  <2>2. SUFFICES ASSUME d # sp.die PROVE d \in fs
    OBVIOUS
  <2>3. d > sp.die /\ sp.die \in 1..(d - 1)
    BY <2>1, <2>2, <1>1
  <2>4. dies[d].tag = "inlined" /\ Inside(dies, d, sp.die)
    <3>1. Fits(dies, d)
      BY <1>1, <2>1, TreesAssumption DEF WellFormed
    <3> QED
      BY <3>1, <2>1, <2>3, <1>1 DEF Fits
  <2>5. d < pos
    <3>1. SUFFICES ASSUME pos <= d PROVE FALSE
      BY <1>1, <2>1
    <3>2. pos \in 1..Len(dies) /\ pos > sp.die /\ dies[pos].tag = "subprogram"
      BY <3>1, <1>1, <2>1
    <3>3. Inside(dies, pos, sp.die)
      <4>1. \A m \in (sp.die + 1)..pos : m \in (sp.die + 1)..d
        BY <3>1, <3>2, <2>1, <1>1
      <4> QED
        BY <4>1, <3>2, <2>4 DEF Inside
    <3> QED
      BY <3>2, <3>3, <1>5 DEF HasNested
  <2>6. d \in (sp.die + 1)..(pos - 1)
    BY <2>3, <2>5, <2>1, <1>1
  <2>7. PICK k \in 1..Len(funcs) : funcs[k].die = d
    BY <2>1, <2>4, <2>6, <1>1
  <2>8. d \in WithAddress(funcs)
    BY <2>1, <2>7 DEF WithAddress
  <2> QED
    BY <2>8
<1> QED
  BY <1>3, <1>4, <1>5

(* Every value of the walks has its type, in every tree. *)
THEOREM DieWalkTypeOK == Spec => []TypeOK
<1>1. ASSUME TypeInv, WalkInv, FramesInv
      PROVE  TypeOK
  <2>1. /\ dies \in Trees /\ Len(dies) \in Nat
        /\ pos \in 1..(Len(dies) + 1) /\ nest \in 0..(pos - 1) /\ first \in BOOLEAN /\ depth \in Int
        /\ funcs \in Seq(FuncOf(dies)) /\ final \in Seq(FuncOf(dies))
        /\ sp.die \in 0..Len(dies)
    BY <1>1, TreeFacts DEF TypeInv
  <2>2. nest \in 0..Len(dies)
    BY <2>1
  <2>3. at \in {"findAllFuncs", "finalFuncs", "funcs"} => depth >= 0
    BY <1>1 DEF TypeInv, WalkInv, ReaderInv
  <2>4. \A k \in 1..Len(frames) : frames[k].func \in 1..Len(dies) /\ frames[k].site \in 0..Len(dies)
    <3>1. CASE at # "frames"
      <4>1. Len(frames) = 0
        BY <3>1, <1>1 DEF FramesInv
      <4> QED
        BY <4>1
    <3>2. CASE at = "frames"
      <4> DEFINE fs == {sp.die} \cup WithAddress(funcs)
      <4>1. frames = FramesOf(fs)
        BY <3>2, <1>1 DEF FramesInv
      <4>2. IsFiniteSet(fs) /\ \A d \in fs : d \in 1..Len(dies)
        BY <3>2, <1>1, FrameFuncs
      <4> HIDE DEF fs
      <4>3. fs \in SUBSET Nat
        BY <4>2
      <4>4. \A k \in 1..Len(frames) : frames[k].func \in fs /\ frames[k].site \in {0} \cup fs
        BY <4>1, <4>2, <4>3, FramesDescend
      <4>5. \A d \in {0} \cup fs : d \in 0..Len(dies)
        BY <4>2, <2>1
      <4> QED
        BY <4>2, <4>4, <4>5
    <3> QED
      BY <3>1, <3>2
  <2>5. at \in {"findAllFuncs", "finalFuncs", "getSubprogram", "getSubroutines", "subroutines"} \cup Ends
    BY <1>1 DEF TypeInv
  <2> QED
    BY <2>1, <2>2, <2>3, <2>4, <2>5 DEF TypeOK, FuncOf
<1> QED
  BY <1>1, TypeInvariant, WalkInvariant, FramesInvariant, PTL

(* The frames of an address, made by sorting and shifting, are the         *)
(* functions around it, from the inside out, each with the call site of    *)
(* the one inside it and none left out; only a subprogram declared inside  *)
(* the subprogram can cut off the inner ones.                              *)
THEOREM FramesAreChainHolds == Spec => []FramesAreChain
<1>1. ASSUME TypeInv, WalkInv, FramesInv, at = "frames"
      PROVE  FramesAreChain
  <2> DEFINE fs == {sp.die} \cup WithAddress(funcs)
  <2>1. /\ fs \subseteq Chain /\ sp.die \in fs /\ IsFiniteSet(fs)
        /\ \A d \in fs : d \in 1..Len(dies) /\ d >= sp.die
        /\ ~HasNested(sp.die) => fs = Chain
    BY <1>1, FrameFuncs
  <2>2. frames = FramesOf(fs)
    BY <1>1 DEF FramesInv
  <2> HIDE DEF fs
  <2>3. fs \in SUBSET Nat
    BY <2>1
  <2>4. /\ Cardinality(fs) \in Nat
        /\ Len(frames) = Cardinality(fs)
        /\ \A k \in 1..Len(frames) : frames[k].func \in fs /\ frames[k].site \in {0} \cup fs
        /\ \A a \in fs : \E k \in 1..Len(frames) : frames[k].func = a
        /\ \A j, k \in 1..Len(frames) : j < k => frames[j].func > frames[k].func
        /\ \A k \in 1..Len(frames) : frames[k].site = IF k = 1 THEN 0 ELSE frames[k - 1].func
    BY <2>1, <2>2, <2>3, FramesDescend
  <2>5. \A k \in 1..Len(frames) : frames[k].func \in fs /\ frames[k].func \in Nat
    BY <2>3, <2>4
  <2>6. ASSUME NEW k \in 1..Len(frames), k > 1
        PROVE  frames[k].site = frames[k - 1].func /\ Inside(dies, frames[k].site, frames[k].func)
    <3> DEFINE d == frames[k - 1].func
               i == frames[k].func
    <3>1. k - 1 \in 1..Len(frames) /\ k - 1 < k
      BY <2>4, <2>6
    <3>2. frames[k].site = d /\ d \in fs /\ i \in fs /\ d > i
      BY <3>1, <2>4, <2>5, <2>6
    <3> HIDE DEF d, i
    <3>3. d \in 1..Len(dies) /\ i \in 1..(d - 1) /\ dies[d].form = "in" /\ dies[i].form = "in"
      BY <3>2, <2>1 DEF Chain
    <3>4. Fits(dies, d)
      BY <3>3, <1>1, TreesAssumption DEF WellFormed, TypeInv
    <3>5. Inside(dies, d, i)
      BY <3>3, <3>4 DEF Fits
    <3> QED
      BY <3>2, <3>5 DEF d, i
  <2>7. frames[Len(frames)].func = sp.die
    <3>1. PICK k \in 1..Len(frames) : frames[k].func = sp.die
      BY <2>1, <2>4
    <3>2. Len(frames) \in 1..Len(frames)
      BY <3>1, <2>4
    <3>3. frames[Len(frames)].func >= sp.die
      BY <3>2, <2>1, <2>5
    <3>4. k < Len(frames) => sp.die > frames[Len(frames)].func
      BY <3>1, <3>2, <2>4
    <3>5. sp.die \in Nat /\ frames[Len(frames)].func \in Nat
      BY <3>1, <3>2, <2>5
    <3>6. k = Len(frames)
      BY <3>1, <3>3, <3>4, <3>5, <2>4
    <3> QED
      BY <3>1, <3>6
  <2>8. \A k \in 1..Len(frames) : frames[k].func \in Chain /\ (k = 1 => frames[k].site = 0)
    BY <2>1, <2>4, <2>5
  <2>9. ~HasNested(sp.die) => Len(frames) = Cardinality(Chain)
    BY <2>1, <2>4
  <2> QED
    BY <2>6, <2>7, <2>8, <2>9 DEF FramesAreChain
<1>2. TypeInv /\ WalkInv /\ FramesInv => FramesAreChain
  BY <1>1 DEF FramesAreChain
<1> QED
  BY <1>2, TypeInvariant, WalkInvariant, FramesInvariant, PTL

-----------------------------------------------------------------------------
(* The list as cmd/callgraph takes it (module CallGraph): of each function *)
(* its depth and the listed function next around it.                       *)

Around(k) == {p \in 1..Len(final) : Inside(dies, final[k].die, final[p].die)}

Encl(k) ==
    IF Around(k) = {} THEN 0 ELSE CHOOSE p \in Around(k) : \A q \in Around(k) : q <= p

GraphList == [k \in 1..Len(final) |-> [depth |-> final[k].depth, encl |-> Encl(k)]]

(* What CallGraph assumes of its lists. *)
FitsGraph(l) ==
    /\ l \in Seq([depth : Nat \ {0}, encl : Nat])
    /\ \A k \in 1..Len(l) :
          LET p == l[k].encl
          IN  /\ p < k
              /\ p # 0 => \A m \in (p + 1)..k : l[m].depth > l[p].depth

(* CallGraph's Direct, which is what DirectNestingIsDrawn asks for. *)
DirectIn(l) ==
    \A k \in 1..Len(l) : l[k].depth = 1 + (IF l[k].encl = 0 THEN 0 ELSE l[l[k].encl].depth)

(* No block, type or namespace and no function without code is between a   *)
(* function with code and its unit or the function it is in.               *)
Plain(t) ==
    \A k \in 1..Len(t) : HasCode(t[k]) =>
        \E i \in 1..(k - 1) :
            Inside(t, k, i) /\ t[k].level = t[i].level + 1 /\ (t[i].tag = "unit" \/ HasCode(t[i]))

LEMMA FinalFacts ==
    ASSUME WalkInv, at = "funcs"
    PROVE  /\ dies \in Trees /\ Len(final) \in Nat
           /\ \A k \in 1..Len(final) :
                 /\ final[k].die \in 1..Len(dies) /\ HasCode(dies[final[k].die])
                 /\ final[k].die < pos
                 /\ final[k].depth = dies[final[k].die].level
                 /\ final[k].depth \in Nat \ {0}
           /\ \A a, b \in 1..Len(final) : a < b => final[a].die < final[b].die
           /\ pos \in 1..(Len(dies) + 1)
           /\ \A d \in 1..(pos - 1) : HasCode(dies[d]) => \E k \in 1..Len(final) : final[k].die = d
<1>1. /\ dies \in Trees /\ final \in Seq(FuncOf(dies)) /\ pos \in 1..(Len(dies) + 1)
      /\ funcs = << >> /\ Len(funcs) = 0
      /\ \A k \in 1..Len(final) : final[k].die < pos /\ HasCode(dies[final[k].die])
      /\ \A k \in 1..Len(final) : final[k].depth = dies[final[k].die].level
      /\ \A a, b \in 1..Len(final) : a < b => final[a].die < final[b].die
      /\ \A d \in 1..(pos - 1) : HasCode(dies[d]) =>
            \/ \E k \in 1..Len(funcs) : funcs[k].die = d
            \/ \E k \in 1..Len(final) : final[k].die = d
  BY DEF WalkInv, LevelsInv, TypedLists, ListedInv, OrderInv, UnitInv, Finding
<1>2. Len(final) \in Nat /\ \A k \in 1..Len(final) : final[k].die \in 1..Len(dies)
  BY <1>1, ListedDie
<1>3. ASSUME NEW k \in 1..Len(final)
      PROVE  final[k].depth \in Nat \ {0}
  <2> DEFINE d == final[k].die
  <2>1. d \in 1..Len(dies) /\ HasCode(dies[d]) /\ final[k].depth = dies[d].level
    BY <1>1, <1>2
  <2> HIDE DEF d
  <2>2. dies[d].level \in Nat /\ (dies[d].tag = "unit" <=> dies[d].level = 0)
    BY <1>1, <2>1, TreeFacts
  <2> QED
    BY <2>1, <2>2 DEF HasCode, IsFunc
<1>4. \A d \in 1..(pos - 1) : HasCode(dies[d]) => \E k \in 1..Len(final) : final[k].die = d
  BY <1>1
<1> QED
  BY <1>1, <1>2, <1>3, <1>4

(* The function next around one is listed before it. *)
LEMMA EnclFacts ==
    ASSUME WalkInv, at = "funcs", NEW k \in 1..Len(final)
    PROVE  /\ Around(k) \in SUBSET (1..(k - 1))
           /\ Encl(k) \in Nat /\ Encl(k) < k
           /\ Encl(k) = 0 <=> Around(k) = {}
           /\ Encl(k) # 0 => Encl(k) \in Around(k) /\ \A q \in Around(k) : q <= Encl(k)
<1>1. Around(k) \in SUBSET (1..(k - 1))
  <2>1. SUFFICES ASSUME NEW p \in Around(k) PROVE p \in 1..(k - 1)
    OBVIOUS
  <2>2. p \in 1..Len(final) /\ final[p].die < final[k].die
    BY <2>1 DEF Around, Inside
  <2>3. final[k].die \in Nat /\ final[p].die \in Nat
    BY <2>2, FinalFacts
  <2>4. ~(k < p) /\ p # k
    BY <2>2, <2>3, FinalFacts
  <2> QED
    BY <2>2, <2>4, FinalFacts
<1>2. CASE Around(k) = {}
  <2>1. Encl(k) = 0
    BY <1>2 DEF Encl
  <2> QED
    BY <1>1, <1>2, <2>1, FinalFacts
<1>3. CASE Around(k) # {}
  <2>1. \E p \in Around(k) : \A q \in Around(k) : q <= p
    <3>1. k - 1 \in Nat
      BY FinalFacts
    <3> QED
      BY <1>1, <1>3, <3>1, GreatestOf
  <2>2. Encl(k) \in Around(k) /\ \A q \in Around(k) : q <= Encl(k)
    BY <1>3, <2>1 DEF Encl
  <2> QED
    BY <1>1, <1>3, <2>2, FinalFacts
<1> QED
  BY <1>2, <1>3

LEMMA GraphListFacts ==
    ASSUME WalkInv, at = "funcs"
    PROVE  /\ GraphList \in Seq([depth : Nat \ {0}, encl : Nat])
           /\ Len(GraphList) = Len(final)
           /\ \A k \in 1..Len(final) :
                 GraphList[k].depth = final[k].depth /\ GraphList[k].encl = Encl(k)
<1>1. Len(final) \in Nat
  BY FinalFacts
<1>2. \A k \in 1..Len(final) : final[k].depth \in Nat \ {0} /\ Encl(k) \in Nat
  BY FinalFacts, EnclFacts
<1> DEFINE Listings == [depth : Nat \ {0}, encl : Nat]
<1>3. GraphList \in [1..Len(final) -> Listings]
  BY <1>2 DEF GraphList
<1> HIDE DEF Listings
<1>4. GraphList \in Seq(Listings) /\ Len(GraphList) = Len(final)
  BY <1>1, <1>3, FunctionIsList, Zenon
<1>5. \A k \in 1..Len(final) :
         GraphList[k].depth = final[k].depth /\ GraphList[k].encl = Encl(k)
  BY DEF GraphList
<1> QED
  BY <1>4, <1>5 DEF Listings

(* The list findAllFuncs returns of a unit (debuginfo.go:293-351) is as    *)
(* dot and percent of cmd/callgraph need it (callgraph.go:151-198): no     *)
(* function has depth 0, the one around a function comes before it, and    *)
(* whatever is listed between the two is deeper than the one around.  So   *)
(* what CallGraph assumes of its lists holds of every tree of entries.     *)
THEOREM FuncsFitCallGraph == Spec => [](at = "funcs" => FitsGraph(GraphList))
<1>1. ASSUME WalkInv, at = "funcs"
      PROVE  FitsGraph(GraphList)
  <2>1. ASSUME NEW k \in 1..Len(final), Encl(k) # 0, NEW m \in (Encl(k) + 1)..k
        PROVE  final[m].depth > final[Encl(k)].depth
    <3> DEFINE p == Encl(k)
               a == final[p].die
               b == final[m].die
               c == final[k].die
    <3>1. p \in Around(k) /\ p \in Nat /\ p < k /\ k \in Nat /\ Len(final) \in Nat
      BY <1>1, <2>1, EnclFacts, FinalFacts
    <3>2. p \in 1..Len(final) /\ m \in 1..Len(final) /\ Inside(dies, c, a)
      BY <2>1, <3>1 DEF Around
    <3>3. /\ a \in Nat /\ b \in Nat /\ c \in Nat
          /\ final[m].depth = dies[b].level /\ final[p].depth = dies[a].level
      BY <1>1, <2>1, <3>2, FinalFacts
    <3>4. a < b /\ b <= c
      <4>1. p < m /\ (m < k \/ m = k)
        BY <2>1, <3>1
      <4>2. m < k => b < c
        BY <1>1, <2>1, <3>2, FinalFacts
      <4>3. a < b
        BY <1>1, <3>2, <4>1, FinalFacts
      <4> QED
        BY <3>3, <4>1, <4>2, <4>3
    <3> HIDE DEF a, b, c, p
    <3>5. b \in (a + 1)..c
      BY <3>3, <3>4
    <3>6. dies[b].level > dies[a].level
      BY <3>2, <3>5 DEF Inside
    <3> QED
      BY <3>3, <3>6 DEF p
  <2>2. ASSUME NEW k \in 1..Len(GraphList)
        PROVE  LET p == GraphList[k].encl
               IN  /\ p < k
                   /\ p # 0 => \A m \in (p + 1)..k : GraphList[m].depth > GraphList[p].depth
    <3>1. k \in 1..Len(final) /\ GraphList[k].encl = Encl(k) /\ Encl(k) < k /\ Encl(k) \in Nat
      BY <1>1, <2>2, GraphListFacts, EnclFacts
    <3>2. ASSUME Encl(k) # 0, NEW m \in (Encl(k) + 1)..k
          PROVE  GraphList[m].depth > GraphList[Encl(k)].depth
      <4>1. Encl(k) \in 1..Len(final) /\ m \in 1..Len(final)
        BY <1>1, <3>1, <3>2, FinalFacts
      <4>2. GraphList[m].depth = final[m].depth /\ GraphList[Encl(k)].depth = final[Encl(k)].depth
        BY <1>1, <4>1, GraphListFacts
      <4> QED
        BY <2>1, <3>1, <3>2, <4>2
    <3> QED
      BY <3>1, <3>2
  <2> QED
    BY <1>1, <2>2, GraphListFacts DEF FitsGraph
<1>2. WalkInv => (at = "funcs" => FitsGraph(GraphList))
  BY <1>1
<1> QED
  BY <1>2, WalkInvariant, PTL

(* Where functions with code stand directly in their unit or in each       *)
(* other, the list is one on which callgraph draws the nesting and nothing *)
(* else: every function is listed one level below the one around it.       *)
THEOREM PlainFuncsAreDirect == Spec => [](at = "funcs" /\ Plain(dies) => DirectIn(GraphList))
<1>1. ASSUME WalkInv, at = "funcs", Plain(dies), NEW k \in 1..Len(final)
      PROVE  final[k].depth = 1 + (IF Encl(k) = 0 THEN 0 ELSE final[Encl(k)].depth)
  <2> DEFINE c == final[k].die
  <2>1. /\ c \in 1..Len(dies) /\ HasCode(dies[c]) /\ c < pos /\ final[k].depth = dies[c].level
        /\ dies \in Trees /\ pos \in 1..(Len(dies) + 1)
    BY <1>1, FinalFacts
  <2> HIDE DEF c
  <2>2. PICK i \in 1..(c - 1) :
            /\ Inside(dies, c, i) /\ dies[c].level = dies[i].level + 1
            /\ dies[i].tag = "unit" \/ HasCode(dies[i])
    BY <1>1, <2>1 DEF Plain
  <2>3. /\ Len(dies) \in Nat
        /\ \A d \in 1..Len(dies) :
              dies[d].level \in Nat /\ (dies[d].tag = "unit" <=> dies[d].level = 0)
    BY <2>1, TreeFacts
  <2>4. i \in 1..Len(dies)
    BY <2>1, <2>2, <2>3
  <2>5. CASE dies[i].tag = "unit"
    <3>1. dies[i].level = 0 /\ dies[c].level = 1
      BY <2>2, <2>3, <2>4, <2>5
    <3>2. ASSUME NEW q \in Around(k) PROVE FALSE
      <4> DEFINE a == final[q].die
      <4>1. q \in 1..Len(final) /\ Inside(dies, c, a)
        BY <3>2 DEF Around, c
      <4>2. a \in 1..Len(dies) /\ final[q].depth = dies[a].level /\ final[q].depth \in Nat \ {0}
        BY <1>1, <4>1, FinalFacts
      <4> HIDE DEF a
      <4>3. c \in (a + 1)..c
        BY <2>1, <4>1, <4>2 DEF Inside
      <4>4. dies[c].level > dies[a].level
        BY <4>1, <4>3 DEF Inside
      <4> QED
        BY <3>1, <4>2, <4>4
    <3>3. Encl(k) = 0
      BY <1>1, <3>2, EnclFacts
    <3> QED
      BY <2>1, <3>1, <3>3
  <2>6. CASE HasCode(dies[i])
    <3>1. PICK q \in 1..Len(final) : final[q].die = i
      <4>1. i \in 1..(pos - 1)
        BY <2>1, <2>2
      <4> QED
        BY <1>1, <2>6, <4>1, FinalFacts
    <3>2. q \in Around(k)
      BY <2>2, <3>1 DEF Around, c
    <3>3. Encl(k) \in Around(k) /\ q <= Encl(k) /\ Encl(k) # 0
      BY <1>1, <3>2, EnclFacts
    <3> DEFINE e == Encl(k)
               a == final[e].die
    <3>4. e \in 1..Len(final) /\ Inside(dies, c, a)
      BY <3>3 DEF Around, c
    <3>5. a \in 1..Len(dies) /\ final[e].depth = dies[a].level
      BY <1>1, <3>4, FinalFacts
    <3>6. e = q
      <4>1. SUFFICES ASSUME q < e PROVE FALSE
        BY <3>1, <3>3, <3>4
      <4>2. i < a
        BY <1>1, <3>1, <3>4, <4>1, FinalFacts
      <4> HIDE DEF a, e
      <4>3. a < c
        BY <3>4 DEF Inside
      <4>4. a \in (i + 1)..c /\ c \in (a + 1)..c
        BY <2>1, <2>4, <3>5, <4>2, <4>3
      <4>5. dies[a].level > dies[i].level /\ dies[c].level > dies[a].level
        BY <2>2, <3>4, <4>4 DEF Inside
      <4>6. dies[a].level \in Nat /\ dies[i].level \in Nat /\ dies[c].level \in Nat
        BY <2>1, <2>3, <2>4, <3>5
      <4>7. dies[c].level = dies[i].level + 1
        BY <2>2
      <4> QED
        BY <4>5, <4>6, <4>7, SMTT(30)
    <3>7. final[Encl(k)].depth = dies[i].level
      BY <3>1, <3>5, <3>6
    <3> QED
      BY <2>1, <2>2, <2>3, <2>4, <3>3, <3>7
  <2> QED
    BY <2>2, <2>5, <2>6
<1>2. ASSUME WalkInv, at = "funcs", Plain(dies), NEW k \in 1..Len(GraphList)
      PROVE  GraphList[k].depth =
                 1 + (IF GraphList[k].encl = 0 THEN 0 ELSE GraphList[GraphList[k].encl].depth)
  <2>1. k \in 1..Len(final) /\ GraphList[k].encl = Encl(k) /\ GraphList[k].depth = final[k].depth
    BY <1>2, GraphListFacts
  <2>2. Encl(k) # 0 => GraphList[Encl(k)].depth = final[Encl(k)].depth
    <3>1. Encl(k) # 0 => Encl(k) \in 1..Len(final)
      BY <1>2, <2>1, EnclFacts DEF Around
    <3> QED
      BY <1>2, <3>1, GraphListFacts
  <2> QED
    BY <1>1, <1>2, <2>1, <2>2
<1>3. WalkInv => (at = "funcs" /\ Plain(dies) => DirectIn(GraphList))
  BY <1>2 DEF DirectIn
<1> QED
  BY <1>3, WalkInvariant, PTL

-----------------------------------------------------------------------------
(* FindAllFuncs puts the lists of the units one behind the other, in the   *)
(* order they come in.                                                     *)

Moved(e, n) == [depth |-> e.depth, encl |-> IF e.encl = 0 THEN 0 ELSE e.encl + n]

Joined(a, b) ==
    [k \in 1..(Len(a) + Len(b)) |-> IF k <= Len(a) THEN a[k] ELSE Moved(b[k - Len(a)], Len(a))]

LEMMA JoinedFacts ==
    ASSUME NEW a \in Seq([depth : Nat \ {0}, encl : Nat]),
           NEW b \in Seq([depth : Nat \ {0}, encl : Nat])
    PROVE  /\ Joined(a, b) \in Seq([depth : Nat \ {0}, encl : Nat])
           /\ Len(Joined(a, b)) = Len(a) + Len(b)
           /\ Len(a) \in Nat /\ Len(b) \in Nat
           /\ \A k \in 1..Len(a) :
                 Joined(a, b)[k] = a[k] /\ a[k].depth \in Nat \ {0} /\ a[k].encl \in Nat
           /\ \A k \in 1..Len(b) :
                 /\ Joined(a, b)[k + Len(a)].depth = b[k].depth
                 /\ Joined(a, b)[k + Len(a)].encl = IF b[k].encl = 0 THEN 0 ELSE b[k].encl + Len(a)
                 /\ b[k].depth \in Nat \ {0} /\ b[k].encl \in Nat
<1> DEFINE Listings == [depth : Nat \ {0}, encl : Nat]
           n == Len(a) + Len(b)
<1>1. Len(a) \in Nat /\ Len(b) \in Nat /\ n \in Nat
  OBVIOUS
<1>2. \A e \in Listings : e.depth \in Nat \ {0} /\ e.encl \in Nat /\ Moved(e, Len(a)) \in Listings
  BY <1>1 DEF Moved
<1>3. a \in Seq(Listings) /\ b \in Seq(Listings)
  OBVIOUS
<1> HIDE DEF Listings
<1>4. (\A k \in 1..Len(a) : a[k] \in Listings) /\ (\A k \in 1..Len(b) : b[k] \in Listings)
  BY <1>3
<1>5. Joined(a, b) \in [1..n -> Listings]
  <2>1. ASSUME NEW k \in 1..n
        PROVE  (IF k <= Len(a) THEN a[k] ELSE Moved(b[k - Len(a)], Len(a))) \in Listings
    <3>1. CASE k <= Len(a)
      BY <1>1, <1>4, <3>1
    <3>2. CASE ~(k <= Len(a))
      <4>1. k - Len(a) \in 1..Len(b)
        BY <1>1, <3>2
      <4> QED
        BY <1>2, <1>4, <3>2, <4>1
    <3> QED
      BY <3>1, <3>2
  <2> QED
    BY <2>1 DEF Joined
<1>6. Joined(a, b) \in Seq(Listings) /\ Len(Joined(a, b)) = n
  <2> HIDE DEF n
  <2> QED
    BY <1>1, <1>5, FunctionIsList, Zenon
<1>7. \A k \in 1..Len(a) :
         Joined(a, b)[k] = a[k] /\ a[k].depth \in Nat \ {0} /\ a[k].encl \in Nat
  BY <1>1, <1>2, <1>4 DEF Joined
<1>8. ASSUME NEW k \in 1..Len(b)
      PROVE  /\ Joined(a, b)[k + Len(a)].depth = b[k].depth
             /\ Joined(a, b)[k + Len(a)].encl = IF b[k].encl = 0 THEN 0 ELSE b[k].encl + Len(a)
             /\ b[k].depth \in Nat \ {0} /\ b[k].encl \in Nat
  <2>1. k + Len(a) \in 1..n /\ ~(k + Len(a) <= Len(a)) /\ (k + Len(a)) - Len(a) = k
    BY <1>1
  <2>2. Joined(a, b)[k + Len(a)] = Moved(b[k], Len(a))
    BY <2>1 DEF Joined
  <2> QED
    BY <1>2, <1>4, <2>2 DEF Moved
<1> QED
  BY <1>1, <1>6, <1>7, <1>8 DEF Listings

(* So the list FindAllFuncs returns of all units (debuginfo.go:161-194) is *)
(* fit for cmd/callgraph too, and direct where theirs are: neither is lost *)
(* when one more list is put behind those that have come.                  *)
THEOREM JoinedListsFit ==
    ASSUME NEW a, NEW b, FitsGraph(a), FitsGraph(b)
    PROVE  FitsGraph(Joined(a, b)) /\ (DirectIn(a) /\ DirectIn(b) => DirectIn(Joined(a, b)))
<1> DEFINE j == Joined(a, b)
           n == Len(a)
<1>1. /\ a \in Seq([depth : Nat \ {0}, encl : Nat]) /\ b \in Seq([depth : Nat \ {0}, encl : Nat])
      /\ \A k \in 1..Len(a) : a[k].encl < k
      /\ \A k \in 1..Len(b) : b[k].encl < k
      /\ \A k \in 1..Len(a) : a[k].encl # 0 =>
            \A m \in (a[k].encl + 1)..k : a[m].depth > a[a[k].encl].depth
      /\ \A k \in 1..Len(b) : b[k].encl # 0 =>
            \A m \in (b[k].encl + 1)..k : b[m].depth > b[b[k].encl].depth
  BY DEF FitsGraph
<1>2. /\ j \in Seq([depth : Nat \ {0}, encl : Nat])
      /\ Len(j) = n + Len(b) /\ n \in Nat /\ Len(b) \in Nat
      /\ \A k \in 1..n : j[k] = a[k] /\ a[k].depth \in Nat \ {0} /\ a[k].encl \in Nat
      /\ \A k \in 1..Len(b) :
            /\ j[k + n].depth = b[k].depth
            /\ j[k + n].encl = IF b[k].encl = 0 THEN 0 ELSE b[k].encl + n
            /\ b[k].depth \in Nat \ {0} /\ b[k].encl \in Nat
  BY <1>1, JoinedFacts
<1> HIDE DEF j, n
<1>len. n \in Nat /\ Len(b) \in Nat
  BY <1>2
<1>3. ASSUME NEW k \in 1..Len(j)
      PROVE  k \in 1..n \/ \E i \in 1..Len(b) : k = i + n
  <2>1. CASE k <= n
    BY <1>2, <2>1
  <2>2. CASE k > n
    <3>1. k - n \in 1..Len(b) /\ k = (k - n) + n
      BY <1>2, <2>2
    <3> QED
      BY <3>1
  <2> QED
    BY <1>2, <2>1, <2>2
<1>4. ASSUME NEW k \in 1..Len(j)
      PROVE  LET p == j[k].encl
             IN  p < k /\ (p # 0 => \A m \in (p + 1)..k : j[m].depth > j[p].depth)
  <2>1. CASE k \in 1..n
    <3>1. j[k].encl = a[k].encl /\ a[k].encl \in Nat /\ a[k].encl < k
      BY <1>1, <1>2, <2>1 DEF n
    <3>2. ASSUME a[k].encl # 0, NEW m \in (a[k].encl + 1)..k
          PROVE  j[m].depth > j[a[k].encl].depth
      <4>1. m \in 1..n /\ a[k].encl \in 1..n
        BY <1>len, <2>1, <3>1, <3>2
      <4>2. j[m] = a[m] /\ j[a[k].encl] = a[a[k].encl]
        BY <1>2, <4>1
      <4>3. k \in 1..Len(a) /\ a[k].encl # 0
        BY <2>1, <3>2 DEF n
      <4>4. a[m].depth > a[a[k].encl].depth
        BY <1>1, <3>2, <4>3
      <4> QED
        BY <4>2, <4>4
    <3> QED
      BY <3>1, <3>2
  <2>2. CASE \E i \in 1..Len(b) : k = i + n
    <3>1. PICK i \in 1..Len(b) : k = i + n
      BY <2>2
    <3>2. /\ b[i].encl \in Nat /\ b[i].encl < i
          /\ j[k].encl = IF b[i].encl = 0 THEN 0 ELSE b[i].encl + n
      BY <1>1, <1>2, <3>1
    <3>3. ASSUME b[i].encl # 0, NEW m \in (b[i].encl + n + 1)..k
          PROVE  j[m].depth > j[b[i].encl + n].depth
      <4>1. m - n \in (b[i].encl + 1)..i /\ m - n \in 1..Len(b) /\ b[i].encl \in 1..Len(b)
            /\ m = (m - n) + n
        BY <1>len, <3>1, <3>2, <3>3
      <4>2. j[m].depth = b[m - n].depth /\ j[b[i].encl + n].depth = b[b[i].encl].depth
        BY <1>2, <4>1
      <4>3. b[m - n].depth > b[b[i].encl].depth
        BY <1>1, <3>3, <4>1
      <4> QED
        BY <4>2, <4>3
    <3>4. CASE b[i].encl = 0
      BY <1>2, <3>1, <3>2, <3>4
    <3>5. CASE b[i].encl # 0
      <4>1. j[k].encl = b[i].encl + n /\ b[i].encl + n < k
        BY <1>len, <3>1, <3>2, <3>5
      <4> QED
        BY <3>3, <3>5, <4>1
    <3> QED
      BY <3>4, <3>5
  <2> QED
    BY <1>3, <2>1, <2>2
<1>5. FitsGraph(j)
  BY <1>2, <1>4 DEF FitsGraph
<1>6. ASSUME DirectIn(a), DirectIn(b), NEW k \in 1..Len(j)
      PROVE  j[k].depth = 1 + (IF j[k].encl = 0 THEN 0 ELSE j[j[k].encl].depth)
  <2>1. CASE k \in 1..n
    <3>1. /\ j[k] = a[k] /\ a[k].encl \in Nat /\ a[k].encl < k
          /\ a[k].depth = 1 + (IF a[k].encl = 0 THEN 0 ELSE a[a[k].encl].depth)
      BY <1>1, <1>2, <1>6, <2>1 DEF DirectIn, n
    <3>2. a[k].encl # 0 => j[a[k].encl] = a[a[k].encl]
      <4>1. a[k].encl # 0 => a[k].encl \in 1..n
        BY <1>len, <2>1, <3>1
      <4> QED
        BY <1>2, <4>1
    <3> QED
      BY <3>1, <3>2
  <2>2. CASE \E i \in 1..Len(b) : k = i + n
    <3>1. PICK i \in 1..Len(b) : k = i + n
      BY <2>2
    <3>2. /\ b[i].encl \in Nat /\ b[i].encl < i
          /\ j[k].depth = b[i].depth
          /\ j[k].encl = IF b[i].encl = 0 THEN 0 ELSE b[i].encl + n
          /\ b[i].depth = 1 + (IF b[i].encl = 0 THEN 0 ELSE b[b[i].encl].depth)
      BY <1>1, <1>2, <1>6, <3>1 DEF DirectIn
    <3>3. b[i].encl # 0 => j[b[i].encl + n].depth = b[b[i].encl].depth /\ b[i].encl + n # 0
      <4>1. b[i].encl # 0 => b[i].encl \in 1..Len(b) /\ b[i].encl + n # 0
        BY <1>len, <3>1, <3>2
      <4> QED
        BY <1>2, <4>1
    <3> QED
      BY <3>2, <3>3
  <2> QED
    BY <1>3, <2>1, <2>2
<1>7. DirectIn(a) /\ DirectIn(b) => DirectIn(j)
  BY <1>6 DEF DirectIn
<1> QED
  BY <1>5, <1>7 DEF j

-----------------------------------------------------------------------------
(* Every step of a walk uses up some of a finite amount of work, which at  *)
(* the start is three for each entry and three more at most: the loops at  *)
(* debuginfo.go:205, 252 and 299, which leave only on what they read, end  *)
(* on every tree, however the null entries lie in it.                      *)
Rank ==
    CASE at = "getSubprogram" -> 3
      [] at \in {"findAllFuncs", "getSubroutines"} -> 2
      [] at \in {"finalFuncs", "subroutines"} -> 1
      [] OTHER -> 0

Work == 3 * (Len(dies) + 1 - pos) + nest + Len(funcs) + Rank

THEOREM WalksEnd ==
    Spec => [](Work \in Nat) /\ [][Work' < Work]_vars
<1>1. ASSUME TypeInv
      PROVE  /\ Len(dies) \in Nat /\ pos \in 1..(Len(dies) + 1) /\ nest \in Nat
             /\ Len(funcs) \in Nat /\ Rank \in 0..3
  <2>1. dies \in Trees /\ pos \in 1..(Len(dies) + 1) /\ nest \in 0..(pos - 1)
        /\ funcs \in Seq(FuncOf(dies))
    BY <1>1 DEF TypeInv
  <2>2. Len(dies) \in Nat /\ Len(funcs) \in Nat
    BY <2>1, TreeFacts
  <2> QED
    BY <2>1, <2>2 DEF Rank
<1>2. TypeInv => Work \in Nat
  BY <1>1 DEF Work
<1>3. ASSUME TypeInv, WalkInv, Next
      PROVE  Work' < Work
  <2>1. /\ Len(dies) \in Nat /\ pos \in Nat /\ pos \in 1..(Len(dies) + 1) /\ nest \in Nat
        /\ Len(funcs) \in Nat /\ Rank \in 0..3 /\ funcs \in Seq(FuncOf(dies))
    BY <1>1, <1>3 DEF TypeInv
  <2>2. dies' = dies
    BY <1>3 DEF Next, FindAllFuncs, Null, EndOfUnit, FinalFunc, AllFuncs, GetSubprogram,
         NoSubprogramFound, GetSubroutines, AllSubroutines, MakeFrames
  <2>3. ReadDie => pos' = pos + 1 /\ nest' \in {nest, nest + 1}
    BY DEF ReadDie
  <2>4. Len(Append(funcs, Func)) = Len(funcs) + 1
    BY <2>1
  <2>5. ASSUME ReadDie, at' = at, funcs' \in {funcs, Append(funcs, Func)}
        PROVE  Work' < Work
    <3>1. Rank' = Rank
      BY <2>5 DEF Rank
    <3>2. Len(funcs') \in {Len(funcs), Len(funcs) + 1}
      BY <2>4, <2>5
    <3> QED
      BY <2>1, <2>2, <2>3, <2>5, <3>1, <3>2 DEF Work
  <2>6. ASSUME UNCHANGED <<reader, funcs>>, Rank' < Rank, Rank' \in Nat
        PROVE  Work' < Work
    BY <2>1, <2>2, <2>6 DEF Work, reader
  <2>7. CASE FindAllFuncs
    <3>1. CASE Fail /\ UNCHANGED <<reader, funcs>>
      <4>1. Rank' = 0 /\ Rank = 2
        BY <2>7, <3>1 DEF FindAllFuncs, Fail, Rank
      <4> QED
        BY <2>6, <3>1, <4>1
    <3>2. CASE ReadDie /\ at' = at /\ funcs' \in {funcs, Append(funcs, Func)}
      BY <2>5, <3>2
    <3> QED
      BY <2>7, <3>1, <3>2 DEF FindAllFuncs
  <2>8. CASE Null
    <3>1. nest' = nest - 1 /\ pos' = pos /\ funcs' = funcs /\ Rank' = Rank
      BY <2>8 DEF Null, ReadNull, Rank
    <3> QED
      BY <2>1, <2>2, <3>1 DEF Work
  <2>9. CASE FinalFunc
    <3>1. funcs # << >> /\ funcs' = Tail(funcs) /\ UNCHANGED <<pos, nest>> /\ Rank' = Rank
      BY <2>9 DEF FinalFunc, Rank, reader
    <3>2. Len(Tail(funcs)) = Len(funcs) - 1
      BY <2>1, <3>1
    <3> QED
      BY <2>1, <2>2, <3>1, <3>2 DEF Work
  <2>10. CASE EndOfUnit \/ AllFuncs \/ NoSubprogramFound \/ AllSubroutines \/ MakeFrames
    <3>1. UNCHANGED <<reader, funcs>> /\ Rank' < Rank /\ Rank' \in Nat
      BY <2>10 DEF EndOfUnit, AllFuncs, NoSubprogramFound, AllSubroutines, MakeFrames, Rank
    <3> QED
      BY <2>6, <3>1
  <2>11. CASE GetSubprogram
    <3>1. CASE ReadDie /\ at' = at
      BY <2>5, <2>11, <3>1 DEF GetSubprogram
    <3>2. CASE UNCHANGED reader /\ at' \in {"error", "panic", "getSubroutines"}
      <4>1. Rank' < Rank /\ Rank' \in Nat /\ UNCHANGED <<reader, funcs>>
        BY <2>11, <3>2 DEF GetSubprogram, Rank
      <4> QED
        BY <2>6, <4>1
    <3> QED
      BY <2>11, <3>1, <3>2 DEF GetSubprogram, Fail
  <2>12. CASE GetSubroutines
    <3>1. CASE ReadDie /\ at' = at /\ funcs' \in {funcs, Append(funcs, Func)}
      BY <2>5, <3>1
    <3>2. CASE Fail /\ UNCHANGED <<reader, funcs>>
      <4>1. Rank' < Rank /\ Rank' \in Nat
        BY <2>12, <3>2 DEF GetSubroutines, Fail, Rank
      <4> QED
        BY <2>6, <3>2, <4>1
    <3> QED
      BY <2>12, <3>1, <3>2 DEF GetSubroutines
  <2> QED
    BY <1>3, <2>7, <2>8, <2>9, <2>10, <2>11, <2>12 DEF Next
<1> QED
  BY <1>2, <1>3, TypeInvariant, WalkInvariant, PTL DEF Spec
=============================================================================
