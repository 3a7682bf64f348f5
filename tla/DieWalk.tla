------------------------------- MODULE DieWalk -------------------------------
(***************************************************************************)
(* The walks over the entries of a compile unit (parser/debuginfo.go):     *)
(* findAllFuncs, which lists its functions for FindAllFuncs and            *)
(* FindAllFuncsInCUByAddr, and GetSubprogramByAddr followed by             *)
(* GetSubroutinesBySubprogram, whose subroutines FindAllFramesByAddr       *)
(* (parser/dwarf.go) makes into the frames of an address.  Each keeps a    *)
(* depth of its own by counting entries with children and null entries.    *)
(***************************************************************************)
EXTENDS Dies, Sorting

CONSTANTS Trees   \* sequences of entries, the first unit being the one walked

ASSUME TreesAssumption == \A t \in Trees : t \in Seq(Entries) /\ WellFormed(t)

VARIABLES
    dies,     \* the entries
    at,       \* the walk under way, or how it ended
    pos,      \* the reader: the entry it is at ...
    nest,     \* ... and the level it reads at
    first,    \* no unit, or no subprogram, was read yet
    depth,    \* the code's depth
    funcs,    \* the functions listed so far: [die, depth]
    final,    \* those of them with code, as findAllFuncs goes over its list
    sp,       \* the subprogram found
    frames    \* the frames: [func, site]

reader == <<pos, nest>>
vars == <<dies, at, reader, first, depth, funcs, final, sp, frames>>

NoSubprogram == [die |-> 0, depth |-> 0]

Init ==
    /\ dies \in Trees
    /\ at \in {"findAllFuncs", "getSubprogram"}
    /\ pos = 1 /\ nest = 0
    /\ first = TRUE
    /\ depth = 0
    /\ funcs = << >> /\ final = << >>
    /\ sp = NoSubprogram
    /\ frames = << >>

-----------------------------------------------------------------------------
(* The reader: its next entry is an entry of the tree, the null entry at   *)
(* the end of a list of children, or none.                                 *)
NullNext == nest > (IF pos > Len(dies) THEN 0 ELSE dies[pos].level)
NoneNext == pos > Len(dies) /\ nest = 0
DieNext == ~NullNext /\ ~NoneNext

ReadDie ==
    /\ DieNext
    /\ pos' = pos + 1
    /\ nest' = IF HasChildren(dies, pos) THEN nest + 1 ELSE nest

ReadNull ==
    /\ NullNext
    /\ nest' = nest - 1
    /\ UNCHANGED pos

Die == dies[pos]
Deeper == IF HasChildren(dies, pos) THEN depth + 1 ELSE depth

(* An error is returned, or a type assertion on a missing value panics. *)
Fail == at' \in {"error", "panic"}

Func == [die |-> pos, depth |-> depth]

-----------------------------------------------------------------------------
(* Variants of definitions below, each with one plausible bug; only the    *)
(* mutation runs use them.                                                 *)

NamelessUncounted(e) == IsFunc(e) /\ e.form = "nameless"

CodelessUncounted(e) == IsFunc(e) /\ e.form = "nocode"

NoStopAtUnit == FALSE

AllOfThem(s) == {funcs[k].die : k \in 1..Len(funcs)}

EndOfSubprogramNever == FALSE

-----------------------------------------------------------------------------
(* findAllFuncs *)

(* Entries whose children are not counted.  There are none: every branch   *)
(* of the loop, also one that lists nothing, goes on at the label.         *)
Uncounted(e) == FALSE

(* parseSubprogram or parseSubroutine returned a function. *)
Listed(e) == e.form \notin {"nameless", "broken"}

AtNextUnit == Die.tag = "unit" /\ ~first

HasRanges(f) == dies[f.die].form # "nocode"

FindAllFuncs ==
    /\ at = "findAllFuncs"
    /\ DieNext
    /\ ~AtNextUnit
    /\ IF IsFunc(Die) /\ Die.form = "broken"
       THEN Fail /\ UNCHANGED <<reader, first, depth, funcs>>
       ELSE /\ ReadDie
            /\ first' = FALSE
            /\ funcs' = IF IsFunc(Die) /\ Listed(Die) THEN Append(funcs, Func) ELSE funcs
            /\ depth' = IF Uncounted(Die) THEN depth ELSE Deeper
            /\ UNCHANGED at
    /\ UNCHANGED <<dies, final, sp, frames>>

(* Any of the walks: a null entry. *)
Null ==
    /\ at \in {"findAllFuncs", "getSubprogram", "getSubroutines"}
    /\ ReadNull
    /\ depth' = depth - 1
    /\ UNCHANGED <<dies, at, first, funcs, final, sp, frames>>

(* At the next unit or the end ... *)
EndOfUnit ==
    /\ at = "findAllFuncs"
    /\ NoneNext \/ (DieNext /\ AtNextUnit)
    /\ at' = "finalFuncs"
    /\ UNCHANGED <<dies, reader, first, depth, funcs, final, sp, frames>>

(* ... the list is gone through, and the functions without code left out.  *)
FinalFunc ==
    /\ at = "finalFuncs"
    /\ funcs # << >>
    /\ final' = IF HasRanges(Head(funcs)) THEN Append(final, Head(funcs)) ELSE final
    /\ funcs' = Tail(funcs)
    /\ UNCHANGED <<dies, at, reader, first, depth, sp, frames>>

AllFuncs ==
    /\ at = "finalFuncs"
    /\ funcs = << >>
    /\ at' = "funcs"
    /\ UNCHANGED <<dies, reader, first, depth, funcs, final, sp, frames>>

-----------------------------------------------------------------------------
(* GetSubprogramByAddr: here the children of an entry without name or code *)
(* are not counted.                                                        *)
GetSubprogram ==
    /\ at = "getSubprogram"
    /\ DieNext
    /\ ~AtNextUnit
    /\ CASE Die.tag = "unit" ->
                ReadDie /\ first' = FALSE /\ depth' = depth + 1 /\ UNCHANGED <<at, sp>>
         [] Die.tag = "subprogram" /\ Die.form = "broken" ->
                Fail /\ UNCHANGED <<reader, first, depth, sp>>
         [] Die.tag = "subprogram" /\ Die.form \in {"nameless", "nocode"} ->
                ReadDie /\ UNCHANGED <<at, first, depth, sp>>
         [] Die.tag = "subprogram" /\ Die.form = "in" ->
                (* GetSubroutinesBySubprogram seeks back to it. *)
                /\ sp' = Func
                /\ at' = "getSubroutines" /\ first' = TRUE /\ depth' = 0
                /\ UNCHANGED reader
         [] OTHER ->
                ReadDie /\ depth' = Deeper /\ UNCHANGED <<at, first, sp>>
    /\ UNCHANGED <<dies, funcs, final, frames>>

(* There is none, and FindAllFramesByAddr dereferences nil. *)
NoSubprogramFound ==
    /\ at = "getSubprogram"
    /\ NoneNext \/ (DieNext /\ AtNextUnit)
    /\ at' = "panic"
    /\ UNCHANGED <<dies, reader, first, depth, funcs, final, sp, frames>>

-----------------------------------------------------------------------------
(* GetSubroutinesBySubprogram: every inlined subroutine with code, up to   *)
(* the next subprogram wherever that is - in the next unit, or inside this *)
(* one.                                                                    *)
EndOfSubprogram == DieNext /\ Die.tag = "subprogram" /\ ~first

GetSubroutines ==
    /\ at = "getSubroutines"
    /\ DieNext
    /\ ~EndOfSubprogram
    /\ CASE Die.tag = "subprogram" ->
                ReadDie /\ first' = FALSE /\ depth' = sp.depth /\ UNCHANGED <<at, funcs>>
         [] Die.tag = "inlined" /\ Die.form = "broken" ->
                Fail /\ UNCHANGED <<reader, first, depth, funcs>>
         [] Die.tag = "inlined" /\ Die.form \in {"nameless", "nocode"} ->
                ReadDie /\ UNCHANGED <<at, first, depth, funcs>>
         [] Die.tag = "inlined" /\ Die.form \in {"in", "out"} ->
                ReadDie /\ funcs' = Append(funcs, Func) /\ depth' = Deeper /\ UNCHANGED <<at, first>>
         [] OTHER ->
                ReadDie /\ depth' = Deeper /\ UNCHANGED <<at, first, funcs>>
    /\ UNCHANGED <<dies, final, sp, frames>>

AllSubroutines ==
    /\ at = "getSubroutines"
    /\ NoneNext \/ EndOfSubprogram
    /\ at' = "subroutines"
    /\ UNCHANGED <<dies, reader, first, depth, funcs, final, sp, frames>>

-----------------------------------------------------------------------------
(* FindAllFramesByAddr: of the subroutines those that have the address ... *)
WithAddress(s) == {s[k].die : k \in {m \in 1..Len(s) : dies[s[m].die].form = "in"}}

(* ... and the subprogram, the highest offset first.  The line entry of    *)
(* the address, site 0, gets the name of the first, the call site of each  *)
(* the name of the next.                                                   *)
FramesOf(fs) ==
    LET chain == Sorted(fs, {p \in fs \X fs : p[1] >= p[2]})
    IN  [k \in 1..Len(chain) |->
            [func |-> chain[k], site |-> IF k = 1 THEN 0 ELSE chain[k - 1]]]

MakeFrames ==
    /\ at = "subroutines"
    /\ frames' = FramesOf({sp.die} \cup WithAddress(funcs))
    /\ at' = "frames"
    /\ UNCHANGED <<dies, reader, first, depth, funcs, final, sp>>

-----------------------------------------------------------------------------
Next ==
    \/ FindAllFuncs \/ Null \/ EndOfUnit \/ FinalFunc \/ AllFuncs
    \/ GetSubprogram \/ NoSubprogramFound
    \/ GetSubroutines \/ AllSubroutines \/ MakeFrames

Spec == Init /\ [][Next]_vars

-----------------------------------------------------------------------------
(* Properties. *)

Ends == {"funcs", "frames", "error", "panic"}

TypeOK ==
    /\ at \in {"findAllFuncs", "finalFuncs", "getSubprogram", "getSubroutines", "subroutines"}
              \cup Ends
    /\ pos \in 1..(Len(dies) + 1) /\ nest \in 0..Len(dies)
    /\ first \in BOOLEAN
    /\ depth \in Int /\ (at \in {"findAllFuncs", "finalFuncs", "funcs"} => depth >= 0)
    /\ funcs \in Seq([die : 1..Len(dies), depth : Int])
    /\ final \in Seq([die : 1..Len(dies), depth : Int])
    /\ sp.die \in 0..Len(dies)
    /\ \A k \in 1..Len(frames) : frames[k].func \in 1..Len(dies) /\ frames[k].site \in 0..Len(dies)

IsNested(k) == \E i \in 1..Len(dies) : dies[i].tag = "subprogram" /\ Inside(dies, k, i)
HasNested(k) == \E i \in 1..Len(dies) : dies[i].tag = "subprogram" /\ Inside(dies, i, k)

(* findAllFuncs lists the functions of its unit that have code, all of     *)
(* them, each once, in the order of their entries - whatever entries come  *)
(* between and behind them (debuginfo.go:293-351).                         *)
FuncsAreThoseOfUnit ==
    at = "funcs" =>
        /\ {final[k].die : k \in 1..Len(final)} = {k \in FirstUnit(dies) : HasCode(dies[k])}
        /\ \A a, b \in 1..Len(final) : a < b => final[a].die < final[b].die

(* The depth of a listed function is its level in the tree: counting       *)
(* entries with children and null entries never gets out of step.          *)
DepthIsLevel ==
    at \in {"findAllFuncs", "finalFuncs", "funcs"} =>
        /\ \A k \in 1..Len(funcs) : funcs[k].depth = dies[funcs[k].die].level
        /\ \A k \in 1..Len(final) : final[k].depth = dies[final[k].die].level

(* The subroutines of a subprogram are inside it: nothing of the next      *)
(* function or unit gets into the list, although the walk runs on into it. *)
(* (Of a function that is itself inside one, also what comes after it.)    *)
SubroutinesAreInside ==
    at \in {"getSubroutines", "subroutines", "frames"} /\ ~IsNested(sp.die) =>
        \A k \in 1..Len(funcs) : Inside(dies, funcs[k].die, sp.die)

Chain == {k \in 1..Len(dies) : k >= sp.die /\ IsFunc(dies[k]) /\ dies[k].form = "in"}

(* The frames of an address are the functions around it from the innermost *)
(* out to the subprogram, each with the call site of the one inside it; an *)
(* entry of a subprogram inside the subprogram can only cut off the inner  *)
(* ones.                                                                   *)
FramesAreChain ==
    at = "frames" =>
        /\ \A k \in 1..Len(frames) :
              /\ frames[k].func \in Chain
              /\ k = 1 => frames[k].site = 0
              /\ k > 1 => frames[k].site = frames[k - 1].func /\ Inside(dies, frames[k].site, frames[k].func)
        /\ frames[Len(frames)].func = sp.die
        /\ ~HasNested(sp.die) => Len(frames) = Cardinality(Chain)
=============================================================================
