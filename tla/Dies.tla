-------------------------------- MODULE Dies --------------------------------
(***************************************************************************)
(* The debugging information entries (DIEs) of .debug_info as the parser   *)
(* reads them: in preorder, each with its level in the tree.  A compile    *)
(* unit is at level 0.  The reader of debug/dwarf gives a null entry       *)
(* (Tag 0) at the end of each list of children; it is not in the sequence  *)
(* but follows from the levels.                                            *)
(*                                                                         *)
(* Of a function's entry (a subprogram or an inlined subroutine) only its  *)
(* form counts here: what parseSubprogram or parseSubroutine makes of it,  *)
(* and whether its ranges have the address looked up.                      *)
(***************************************************************************)
EXTENDS Integers, Sequences, FiniteSets

Tags == {"unit", "subprogram", "inlined", "other"}

Forms ==
    { "in",         \* it has code, with the address
      "out",        \* it has code, without the address
      "nocode",     \* no ranges: a declaration or an abstract instance
      "nameless",   \* no name or no abstract origin: it is skipped
      "broken" }    \* its file index, origin or ranges cannot be read, or an
                    \* attribute is missing that the code takes for granted

Entries == [level : Nat, tag : Tags, form : Forms]

IsFunc(e) == e.tag \in {"subprogram", "inlined"}
HasCode(e) == IsFunc(e) /\ e.form \in {"in", "out"}

(* Entry k of t is inside entry i. *)
Inside(t, k, i) == i < k /\ \A m \in (i + 1)..k : t[m].level > t[i].level

HasChildren(t, k) == k < Len(t) /\ t[k + 1].level > t[k].level

(* The entries of the first unit. *)
FirstUnit(t) == {k \in 1..Len(t) : \A m \in 2..k : t[m].tag # "unit"}

(* What a compiler leaves: levels go down one at a time, only units are at *)
(* the top, an inlined subroutine is in a subprogram of its unit.  At most *)
(* one subprogram has the address, and of what is inlined in it one        *)
(* subroutine per level, each inside the other.                            *)
Fits(t, k) ==
    LET e == t[k]
        before == 1..(k - 1)
    IN  /\ e.tag = "unit" <=> e.level = 0
        /\ ~IsFunc(e) => e.form = "nocode"
        /\ k > 1 => e.level <= t[k - 1].level + 1
        /\ e.tag = "inlined" => \E i \in before : t[i].tag = "subprogram" /\ Inside(t, k, i)
        /\ e.form = "in" => \A i \in before :
              /\ t[i].form = "in" => e.tag = "inlined" /\ Inside(t, k, i)
              /\ e.tag = "inlined" /\ IsFunc(t[i]) /\ Inside(t, k, i) => t[i].form \in {"in", "nameless"}

WellFormed(t) == t # << >> /\ t[1].tag = "unit" /\ \A k \in 1..Len(t) : Fits(t, k)
=============================================================================
