----------------------------- MODULE MCCallGraph -----------------------------
(* The lists of functions of every tree of a few entries and of one larger  *)
(* one, under any names.                                                    *)
EXTENDS CallGraph

D == INSTANCE Dies

CONSTANTS MaxDies

MCEntries(n1) ==
    {e \in [level : 0..n1, tag : D!Tags, form : {"out", "nocode"}] :
        (D!IsFunc(e) \/ e.form = "nocode") /\ (e.tag = "unit" <=> e.level = 0)}

MCTreesOf[k \in 1..MaxDies] ==
    IF k = 1
    THEN { << [level |-> 0, tag |-> "unit", form |-> "nocode"] >> }
    ELSE {t \in {Append(s, e) : s \in MCTreesOf[k - 1], e \in MCEntries(k - 1)} : D!Fits(t, k)}

(* What FindAllFuncs returns of a tree. *)
ListOf(t) ==
    LET rank(k) == Cardinality({m \in 1..k : D!HasCode(t[m])})
        around(k) == {i \in 1..(k - 1) : D!HasCode(t[i]) /\ D!Inside(t, k, i)}
        die(r) == CHOOSE k \in 1..Len(t) : D!HasCode(t[k]) /\ rank(k) = r
    IN  [r \in 1..rank(Len(t)) |->
            [depth |-> t[die(r)].level,
             encl  |-> IF around(die(r)) = {} THEN 0 ELSE rank(Max(around(die(r))))]]

(* Two functions, the second with its inlined subroutine in a block. *)
TwoFunctions == << [depth |-> 1, encl |-> 0], [depth |-> 2, encl |-> 1],
                   [depth |-> 1, encl |-> 0], [depth |-> 3, encl |-> 3] >>

MCLists == {ListOf(t) : t \in MCTreesOf[MaxDies]} \cup {TwoFunctions}
MCNames == 1..(MaxDies - 1)
MCCovereds == {{}, {1}, {1, 2, 3}}
MCMaxLevels == {0, 2}
=============================================================================
