------------------------------ MODULE MCDieWalk ------------------------------
(* Every tree of a few entries behind that of its unit.  One of them at     *)
(* most cannot be read.                                                     *)
EXTENDS DieWalk

CONSTANTS MaxDies

MCEntries(n) ==
    {e \in [level : 0..n, tag : Tags, form : Forms] :
        (IsFunc(e) \/ e.form = "nocode") /\ (e.tag = "unit" <=> e.level = 0)}

Unreadable(t) == {k \in 1..Len(t) : t[k].form = "broken"}

(* Well formed trees of n entries, from those of n - 1. *)
MCTreesOf[n \in 1..MaxDies] ==
    IF n = 1
    THEN { << [level |-> 0, tag |-> "unit", form |-> "nocode"] >> }
    ELSE {t \in {Append(s, e) : s \in MCTreesOf[n - 1], e \in MCEntries(n - 1)} :
             Fits(t, n) /\ Cardinality(Unreadable(t)) <= 1}

(* One with fewer entries does nothing that one with more does not. *)
MCTrees == MCTreesOf[MaxDies]
=============================================================================
