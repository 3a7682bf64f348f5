----------------------------- MODULE SortSearch -----------------------------
(***************************************************************************)
(* The binary search of Go's sort.Search, which is not part of this        *)
(* repository, with the one predicate the parser gives it: "the key at     *)
(* this index is greater than x".  GetCompileUnitByAddr searches the       *)
(* starts of ranges this way, GetLineEntryByAddr the addresses of rows.    *)
(* Go counts from 0: index k is the element k + 1 of the sequence.         *)
(***************************************************************************)
EXTENDS Integers, Sequences

VARIABLES
    keys,   \* what is searched, in its order
    x,      \* what it is searched for
    i, j    \* the bounds of the search

search == <<keys, x, i, j>>

NoSearch == keys = << >> /\ x = 0 /\ i = 0 /\ j = 0

Begin(ks, v) ==
    /\ keys' = ks
    /\ x' = v
    /\ i' = 0
    /\ j' = Len(ks)

Searching == i < j

Probe ==
    LET h == (i + j) \div 2
    IN  /\ Searching
        /\ IF keys[h + 1] > x
           THEN j' = h /\ UNCHANGED i
           ELSE i' = h + 1 /\ UNCHANGED j
        /\ UNCHANGED <<keys, x>>

-----------------------------------------------------------------------------
(* Sorted or not, the search keeps an index whose key is not greater than  *)
(* x on its left and one whose key is greater on its right.                *)
SearchInv ==
    /\ keys \in Seq(Int) /\ x \in Int
    /\ i \in 0..Len(keys) /\ j \in 0..Len(keys) /\ i <= j
    /\ i > 0 => keys[i] <= x
    /\ j < Len(keys) => keys[j + 1] > x
=============================================================================
