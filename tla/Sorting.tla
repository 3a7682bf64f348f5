------------------------------- MODULE Sorting -------------------------------
(***************************************************************************)
(* Go's sort.Slice, which is not part of this repository: the elements of  *)
(* a set as a list, in a total order on them given as a set of pairs.      *)
(***************************************************************************)
EXTENDS Integers, FiniteSets

(* The elements up to a. *)
UpTo(S, R, a) == {b \in S : <<b, a>> \in R}

Sorted(S, R) ==
    [i \in 1..Cardinality(S) |-> CHOOSE a \in S : Cardinality(UpTo(S, R, a)) = i]

IsTotalOrder(R, S) ==
    /\ \A a, b \in S : <<a, b>> \in R \/ <<b, a>> \in R
    /\ \A a, b \in S : <<a, b>> \in R /\ <<b, a>> \in R => a = b
    /\ \A a, b, c \in S : <<a, b>> \in R /\ <<b, c>> \in R => <<a, c>> \in R
=============================================================================
