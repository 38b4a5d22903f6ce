------------------------------ MODULE Ordering ------------------------------
(***************************************************************************)
(* Sorting: the elements of a finite set as the sequence in which Python's    *)
(* sorted and SQL's ORDER BY put them, given the order as a set of pairs.     *)
(* SequencesExt has SetToSortSeq for this; it rests on an operator of TLC     *)
(* that the provers cannot expand.                                          *)
(***************************************************************************)
EXTENDS Naturals, FiniteSets, Sequences

Preceding(x, S, before) == {y \in S : <<y, x>> \in before}

\* The element in place i is the one that i - 1 others precede.
InOrder(S, before) ==
    [i \in 1..Cardinality(S) |-> CHOOSE x \in S : Cardinality(Preceding(x, S, before)) = i - 1]

\* No two elements tie, and of any two one comes first.
Orders(before, S) ==
    /\ \A x \in S : <<x, x>> \notin before
    /\ \A x, y, z \in S : <<x, y>> \in before /\ <<y, z>> \in before => <<x, z>> \in before
    /\ \A x, y \in S : x = y \/ <<x, y>> \in before \/ <<y, x>> \in before
=============================================================================
