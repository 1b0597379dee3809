------------------------------- MODULE Lists -------------------------------
(***************************************************************************)
(* Taking elements out of a sequence in order, as the iterators of the     *)
(* menu's code do with filter: SelectSeq with a set for the test.          *)
(***************************************************************************)
EXTENDS Integers, Sequences, FiniteSets

\* How many of the first i elements are in S.
Rank(s, S, i) == Cardinality({j \in 1..i : s[j] \in S})

\* The elements of s that are in S, in their order: the k-th of them is the one of
\* rank k.
Only(s, S) ==
    [k \in 1..Rank(s, S, Len(s)) |-> s[CHOOSE i \in DOMAIN s : s[i] \in S /\ Rank(s, S, i) = k]]

=============================================================================
