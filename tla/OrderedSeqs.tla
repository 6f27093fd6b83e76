---------------------------- MODULE OrderedSeqs -----------------------------
(***************************************************************************)
(* Putting a set of numbers in order, and leaving items out of a sequence, *)
(* said so that both can be reasoned about without induction.              *)
(***************************************************************************)
EXTENDS Integers, Sequences, FiniteSets

\* The members of a finite set of numbers, ascending.
Ascending(S) ==
    [k \in 1..Cardinality(S) |-> CHOOSE x \in S : Cardinality({y \in S : y <= x}) = k]

\* The items of s that are in T, in their order.
Filter(s, T) ==
    LET places == Ascending({i \in DOMAIN s : s[i] \in T})
    IN  [k \in DOMAIN places |-> s[places[k]]]
=============================================================================
