----------------------------- MODULE Sequencing -----------------------------
(***************************************************************************)
(* The two loops over a container that the models share, without a         *)
(* RECURSIVE operator: a value taken through every element, and the        *)
(* elements at some of the places, in their order.                         *)
(***************************************************************************)
EXTENDS Naturals, Sequences, FiniteSets

\* The elements of a sequence, one after the other: each takes the result of
\* those before it one step further.
Through(step, seq, start) ==
    LET after[i \in 0 .. Len(seq)] ==
            IF i = 0 THEN start ELSE step[seq[i]][after[i - 1]]
    IN  after[Len(seq)]

\* The n-th number of a set, counted from the least.
Nth(S, n) == CHOOSE i \in S : Cardinality({j \in S : j <= i}) = n

Selected(seq, places) == [n \in 1 .. Cardinality(places) |-> seq[Nth(places, n)]]
=============================================================================
