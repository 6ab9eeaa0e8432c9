------------------------------ MODULE Positions ------------------------------
(* Entries of a sequence taken by their positions, which is what `retain` on *)
(* a Vec or a VecDeque leaves.                                               *)
EXTENDS Integers, Sequences, FiniteSets

\* The members of a finite set of numbers, in order.
Ascending(S) == [n \in 1..Cardinality(S) |->
                     CHOOSE x \in S : Cardinality({ y \in S : y <= x }) = n]

\* The entries at some positions, in their order.
Picked(h, positions) == LET at == Ascending(positions) IN [n \in DOMAIN at |-> h[at[n]]]
=============================================================================
