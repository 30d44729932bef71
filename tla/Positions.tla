------------------------------ MODULE Positions ------------------------------
(***************************************************************************)
(* What a comprehension with a condition keeps of a list: the elements at  *)
(* some positions, in the order of the list.                               *)
(***************************************************************************)
EXTENDS Integers, Sequences, FiniteSets

\* The k-th of a finite set of numbers.
Nth(S, k) == CHOOSE i \in S : Cardinality({j \in S : j <= i}) = k

ElementsAt(list, S) == [k \in 1..Cardinality(S) |-> list[Nth(S, k)]]
=============================================================================
