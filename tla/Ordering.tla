------------------------------ MODULE Ordering ------------------------------
(***************************************************************************)
(* What a loop reads from an ordered container, or leaves out of one.      *)
(* These have no recursion, so that the provers can expand them.           *)
(***************************************************************************)
EXTENDS Integers, FiniteSets

(* A finite set of numbers in ascending order.                             *)
Before(S, n) == {i \in S : i < n}
Sorted(S) == [k \in 1 .. Cardinality(S) |-> CHOOSE n \in S : Cardinality(Before(S, n)) = k - 1]

(* The elements of the sequence s at the positions I, in their order.      *)
At(s, I) == [k \in 1 .. Cardinality(I) |-> s[Sorted(I)[k]]]
=============================================================================
