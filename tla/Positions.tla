------------------------------- MODULE Positions -------------------------------
(***************************************************************************)
(* A set of numbers in ascending order, with positions from zero: what the *)
(* code has in a std::set, or gets from a loop that counts upwards.        *)
(***************************************************************************)
EXTENDS Integers, FiniteSets

\* std::distance(begin, find(x)): how many elements come before x.
Position(x, S) == Cardinality({y \in S : y < x})

\* *std::next(begin, n).
ElementAt(n, S) == CHOOSE x \in S : Position(x, S) = n

\* The elements, one after the other.
InOrder(S) == [n \in 1 .. Cardinality(S) |-> ElementAt(n - 1, S)]
=============================================================================
