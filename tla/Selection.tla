-------------------------------- MODULE Selection -----------------------------
(***************************************************************************)
(* The elements of a sequence at some of its indices.  SelectSeq takes a   *)
(* condition on the elements and is defined by recursion; this takes a set *)
(* of indices and is not, so that it can be reasoned about.                *)
(***************************************************************************)
EXTENDS Integers, FiniteSets

\* The n-th number in S, the numbers in S, and the elements of s at the indices in S, in
\* their order.
Nth(S, n) == CHOOSE i \in S : Cardinality({j \in S : j <= i}) = n
Ascending(S) == [n \in 1..Cardinality(S) |-> Nth(S, n)]
Selected(s, S) == [n \in 1..Cardinality(S) |-> s[Nth(S, n)]]
===============================================================================
