------------------------------- MODULE Sorting -------------------------------
(***************************************************************************)
(* Sets in order, as the dashboard's lists and series are: `Array.sort'    *)
(* with a comparison that tells any two elements apart.  An element is put *)
(* where the number of elements before it says, which a proof can use; the *)
(* library's SetToSortSeq rests on SortSeq, which has no definition in     *)
(* TLA+.                                                                   *)
(***************************************************************************)
EXTENDS Integers, FiniteSets

\* The elements of S, a before b where Before(a, b).
InOrder(S, Before(_, _)) ==
  [i \in 1 .. Cardinality(S) |->
     CHOOSE x \in S : Cardinality({y \in S : Before(y, x)}) = i - 1]

\* The elements of a set of integers in increasing order.
Ascending(S) == InOrder(S, <)
=============================================================================
