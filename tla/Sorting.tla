------------------------------- MODULE Sorting -------------------------------
(***************************************************************************)
(* Sorting a finite set by a strict total order.  SetToSortSeq of           *)
(* SequencesExt searches all sequences; counting the elements before each   *)
(* one gives the same sequence.                                             *)
(***************************************************************************)
EXTENDS Integers, FiniteSets

SortedBy(S, before(_, _)) ==
  [i \in 1..Cardinality(S) |-> CHOOSE x \in S : Cardinality({y \in S : before(y, x)}) = i - 1]

=============================================================================
