------------------------------ MODULE Sorting ------------------------------
(***************************************************************************)
(* The order of a finite set, said by what it is and not by how a sort     *)
(* finds it.  Less is a strict and total order of the elements of S.       *)
(***************************************************************************)
EXTENDS Naturals, FiniteSets

\* The elements of S, in this order.
Sorted(S, Less(_, _)) ==
  CHOOSE s \in [1..Cardinality(S) -> S] : \A i, j \in DOMAIN s : i < j => Less(s[i], s[j])

\* The one before all others.
First(S, Less(_, _)) == CHOOSE x \in S : \A y \in S \ {x} : Less(x, y)
=============================================================================
