------------------------------- MODULE IdOrder -------------------------------
(***************************************************************************)
(* ORDER BY id, and the order of a list that a filter keeps: a finite set  *)
(* of numbers as the sequence of its elements, lowest first.  Stated as a  *)
(* choice of the one sequence it can be, so that it can be reasoned about. *)
(***************************************************************************)
EXTENDS Naturals, FiniteSets

InOrder(S) ==
  CHOOSE s \in [1..Cardinality(S) -> S] :
    \A j, k \in 1..Cardinality(S) : j < k => s[j] < s[k]
=============================================================================
