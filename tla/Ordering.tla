------------------------------- MODULE Ordering -------------------------------
(***************************************************************************)
(* ORDER BY: the members of a finite set as a sequence, in a strict total  *)
(* order that is given as a set of pairs.  Each has its rank as its index. *)
(***************************************************************************)
EXTENDS Integers, FiniteSets

Earlier(S, order, x) == {y \in S : <<y, x>> \in order}
Sorted(S, order) ==
  [k \in 1..Cardinality(S) |-> CHOOSE x \in S : Cardinality(Earlier(S, order, x)) = k - 1]

IsTotal(S, order) ==
  /\ \A x, y \in S : x = y \/ <<x, y>> \in order \/ <<y, x>> \in order
  /\ \A x \in S : <<x, x>> \notin order
  /\ \A x, y, z \in S : <<x, y>> \in order /\ <<y, z>> \in order => <<x, z>> \in order
===============================================================================
