-------------------------------- MODULE Finite --------------------------------
(***************************************************************************)
(* Finite sets: the total of a field over one (numpy's sum, a loop that     *)
(* adds), a set of whole numbers in order (a list of indices), and the part *)
(* of a list at some of its places (a list comprehension with a condition). *)
(***************************************************************************)
EXTENDS Integers, FiniteSets, FiniteSetsExt

Total(field, S) == MapThenSumSet(LAMBDA x : field[x], S)

InOrder(S) ==
  [i \in 1..Cardinality(S) |-> CHOOSE k \in S : Cardinality({j \in S : j < k}) = i - 1]

Selected(s, places) == [k \in 1..Cardinality(places) |-> s[InOrder(places)[k]]]
===============================================================================
