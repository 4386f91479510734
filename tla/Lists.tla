------------------------------- MODULE Lists -------------------------------
(***************************************************************************)
(* Sorting, choosing from and clearing a list, as functions of the places  *)
(* in it: what sorted(), a comprehension with a condition and a loop with a*)
(* set of what was seen do in the tools.                                   *)
(***************************************************************************)
EXTENDS Naturals, FiniteSets

\* The members of a set of numbers, ascending.
Ascending(S) == [k \in 1..Cardinality(S) |-> CHOOSE x \in S : Cardinality({y \in S : y <= x}) = k]

\* The items at some places of a list, in its order.
Only(list, places) ==
    LET at == Ascending(places)
    IN [k \in 1..Cardinality(places) |-> list[at[k]]]

\* Each item where it comes first.
Once(list) == Only(list, {k \in DOMAIN list : \A j \in 1..(k - 1) : list[j] # list[k]})
=============================================================================
