------------------------------- MODULE Positions -------------------------------
(* Finite sets of positions of a sequence, taken in their order.  Pure.        *)
EXTENDS Integers, FiniteSets

\* The members of the set from the least to the greatest.
InOrder(S) == [i \in 1..Cardinality(S) |-> CHOOSE j \in S : Cardinality({k \in S : k < j}) = i - 1]

Earliest(S) == CHOOSE j \in S : \A k \in S : j <= k
Latest(S) == CHOOSE j \in S : \A k \in S : k <= j

\* The items of s at these positions, in their order.
ItemsAt(s, S) == LET at == InOrder(S) IN [i \in DOMAIN at |-> s[at[i]]]
=============================================================================
