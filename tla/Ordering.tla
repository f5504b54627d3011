------------------------------ MODULE Ordering ------------------------------
(***************************************************************************)
(* Lists in the order of a key, as Python sorts them.                      *)
(***************************************************************************)
EXTENDS Integers, Sequences, FiniteSets

\* Tuples of numbers in Python's order.
Before(k, l) ==
  \/ Len(k) < Len(l) /\ \A i \in DOMAIN k : k[i] = l[i]
  \/ \E i \in DOMAIN k \cap DOMAIN l : k[i] < l[i] /\ \A j \in 1..(i - 1) : k[j] = l[j]

\* The members of S in a row, each behind those that are earlier.
InOrder(S, earlier) == [i \in 1..Cardinality(S) |-> CHOOSE x \in S : Cardinality(earlier[x]) = i - 1]
=============================================================================
