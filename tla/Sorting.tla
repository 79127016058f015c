------------------------------ MODULE Sorting ------------------------------
(***************************************************************************)
(* std::sort of a list by a number for each of its entries.  std::sort     *)
(* leaves the order of equal entries open; they keep theirs here, which is *)
(* one of the orders it may give.  (SortSeq of TLC is no help: it has no   *)
(* value for a list with two different entries of the same number.)        *)
(***************************************************************************)
EXTENDS Integers, Sequences, FiniteSets

\* The entry with key[k] comes before the one with key[l].
Ahead(key, k, l) == key[k] < key[l] \/ (key[k] = key[l] /\ k < l)

\* How many entries come before the k-th.
Rank(key, k) == Cardinality({l \in DOMAIN key : Ahead(key, l, k)})

\* The list with rising keys.
SortBy(list, key) ==
  [n \in 1..Len(list) |-> list[CHOOSE k \in 1..Len(list) : Rank(key, k) = n - 1]]

\* The entries at some of the places of a list, in their order.
PickAt(list, at) ==
  [n \in 1..Cardinality(at) |-> list[CHOOSE k \in at : Cardinality({l \in at : l < k}) = n - 1]]
=============================================================================
