-------------------------------- MODULE Lists --------------------------------
(***************************************************************************)
(* Loops over lists: one that appends to a result, and the sorts of the Go *)
(* library, as the operator uses them on short lists: insertion sorts,     *)
(* which keep the order of elements with one key.                          *)
(***************************************************************************)
EXTENDS Integers, Sequences, FiniteSets, Functions

IsList(x) == x \in Seq(Range(x))

\* All of the lists, one after the other.
Concat(lists) ==
  LET upTo[n \in 0 .. Len(lists)] == IF n = 0 THEN <<>> ELSE upTo[n - 1] \o lists[n]
  IN  upTo[Len(lists)]

\* The i-th element of a list with these keys goes before the j-th.
Precedes(keys, i, j) == keys[i] < keys[j] \/ (keys[i] = keys[j] /\ i < j)

\* Where the elements of a sorted list are in the list with these keys: at k is the one
\* that k - 1 others go before.
StableOrder(keys) ==
  [k \in DOMAIN keys |->
     CHOOSE i \in DOMAIN keys : Cardinality({j \in DOMAIN keys : Precedes(keys, j, i)}) = k - 1]
==============================================================================
