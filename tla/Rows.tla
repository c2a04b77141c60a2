-------------------------------- MODULE Rows --------------------------------
(***************************************************************************)
(* What the queries of src/store make of the rows they find: ORDER BY and  *)
(* LIMIT, which every page of a listing and of a download ends with.       *)
(***************************************************************************)
EXTENDS Integers, Sequences, FiniteSets

\* ORDER BY: each row once, in an order given as the pairs that are in it.
Ordered(rows, before) ==
  CHOOSE s \in [1..Cardinality(rows) -> rows] :
    \A i, j \in 1..Cardinality(rows) : i < j => <<s[i], s[j]>> \in before

\* LIMIT: the first n of them.
Limited(rows, n) == IF Len(rows) > n THEN SubSeq(rows, 1, n) ELSE rows
=============================================================================
