----------------------------- MODULE Ascending -----------------------------
(***************************************************************************)
(* The elements of a finite set of numbers in ascending order.             *)
(***************************************************************************)
EXTENDS Integers, FiniteSets

Enumerates(q, S) ==
  /\ q \in [1 .. Cardinality(S) -> S]
  /\ \A x \in S : \E k \in 1 .. Cardinality(S) : q[k] = x
  /\ \A j, k \in 1 .. Cardinality(S) : j < k => q[j] < q[k]

Ascending(S) ==
  [k \in 1 .. Cardinality(S) |->
     CHOOSE x \in S : Cardinality({ y \in S : y < x }) = k - 1]

=============================================================================
