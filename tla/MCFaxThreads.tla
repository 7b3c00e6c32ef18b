---------------------------- MODULE MCFaxThreads ----------------------------
(* Two calls, one after another or side by side, on memory for two.        *)
EXTENDS FaxThreads

CONSTANTS k1, k2

MCAddr  == 1 .. 4
MCCalls == { k1, k2 }

\* An allocator that gives an IN leg one of the two lowest free addresses and
\* the OUT leg the lowest that is left, so that a leg may get the address of a
\* released leg of either kind.
NearLowest(L) ==
  { a \in MCAddr \ L :
      Cardinality({ b \in MCAddr \ L : b < a }) <= (Cardinality(L) + 1) % 2 }

=============================================================================
