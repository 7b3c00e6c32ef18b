--------------------------- MODULE MCCallControl ---------------------------
(* Instances of CallControl.  MaxSessions is even, as FAX_MAX_SESSIONS is: *)
(* the call that fills the table then takes the slot past its end, as the  *)
(* fortieth call does in the program.                                      *)
EXTENDS CallControlRefinement, TLC

CONSTANTS c1, c2, s1, s2, s3, s4, s5

MCCallIds == { c1, c2 }

\* Three calls: seven sessions at most, the control session included.
ThreeSess == 1 .. 7
ThreeFds  == 1 .. 7

\* Two calls, at addresses that stand for one another.
TwoSess == { s1, s2, s3, s4, s5 }
TwoFds  == 1 .. 6

\* One call name only, where the properties do not tell calls apart.
OneCallId == { c1 }

\* An allocator that returns any free address.
AnyAddress(L) == TwoSess \ L

\* An allocator that returns the lowest free address.
LowestAddress(L) == { s \in ThreeSess \ L : \A t \in ThreeSess \ L : s <= t }

CallSymmetry == Permutations(MCCallIds)
TwoSymmetry  == Permutations(TwoSess) \union Permutations(MCCallIds)

=============================================================================
