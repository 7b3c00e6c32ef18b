---------------------------- MODULE MCSignalling ----------------------------
(* An instance of Signalling.  A call named c1 is GG and one named c2 is   *)
(* GT, so that the addresses add no states of their own.                   *)
EXTENDS MCCallControl, Signalling

A == << "A", 1 >>
B == << "B", 14 >>     \* the largest port that is accepted
Stale == At("S", 5)

MCMessages ==
  { SetupMsg(c1, "GG", A, B), SetupMsg(c2, "GT", B, B),
    ReleaseMsg(c1), ReleaseMsg(c2), OkMsg(c1, A), ErrorMsg(c1, "UNKNOWN") }

GG(c, addrs) == << Word("SETUP"), Word(c), Word("GG") >> \o addrs

\* Ports that are refused, a host that is none, words that are missing or
\* unknown; and a GG SETUP with one address, which takes the other from what
\* happens to be in the buffer.
MCOddTexts ==
  { GG(c1, << At("A", n), At("B", 14) >>) : n \in { 0, 15, 16, 17 } }
    \union { GG(c1, << At("A", 1), At("B", n) >>) : n \in { 0, 15, 16, 17 } }
    \union { GG(c1, << At("N", 1), At("B", 14) >>), GG(c1, << Word("A"), At("B", 14) >>),
             GG(c2, << At("B", 14) >>),
             << Word("SETUP"), Word(c1), Word("UN"), At("A", 1) >>,
             << Word("SETUP"), Word(c2), Word("GT"), At("B", 14), At("A", 2) >>,
             << Word("OK"), Word(c1), At("N", 1) >>,
             << Word("HELLO"), Word(c1) >>, << Word("SETUP"), Word(c1) >> }

MCRests == { << >>, << Stale >> }
MCStacks == { Stale }

=============================================================================
