----------------------------- MODULE MCUdptlFec -----------------------------
(* Instances of UdptlFec.                                                  *)
EXTENDS UdptlFec

\* IFPs of two lengths, of one octet and of two octets on the wire, in rows of one
\* length and of both.
TwoSizes(n) == IF n \in {0, 1, 4, 6} THEN 1 ELSE 9

\* One is in a row with a longer IFP and in a row with one of its length.
SomeIndicators == {0, 4}
=============================================================================
