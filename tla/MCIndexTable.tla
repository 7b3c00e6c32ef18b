---------------------------- MODULE MCIndexTable ----------------------------
(* Five indices starting above zero, as in the outgoing half of the id     *)
(* table: large enough for a hole on either side of the cursor.            *)
EXTENDS IndexTable

MCLo == 2
MCHi == 7

=============================================================================
