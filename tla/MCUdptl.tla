------------------------------ MODULE MCUdptl ------------------------------
(* Instances of Udptl, whose constants are all numbers.                    *)
EXTENDS Udptl

=============================================================================
