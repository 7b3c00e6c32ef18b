----------------------------- MODULE IfpStream -----------------------------
(***************************************************************************)
(* What UDPTL promises over a line that keeps the order: the IFP packets   *)
(* of the sender reach the T.38 engine each once and in order, and until   *)
(* more is lost than can be repaired, with nothing missing in between;     *)
(* this until FEC comes that a later datagram has overtaken.               *)
(* There are no sequence numbers, ring buffers or repeated packets.        *)
(***************************************************************************)
EXTENDS Naturals, Sequences

VARIABLES
  sent,     \* how many IFP packets the sender has built
  next,     \* those before this one have reached the engine, or never will
  batch,    \* those that reached it with the last datagram
  broken,   \* whether a packet is missing for good
  garbled   \* whether such FEC has come, after which nothing is promised

vars == << sent, next, batch, broken, garbled >>

Init == sent = 0 /\ next = 0 /\ batch = << >> /\ broken = FALSE /\ garbled = FALSE

Send == sent' = sent + 1 /\ UNCHANGED << next, batch, broken, garbled >>

\* The next packets, with nothing missing; or none.
Receive ==
  /\ ~broken
  /\ next' \in next .. sent
  /\ batch' = [k \in 1 .. next' - next |-> next + k - 1]
  /\ UNCHANGED << sent, broken, garbled >>

\* Later packets, in order, and others that will never reach it.
Skip ==
  /\ broken' = TRUE
  /\ next' \in next .. sent
  /\ \A k \in DOMAIN batch' :
       batch'[k] \in (IF k = 1 THEN next ELSE batch'[k - 1] + 1) .. next' - 1
  /\ UNCHANGED << sent, garbled >>

\* Anything may be next.
Garble == garbled' = TRUE /\ UNCHANGED sent

Next == Send \/ Receive \/ Skip \/ Garble

Spec == Init /\ [][Next]_vars

=============================================================================
