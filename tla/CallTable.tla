----------------------------- MODULE CallTable -----------------------------
(***************************************************************************)
(* What the signalling side of the program promises: a list of calls in    *)
(* the order they were set up.  SETUP appends a call at a port no other    *)
(* call uses, or is refused and changes nothing; RELEASE removes the       *)
(* oldest call of that name.  There are no slots, holes, legs or passes.   *)
(***************************************************************************)
EXTENDS Naturals, Sequences, SequencesExt

CONSTANTS
  CallIds,     \* call identifiers
  Ports,       \* port numbers
  Limit,       \* the number of calls that may be up at once
  MayFail      \* whether a SETUP may be refused below the limit, and a
               \* reply lost

VARIABLES
  calls,       \* sequence of records [call_id, in_port, out_port]
  reply        \* << >>, or the reply to the last command

vars == << calls, reply >>

PortsUsed == UNION { { calls[k].in_port, calls[k].out_port } : k \in DOMAIN calls }

Init == calls = << >> /\ reply = << >>

(* A reply may be lost. *)
Replied(r) == reply' \in {r} \union (IF MayFail THEN { << >> } ELSE {})

Setup(c) ==
  /\ Len(calls) < Limit
  /\ \E p, q \in Ports \ PortsUsed :
       /\ p # q
       /\ calls' = Append(calls, [call_id |-> c, in_port |-> p, out_port |-> q])
       /\ Replied(<< "OK", c, p >>)

Refuse(c) ==
  /\ Len(calls) = Limit \/ MayFail
  /\ Replied(<< "ERROR", c >>)
  /\ UNCHANGED calls

Release(c) ==
  /\ \E k \in DOMAIN calls :
       /\ calls[k].call_id = c
       /\ \A j \in 1 .. k - 1 : calls[j].call_id # c
       /\ calls' = RemoveAt(calls, k)
  /\ UNCHANGED reply

BadMessage == Replied(<< "ERROR" >>) /\ UNCHANGED calls

Forget == reply # << >> /\ reply' = << >> /\ UNCHANGED calls

Shutdown == calls' = << >> /\ UNCHANGED reply

Next ==
  \/ \E c \in CallIds : Setup(c) \/ Refuse(c) \/ Release(c)
  \/ BadMessage \/ Forget \/ Shutdown

Spec == Init /\ [][Next]_vars

=============================================================================
