----------------------- MODULE CallControlRefinement -----------------------
(***************************************************************************)
(* CallControl implements CallTable: reading the slots upwards, and        *)
(* skipping the holes, gives the list of calls.                            *)
(***************************************************************************)
EXTENDS CallControl, Sequences, Ascending

InSlots ==
  { i \in Scope : session[i] \in live /\ obj[session[i]].kind = "IN" }

CallOf(i) ==
  LET s == obj[session[i]]
  IN  [call_id |-> s.call_id, in_port |-> s.loc_port,
       out_port |-> obj[s.peer_ses].loc_port]

Calls ==
  LET q == Ascending(InSlots)
  IN  [k \in DOMAIN q |-> CallOf(q[k])]

ReplySeen ==
  CASE answer.type = "OK"    -> << "OK", answer.call_id, answer.port >>
    [] answer.type = "ERROR" -> IF answer.call_id = NULL THEN << "ERROR" >>
                                ELSE << "ERROR", answer.call_id >>
    [] OTHER                 -> << >>

CT == INSTANCE CallTable WITH
        Ports <- 0 .. PortCount - 1, Limit <- MaxSessions \div 2,
        MayFail <- (Faults # {}), calls <- Calls, reply <- ReplySeen

\* Slots, holes, compaction and the peer links are invisible: the controller
\* sees an ordered list of at most MaxSessions/2 calls on distinct ports, a
\* SETUP is refused only when the list is full, and RELEASE removes the oldest
\* call of that name (src/src/app.c:209-242, src/src/session.c:505-688).
ImplementsCallTable == CT!Spec

=============================================================================
