----------------------------- MODULE IndexTable -----------------------------
(***************************************************************************)
(* One allocation table on its own: the port table of src/src/app.c        *)
(* (port_table, port_idx_static) or one half of the session id table of    *)
(* src/src/session.c (session_id_array with one of its two cursors).       *)
(***************************************************************************)
EXTENDS RoundRobin, FiniteSets

CONSTANTS Lo, Hi      \* the range Lo .. Hi - 1 the table covers

ASSUME RangeAssumption == Lo \in Nat /\ Hi \in Nat /\ Lo < Hi

VARIABLES
  used,       \* the indices whose flag is 1
  cursor,     \* port_idx_static, ses_id_static_in or ses_id_static_out
  result,     \* the last value returned by GetFree or Release
  wait        \* history: successful GetFree calls an index has been free for

vars == << used, cursor, result, wait >>

Index == Lo .. Hi - 1

Init ==
  /\ used   = {}
  /\ cursor = Lo
  /\ result = 0
  /\ wait   = [k \in Index |-> 0]

GetFree ==
  LET k == NextFree(used, cursor, Lo, Hi)
  IN  /\ used'   = UsedAfter(used, k)
      /\ cursor' = CursorAfter(cursor, k)
      /\ result' = k
      /\ wait'   = [f \in Index |->
                      IF f \in used \union {k} THEN 0 ELSE wait[f] + 1]

\* The release functions check the range and the flag, and never the cursor.
\* The index just outside either end stands for every out-of-range argument.
Release(k) ==
  /\ result' = IF k \notin Index THEN -1 ELSE IF k \notin used THEN -2 ELSE 0
  /\ used'   = used \ {k}
  /\ UNCHANGED << cursor, wait >>

Next == GetFree \/ \E k \in (Lo - 1) .. Hi : Release(k)

Spec == Init /\ [][Next]_vars

-----------------------------------------------------------------------------
\* Types of the table, its cursor and the history variable.
TypeOK ==
  /\ used   \subseteq Index
  /\ cursor \in Lo .. Hi
  /\ result \in Int
  /\ wait   \in [Index -> Nat]

\* The two loops together visit every index: GetFree gives up only on a full
\* table, and what it returns was free (src/src/app.c:315-335).
GetFreeComplete ==
  [][GetFree =>
       \/ result' = NoEntry /\ used = Index
       \/ result' \in Index \ used /\ used' = used \union {result'}]_vars

\* How far a scan that starts at the cursor travels before it reaches f.
Distance(f) == IF f >= cursor THEN f - cursor ELSE f - cursor + (Hi - Lo)

\* The saved cursor makes the rotation fair: an index that stays free is
\* handed out before every other index has been handed out once more, so at
\* most Hi - Lo - 1 allocations pass it by (the reason port_idx_static and
\* ses_id_static_in/out are kept between calls).
BoundedWait == \A f \in Index : wait[f] <= Hi - Lo - 1

\* The inductive form of BoundedWait: every allocation that passes a free
\* index by brings the cursor closer to it.
WaitInv ==
  \A f \in Index :
    IF f \in used THEN wait[f] = 0
    ELSE wait[f] + Distance(f) <= Hi - Lo - 1

=============================================================================
