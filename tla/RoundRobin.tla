----------------------------- MODULE RoundRobin -----------------------------
(***************************************************************************)
(* The allocation rule shared by app_portGetFree (src/src/app.c) and       *)
(* session_idGetNext (src/src/session.c): scan the table upwards from a    *)
(* saved cursor, then from the start of the range up to the cursor, take   *)
(* the first free index and leave the cursor just above it.                *)
(*                                                                         *)
(* A table of 0/1 flags is the set of the indices whose flag is 1.  The    *)
(* range is half open, lo .. hi - 1, and the cursor may equal hi.          *)
(***************************************************************************)
EXTENDS Integers

\* The value both functions return when both of their loops fall through.
NoEntry == -1

FreeIn(used, from, upto) == { k \in from .. upto - 1 : k \notin used }

Least(S) == CHOOSE k \in S : \A m \in S : k <= m

\* A second loop that stops one index early.
NextFreeShort(used, cursor, lo, hi) ==
  LET above == FreeIn(used, cursor, hi)
      below == FreeIn(used, lo, cursor - 1)
  IN  IF above # {} THEN Least(above)
      ELSE IF below # {} THEN Least(below)
      ELSE NoEntry

\* The index returned: first loop, second loop, neither.
NextFree(used, cursor, lo, hi) ==
  LET above == FreeIn(used, cursor, hi)
      below == FreeIn(used, lo, cursor)
  IN  IF above # {} THEN Least(above)
      ELSE IF below # {} THEN Least(below)
      ELSE NoEntry

\* A cursor that is never saved, and one that is advanced twice.
CursorKept(cursor, k) == cursor
CursorSkips(cursor, k) == IF k = NoEntry THEN cursor ELSE k + 2

\* The cursor is written only together with a successful return.
CursorAfter(cursor, k) == IF k = NoEntry THEN cursor ELSE k + 1

\* The flag is set only together with a successful return.
UsedAfter(used, k) == IF k = NoEntry THEN used ELSE used \union {k}

=============================================================================
