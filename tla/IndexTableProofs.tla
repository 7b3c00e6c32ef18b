-------------------------- MODULE IndexTableProofs --------------------------
(***************************************************************************)
(* The theorems about one allocation table, for every range Lo .. Hi - 1.  *)
(***************************************************************************)
EXTENDS IndexTable, TableLemmas

(* Every value of a table, its cursor and its results has its type,        *)
(* whatever sequence of allocations and releases the program makes.        *)
THEOREM TypeCorrect == Spec => []TypeOK
  <1> USE RangeAssumption
  <1>1. Init => TypeOK
    BY DEF Init, TypeOK, Index
  <1>2. TypeOK /\ [Next]_vars => TypeOK'
    <2> SUFFICES ASSUME TypeOK, [Next]_vars PROVE TypeOK'
      OBVIOUS
    <2>1. CASE GetFree
      <3> DEFINE k == NextFree(used, cursor, Lo, Hi)
      <3>1. /\ used' = UsedAfter(used, k)
            /\ cursor' = CursorAfter(cursor, k)
            /\ result' = k
            /\ wait' = [f \in Index |->
                          IF f \in used \union {k} THEN 0 ELSE wait[f] + 1]
        BY <2>1 DEF GetFree
      <3>2. /\ k \in Index \/ k = NoEntry
            /\ cursor' \in Lo .. Hi
        <4> HIDE DEF k
        <4>1. cursor \in Lo .. Hi
          BY DEF TypeOK
        <4>2. k = NextFree(used, cursor, Lo, Hi)
          BY DEF k
        <4> QED BY <3>1, <4>1, <4>2, NextFreeSound DEF Index
      <3>3. used' \subseteq Index
        <4>1. k = NoEntry \/ k \in Index
          BY <3>2
        <4> HIDE DEF k
        <4> QED BY <3>1, <4>1 DEF TypeOK, UsedAfter
      <3>4. result' \in Int /\ wait' \in [Index -> Nat]
        <4> HIDE DEF k
        <4> QED BY <3>1, <3>2 DEF TypeOK, Index, NoEntry
      <3> QED BY <3>2, <3>3, <3>4 DEF TypeOK
    <2>2. ASSUME NEW k \in (Lo - 1) .. Hi, Release(k) PROVE TypeOK'
      BY <2>2 DEF Release, TypeOK
    <2>3. CASE UNCHANGED vars
      BY <2>3 DEF vars, TypeOK
    <2> QED BY <2>1, <2>2, <2>3 DEF Next
  <1> QED BY <1>1, <1>2, PTL DEF Spec

(* An allocation gives up only on a full table, and what it returns was    *)
(* free: no session is ever given a port or an id another one holds.       *)
THEOREM NeverDouble == Spec => GetFreeComplete
  <1> USE RangeAssumption
  <1>1. TypeOK /\ [Next]_vars =>
          [GetFree =>
             \/ result' = NoEntry /\ used = Index
             \/ result' \in Index \ used /\ used' = used \union {result'}]_vars
    <2> SUFFICES ASSUME TypeOK, GetFree
                 PROVE  \/ result' = NoEntry /\ used = Index
                        \/ /\ result' \in Index \ used
                           /\ used' = used \union {result'}
      OBVIOUS
    <2>1. /\ result' = NextFree(used, cursor, Lo, Hi)
          /\ used' = UsedAfter(used, result')
      BY DEF GetFree
    <2>2. cursor \in Lo .. Hi /\ used \subseteq Index
      BY DEF TypeOK
    <2>3. \/ result' \in (Lo .. Hi - 1) \ used
          \/ result' = NoEntry /\ Lo .. Hi - 1 \subseteq used
      BY <2>1, <2>2, NextFreeSound
    <2>4. CASE result' \in Index \ used
      <3>1. result' # NoEntry
        BY <2>4 DEF Index, NoEntry
      <3> QED BY <2>1, <2>4, <3>1 DEF UsedAfter
    <2>5. CASE result' = NoEntry /\ Index \subseteq used
      BY <2>2, <2>5
    <2> QED BY <2>3, <2>4, <2>5 DEF Index
  <1> QED BY <1>1, TypeCorrect, PTL DEF Spec, GetFreeComplete

(* Each allocation that passes a free index by brings the cursor at least  *)
(* one position closer to it.                                              *)
THEOREM WaitBounded == Spec => []WaitInv
  <1> USE RangeAssumption
  <1>1. Init => WaitInv
    BY DEF Init, WaitInv, Distance, Index
  <1>2. TypeOK /\ WaitInv /\ [Next]_vars => WaitInv'
    <2> SUFFICES ASSUME TypeOK, WaitInv, [Next]_vars, NEW f \in Index
                 PROVE  IF f \in used' THEN wait'[f] = 0
                        ELSE wait'[f] + Distance(f)' <= Hi - Lo - 1
      BY DEF WaitInv
    <2>0. /\ f \in Nat /\ Lo <= f /\ f < Hi
          /\ wait[f] \in Nat
          /\ cursor \in Lo .. Hi
          /\ IF f \in used THEN wait[f] = 0
             ELSE wait[f] + Distance(f) <= Hi - Lo - 1
      BY DEF TypeOK, WaitInv, Index
    <2>1. CASE GetFree
      <3> DEFINE k == NextFree(used, cursor, Lo, Hi)
      <3>1. /\ used' = UsedAfter(used, k)
            /\ cursor' = CursorAfter(cursor, k)
            /\ wait'[f] = IF f \in used \union {k} THEN 0 ELSE wait[f] + 1
        BY <2>1 DEF GetFree
      <3>2. k = NextFree(used, cursor, Lo, Hi)
        OBVIOUS
      <3> HIDE DEF k
      <3>3. CASE /\ k \in (cursor .. Hi - 1) \ used
                 /\ \A m \in cursor .. k - 1 : m \in used
        <4>1. k # NoEntry /\ used' = used \union {k} /\ cursor' = k + 1
          BY <2>0, <3>1, <3>3 DEF NoEntry, UsedAfter, CursorAfter
        <4>2. f \notin used \union {k} => f < cursor \/ f > k
          BY <2>0, <3>3
        <4> QED BY <2>0, <3>1, <3>3, <4>1, <4>2 DEF Distance
      <3>4. CASE /\ cursor .. Hi - 1 \subseteq used
                 /\ k \in (Lo .. cursor - 1) \ used
                 /\ \A m \in Lo .. k - 1 : m \in used
        <4>1. k # NoEntry /\ used' = used \union {k} /\ cursor' = k + 1
          BY <2>0, <3>1, <3>4 DEF NoEntry, UsedAfter, CursorAfter
        <4>2. f \notin used \union {k} => f < cursor /\ f > k
          BY <2>0, <3>4
        <4> QED BY <2>0, <3>1, <3>4, <4>1, <4>2 DEF Distance
      <3>5. CASE Lo .. Hi - 1 \subseteq used /\ k = NoEntry
        BY <2>0, <3>1, <3>5 DEF UsedAfter
      <3>6. \/ /\ k \in (cursor .. Hi - 1) \ used
               /\ \A m \in cursor .. k - 1 : m \in used
            \/ /\ cursor .. Hi - 1 \subseteq used
               /\ k \in (Lo .. cursor - 1) \ used
               /\ \A m \in Lo .. k - 1 : m \in used
            \/ /\ Lo .. Hi - 1 \subseteq used
               /\ k = NoEntry
        BY <2>0, <3>2, NextFreeCases
      <3> QED BY <3>3, <3>4, <3>5, <3>6
    <2>2. ASSUME NEW k \in (Lo - 1) .. Hi, Release(k)
          PROVE  IF f \in used' THEN wait'[f] = 0
                 ELSE wait'[f] + Distance(f)' <= Hi - Lo - 1
      <3>1. used' = used \ {k} /\ cursor' = cursor /\ wait' = wait
        BY <2>2 DEF Release
      <3>2. Distance(f)' = Distance(f)
        BY <3>1 DEF Distance
      <3>3. Distance(f) \in Int /\ Distance(f) <= Hi - Lo - 1
        BY <2>0, RangeAssumption DEF Distance
      <3>4. CASE f \in used
        <4>1. wait[f] = 0
          BY <2>0, <3>4
        <4>2. 0 + Distance(f) <= Hi - Lo - 1
          BY ONLY <3>3, RangeAssumption
        <4> QED BY ONLY <3>1, <3>2, <4>1, <4>2
      <3>5. CASE f \notin used
        <4>1. wait[f] + Distance(f) <= Hi - Lo - 1
          BY <2>0, <3>5
        <4>2. f \notin used'
          BY <3>1, <3>5
        <4> QED BY ONLY <3>1, <3>2, <4>1, <4>2
      <3> QED BY <3>4, <3>5
    <2>3. CASE UNCHANGED vars
      BY <2>0, <2>3 DEF vars, Distance
    <2> QED BY <2>1, <2>2, <2>3 DEF Next
  <1> QED BY <1>1, <1>2, TypeCorrect, PTL DEF Spec

(* The rotation is fair: at most Hi - Lo - 1 allocations pass a free index *)
(* by before it is handed out, so a released port is not reused at once.   *)
THEOREM RotationFair == Spec => []BoundedWait
  <1>1. TypeOK /\ WaitInv => BoundedWait
    <2> SUFFICES ASSUME TypeOK, WaitInv, NEW f \in Index
                 PROVE  wait[f] <= Hi - Lo - 1
      BY DEF BoundedWait
    <2>1. /\ cursor \in Lo .. Hi /\ wait[f] \in Nat /\ f \in Nat /\ Lo <= f /\ f < Hi
          /\ IF f \in used THEN wait[f] = 0 ELSE wait[f] + Distance(f) <= Hi - Lo - 1
      BY RangeAssumption DEF TypeOK, WaitInv, Index
    <2>2. Distance(f) \in Nat
      BY <2>1, RangeAssumption DEF Distance
    <2> QED BY ONLY <2>1, <2>2, RangeAssumption
  <1> QED BY <1>1, TypeCorrect, WaitBounded, PTL

=============================================================================
