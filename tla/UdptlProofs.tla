---------------------------- MODULE UdptlProofs ----------------------------
(***************************************************************************)
(* Proofs about UDPTL for every width of the sequence numbers and every    *)
(* ring that divides it.  First with redundancy: every number of           *)
(* secondaries and any loss, repetition and reordering within the bound on *)
(* delay.  Then, from "UDPTL with FEC" on, the receive ring with FEC: every*)
(* span, number of entries and length of the IFPs, whatever is lost or     *)
(* malformed and whichever datagrams carry redundancy and which FEC.       *)
(* Last, that UDPTL with FEC implements IfpStream.                         *)
(***************************************************************************)
EXTENDS UdptlFec, TableLemmas

-----------------------------------------------------------------------------
(* The sender's ring holds the last BufSize IFPs, each in the slot of its  *)
(* number.                                                                 *)
Ring ==
  /\ tx_seq_no \in Nat
  /\ tx \in [0 .. BufSize - 1 -> Int]
  /\ \A n \in 0 .. tx_seq_no - 1 : n + BufSize >= tx_seq_no => tx[n % BufSize] = n

(* A datagram holds an IFP and the ones built before it.                   *)
Built(p) ==
  /\ p.primary \in Nat /\ p.seq = p.primary % SeqSpace
  /\ p.secondary = [i \in 1 .. Count(p.primary) |-> p.primary - i]

LEMMA Sizes ==
  /\ SeqSpace \in Nat /\ SeqSpace > 0 /\ BufSize \in Nat /\ BufSize > 0
  /\ Entries \in Nat /\ Entries < BufSize /\ SeqSpace % BufSize = 0
  BY SizeAssumption

LEMMA CountBound ==
  ASSUME NEW n \in Nat
  PROVE  Count(n) \in Nat /\ Count(n) <= n /\ Count(n) < BufSize
  BY Sizes DEF Count

(* udptl_build_packet takes the secondaries from the slots of the numbers  *)
(* below its own, and finds there the IFPs of these numbers.               *)
LEMMA SendBuilds ==
  ASSUME Ring, \A p \in net : Built(p), Send
  PROVE  Ring' /\ \A p \in net' : Built(p)
  <1> DEFINE n == tx_seq_no
  <1> USE Sizes
  <1>1. n \in Nat /\ tx_seq_no' = n + 1
    BY DEF Send, Ring
  <1>2. Entry(n % SeqSpace) = n % BufSize
    <2>1. ((n % SeqSpace) + 0) % BufSize = (n + 0) % BufSize
      <3>1. 0 \in Int /\ n \in Int
        BY <1>1
      <3> HIDE DEF n
      <3> QED BY <3>1, RemainderTwice, Zenon
    <2>2. n % SeqSpace \in Int
      BY <1>1, Remainder
    <2> QED BY <1>1, <2>1, <2>2 DEF Entry
  <1>3. tx' = [tx EXCEPT ![n % BufSize] = n] /\ n % BufSize \in 0 .. BufSize - 1
    <2>1. tx' = [tx EXCEPT ![Entry(n % SeqSpace)] = n]
      BY DEF Send
    <2>2. n % BufSize \in 0 .. BufSize - 1
      BY <1>1, Remainder
    <2> QED BY <1>2, <2>1, <2>2
  <1> HIDE DEF n
  <1>4. ASSUME NEW m \in 0 .. n, m + BufSize >= n + 1
        PROVE  tx'[m % BufSize] = m
    <2>1. m % BufSize \in 0 .. BufSize - 1
      BY <1>1, Remainder
    <2>2. CASE m = n
      BY <1>3, <2>1, <2>2 DEF Ring
    <2>3. CASE m # n
      <3>1. m % BufSize # n % BufSize
        BY <1>1, <1>4, <2>3, RemainderNear
      <3>2. tx[m % BufSize] = m
        BY <1>1, <1>4, <2>3 DEF Ring, n
      <3> QED BY <1>3, <2>1, <3>1, <3>2 DEF Ring
    <2> QED BY <2>2, <2>3
  <1>5. Ring'
    <2>1. tx' \in [0 .. BufSize - 1 -> Int]
      BY <1>1, <1>3 DEF Ring
    <2>2. tx_seq_no' \in Nat /\ 0 .. tx_seq_no' - 1 = 0 .. n
      BY ONLY <1>1
    <2>3. \A m \in 0 .. tx_seq_no' - 1 : m + BufSize >= tx_seq_no' => tx'[m % BufSize] = m
      BY ONLY <1>1, <1>4, <2>2
    <2> QED BY ONLY <2>1, <2>2, <2>3 DEF Ring
  <1>6. Secondaries(tx', n) = [i \in 1 .. Count(n) |-> n - i]
    <2> SUFFICES ASSUME NEW i \in 1 .. Count(n)
                 PROVE  tx'[Entry((n % SeqSpace) - i)] = n - i
      BY DEF Secondaries
    <2>1. i \in Nat /\ i <= n /\ i < BufSize
      BY <1>1, CountBound
    <2>2. Entry((n % SeqSpace) - i) = (n - i) % BufSize
      <3>1. ((n % SeqSpace) + (-i)) % BufSize = (n + (-i)) % BufSize
        <4>1. -i \in Int /\ n \in Int
          BY <1>1, <2>1
        <4> QED BY <4>1, RemainderTwice, Zenon
      <3>2. n % SeqSpace \in Int
        BY <1>1, Remainder
      <3> QED BY <1>1, <2>1, <3>1, <3>2 DEF Entry
    <2>3. n - i \in 0 .. n /\ (n - i) + BufSize >= n + 1
      BY <1>1, <2>1
    <2> QED BY <1>4, <2>2, <2>3
  <1>7. net' = net \union { [seq |-> n % SeqSpace, primary |-> n,
                             secondary |-> Secondaries(tx', n)] }
    BY DEF Send, n
  <1>8. \A p \in net' : Built(p)
    <2> DEFINE d == [seq |-> n % SeqSpace, primary |-> n,
                     secondary |-> Secondaries(tx', n)]
    <2>1. d.primary = n /\ d.seq = n % SeqSpace /\ d.secondary = Secondaries(tx', n)
      OBVIOUS
    <2> HIDE DEF d
    <2>2. Built(d)
      BY <1>1, <1>6, <2>1 DEF Built
    <2> QED BY <1>7, <2>2 DEF d
  <1> QED BY <1>5, <1>8

(* What udptl_rx_packet hands over: IFPs that follow one another up to the *)
(* primary, each with its number; or nothing.                              *)
Consecutive(a, n) == [k \in 1 .. n |-> << a + k, (a + k) % SeqSpace >>]

HandsOver(p, n) ==
  IF p.seq >= rx_seq_no
  THEN /\ n \in 1 .. Count(p.primary) + 1
       /\ HandedBy(p) = Consecutive(p.primary - n, n)
       /\ n = Count(p.primary) + 1 \/ n = p.seq - rx_seq_no + 1
       /\ n <= p.seq - rx_seq_no + 1
  ELSE n = 0 /\ HandedBy(p) = << >>

LEMMA BuiltIs ==
  ASSUME NEW p, Built(p)
  PROVE  /\ p.primary \in Nat /\ p.seq \in Nat /\ p.seq < SeqSpace
         /\ p.seq = p.primary % SeqSpace
         /\ Len(p.secondary) = Count(p.primary)
         /\ DOMAIN p.secondary = 1 .. Count(p.primary)
         /\ Count(p.primary) \in Nat /\ Count(p.primary) <= p.primary
         /\ Count(p.primary) <= Entries
         /\ \A i \in 1 .. Count(p.primary) : p.secondary[i] = p.primary - i
  <1> USE Sizes
  <1> DEFINE c == Count(p.primary)
  <1>1. p.primary \in Nat /\ p.seq = p.primary % SeqSpace
        /\ p.secondary = [i \in 1 .. c |-> p.primary - i]
    BY DEF Built
  <1>2. c \in Nat /\ c <= p.primary /\ c <= Entries
    BY <1>1, CountBound DEF Count
  <1> HIDE DEF c
  <1>3. p.secondary \in [1 .. c -> Int]
    BY <1>1, <1>2
  <1>4. Len(p.secondary) = c
    BY <1>2, <1>3
  <1>5. p.primary % SeqSpace \in Nat /\ p.primary % SeqSpace < SeqSpace
    BY <1>1, Remainder
  <1> QED BY <1>1, <1>2, <1>3, <1>4, <1>5 DEF c

(* The number of a secondary does not come below zero, because a secondary *)
(* below the number that is expected is dropped.                           *)
LEMMA ReceiveHands ==
  ASSUME rx_seq_no \in Nat, NEW p, Built(p)
  PROVE  \E n \in Nat : HandsOver(p, n)
  <1> USE Sizes
  <1> DEFINE c == Count(p.primary)
             l == << p.primary, p.seq >>
  <1>1. /\ p.primary \in Nat /\ p.seq \in Nat /\ p.seq < SeqSpace
        /\ p.seq = p.primary % SeqSpace
        /\ Len(p.secondary) = c /\ c \in Nat
        /\ \A i \in 1 .. c : p.secondary[i] = p.primary - i
    BY BuiltIs
  <1>2. CASE p.seq < rx_seq_no
    <2>1. HandedBy(p) = << >> \o << >>
      BY <1>1, <1>2 DEF HandedBy
    <2>2. << >> \o << >> = << >>
      OBVIOUS
    <2> QED BY <1>1, <1>2, <2>1, <2>2 DEF HandsOver
  <1>3. CASE p.seq = rx_seq_no
    <2>1. HandedBy(p) = << >> \o << l >>
      <3>1. ~(p.seq > rx_seq_no) /\ p.seq >= rx_seq_no
        BY <1>1, <1>3
      <3> QED BY ONLY <3>1, Zenon DEF HandedBy
    <2> HIDE DEF l
    <2>2. << >> \o << l >> = << l >>
      OBVIOUS
    <2>3. << l >> = [k \in 1 .. 1 |-> l]
      OBVIOUS
    <2>4. Consecutive(p.primary - 1, 1) = [k \in 1 .. 1 |-> l]
      <3>1. \A k \in 1 .. 1 : (p.primary - 1) + k = p.primary
        BY <1>1
      <3> QED BY <1>1, <3>1 DEF Consecutive, l
    <2>5. HandedBy(p) = Consecutive(p.primary - 1, 1)
      BY <2>1, <2>2, <2>3, <2>4
    <2>6. 1 \in 1 .. c + 1 /\ 1 = p.seq - rx_seq_no + 1 /\ 1 <= p.seq - rx_seq_no + 1
      BY <1>1, <1>3
    <2> QED BY <1>1, <1>3, <2>5, <2>6 DEF HandsOver
  <1>4. CASE p.seq > rx_seq_no
    <2> DEFINE m == Unseen(p)
               r == Repaired(p)
    <2>1. m \in Nat /\ m <= p.seq /\ m <= c /\ (m = c \/ m = p.seq - rx_seq_no)
         /\ m <= p.seq - rx_seq_no
      BY <1>1, <1>4 DEF Unseen
    <2>2. r = [k \in 1 .. m |-> << p.secondary[m + 1 - k], p.seq - (m + 1 - k) >>]
      BY DEF Repaired
    <2>3. HandedBy(p) = r \o << l >>
      <3>1. p.seq > rx_seq_no /\ p.seq >= rx_seq_no
        BY <1>1, <1>4
      <3> QED BY ONLY <3>1, Zenon DEF HandedBy
    <2> HIDE DEF r, m, l
    <2>4. ASSUME NEW i \in 1 .. m
          PROVE  /\ p.secondary[i] = p.primary - i
                 /\ p.seq - i = (p.primary - i) % SeqSpace
      <3>1. p.secondary[i] = p.primary - i
        BY <1>1, <2>1
      <3>2. (p.primary + (-i)) % SeqSpace = (p.primary % SeqSpace) + (-i)
        <4>1. /\ p.primary \in Int /\ -i \in Int
              /\ 0 <= (p.primary % SeqSpace) + (-i)
              /\ (p.primary % SeqSpace) + (-i) < SeqSpace
          BY <1>1, <2>1
        <4> QED BY <4>1, Sizes, RemainderShift, Zenon
      <3>3. p.primary + (-i) = p.primary - i /\ p.seq + (-i) = p.seq - i
        BY <1>1, <2>1
      <3>4. p.seq - i = (p.primary - i) % SeqSpace
        BY <1>1, <3>2, <3>3, Zenon
      <3> QED BY <3>1, <3>4
    <2> DEFINE a == p.primary - (m + 1)
    <2>5. ASSUME NEW k \in 1 .. m
          PROVE  r[k] = << a + k, (a + k) % SeqSpace >>
      <3>1. m + 1 - k \in 1 .. m /\ p.primary - (m + 1 - k) = a + k
        BY <1>1, <2>1
      <3>2. r[k] = << p.secondary[m + 1 - k], p.seq - (m + 1 - k) >>
        BY <2>2
      <3> QED BY <2>4, <3>1, <3>2
    <2>6. a + (m + 1) = p.primary /\ a \in Int
      BY <1>1, <2>1
    <2> HIDE DEF a
    <2>7. \A k \in 1 .. m : r[k] \in Int \X Int
      <3>1. \A k \in 1 .. m : a + k \in Int
        BY <2>1, <2>6
      <3>2. \A k \in 1 .. m : (a + k) % SeqSpace \in Int
        BY <3>1, Remainder
      <3> QED BY <2>5, <3>1, <3>2
    <2>8. r \in Seq(Int \X Int) /\ Len(r) = m
      <3>1. r \in [1 .. m -> Int \X Int]
        BY <2>2, <2>7
      <3> QED BY <2>1, <3>1
    <2>9. l \in Int \X Int
      BY <1>1 DEF l
    <2>10. r \o << l >> = [k \in 1 .. m + 1 |-> IF k = m + 1 THEN l ELSE r[k]]
      <3>1. << l >> \in Seq(Int \X Int) /\ Len(<< l >>) = 1 /\ << l >>[1] = l
        BY <2>9
      <3> DEFINE s == << l >>
      <3> HIDE DEF s
      <3>2. /\ r \o s \in Seq(Int \X Int) /\ Len(r \o s) = m + 1
            /\ \A k \in 1 .. m + 1 : (r \o s)[k] = IF k <= m THEN r[k] ELSE s[k - m]
        <4>1. s \in Seq(Int \X Int) /\ Len(s) = 1
          BY <3>1 DEF s
        <4>2. /\ r \o s \in Seq(Int \X Int) /\ Len(r \o s) = Len(r) + Len(s)
              /\ \A k \in 1 .. Len(r) + Len(s) :
                   (r \o s)[k] = IF k <= Len(r) THEN r[k] ELSE s[k - Len(r)]
          BY ONLY <2>8, <4>1, ConcatProperties
        <4> QED BY ONLY <2>1, <2>8, <4>1, <4>2
      <3>3. \A k \in 1 .. m + 1 : (r \o s)[k] = IF k = m + 1 THEN l ELSE r[k]
        <4>1. s[1] = l
          BY <3>1 DEF s
        <4>2. m \in Nat
          BY <2>1
        <4>3. \A k \in 1 .. m + 1 : IF k = m + 1 THEN ~(k <= m) /\ k - m = 1 ELSE k <= m
          BY ONLY <4>2
        <4> QED BY ONLY <3>2, <4>1, <4>3, Zenon
      <3>4. r \o s = [k \in 1 .. m + 1 |-> (r \o s)[k]]
        <4>1. PICK q : q = r \o s
          OBVIOUS
        <4>2. q \in Seq(Int \X Int) /\ Len(q) = m + 1
          BY <3>2, <4>1
        <4>3. q = [k \in 1 .. m + 1 |-> q[k]]
          BY ONLY <2>1, <4>2
        <4> QED BY <4>1, <4>3
      <3> QED BY ONLY <3>3, <3>4 DEF s
    <2>11. HandedBy(p) = Consecutive(a, m + 1)
      <3>1. ASSUME NEW k \in 1 .. m + 1
            PROVE  (IF k = m + 1 THEN l ELSE r[k]) = << a + k, (a + k) % SeqSpace >>
        <4>1. CASE k = m + 1
          BY <1>1, <2>6, <4>1 DEF l
        <4>2. CASE k # m + 1
          <5>1. k \in 1 .. m
            BY <2>1, <4>2
          <5> QED BY <2>5, <4>2, <5>1
        <4> QED BY <4>1, <4>2
      <3> QED BY <2>3, <2>10, <3>1, Zenon DEF Consecutive
    <2>12. m + 1 \in 1 .. c + 1 /\ (m + 1 = c + 1 \/ m + 1 = p.seq - rx_seq_no + 1)
           /\ m + 1 \in Nat /\ m + 1 <= p.seq - rx_seq_no + 1
      BY <1>1, <1>4, <2>1
    <2> QED BY <1>1, <1>4, <2>11, <2>12 DEF HandsOver, a
  <1> QED BY <1>1, <1>2, <1>3, <1>4

-----------------------------------------------------------------------------
(* The T.38 engine.                                                        *)

(* A number a little further on.                                           *)
LEMMA Ahead ==
  ASSUME NEW n \in Nat, NEW g \in 0 .. SeqSpace
  PROVE  (n + g) % SeqSpace
           = IF (n % SeqSpace) + g < SeqSpace THEN (n % SeqSpace) + g
             ELSE (n % SeqSpace) + g - SeqSpace
  <1> USE Sizes
  <1>1. PICK q \in Int : n = SeqSpace * q + (n % SeqSpace)
    <2>1. n \in Int
      OBVIOUS
    <2> QED BY <2>1, Remainder
  <1>2. n % SeqSpace \in Int /\ 0 <= n % SeqSpace /\ n % SeqSpace < SeqSpace
    BY Remainder
  <1>3. CASE (n % SeqSpace) + g < SeqSpace
    BY <1>2, <1>3, RemainderShift
  <1>4. CASE ~((n % SeqSpace) + g < SeqSpace)
    <2> DEFINE r == (n % SeqSpace) + g - SeqSpace
    <2>1. r \in Int /\ 0 <= r /\ r < SeqSpace /\ q + 1 \in Int
      BY <1>2, <1>4
    <2>2. n + g = SeqSpace * (q + 1) + r
      BY <1>1, <1>2
    <2> HIDE DEF r
    <2>3. (SeqSpace * (q + 1) + r) % SeqSpace = r
      BY <2>1, RemainderOf
    <2> QED BY <1>4, <2>2, <2>3 DEF r
  <1> QED BY <1>3, <1>4

LEMMA Successor ==
  ASSUME NEW n \in Nat
  PROVE  /\ After(n % SeqSpace) = (n + 1) % SeqSpace
         /\ After(n % SeqSpace) \in 0 .. SeqSpace - 1
  <1> USE Sizes
  <1>1. ((n % SeqSpace) + 1) % SeqSpace = (n + 1) % SeqSpace
    <2>1. SeqSpace % SeqSpace = 0
      <3>1. (SeqSpace * 1 + 0) % SeqSpace = 0
        BY RemainderOf
      <3> QED BY <3>1
    <2>2. n \in Int /\ 1 \in Int
      OBVIOUS
    <2> QED BY <2>1, <2>2, RemainderTwice, Zenon
  <1>2. (n + 1) % SeqSpace \in 0 .. SeqSpace - 1
    BY Remainder
  <1> QED BY <1>1, <1>2 DEF After

(* The engine expects the number after the latest IFP t it has processed.  *)
Synced(e, t) ==
  \/ t = UNKNOWN /\ e = UNKNOWN
  \/ t \in Nat /\ e = (t + 1) % SeqSpace

Takes(st, n) == [expected |-> (n + 1) % SeqSpace, taken |-> Append(st.taken, n)]

(* It takes the next IFP, and one less far ahead than SeqSpace - Offset;   *)
(* it refuses one that is Offset or less behind.                           *)
LEMMA EngineIs ==
  ASSUME NEW st, NEW t, Synced(st.expected, t), NEW n \in Nat
  PROVE  LET st1 == Engine(st, << n, n % SeqSpace >>)
         IN  /\ st1 = st \/ st1 = Takes(st, n)
             /\ t = UNKNOWN => st1 = Takes(st, n)
             /\ t \in Nat /\ n > t /\ n - t <= SeqSpace - Offset => st1 = Takes(st, n)
             /\ t \in Nat /\ n <= t /\ t - n < Offset - 1 => st1 = st
  <1> USE Sizes
  <1> DEFINE s   == n % SeqSpace
             e   == st.expected
             st1 == Engine(st, << n, s >>)
             Declined == e # UNKNOWN /\ e # s /\ (After(s) = e \/ Late(e, s))
  <1>1. st1 = IF Declined THEN st ELSE Takes(st, n)
    <2>1. After(s) = (n + 1) % SeqSpace
      BY Successor
    <2>2. << n, s >>[1] = n /\ << n, s >>[2] = s
      OBVIOUS
    <2> HIDE DEF s
    <2> QED BY <2>1, <2>2 DEF Engine, Repeat, Takes
  <1>2. s \in Int /\ 0 <= s /\ s < SeqSpace /\ Offset \in Nat /\ Offset > 1
        /\ 2 * Offset < SeqSpace
    BY Remainder, SizeAssumption, BoundAssumption
  <1>3. After(s) = IF s + 1 < SeqSpace THEN s + 1 ELSE 0
    <2>1. After(s) = (n + 1) % SeqSpace
      BY Successor
    <2>2. (n + 1) % SeqSpace = IF s + 1 < SeqSpace THEN s + 1 ELSE s + 1 - SeqSpace
      BY Ahead
    <2> QED BY <1>2, <2>1, <2>2
  <1>4. t = UNKNOWN => ~Declined
    BY DEF Synced, UNKNOWN
  <1>5. ASSUME t \in Nat, n > t, n - t <= SeqSpace - Offset
        PROVE  ~Declined
    <2>1. e = (t + 1) % SeqSpace
      BY <1>5 DEF Synced, UNKNOWN
    <2> DEFINE g == n - (t + 1)
    <2>2. g \in 0 .. SeqSpace /\ t + 1 \in Nat /\ (t + 1) + g = n /\ g < SeqSpace - Offset
      BY <1>2, <1>5
    <2>3. e \in Int /\ 0 <= e /\ e < SeqSpace
      BY <1>5, <2>1, Remainder
    <2> HIDE DEF g
    <2>4. s = IF e + g < SeqSpace THEN e + g ELSE e + g - SeqSpace
      <3>1. ((t + 1) + g) % SeqSpace = IF ((t + 1) % SeqSpace) + g < SeqSpace
                                       THEN ((t + 1) % SeqSpace) + g
                                       ELSE ((t + 1) % SeqSpace) + g - SeqSpace
        BY ONLY <2>2, Ahead
      <3> QED BY ONLY <2>1, <2>2, <3>1, Zenon
    <2> HIDE DEF s, e
    <2> QED BY <1>2, <1>3, <2>2, <2>3, <2>4 DEF Late, UNKNOWN
  <1>6. ASSUME t \in Nat, n <= t, t - n < Offset - 1
        PROVE  Declined
    <2>1. e = (t + 1) % SeqSpace
      BY <1>6 DEF Synced, UNKNOWN
    <2> DEFINE g == (t + 1) - n
    <2>2. g \in 0 .. SeqSpace /\ n + g = t + 1 /\ 0 < g /\ g < Offset
      BY <1>2, <1>6
    <2>3. e \in Int /\ 0 <= e /\ e < SeqSpace
      BY <1>6, <2>1, Remainder
    <2> HIDE DEF g
    <2>4. e = IF s + g < SeqSpace THEN s + g ELSE s + g - SeqSpace
      BY <2>1, <2>2, Ahead
    <2> HIDE DEF s, e
    <2> QED BY <1>2, <1>3, <2>2, <2>3, <2>4 DEF Late, UNKNOWN
  <1> QED BY <1>1, <1>4, <1>5, <1>6

(* The state in which the engine is when it has been given all of h.       *)
LEMMA GivenIs ==
  ASSUME NEW n \in Nat, NEW h, Len(h) = n
  PROVE  \E st : /\ st = [k \in 0 .. n |-> IF k = 0 THEN Before ELSE Engine(st[k - 1], h[k])]
                 /\ Given(h) = st[n]
  <1> DEFINE Is(st, m) ==
               st = [k \in 0 .. m |-> IF k = 0 THEN Before ELSE Engine(st[k - 1], h[k])]
             D == { m \in 0 .. n : ~ \E st : Is(st, m) }
  <1>1. \E st : Is(st, 0)
    <2> DEFINE st == [k \in 0 .. 0 |-> Before]
    <2>1. Is(st, 0)
      <3>1. \A k \in 0 .. 0 : k = 0
        OBVIOUS
      <3>2. [k \in 0 .. 0 |-> IF k = 0 THEN Before ELSE Engine(st[k - 1], h[k])]
              = [k \in 0 .. 0 |-> Before]
        BY <3>1
      <3> QED BY <3>2
    <2> QED BY <2>1
  <1>2. ASSUME NEW m \in 0 .. n, m # n, NEW st, Is(st, m)
        PROVE  \E su : Is(su, m + 1)
    <2> DEFINE su == [k \in 0 .. m + 1 |-> IF k <= m THEN st[k] ELSE Engine(st[m], h[k])]
    <2>1. \A k \in 0 .. m : su[k] = st[k]
      OBVIOUS
    <2>2. \A k \in 0 .. m : st[k] = IF k = 0 THEN Before ELSE Engine(st[k - 1], h[k])
      BY <1>2
    <2>3. su[m + 1] = Engine(st[m], h[m + 1])
      OBVIOUS
    <2>4. \A k \in 0 .. m + 1 :
            su[k] = IF k = 0 THEN Before ELSE Engine(su[k - 1], h[k])
      <3> SUFFICES ASSUME NEW k \in 0 .. m + 1
                   PROVE  su[k] = IF k = 0 THEN Before ELSE Engine(su[k - 1], h[k])
        OBVIOUS
      <3>1. CASE k <= m
        <4>1. k \in 0 .. m /\ (k # 0 => k - 1 \in 0 .. m)
          BY <3>1
        <4> HIDE DEF su
        <4> QED BY <2>1, <2>2, <4>1
      <3>2. CASE k = m + 1
        <4>1. k # 0 /\ k - 1 = m /\ m \in 0 .. m
          BY <3>2
        <4> HIDE DEF su
        <4> QED BY <2>1, <2>3, <3>2, <4>1
      <3> QED BY <3>1, <3>2
    <2>5. su = [k \in 0 .. m + 1 |-> su[k]]
      OBVIOUS
    <2> HIDE DEF su
    <2>6. Is(su, m + 1)
      BY <2>4, <2>5, Zenon
    <2> QED BY <2>6
  <1> HIDE DEF Is
  <1>3. D = {}
    <2> SUFFICES ASSUME D # {} PROVE FALSE
      OBVIOUS
    <2>1. D \in SUBSET Nat
      OBVIOUS
    <2> HIDE DEF D
    <2>2. PICK m \in D : \A y \in D : m <= y
      BY <2>1, LeastMember
    <2> USE DEF D
    <2>3. m \in 0 .. n /\ m # 0
      BY <1>1, <2>2
    <2>4. m - 1 \in 0 .. n /\ m - 1 # n /\ ~(m <= m - 1) /\ (m - 1) + 1 = m
      BY <2>3
    <2>5. \E st : Is(st, m - 1)
      BY <2>2, <2>4
    <2>6. \E su : Is(su, (m - 1) + 1)
      BY <1>2, <2>4, <2>5
    <2> QED BY <2>2, <2>4, <2>6
  <1>4. \E st : Is(st, n)
    BY <1>3
  <1> DEFINE f == CHOOSE st : Is(st, n)
  <1>5. Is(f, n)
    BY <1>4
  <1>6. Given(h) = f[n]
    BY DEF Given, Is
  <1> QED BY <1>5, <1>6 DEF Is

(* After k of the IFPs from a + 1 on, the engine has processed the last q. *)
Chain(st, a, k, q) ==
  /\ q \in 0 .. k
  /\ q = 0 => st = Before
  /\ q > 0 => /\ st = [expected |-> (a + k + 1) % SeqSpace,
                       taken    |-> [i \in 1 .. q |-> a + k - q + i]]
              /\ a + k - q + 1 > top
  /\ top = UNKNOWN \/ a + k - top <= SeqSpace - Offset =>
       \A j \in 1 .. k : a + j > top => j > k - q

LEMMA ChainStep ==
  ASSUME top \in Nat \union {UNKNOWN}, Synced(rx_expected_seq_no, top),
         NEW a \in Int, a >= -1, top - a < Offset,
         NEW k \in Nat, NEW q, NEW st, Chain(st, a, k, q)
  PROVE  LET n == a + (k + 1)
         IN  \E r : Chain(Engine(st, << n, n % SeqSpace >>), a, k + 1, r)
  <1> USE Sizes
  <1> DEFINE n   == a + (k + 1)
             su  == Engine(st, << n, n % SeqSpace >>)
  <1>1. n \in Nat /\ q \in Nat /\ q <= k /\ Offset \in Nat /\ Offset > 1
        /\ 2 * Offset < SeqSpace
    BY SizeAssumption, BoundAssumption DEF Chain
  <1>2. top \in Int /\ top >= -1
    BY DEF UNKNOWN
  <1>3. CASE q > 0
    <2>1. /\ st.expected = (n - 1 + 1) % SeqSpace
          /\ st.taken = [i \in 1 .. q |-> a + k - q + i] /\ a + k - q + 1 > top
      <3>1. /\ st = [expected |-> (a + k + 1) % SeqSpace,
                     taken    |-> [i \in 1 .. q |-> a + k - q + i]]
            /\ a + k - q + 1 > top
        BY <1>3 DEF Chain
      <3>2. a + k + 1 = n - 1 + 1
        BY <1>1
      <3> QED BY <3>1, <3>2
    <2>2. Synced(st.expected, n - 1)
      <3>0. a + k - q + 1 > top /\ a \in Int /\ k \in Nat
        BY <2>1
      <3>1. n - 1 \in Nat
        BY ONLY <1>1, <1>2, <1>3, <3>0
      <3> QED BY ONLY <2>1, <3>1 DEF Synced
    <2>3. su = Takes(st, n)
      <3>0. a + k - q + 1 > top /\ a \in Int /\ k \in Nat /\ SeqSpace \in Nat
        BY <2>1
      <3>1. n - 1 \in Nat /\ n > n - 1 /\ n - (n - 1) <= SeqSpace - Offset
        BY ONLY <1>1, <1>2, <1>3, <3>0
      <3> HIDE DEF n
      <3> QED BY ONLY <1>1, <2>2, <3>1, EngineIs
    <2>4. Append(st.taken, n) = [i \in 1 .. q + 1 |-> a + (k + 1) - (q + 1) + i]
      <3> DEFINE s == st.taken
      <3>1. s = [i \in 1 .. q |-> a + k - q + i]
        BY <2>1
      <3>2. s \in [1 .. q -> Int]
        BY <1>1, <3>1
      <3> HIDE DEF s, n
      <3>3. s \in Seq(Int) /\ Len(s) = q
        BY <1>1, <3>2
      <3>4. Append(s, n) = [i \in 1 .. q + 1 |-> IF i = q + 1 THEN n ELSE s[i]]
        BY <3>3, AppendIs
      <3>5. \A i \in 1 .. q + 1 : (IF i = q + 1 THEN n ELSE s[i])
                                    = a + (k + 1) - (q + 1) + i
        BY <1>1, <3>1 DEF n
      <3>6. [i \in 1 .. q + 1 |-> IF i = q + 1 THEN n ELSE s[i]]
              = [i \in 1 .. q + 1 |-> a + (k + 1) - (q + 1) + i]
        BY <3>5, Zenon
      <3> QED BY <3>4, <3>6 DEF s
    <2>5. a + (k + 1) - (q + 1) + 1 > top /\ q + 1 \in 0 .. k + 1 /\ q + 1 > 0
      BY <1>1, <1>2, <2>1
    <2>6. top = UNKNOWN \/ a + (k + 1) - top <= SeqSpace - Offset =>
            \A j \in 1 .. k + 1 : a + j > top => j > (k + 1) - (q + 1)
      <3>1. top = UNKNOWN \/ a + (k + 1) - top <= SeqSpace - Offset =>
              \A j \in 1 .. k : a + j > top => j > k - q
        <4>1. top = UNKNOWN \/ a + k - top <= SeqSpace - Offset =>
                \A j \in 1 .. k : a + j > top => j > k - q
          BY DEF Chain
        <4>2. a + (k + 1) - top <= SeqSpace - Offset => a + k - top <= SeqSpace - Offset
          BY <1>1, <1>2
        <4> QED BY ONLY <4>1, <4>2
      <3>2. \A j \in 1 .. k + 1 : j \in 1 .. k \/ j = k + 1
        OBVIOUS
      <3> QED BY <1>1, <3>1, <3>2
    <2>7. su = [expected |-> (a + (k + 1) + 1) % SeqSpace,
                taken    |-> [i \in 1 .. q + 1 |-> a + (k + 1) - (q + 1) + i]]
      BY <2>3, <2>4 DEF Takes
    <2> HIDE DEF su
    <2>8. Chain(su, a, k + 1, q + 1)
      BY ONLY <1>1, <2>5, <2>6, <2>7 DEF Chain
    <2> QED BY <2>8 DEF su
  <1>4. CASE q = 0
    <2>1. /\ st = Before
          /\ top = UNKNOWN \/ a + k - top <= SeqSpace - Offset =>
               \A j \in 1 .. k : ~(a + j > top)
      BY <1>4 DEF Chain
    <2>2. Synced(st.expected, top) /\ st.taken = << >>
      BY <2>1 DEF Before
    <2>3. /\ su = st \/ su = Takes(st, n)
          /\ top = UNKNOWN => su = Takes(st, n)
          /\ top \in Nat /\ n > top /\ n - top <= SeqSpace - Offset => su = Takes(st, n)
          /\ top \in Nat /\ n <= top /\ top - n < Offset - 1 => su = st
      <3> HIDE DEF n
      <3> QED BY ONLY <1>1, <2>2, EngineIs
    <2> HIDE DEF su
    <2>4. CASE n > top /\ su = Takes(st, n)
      <3>1. Append(<< >>, n) = [i \in 1 .. 1 |-> a + (k + 1) - 1 + i]
        <4>1. Append(<< >>, n) = << n >>
          OBVIOUS
        <4>2. a + (k + 1) - 1 + 1 = n /\ \A i \in 1 .. 1 : i = 1
          BY <1>1
        <4>3. << n >> = [i \in 1 .. 1 |-> n]
          OBVIOUS
        <4>4. [i \in 1 .. 1 |-> n] = [i \in 1 .. 1 |-> a + (k + 1) - 1 + i]
          BY <4>2
        <4> QED BY <4>1, <4>3, <4>4
      <3>2. su = [expected |-> (a + (k + 1) + 1) % SeqSpace,
                  taken    |-> [i \in 1 .. 1 |-> a + (k + 1) - 1 + i]]
        BY <2>2, <2>4, <3>1 DEF Takes
      <3>3. top = UNKNOWN \/ a + (k + 1) - top <= SeqSpace - Offset =>
              \A j \in 1 .. k + 1 : a + j > top => j > (k + 1) - 1
        <4>1. top = UNKNOWN \/ a + (k + 1) - top <= SeqSpace - Offset =>
                \A j \in 1 .. k : ~(a + j > top)
          BY <1>1, <1>2, <2>1
        <4>2. \A j \in 1 .. k + 1 : j \in 1 .. k \/ j > (k + 1) - 1
          OBVIOUS
        <4> QED BY <4>1, <4>2
      <3>4. a + (k + 1) - 1 + 1 > top /\ 1 \in 0 .. k + 1
        BY <1>1, <1>2, <2>4
      <3>5. Chain(su, a, k + 1, 1)
        BY ONLY <3>2, <3>3, <3>4 DEF Chain
      <3> QED BY <3>5 DEF su
    <2>5. CASE su = st /\ (n <= top \/ ~(top = UNKNOWN \/ n - top <= SeqSpace - Offset))
      <3>1. top = UNKNOWN \/ a + (k + 1) - top <= SeqSpace - Offset =>
              \A j \in 1 .. k + 1 : a + j > top => j > (k + 1) - 0
        <4> SUFFICES ASSUME n <= top, NEW j \in 1 .. k + 1
                     PROVE  ~(a + j > top)
          BY <2>5
        <4>1. a + j <= n
          OBVIOUS
        <4> QED BY <1>1, <1>2, <4>1
      <3>2. Chain(su, a, k + 1, 0)
        BY ONLY <2>1, <2>5, <3>1, k \in Nat DEF Chain
      <3> QED BY <3>2 DEF su
    <2>6. n <= top => top \in Nat /\ top - n < Offset - 1
      BY <1>1, <1>2 DEF UNKNOWN
    <2>7. ~(n <= top) => n > top
      BY <1>1, <1>2
    <2>8. top \in Nat \/ top = UNKNOWN
      OBVIOUS
    <2> HIDE DEF n
    <2> QED BY <2>3, <2>4, <2>5, <2>6, <2>7, <2>8 DEF su, n
  <1> QED BY <1>1, <1>3, <1>4

LEMMA ChainExists ==
  ASSUME top \in Nat \union {UNKNOWN}, Synced(rx_expected_seq_no, top),
         NEW a \in Int, a >= -1, top - a < Offset, NEW n \in Nat
  PROVE  \E q : Chain(Given(Consecutive(a, n)), a, n, q)
  <1> DEFINE h == Consecutive(a, n)
  <1>1. Len(h) = n /\ \A k \in 1 .. n : h[k] = << a + k, (a + k) % SeqSpace >>
    <2>1. h = [k \in 1 .. n |-> << a + k, (a + k) % SeqSpace >>]
      BY DEF Consecutive
    <2> HIDE DEF h
    <2>2. \A k \in 1 .. n : h[k] = << a + k, (a + k) % SeqSpace >>
      BY <2>1
    <2>3. DOMAIN h = 1 .. n /\ h = [k \in 1 .. n |-> h[k]]
      BY <2>1, <2>2
    <2>4. Len(h) = n
      <3>1. h \in [1 .. n -> {h[k] : k \in 1 .. n}]
        BY ONLY <2>3
      <3> QED BY ONLY <3>1, n \in Nat
    <2> QED BY <2>2, <2>4
  <1> HIDE DEF h
  <1>2. PICK st : /\ st = [k \in 0 .. n |-> IF k = 0 THEN Before ELSE Engine(st[k - 1], h[k])]
                  /\ Given(h) = st[n]
    BY <1>1, GivenIs
  <1>3. st[0] = Before /\ \A k \in 0 .. n : k # n => st[k + 1] = Engine(st[k], h[k + 1])
    <2>1. \A k \in 0 .. n : st[k] = IF k = 0 THEN Before ELSE Engine(st[k - 1], h[k])
      BY <1>2
    <2>2. 0 \in 0 .. n
      OBVIOUS
    <2>3. \A k \in 0 .. n : k # n => k + 1 \in 0 .. n /\ k + 1 # 0 /\ (k + 1) - 1 = k
      OBVIOUS
    <2>4. ASSUME NEW k \in 0 .. n, k # n
          PROVE  st[k + 1] = Engine(st[k], h[k + 1])
      <3>1. st[k + 1] = Engine(st[(k + 1) - 1], h[k + 1])
        BY ONLY <2>1, <2>3, <2>4
      <3> QED BY ONLY <2>3, <2>4, <3>1
    <2> QED BY ONLY <2>1, <2>2, <2>4
  <1> DEFINE D == { k \in 0 .. n : ~ \E q : Chain(st[k], a, k, q) }
  <1>4. \E q : Chain(st[0], a, 0, q)
    <2>1. Chain(Before, a, 0, 0)
      BY DEF Chain
    <2> QED BY <1>3, <2>1
  <1>5. ASSUME NEW k \in 0 .. n, k # n, \E q : Chain(st[k], a, k, q)
        PROVE  \E q : Chain(st[k + 1], a, k + 1, q)
    <2>1. PICK q : Chain(st[k], a, k, q)
      BY <1>5
    <2>2. k \in Nat /\ k + 1 \in 1 .. n
      BY <1>5
    <2>3. \E r : Chain(Engine(st[k], << a + (k + 1), (a + (k + 1)) % SeqSpace >>), a, k + 1, r)
      BY <2>1, <2>2, ChainStep
    <2>4. st[k + 1] = Engine(st[k], << a + (k + 1), (a + (k + 1)) % SeqSpace >>)
      BY ONLY <1>1, <1>3, <1>5, <2>2
    <2> QED BY ONLY <2>3, <2>4
  <1>6. D = {}
    <2> SUFFICES ASSUME D # {} PROVE FALSE
      OBVIOUS
    <2>1. D \in SUBSET Nat
      OBVIOUS
    <2> HIDE DEF D
    <2>2. PICK k \in D : \A y \in D : k <= y
      BY <2>1, LeastMember
    <2> USE DEF D
    <2>3. k \in 0 .. n /\ k # 0
      BY <1>4, <2>2
    <2>4. k - 1 \in 0 .. n /\ k - 1 # n /\ ~(k <= k - 1) /\ (k - 1) + 1 = k
      BY <2>3
    <2>5. \E q : Chain(st[k - 1], a, k - 1, q)
      BY <2>2, <2>4
    <2>6. \E q : Chain(st[(k - 1) + 1], a, (k - 1) + 1, q)
      BY <1>5, <2>4, <2>5
    <2> QED BY <2>2, <2>4, <2>6
  <1>7. \E q : Chain(st[n], a, n, q)
    <2>1. n \in 0 .. n
      OBVIOUS
    <2> QED BY <1>6, <2>1
  <1> QED BY <1>2, <1>7 DEF h

-----------------------------------------------------------------------------
(* The inductive invariant.  Up to the first wrap rx_seq_no is at most one *)
(* past the latest IFP that the engine has processed, so that no IFP later *)
(* than that is withheld from it, unless the sender is so far ahead that   *)
(* the engine takes the number of a datagram for one of the past.          *)
StreamInv ==
  /\ TypeOK /\ OwnNumber /\ Ring
  /\ \A p \in net : Built(p) /\ p.primary < tx_seq_no
  /\ Synced(rx_expected_seq_no, top) /\ top < tx_seq_no
  /\ rx_seq_no <= top + 1 \/ tx_seq_no - 1 > top + SeqSpace - Offset

(* What a datagram does: n IFPs are handed over, the last q are processed. *)
Received(p, n, q) ==
  /\ n \in 0 .. p.primary + 1 /\ q \in 0 .. n
  /\ handed' = Consecutive(p.primary - n, n)
  /\ IF p.seq >= rx_seq_no
     THEN n > 0 /\ (n = Count(p.primary) + 1 \/ n = p.seq - rx_seq_no + 1)
     ELSE n = 0
  /\ q = 0 => taken' = << >> /\ top' = top /\ rx_expected_seq_no' = rx_expected_seq_no
  /\ q > 0 => /\ taken' = [i \in 1 .. q |-> p.primary - q + i]
              /\ p.primary - q + 1 > top /\ top' = p.primary
              /\ rx_expected_seq_no' = (p.primary + 1) % SeqSpace
  /\ top = UNKNOWN \/ p.primary - top <= SeqSpace - Offset =>
       \A j \in 1 .. n : p.primary - n + j > top => j > n - q

LEMMA ReceiveIs ==
  ASSUME StreamInv, NEW p \in net, p.primary >= tx_seq_no - 1 - Delay, Receive(p)
  PROVE  \E n, q : Received(p, n, q)
  <1>1. Built(p) /\ p.primary < tx_seq_no /\ rx_seq_no \in Nat /\ tx_seq_no \in Nat
        /\ top \in Nat \union {UNKNOWN} /\ top < tx_seq_no
        /\ Synced(rx_expected_seq_no, top)
    BY Sizes DEF StreamInv, TypeOK, Ring
  <1>2. PICK n \in Nat : HandsOver(p, n)
    BY <1>1, ReceiveHands
  <1>3. /\ p.primary \in Nat /\ p.seq \in Nat /\ Count(p.primary) \in Nat
        /\ Count(p.primary) <= p.primary /\ Count(p.primary) <= Entries
    BY <1>1, BuiltIs
  <1>4. /\ n <= Count(p.primary) + 1
        /\ IF p.seq >= rx_seq_no
           THEN n > 0 /\ (n = Count(p.primary) + 1 \/ n = p.seq - rx_seq_no + 1)
           ELSE n = 0
        /\ HandedBy(p) = Consecutive(p.primary - n, n)
    <2>1. Consecutive(p.primary - 0, 0) = << >>
      BY DEF Consecutive
    <2> QED BY <1>2, <1>3, <2>1 DEF HandsOver
  <1> DEFINE a == p.primary - n
  <1>5. a \in Int /\ a >= -1 /\ top - a < Offset /\ a + n = p.primary
    <2>1. top \in Int
      BY <1>1 DEF UNKNOWN
    <2> QED BY <1>1, <1>3, <1>4, <2>1, Sizes, BoundAssumption, SizeAssumption
  <1>6. PICK q : Chain(Given(Consecutive(a, n)), a, n, q)
    <2> HIDE DEF a
    <2> QED BY ONLY <1>1, <1>5, ChainExists, n \in Nat
  <1>7. /\ handed' = HandedBy(p)
        /\ rx_expected_seq_no' = Given(HandedBy(p)).expected
        /\ taken' = Given(HandedBy(p)).taken
        /\ top' = IF taken' = << >> THEN top ELSE Last(taken')
    BY DEF Receive, Process
  <1> DEFINE g == Given(HandedBy(p))
  <1>8. Chain(g, a, n, q)
    BY ONLY <1>4, <1>6
  <1> HIDE DEF g
  <1>9. /\ q \in 0 .. n
        /\ q = 0 => g = Before
        /\ q > 0 => /\ g = [expected |-> (p.primary + 1) % SeqSpace,
                            taken    |-> [i \in 1 .. q |-> p.primary - q + i]]
                    /\ p.primary - q + 1 > top
        /\ top = UNKNOWN \/ p.primary - top <= SeqSpace - Offset =>
             \A j \in 1 .. n : p.primary - n + j > top => j > n - q
    <2> HIDE DEF a
    <2>1. /\ q \in 0 .. n
          /\ q = 0 => g = Before
          /\ q > 0 => /\ g = [expected |-> (p.primary + 1) % SeqSpace,
                              taken    |-> [i \in 1 .. q |-> p.primary - q + i]]
                      /\ p.primary - q + 1 > top
          /\ top = UNKNOWN \/ p.primary - top <= SeqSpace - Offset =>
               \A j \in 1 .. n : a + j > top => j > n - q
      <3>0. p.primary \in Int /\ q \in Int /\ n \in Nat /\ top \in Int
        BY <1>1, <1>3, <1>8 DEF Chain, UNKNOWN
      <3>1. \A i \in 1 .. q : a + n - q + i = p.primary - q + i
        BY ONLY <1>5, <3>0
      <3>2. [i \in 1 .. q |-> a + n - q + i] = [i \in 1 .. q |-> p.primary - q + i]
        BY ONLY <3>1, Zenon
      <3>3. /\ a + n + 1 = p.primary + 1 /\ a + n - q + 1 = p.primary - q + 1
            /\ a + n - top = p.primary - top
        BY ONLY <1>5, <3>0
      <3>4. /\ q \in 0 .. n
            /\ q = 0 => g = Before
            /\ q > 0 => /\ g = [expected |-> (a + n + 1) % SeqSpace,
                                taken    |-> [i \in 1 .. q |-> a + n - q + i]]
                        /\ a + n - q + 1 > top
            /\ top = UNKNOWN \/ a + n - top <= SeqSpace - Offset =>
                 \A j \in 1 .. n : a + j > top => j > n - q
        BY ONLY <1>8, Zenon DEF Chain
      <3> QED BY ONLY <3>2, <3>3, <3>4
    <2> QED BY ONLY <2>1, Zenon DEF a
  <1>10. q = 0 => taken' = << >> /\ top' = top /\ rx_expected_seq_no' = rx_expected_seq_no
    BY ONLY <1>7, <1>9 DEF Before, g
  <1>11. q > 0 => /\ taken' = [i \in 1 .. q |-> p.primary - q + i]
                  /\ p.primary - q + 1 > top /\ top' = p.primary
                  /\ rx_expected_seq_no' = (p.primary + 1) % SeqSpace
    <2> SUFFICES ASSUME q > 0
                 PROVE  /\ taken' = [i \in 1 .. q |-> p.primary - q + i]
                        /\ p.primary - q + 1 > top /\ top' = p.primary
                        /\ rx_expected_seq_no' = (p.primary + 1) % SeqSpace
      OBVIOUS
    <2>1. g = [expected |-> (p.primary + 1) % SeqSpace,
               taken    |-> [i \in 1 .. q |-> p.primary - q + i]]
      BY <1>9
    <2>2. /\ taken' = [i \in 1 .. q |-> p.primary - q + i]
          /\ rx_expected_seq_no' = (p.primary + 1) % SeqSpace
      BY ONLY <1>7, <2>1 DEF g
    <2>3. taken' # << >> /\ Last(taken') = p.primary
      <3>1. q \in Nat /\ q > 0
        BY <1>9
      <3> DEFINE s == [i \in 1 .. q |-> p.primary - q + i]
      <3>2. s \in [1 .. q -> Int] /\ s[q] = p.primary
        BY <1>3, <3>1
      <3> HIDE DEF s
      <3>3. s \in Seq(Int) /\ Len(s) = q
        BY <3>1, <3>2
      <3>4. s # << >> /\ Last(s) = p.primary
        BY <3>1, <3>2, <3>3 DEF Last
      <3> QED BY <2>2, <3>4 DEF s
    <2> QED BY <1>7, <1>9, <2>2, <2>3
  <1>12. n \in 0 .. p.primary + 1 /\ handed' = Consecutive(p.primary - n, n)
    BY <1>3, <1>4, <1>7
  <1>13. Received(p, n, q)
    BY ONLY <1>4, <1>9, <1>10, <1>11, <1>12 DEF Received
  <1> QED BY <1>13

LEMMA StreamTypes ==
  ASSUME StreamInv
  PROVE  /\ tx_seq_no \in Nat /\ tx_seq_no <= MaxSent
         /\ rx_seq_no \in Nat /\ rx_seq_no < SeqSpace
         /\ top \in Int /\ top >= -1 /\ (top = UNKNOWN <=> top = -1)
         /\ top \in Nat \union {UNKNOWN}
         /\ Offset \in Nat /\ Offset > 1 /\ Delay \in Nat /\ MaxSent \in Nat
         /\ 2 * Offset + Delay <= SeqSpace /\ 2 * Offset < SeqSpace
  BY Sizes, SizeAssumption, BoundAssumption DEF StreamInv, TypeOK, UNKNOWN

LEMMA InitStream ==
  ASSUME Init
  PROVE  StreamInv
  <1> USE Sizes DEF Init
  <1>1. TypeOK
    BY BoundAssumption DEF TypeOK, UNKNOWN
  <1>2. Ring
    BY DEF Ring, UNKNOWN
  <1> QED BY <1>1, <1>2 DEF StreamInv, OwnNumber, Synced, UNKNOWN

LEMMA SendStream ==
  ASSUME StreamInv, Send
  PROVE  StreamInv'
  <1>0. /\ tx_seq_no \in Nat /\ tx_seq_no < MaxSent /\ top \in Int
        /\ MaxSent \in Nat
    BY StreamTypes DEF Send
  <1>1. /\ tx_seq_no' = tx_seq_no + 1
        /\ tx' = [tx EXCEPT ![Entry(tx_seq_no % SeqSpace)] = tx_seq_no]
        /\ net' = net \union { [seq |-> tx_seq_no % SeqSpace, primary |-> tx_seq_no,
                                secondary |-> Secondaries(tx', tx_seq_no)] }
        /\ UNCHANGED << rx_seq_no, rx_expected_seq_no, handed, taken, top, due >>
    BY DEF Send, rxVars, histVars
  <1>2. Ring' /\ \A p \in net' : Built(p)
    BY SendBuilds DEF StreamInv
  <1>3. \A p \in net' : p.primary < tx_seq_no'
    <2>1. \A p \in net : p.primary < tx_seq_no /\ p.primary \in Nat
      BY DEF StreamInv, Built
    <2>2. \A p \in net' : p \in net \/ p.primary = tx_seq_no
      BY <1>1
    <2> QED BY ONLY <1>0, <1>1, <2>1, <2>2
  <1>4. TypeOK'
    <2>1. tx' \in [0 .. BufSize - 1 -> 0 .. MaxSent - 1 \union {UNKNOWN}]
      <3>1. tx \in [0 .. BufSize - 1 -> 0 .. MaxSent - 1 \union {UNKNOWN}]
        BY DEF StreamInv, TypeOK
      <3>2. tx_seq_no \in 0 .. MaxSent - 1
        BY <1>0
      <3> QED BY ONLY <1>1, <3>1, <3>2
    <2>2. tx_seq_no' \in 0 .. MaxSent
      BY <1>0, <1>1
    <2> QED BY <1>1, <2>1, <2>2 DEF StreamInv, TypeOK
  <1>5. rx_seq_no <= top + 1 \/ tx_seq_no' - 1 > top + SeqSpace - Offset
    <2>1. SeqSpace \in Nat /\ Offset \in Nat
      BY Sizes, SizeAssumption
    <2>2. rx_seq_no <= top + 1 \/ tx_seq_no - 1 > top + SeqSpace - Offset
      BY DEF StreamInv
    <2> QED BY <1>0, <1>1, <2>1, <2>2
  <1>6. top < tx_seq_no'
    BY <1>0, <1>1 DEF StreamInv
  <1>7. OwnNumber' /\ Synced(rx_expected_seq_no, top)'
    BY <1>1 DEF StreamInv, OwnNumber, Synced
  <1>8. (rx_seq_no <= top + 1)' \/ (tx_seq_no - 1 > top + SeqSpace - Offset)'
    BY <1>1, <1>5
  <1> QED BY <1>1, <1>2, <1>3, <1>4, <1>6, <1>7, <1>8 DEF StreamInv

LEMMA ReceiveStream ==
  ASSUME StreamInv, NEW p \in net, p.primary >= tx_seq_no - 1 - Delay, Receive(p)
  PROVE  StreamInv'
  <1>0. PICK n, q : Received(p, n, q)
    BY ReceiveIs
  <1>1. /\ n \in 0 .. p.primary + 1 /\ q \in 0 .. n
        /\ handed' = Consecutive(p.primary - n, n)
        /\ IF p.seq >= rx_seq_no
           THEN n > 0 /\ (n = Count(p.primary) + 1 \/ n = p.seq - rx_seq_no + 1)
           ELSE n = 0
        /\ q = 0 => taken' = << >> /\ top' = top /\ rx_expected_seq_no' = rx_expected_seq_no
        /\ q > 0 => /\ taken' = [i \in 1 .. q |-> p.primary - q + i]
                    /\ p.primary - q + 1 > top /\ top' = p.primary
                    /\ rx_expected_seq_no' = (p.primary + 1) % SeqSpace
        /\ top = UNKNOWN \/ p.primary - top <= SeqSpace - Offset =>
             \A j \in 1 .. n : p.primary - n + j > top => j > n - q
    BY ONLY <1>0 DEF Received
  <1>2. /\ tx_seq_no' = tx_seq_no /\ tx' = tx /\ net' = net
        /\ rx_seq_no' = After(p.seq) /\ due' = p.primary + 1
    BY DEF Receive, txVars
  <1>3. /\ p.primary \in Nat /\ p.primary < tx_seq_no /\ p.seq = p.primary % SeqSpace
        /\ p.seq \in Nat /\ p.seq < SeqSpace
    BY BuiltIs DEF StreamInv
  <1>4. /\ rx_seq_no' = (p.primary + 1) % SeqSpace /\ rx_seq_no' \in 0 .. SeqSpace - 1
    BY <1>2, <1>3, Successor
  <1>5. rx_seq_no' = IF p.seq + 1 < SeqSpace THEN p.seq + 1 ELSE p.seq + 1 - SeqSpace
    <2>1. 1 \in 0 .. SeqSpace
      BY Sizes
    <2> QED BY <1>3, <1>4, <2>1, Ahead
  <1>6. rx_seq_no' <= p.primary + 1
    <2>1. p.seq <= p.primary
      <3>1. p.primary < SeqSpace => p.seq = p.primary
        <4>1. p.primary < SeqSpace => (SeqSpace * 0 + p.primary) % SeqSpace = p.primary
          BY <1>3, Sizes, RemainderOf
        <4> QED BY <1>3, <4>1, Sizes
      <3> QED BY <1>3, <3>1, Sizes
    <2> QED BY <1>3, <1>5, <2>1, Sizes
  <1>7. OwnNumber' /\ \A k \in DOMAIN handed' : handed'[k][2] \in 0 .. SeqSpace - 1
    <2>1. handed' = [k \in 1 .. n |-> << (p.primary - n) + k, ((p.primary - n) + k) % SeqSpace >>]
      BY <1>1 DEF Consecutive
    <2>2. \A k \in 1 .. n : (p.primary - n) + k \in Int
      BY <1>1, <1>3
    <2>3. \A k \in 1 .. n : ((p.primary - n) + k) % SeqSpace \in 0 .. SeqSpace - 1
      BY <2>2, Remainder, Sizes
    <2> QED BY <2>1, <2>3 DEF OwnNumber
  <1>8. \/ top' = top /\ rx_expected_seq_no' = rx_expected_seq_no
        \/ top' = p.primary /\ rx_expected_seq_no' = (p.primary + 1) % SeqSpace
    <2>1. q = 0 \/ q > 0
      BY <1>1
    <2> QED BY ONLY <1>1, <2>1
  <1>9. TypeOK'
    <2>1. rx_expected_seq_no' \in 0 .. SeqSpace - 1 \union {UNKNOWN}
      BY <1>4, <1>8 DEF StreamInv, TypeOK
    <2>2. top' \in 0 .. MaxSent - 1 \union {UNKNOWN} /\ due' \in 0 .. MaxSent
      <3>1. top \in 0 .. MaxSent - 1 \union {UNKNOWN}
        BY DEF StreamInv, TypeOK
      <3>2. p.primary \in 0 .. MaxSent - 1 /\ p.primary + 1 \in 0 .. MaxSent
        BY <1>3, StreamTypes
      <3> QED BY ONLY <1>2, <1>8, <3>1, <3>2
    <2> QED BY <1>2, <1>4, <1>7, <2>1, <2>2 DEF StreamInv, TypeOK
  <1>10. Synced(rx_expected_seq_no, top)' /\ top' < tx_seq_no
    BY <1>3, <1>8 DEF StreamInv, Synced
  <1>11. rx_seq_no' <= top' + 1 \/ tx_seq_no - 1 > top' + SeqSpace - Offset
    <2>0. /\ tx_seq_no \in Nat /\ rx_seq_no \in Nat /\ rx_seq_no < SeqSpace
          /\ top \in Int /\ top >= -1 /\ (top = UNKNOWN <=> top = -1)
          /\ Offset \in Nat /\ SeqSpace \in Nat
      BY StreamTypes, Sizes
    <2>1. CASE n = 0
      <3>1. p.seq < rx_seq_no /\ top' = top
        BY <1>1, <1>3, <2>0, <2>1
      <3>2. rx_seq_no' <= rx_seq_no
        BY <1>3, <1>5, <2>0, <3>1
      <3>3. rx_seq_no <= top + 1 \/ tx_seq_no - 1 > top + SeqSpace - Offset
        BY DEF StreamInv
      <3> QED BY ONLY <1>4, <2>0, <3>1, <3>2, <3>3
    <2>2. CASE q > 0
      <3>1. top' = p.primary
        BY <1>1, <2>2
      <3> QED BY <1>6, <3>1
    <2>3. CASE n > 0 /\ q = 0
      <3>1. top' = top
        BY <1>1, <2>3
      <3>2. n \in 1 .. n /\ p.primary - n + n = p.primary /\ ~(n > n - q)
        BY <1>1, <1>3, <2>3
      <3>3. top = UNKNOWN \/ p.primary - top <= SeqSpace - Offset => ~(p.primary > top)
        BY ONLY <1>1, <3>2
      <3> QED BY ONLY <1>3, <1>4, <1>6, <2>0, <3>1, <3>3
    <2> QED BY <1>1, <2>1, <2>2, <2>3
  <1>12. (rx_seq_no <= top + 1)' \/ (tx_seq_no - 1 > top + SeqSpace - Offset)'
    BY <1>2, <1>11
  <1>13. (top < tx_seq_no)'
    BY <1>2, <1>10
  <1>14. Ring' /\ \A d \in net' : Built(d) /\ d.primary < tx_seq_no'
    BY <1>2 DEF StreamInv, Ring
  <1> QED BY <1>7, <1>9, <1>10, <1>12, <1>13, <1>14 DEF StreamInv

LEMMA NextStream ==
  ASSUME StreamInv, [Next]_vars
  PROVE  StreamInv'
  <1>1. CASE Send
    BY <1>1, SendStream
  <1>2. CASE ReceiveAny
    BY <1>2, ReceiveStream DEF ReceiveAny
  <1>3. CASE UNCHANGED vars
    BY <1>3 DEF vars, txVars, rxVars, histVars, StreamInv, TypeOK, OwnNumber, Ring, Built,
                Synced
  <1> QED BY <1>1, <1>2, <1>3 DEF Next

THEOREM StreamInvariance == Spec => []StreamInv
  <1>1. Init => StreamInv
    BY InitStream
  <1>2. StreamInv /\ [Next]_vars => StreamInv'
    BY NextStream
  <1> QED BY <1>1, <1>2, PTL DEF Spec

(* Types; the numbers stay within their width.                             *)
THEOREM TypeCorrect == Spec => []TypeOK
  <1>1. StreamInv => TypeOK
    BY DEF StreamInv
  <1> QED BY <1>1, StreamInvariance, PTL

(* Every IFP is handed over under its own number, whatever was lost,       *)
(* repeated or reordered, and across every wrap of the ring and of the     *)
(* numbers (src/src/udptl.c:253, 430).                                     *)
THEOREM NumbersOwn == Spec => []OwnNumber
  <1>1. StreamInv => OwnNumber
    BY DEF StreamInv
  <1> QED BY <1>1, StreamInvariance, PTL

(* The engine processes every IFP at most once and in the order they were  *)
(* built, whatever the network does within the bound on delay, and across  *)
(* the wraps of the numbers (src/src/udptl.c:361).                         *)
THEOREM EngineInOrder == Spec => InOrder
  <1> DEFINE Rises == \A k \in DOMAIN taken' :
                        taken'[k] > IF k = 1 THEN top ELSE taken'[k - 1]
  <1>1. StreamInv /\ [Next]_vars => [Rises]_<< taken, top, due >>
    <2> SUFFICES ASSUME StreamInv, [Next]_vars PROVE [Rises]_<< taken, top, due >>
      OBVIOUS
    <2>1. CASE Send
      BY <2>1 DEF Send, histVars
    <2>2. CASE ReceiveAny
      <3>1. PICK p \in net : p.primary >= tx_seq_no - 1 - Delay /\ Receive(p)
        BY <2>2 DEF ReceiveAny
      <3>2. PICK n, q : Received(p, n, q)
        BY <3>1, ReceiveIs
      <3>3. p.primary \in Nat /\ q \in Nat /\ top \in Int
        <4>1. p.primary \in Nat
          BY DEF StreamInv, Built
        <4>2. q \in 0 .. n /\ n \in 0 .. p.primary + 1
          BY ONLY <3>2 DEF Received
        <4> QED BY <4>1, <4>2, StreamTypes
      <3>4. CASE q = 0
        <4>1. taken' = << >>
          BY <3>2, <3>4 DEF Received
        <4> QED BY <4>1
      <3>5. CASE q # 0
        <4>1. /\ taken' = [i \in 1 .. q |-> p.primary - q + i]
              /\ p.primary - q + 1 > top
          BY ONLY <3>2, <3>3, <3>5 DEF Received
        <4>2. \A k \in 1 .. q : taken'[k] = p.primary - q + k
          BY <4>1
        <4>3. DOMAIN taken' = 1 .. q
          BY <4>1
        <4>4. ASSUME NEW k \in 1 .. q
              PROVE  taken'[k] > IF k = 1 THEN top ELSE taken'[k - 1]
          <5>1. CASE k = 1
            BY ONLY <3>3, <4>1, <4>2, <5>1, k \in 1 .. q
          <5>2. CASE k # 1
            <6>1. k - 1 \in 1 .. q
              BY ONLY <3>3, <5>2, k \in 1 .. q
            <6> QED BY ONLY <3>3, <4>2, <5>2, <6>1, k \in 1 .. q
          <5> QED BY <5>1, <5>2
        <4> QED BY <4>3, <4>4
      <3> QED BY <3>4, <3>5
    <2>3. CASE UNCHANGED vars
      BY <2>3 DEF vars, histVars
    <2> QED BY <2>1, <2>2, <2>3 DEF Next
  <1> QED BY <1>1, StreamInvariance, PTL DEF Spec, InOrder

(* "We received a later packet than we expected, so we need to check if we *)
(* can fill in the gap from the secondary packets" (src/src/udptl.c:233):  *)
(* up to the first wrap of the numbers every datagram fills in all that it *)
(* can, whatever was lost, repeated or reordered before.                   *)
THEOREM GapsFilled == Spec => GapFilledBeforeWrap
  <1> DEFINE Filled == \A p \in net :
                         Receive(p) /\ p.primary < SeqSpace /\ p.primary - top < Offset
                           => Fills(p)
  <1>1. StreamInv /\ [Next]_vars => [Filled]_vars
    <2> SUFFICES ASSUME StreamInv, Next, NEW p \in net,
                        Receive(p), p.primary < SeqSpace, p.primary - top < Offset
                 PROVE  Fills(p)
      OBVIOUS
    <2>1. p.primary >= tx_seq_no - 1 - Delay
      <3>1. tx_seq_no' = tx_seq_no /\ due' = p.primary + 1 /\ tx_seq_no \in Nat
        BY StreamTypes DEF Receive, txVars
      <3>2. ~Send
        BY <3>1 DEF Send
      <3>3. PICK d \in net : d.primary >= tx_seq_no - 1 - Delay /\ Receive(d)
        BY <3>2 DEF Next, ReceiveAny
      <3>4. due' = d.primary + 1 /\ d.primary \in Nat /\ p.primary \in Nat
        BY <3>3 DEF Receive, StreamInv, Built
      <3> QED BY <3>1, <3>3, <3>4
    <2>2. PICK n, q : Received(p, n, q)
      BY <2>1, ReceiveIs
    <2>3. /\ p.primary \in Nat /\ p.seq = p.primary % SeqSpace /\ p.primary < tx_seq_no
          /\ DOMAIN p.secondary = 1 .. Count(p.primary) /\ Count(p.primary) \in Nat
          /\ Count(p.primary) <= p.primary
          /\ \A i \in 1 .. Count(p.primary) : p.secondary[i] = p.primary - i
      BY BuiltIs DEF StreamInv
    <2>4. p.seq = p.primary
      <3>1. (SeqSpace * 0 + p.primary) % SeqSpace = p.primary
        BY <2>3, Sizes, RemainderOf
      <3> QED BY <2>3, <3>1, Sizes
    <2>5. /\ tx_seq_no \in Nat /\ top \in Int /\ top >= -1 /\ rx_seq_no \in Nat
          /\ Offset \in Nat /\ Delay \in Nat /\ SeqSpace \in Nat
          /\ 2 * Offset + Delay <= SeqSpace
      BY StreamTypes, Sizes
    <2>6. rx_seq_no <= top + 1
      <3>1. rx_seq_no <= top + 1 \/ tx_seq_no - 1 > top + SeqSpace - Offset
        BY DEF StreamInv
      <3> QED BY ONLY <2>1, <2>3, <2>5, <3>1, p.primary - top < Offset
    <2>7. ASSUME NEW i \in 0 .. Count(p.primary), p.primary - i > top
          PROVE  \E k \in DOMAIN taken' : taken'[k] = p.primary - i
      <3>1. /\ n \in Nat /\ q \in Nat /\ q <= n
            /\ n = Count(p.primary) + 1 \/ n = p.seq - rx_seq_no + 1
            /\ q > 0 => taken' = [l \in 1 .. q |-> p.primary - q + l]
            /\ \A j \in 1 .. n : p.primary - n + j > top => j > n - q
        <4>1. p.seq >= rx_seq_no
          BY <2>3, <2>4, <2>5, <2>6, <2>7
        <4>2. p.primary - top <= SeqSpace - Offset
          BY <2>3, <2>5
        <4>3. q \in 0 .. n /\ n \in 0 .. p.primary + 1
          BY ONLY <2>2 DEF Received
        <4> QED BY ONLY <2>2, <2>3, <4>1, <4>2, <4>3 DEF Received
      <3>2. i < n
        <4>1. n = Count(p.primary) + 1 \/ n = p.seq - rx_seq_no + 1
          BY <3>1
        <4>2. i \in Int /\ i <= Count(p.primary)
          BY <2>3
        <4>3. p.primary - i >= rx_seq_no
          BY ONLY <2>3, <2>5, <2>6, <2>7, <4>2
        <4> QED BY ONLY <2>3, <2>4, <2>5, <4>1, <4>2, <4>3
      <3>3. n - i \in 1 .. n /\ p.primary - n + (n - i) = p.primary - i
        BY <2>3, <3>1, <3>2
      <3>4. n - i > n - q
        BY <2>7, <3>1, <3>3
      <3>5. q - i \in 1 .. q /\ p.primary - q + (q - i) = p.primary - i
        <4>1. i \in Nat /\ n - i > n - q
          BY <2>3, <3>4
        <4> QED BY ONLY <2>3, <3>1, <4>1
      <3>6. q > 0
        BY <3>1, <3>5
      <3>7. DOMAIN taken' = 1 .. q /\ taken'[q - i] = p.primary - i
        BY <3>1, <3>5, <3>6
      <3> QED BY <3>5, <3>7
    <2>8. ASSUME NEW m \in {p.primary} \union { p.secondary[i] : i \in DOMAIN p.secondary },
                 m > top
          PROVE  \E k \in DOMAIN taken' : taken'[k] = m
      <3>1. PICK i \in 0 .. Count(p.primary) : m = p.primary - i
        <4>1. p.primary = p.primary - 0 /\ 0 \in 0 .. Count(p.primary)
          BY <2>3
        <4>2. \A i \in 1 .. Count(p.primary) : i \in 0 .. Count(p.primary)
          BY <2>3
        <4> QED BY <2>3, <4>1, <4>2
      <3> QED BY <2>7, <2>8, <3>1
    <2> QED BY <2>8 DEF Fills
  <1> QED BY <1>1, StreamInvariance, PTL DEF Spec, GapFilledBeforeWrap

-----------------------------------------------------------------------------
(* UDPTL with FEC.                                                         *)

-----------------------------------------------------------------------------
(* The rows of FEC that a sender builds.                                   *)

Reach(n) == WindUpSpan(n) * WindUpEntries(n)

LEMMA Settings ==
  /\ Span \in Nat /\ Span > 0 /\ Entries \in Nat /\ Entries > 0
  /\ Span * Entries \in Nat /\ Span * Entries < BufSize /\ Span <= Span * Entries
  /\ BufSize \in Nat /\ BufSize > 0 /\ Entries < BufSize
  /\ MaxSent \in Nat /\ Delay \in Nat /\ Delay + Entries < BufSize
  <1>1. /\ Span \in Nat /\ Span > 0 /\ Entries \in Nat /\ Entries > 0
        /\ Span * Entries < BufSize
    BY FecAssumption, Sizes
  <1>2. Span * Entries \in Nat /\ Span <= Span * Entries
    BY <1>1
  <1> QED BY <1>1, <1>2, Sizes, LateAssumption, BoundAssumption

LEMMA RoundOn ==
  ASSUME NEW a \in Int, NEW b \in Nat, b > 0
  PROVE  (a + b) % b = a % b /\ (a - b) % b = a % b
  <1> DEFINE q == a \div b
             r == a % b
  <1>1. q \in Int /\ r \in Int /\ 0 <= r /\ r < b /\ a = b * q + r
    BY Remainder
  <1> HIDE DEF q, r
  <1>2. a + b = b * (q + 1) + r /\ a - b = b * (q - 1) + r
    BY <1>1
  <1>3. q + 1 \in Int /\ q - 1 \in Int
    BY <1>1
  <1>4. (b * (q + 1) + r) % b = r /\ (b * (q - 1) + r) % b = r
    BY <1>1, <1>3, RemainderOf
  <1> QED BY <1>2, <1>4 DEF r

LEMMA Times ==
  ASSUME NEW a \in Nat, NEW b \in Nat, NEW c \in Nat, a <= b
  PROVE  /\ c * a \in Nat /\ c * b \in Nat /\ c * a <= c * b
         /\ c * (a + 1) = c * a + c
  OBVIOUS

\* Before the rows are full there are as many as the packets allow.
LEMMA WindUpIs ==
  ASSUME NEW n \in Nat
  PROVE  /\ WindUpEntries(n) \in 0 .. Entries /\ WindUpSpan(n) \in {0, Span}
         /\ Reach(n) \in Nat /\ Reach(n) <= n /\ Reach(n) <= Span * Entries
         /\ WindUpEntries(n) > 0 <=> WindUpSpan(n) > 0
         /\ WindUpEntries(n) > 0 => WindUpSpan(n) = Span /\ n >= Span
         /\ Reach(n) = Span * WindUpEntries(n)
         /\ Reach(n) = IF n < Span * Entries THEN Span * (n \div Span) ELSE Span * Entries
  <1> USE Settings
  <1>1. n \div Span \in Int /\ n % Span \in Int /\ 0 <= n % Span /\ n % Span < Span
        /\ n = Span * (n \div Span) + (n % Span)
    BY Remainder
  <1> DEFINE q == n \div Span
  <1>2. q \in Nat
    <2>1. SUFFICES ASSUME q < 0 PROVE FALSE
      BY <1>1
    <2>2. -q \in Nat /\ -q >= 1
      BY <1>1, <2>1
    <2>3. Span * 1 <= Span * (-q)
      BY <2>2, Times
    <2>4. Span * q = -(Span * (-q))
      BY <1>1
    <2> QED BY <1>1, <2>3, <2>4
  <1>3. Span * q \in Nat /\ Span * q <= n /\ n < Span * q + Span
    BY <1>1, <1>2, Times
  <1> HIDE DEF q
  <1>4. n < Span => q = 0
    <2> SUFFICES ASSUME n < Span, q # 0 PROVE FALSE
      OBVIOUS
    <2>1. Span * 1 <= Span * q
      BY <1>2, Times
    <2> QED BY <1>3, <2>1
  <1>5. n >= Span => q > 0
    BY <1>2, <1>3
  <1>6. n < Span * Entries => q < Entries
    <2> SUFFICES ASSUME n < Span * Entries, Entries <= q PROVE FALSE
      BY <1>2
    <2>1. Span * Entries <= Span * q
      BY <1>2, Times
    <2> QED BY <1>3, <2>1
  <1>7. /\ WindUpEntries(n) = IF n < Span * Entries THEN q ELSE Entries
        /\ WindUpSpan(n) = IF n < Span THEN 0 ELSE Span
    BY DEF WindUpEntries, WindUpSpan, q
  <1>8. CASE n < Span
    <2>1. WindUpEntries(n) = 0 /\ WindUpSpan(n) = 0 /\ q = 0
      BY <1>4, <1>7, <1>8
    <2>2. Reach(n) = 0 /\ Span * 0 = 0
      BY <2>1 DEF Reach
    <2> QED BY <1>8, <2>1, <2>2 DEF q
  <1>9. CASE n >= Span /\ n < Span * Entries
    <2>1. WindUpEntries(n) = q /\ WindUpSpan(n) = Span /\ q > 0 /\ q < Entries
      BY <1>5, <1>6, <1>7, <1>9
    <2>2. Reach(n) = Span * q
      BY <2>1 DEF Reach
    <2> QED BY <1>2, <1>3, <1>9, <2>1, <2>2 DEF q
  <1>10. CASE n >= Span * Entries
    <2>1. WindUpEntries(n) = Entries /\ WindUpSpan(n) = Span
      BY <1>7, <1>10
    <2>2. Reach(n) = Span * Entries
      BY <2>1 DEF Reach
    <2> QED BY <1>10, <2>1, <2>2
  <1> QED BY <1>8, <1>9, <1>10

LEMMA ReachIs ==
  ASSUME NEW n \in Nat
  PROVE  /\ WindUpEntries(n) \in Nat /\ WindUpEntries(n) <= Entries /\ WindUpSpan(n) \in Nat
         /\ Reach(n) \in Nat /\ Reach(n) <= n /\ Reach(n) < BufSize
         /\ WindUpEntries(n) > 0 => WindUpSpan(n) > 0
  <1>1. /\ WindUpEntries(n) \in 0 .. Entries /\ WindUpSpan(n) \in {0, Span}
        /\ Reach(n) \in Nat /\ Reach(n) <= n /\ Reach(n) <= Span * Entries
        /\ WindUpEntries(n) > 0 <=> WindUpSpan(n) > 0
    BY WindUpIs, Zenon
  <1> QED BY ONLY <1>1, Settings

\* A later datagram reaches back no less.
LEMMA ReachGrows ==
  ASSUME NEW n \in Nat, NEW k \in Nat, n <= k
  PROVE  Reach(n) <= Reach(k)
  <1> USE Settings
  <1>1. CASE k >= Span * Entries
    BY <1>1, WindUpIs
  <1>2. CASE k < Span * Entries
    <2>1. /\ Reach(n) = Span * (n \div Span) /\ Reach(k) = Span * (k \div Span)
          /\ Reach(n) <= n /\ Reach(k) \in Nat /\ Reach(n) \in Nat
      <3>1. n < Span * Entries
        BY <1>2
      <3>2. Reach(n) = Span * (n \div Span) /\ Reach(n) <= n /\ Reach(n) \in Nat
        <4> HIDE Settings
        <4> QED BY <3>1, WindUpIs, Zenon
      <3>3. Reach(k) = Span * (k \div Span) /\ Reach(k) \in Nat
        <4> HIDE Settings
        <4> QED BY <1>2, WindUpIs, Zenon
      <3> QED BY <3>2, <3>3
    <2>2. /\ n \div Span \in Int /\ k \div Span \in Int
          /\ k < Span * (k \div Span) + Span
      BY Remainder
    <2> DEFINE q == n \div Span
               r == k \div Span
    <2>3. SUFFICES ASSUME q >= r + 1 PROVE FALSE
      <3>1. Span * q <= Span * r \/ q >= r + 1
        BY <2>2
      <3> QED BY <2>1, <2>3, <3>1
    <2>4. Span * (r + 1) <= Span * q /\ Span * (r + 1) = Span * r + Span
      BY <2>2, <2>3
    <2> HIDE DEF q, r
    <2> QED BY <2>1, <2>2, <2>4 DEF q, r
  <1> QED BY <1>1, <1>2

\* The i-th IFP of row m of the FEC of IFP n.
Member(n, m, i) == n + m - (WindUpSpan(n) + 1 - i) * WindUpEntries(n)

Members(n, m) == { Member(n, m, i) : i \in 1 .. WindUpSpan(n) }

LEMMA MemberIs ==
  ASSUME NEW n \in Nat, NEW m \in 0 .. WindUpEntries(n) - 1, NEW i \in 1 .. WindUpSpan(n)
  PROVE  /\ Member(n, m, i) \in Nat
         /\ Member(n, m, i) >= n - Reach(n) /\ Member(n, m, i) < n
         /\ \A j \in 1 .. WindUpSpan(n) : Member(n, m, i) = Member(n, m, j) => i = j
         /\ Row(n % BufSize, m, WindUpSpan(n), WindUpEntries(n))[i]
              = Member(n, m, i) % BufSize
  <1> DEFINE e == WindUpEntries(n)
             s == WindUpSpan(n)
             d == s + 1 - i
  <1>1. /\ e \in Nat /\ s \in Nat /\ Reach(n) = s * e /\ Reach(n) <= n /\ m \in Nat
        /\ e > 0 /\ m < e /\ BufSize \in Nat /\ BufSize > 0
    BY WindUpIs, Settings DEF Reach
  <1>2. i \in Nat /\ i >= 1 /\ i <= s
    BY <1>1
  <1>3. d \in Nat /\ 1 <= d /\ d <= s
    BY <1>1, <1>2
  <1> HIDE DEF e, s
  <1>4. d * e \in Nat /\ e <= d * e /\ d * e <= s * e
    <2> HIDE DEF d
    <2>1. e * 1 <= e * d /\ e * d <= e * s
      BY <1>1, <1>3, Times
    <2> QED BY <1>1, <1>3, <2>1
  <1>5. Member(n, m, i) = n + m - d * e
    BY DEF Member, e, s, d
  <1>6. ASSUME NEW j \in 1 .. s, Member(n, m, i) = Member(n, m, j) PROVE i = j
    <2>1. Member(n, m, j) = n + m - (s + 1 - j) * e
      BY DEF Member, e, s
    <2>2. j \in Nat /\ s + 1 - j \in Nat
      BY <1>1
    <2>3. d * e = (s + 1 - j) * e
      BY <1>1, <1>3, <1>5, <1>6, <2>1, <2>2
    <2>4. d = s + 1 - j
      <3> DEFINE c == s + 1 - j
      <3>1. c \in Nat /\ d * e = c * e
        BY <2>2, <2>3
      <3> HIDE DEF c, d
      <3>2. e * d = e * c
        BY <1>1, <1>3, <3>1
      <3>3. ASSUME NEW a \in Nat, NEW b \in Nat, a < b PROVE e * a < e * b
        <4>1. e * (a + 1) <= e * b /\ e * (a + 1) = e * a + e /\ e * a \in Nat
          BY <1>1, <3>3, Times
        <4> QED BY <1>1, <4>1
      <3>4. d = c
        <4>0. e * d \in Nat /\ d \in Nat
          BY <1>1, <1>3
        <4>1. ~(d < c)
          <5> SUFFICES ASSUME d < c PROVE FALSE
            OBVIOUS
          <5>1. e * d < e * c
            BY <3>1, <3>3, <4>0, Zenon
          <5> QED BY <3>2, <4>0, <5>1
        <4>2. ~(c < d)
          <5> SUFFICES ASSUME c < d PROVE FALSE
            OBVIOUS
          <5>1. e * c < e * d
            BY <3>1, <3>3, <4>0, Zenon
          <5> QED BY <3>2, <4>0, <5>1
        <4> QED BY <1>3, <3>1, <4>1, <4>2
      <3> QED BY <3>4 DEF c
    <2> QED BY <1>1, <1>2, <2>2, <2>4
  <1>7. Row(n % BufSize, m, s, e)[i] = Member(n, m, i) % BufSize
    <2>1. Row(n % BufSize, m, s, e)[i] = ((n % BufSize) + m - d * e) % BufSize
      BY <1>1 DEF Row, d, s
    <2>2. n % BufSize \in Int /\ m - d * e \in Int
      BY <1>1, <1>4, Remainder
    <2>3. (n % BufSize) + m - d * e = (n % BufSize) + (m - d * e)
          /\ n + m - d * e = n + (m - d * e)
      BY <1>1, <1>4, <2>2
    <2>4. ((n % BufSize) + (m - d * e)) % BufSize = (n + (m - d * e)) % BufSize
      <3> DEFINE r == m - d * e
      <3>1. r \in Int /\ n \in Int
        BY <2>2
      <3> HIDE DEF r
      <3>2. ((n % BufSize) + r) % BufSize = (n + r) % BufSize
        BY <1>1, <3>1, RingAdvance
      <3> QED BY <3>2 DEF r
    <2> QED BY <1>5, <2>1, <2>3, <2>4
  <1>8. Member(n, m, i) \in Nat /\ Member(n, m, i) >= n - Reach(n) /\ Member(n, m, i) < n
    BY <1>1, <1>4, <1>5
  <1> QED BY <1>6, <1>7, <1>8 DEF e, s

-----------------------------------------------------------------------------
(* The XOR of sets of names.                                               *)

LEMMA CountOne ==
  ASSUME NEW x, NEW y, x # y
  PROVE  Cardinality({x}) % 2 = 1 /\ Cardinality({x, y}) % 2 = 0
  <1>1. Cardinality({x}) = 1 /\ IsFiniteSet({x})
    BY FS_Singleton
  <1>2. Cardinality({x} \union {y}) = 2
    BY <1>1, FS_AddElement
  <1>3. {x} \union {y} = {x, y}
    OBVIOUS
  <1> QED BY <1>1, <1>2, <1>3

\* Of different packets.
LEMMA XorOfOnes ==
  ASSUME NEW k \in Nat, NEW g, \A i, j \in 1 .. k : g[i] = g[j] => i = j
  PROVE  XorNames([i \in 1 .. k |-> { g[i] }]) = { g[i] : i \in 1 .. k }
  <1> DEFINE f == [i \in 1 .. k |-> { g[i] }]
  <1>1. DOMAIN f = 1 .. k /\ \A i \in 1 .. k : f[i] = { g[i] }
    OBVIOUS
  <1> HIDE DEF f
  <1>2. UNION { f[i] : i \in DOMAIN f } = { g[i] : i \in 1 .. k }
    BY <1>1
  <1>3. ASSUME NEW i \in 1 .. k PROVE Cardinality({ j \in DOMAIN f : g[i] \in f[j] }) % 2 = 1
    <2>1. { j \in DOMAIN f : g[i] \in f[j] } = {i}
      BY <1>1
    <2>2. i # -1
      OBVIOUS
    <2> QED BY <2>1, <2>2, CountOne
  <1>4. XorNames(f) = { g[i] : i \in 1 .. k }
    BY <1>2, <1>3 DEF XorNames
  <1> QED BY <1>4 DEF f

\* Of a row with all packets of it but one.
Distinct(g, k)  == \A i, j \in 1 .. k : g[i] = g[j] => i = j
AllBut(g, k, w) == [i \in 1 .. k |-> IF i = w THEN {} ELSE { g[i] }]

LEMMA XorOfRest ==
  ASSUME NEW k \in Nat, NEW g, Distinct(g, k), NEW w \in 1 .. k
  PROVE  XorNames(<< { g[i] : i \in 1 .. k } >> \o AllBut(g, k, w)) = { g[w] }
  <1> DEFINE F == { g[i] : i \in 1 .. k }
             rest == AllBut(g, k, w)
             f == << F >> \o rest
  <1>0. /\ F = { g[i] : i \in 1 .. k } /\ \A i, j \in 1 .. k : g[i] = g[j] => i = j
        /\ rest = [i \in 1 .. k |-> IF i = w THEN {} ELSE { g[i] }]
    BY DEF Distinct, AllBut
  <1> HIDE DEF F, rest
  <1> USE <1>0
  <1>1. DOMAIN f = 1 .. k + 1 /\ f[1] = F /\ \A i \in 1 .. k : f[i + 1] = rest[i]
    <2>1. rest \in Seq({ rest[i] : i \in 1 .. k }) /\ Len(rest) = k
      OBVIOUS
    <2>2. << F >> \in Seq({F}) /\ Len(<< F >>) = 1 /\ << F >>[1] = F
      OBVIOUS
    <2>3. f = [j \in 1 .. 1 + k |-> IF j <= 1 THEN << F >>[j] ELSE rest[j - 1]]
      BY <2>1, <2>2
    <2>4. DOMAIN f = 1 .. 1 + k
      BY <2>3
    <2>5. 1 \in 1 .. 1 + k /\ f[1] = F
      BY <2>2, <2>3
    <2>6. ASSUME NEW i \in 1 .. k PROVE f[i + 1] = rest[i]
      <3>1. i + 1 \in 1 .. 1 + k /\ ~(i + 1 <= 1) /\ i + 1 - 1 = i
        OBVIOUS
      <3> HIDE DEF f
      <3> QED BY <2>3, <3>1
    <2> QED BY <2>4, <2>5, <2>6
  <1> HIDE DEF f
  <1>2. \A i \in 1 .. k : i + 1 \in 1 .. k + 1 /\ i + 1 # 1
    OBVIOUS
  <1>3. \A j \in 1 .. k + 1 : j = 1 \/ (j - 1 \in 1 .. k /\ j = (j - 1) + 1)
    OBVIOUS
  <1>4. UNION { f[j] : j \in DOMAIN f } = F
    <2>1. \A j \in 1 .. k + 1 : f[j] \subseteq F
      <3> TAKE j \in 1 .. k + 1
      <3>1. CASE j = 1
        BY <1>1, <3>1
      <3>2. CASE j # 1
        <4>1. PICK i \in 1 .. k : j = i + 1
          BY <1>3, <3>2
        <4>2. f[j] = rest[i] /\ rest[i] \subseteq { g[i] } /\ g[i] \in F
          BY <1>1, <4>1
        <4> QED BY <4>2
      <3> QED BY <3>1, <3>2
    <2>2. 1 \in 1 .. k + 1
      OBVIOUS
    <2> QED BY <1>1, <2>1, <2>2
  <1>5. ASSUME NEW i \in 1 .. k
        PROVE  Cardinality({ j \in DOMAIN f : g[i] \in f[j] }) % 2 = IF i = w THEN 1 ELSE 0
    <2> DEFINE J == { j \in DOMAIN f : g[i] \in f[j] }
    <2>1. 1 \in J
      BY <1>1
    <2>2. ASSUME NEW l \in 1 .. k PROVE l + 1 \in J <=> l = i /\ i # w
      <3>1. l + 1 \in DOMAIN f /\ f[l + 1] = rest[l]
        BY <1>1, <1>2
      <3>2. rest[l] = IF l = w THEN {} ELSE { g[l] }
        OBVIOUS
      <3>3. g[i] \in rest[l] <=> l # w /\ l = i
        BY <3>2
      <3> HIDE DEF f
      <3> QED BY <3>1, <3>3
    <2>3. \A j \in J : j = 1 \/ \E l \in 1 .. k : j = l + 1
      BY <1>1, <1>3
    <2>4. i = w => J = {1}
      BY <2>1, <2>2, <2>3
    <2>5. i # w => J = {1, i + 1}
      BY <2>1, <2>2, <2>3
    <2>6. 1 # i + 1
      OBVIOUS
    <2> HIDE DEF J
    <2>7. i = w => Cardinality(J) % 2 = 1
      BY <2>4, <2>6, CountOne
    <2>8. i # w => Cardinality(J) % 2 = 0
      BY <2>5, <2>6, CountOne
    <2> QED BY <2>7, <2>8 DEF J
  <1>6. XorNames(f) = { n \in F : Cardinality({ j \in DOMAIN f : n \in f[j] }) % 2 = 1 }
    BY <1>4 DEF XorNames
  <1>7. XorNames(f) = { g[w] }
    BY <1>5, <1>6
  <1> QED BY <1>7 DEF f, F, rest

-----------------------------------------------------------------------------
(* The sender.                                                             *)

Bufs == [of : SUBSET (0 .. MaxSent - 1), len : -1 .. MaxSize]

(* A datagram with redundancy, or with the rows of FEC of its IFP.         *)
Made(p) ==
  /\ p.primary \in 0 .. MaxSent - 1 /\ p.seq = p.primary
  /\ p.fec \in Seq(Bufs) /\ Len(p.fec) <= Entries /\ p.span \in {0, Span}
  /\ \/ /\ p.mode = "redundancy" /\ p.fec = << >> /\ p.span = 0
        /\ p.secondary = [i \in 1 .. Count(p.primary) |-> p.primary - i]
     \/ /\ p.mode = "fec" /\ p.secondary = << >>
        /\ p.span = WindUpSpan(p.primary) /\ Len(p.fec) = WindUpEntries(p.primary)
        /\ \A m \in 1 .. Len(p.fec) :
             /\ p.fec[m].len > 0 /\ p.fec[m].of = Members(p.primary, m - 1)
             /\ \A n \in Members(p.primary, m - 1) : Size(n) <= p.fec[m].len

(* The ring of the sender when IFP n is the latest.                        *)
Keeps(t, n) ==
  /\ t \in [Slots -> Int]
  /\ \A m \in 0 .. n : m > n - BufSize => t[m % BufSize] = m

LEMMA SlotOf ==
  ASSUME NEW n \in Int
  PROVE  /\ n % BufSize \in Slots /\ Entry(n) = n % BufSize
         /\ n \in 0 .. MaxSent - 1 => n % SeqSpace = n /\ n < SeqSpace
  <1>1. n % BufSize \in Slots
    BY Settings, Remainder DEF Slots
  <1>2. ASSUME n \in 0 .. MaxSent - 1 PROVE n % SeqSpace = n /\ n < SeqSpace
    <2>1. n \in Nat /\ n < SeqSpace
      BY <1>2, FirstRoundAssumption, Sizes, Settings
    <2>2. (SeqSpace * 0 + n) % SeqSpace = n
      BY <2>1, Sizes, RemainderOf
    <2> QED BY <2>1, <2>2, Sizes
  <1> QED BY <1>1, <1>2 DEF Entry

LEMMA SecondariesAre ==
  ASSUME NEW n \in 0 .. MaxSent - 1, NEW t, Keeps(t, n)
  PROVE  Secondaries(t, n) = [i \in 1 .. Count(n) |-> n - i]
  <1> SUFFICES ASSUME NEW i \in 1 .. Count(n)
               PROVE  t[Entry((n % SeqSpace) - i)] = n - i
    BY DEF Secondaries
  <1>1. n \in Nat /\ i \in Nat /\ i <= n /\ i < BufSize /\ i \in Int
    BY CountBound, Settings
  <1>2. n % SeqSpace = n
    BY <1>1, SlotOf
  <1>3. n - i \in 0 .. n /\ n - i > n - BufSize /\ n - i \in Int
    BY <1>1, Settings
  <1>4. Entry(n - i) = (n - i) % BufSize
    BY <1>3, SlotOf
  <1> QED BY <1>2, <1>3, <1>4 DEF Keeps

LEMMA RowsAre ==
  ASSUME NEW n \in 0 .. MaxSent - 1, NEW t, Keeps(t, n)
  PROVE  /\ FecRows(t, n) \in Seq(Bufs) /\ Len(FecRows(t, n)) = WindUpEntries(n)
         /\ \A m \in 1 .. WindUpEntries(n) :
              /\ FecRows(t, n)[m].len > 0 /\ FecRows(t, n)[m].of = Members(n, m - 1)
              /\ \A x \in Members(n, m - 1) : Size(x) <= FecRows(t, n)[m].len
  <1> DEFINE e == WindUpEntries(n)
             s == WindUpSpan(n)
             f == FecRows(t, n)
  <1>1. n \in Nat /\ n < MaxSent /\ e \in Nat /\ s \in Nat /\ Reach(n) \in Nat
        /\ Reach(n) <= n /\ Reach(n) < BufSize /\ (e > 0 => s > 0) /\ n \in 0 .. MaxSent
        /\ MaxSent \in Nat /\ BufSize \in Nat
    <2>1. n \in Nat /\ n < MaxSent /\ n \in 0 .. MaxSent
      BY Settings
    <2> QED BY <2>1, ReachIs, Settings, Zenon
  <1>2. Entry(n) = n % BufSize
    BY <1>1, SlotOf
  <1>3. ASSUME NEW m \in 1 .. e
        PROVE  /\ f[m] \in Bufs /\ f[m].len > 0 /\ f[m].of = Members(n, m - 1)
               /\ \A x \in Members(n, m - 1) : Size(x) <= f[m].len
    <2> DEFINE row == Row(Entry(n), m - 1, s, e)
               g   == [i \in 1 .. s |-> Member(n, m - 1, i)]
               L   == { Size(t[row[i]]) : i \in DOMAIN row }
    <2>1. f[m] = [of |-> XorNames([i \in DOMAIN row |-> { t[row[i]] }]), len |-> Max(L)]
      BY DEF FecRows
    <2>2. DOMAIN row = 1 .. s
      BY DEF Row
    <2>3. m - 1 \in 0 .. e - 1
      BY <1>1
    <2>4. ASSUME NEW i \in 1 .. s
          PROVE  t[row[i]] = g[i] /\ g[i] \in 0 .. n - 1
      <3>1. /\ Member(n, m - 1, i) \in Nat /\ Member(n, m - 1, i) < n
            /\ Member(n, m - 1, i) >= n - Reach(n)
            /\ row[i] = Member(n, m - 1, i) % BufSize
        BY <1>1, <1>2, <2>3, MemberIs
      <3>2. Member(n, m - 1, i) \in 0 .. n /\ Member(n, m - 1, i) > n - BufSize
        BY <1>1, <3>1
      <3>3. t[Member(n, m - 1, i) % BufSize] = Member(n, m - 1, i)
        BY <3>2 DEF Keeps
      <3> QED BY <1>1, <3>1, <3>3
    <2>5. \A i, j \in 1 .. s : g[i] = g[j] => i = j
      BY <1>1, <2>3, MemberIs
    <2>6. Members(n, m - 1) = { g[i] : i \in 1 .. s }
      BY DEF Members
    <2> HIDE DEF g, row
    <2>7. [i \in DOMAIN row |-> { t[row[i]] }] = [i \in 1 .. s |-> { g[i] }]
      <3>1. \A i \in 1 .. s : { t[row[i]] } = { g[i] }
        BY <2>4
      <3> QED BY ONLY <2>2, <3>1, Zenon
    <2>8. XorNames([i \in 1 .. s |-> { g[i] }]) = { g[i] : i \in 1 .. s }
      <3>1. s \in Nat
        BY <1>1
      <3> QED BY ONLY <2>5, <3>1, XorOfOnes
    <2>9. L = { Size(g[i]) : i \in 1 .. s }
      BY <2>2, <2>4
    <2>10. Max(L) \in 1 .. MaxSize /\ \A y \in L : y <= Max(L)
      <3>1. \A i \in 1 .. s : Size(g[i]) \in 1 .. MaxSize
        <4>1. \A i \in 1 .. s : g[i] \in 0 .. MaxSent
          BY ONLY <1>1, <2>4
        <4> QED BY <4>1, FecAssumption, Zenon
      <3>2. L \subseteq 1 .. MaxSize /\ L # {}
        <4>1. s > 0
          BY <1>1
        <4> QED BY <1>1, <2>9, <3>1, <4>1
      <3>3. \E x \in L : \A y \in L : x >= y
        <4> DEFINE U == { MaxSize - y : y \in L }
        <4>1. U \in SUBSET Nat /\ U # {}
          BY <3>2 DEF MaxSize
        <4> HIDE DEF U
        <4>2. PICK u \in U : \A v \in U : u <= v
          BY <4>1, LeastMember
        <4>3. PICK x \in L : u = MaxSize - x
          BY DEF U
        <4>4. \A y \in L : MaxSize - y \in U
          BY DEF U
        <4> HIDE DEF L
        <4> QED BY <3>2, <4>2, <4>3, <4>4 DEF MaxSize
      <3> HIDE DEF L
      <3>4. Max(L) \in L /\ \A y \in L : Max(L) >= y
        BY <3>3 DEF Max
      <3> QED BY <3>2, <3>4
    <2> HIDE DEF L
    <2>11. f[m].of = Members(n, m - 1) /\ f[m].len = Max(L)
           /\ f[m] = [of |-> f[m].of, len |-> f[m].len]
      <3>1. f[m] = [of |-> Members(n, m - 1), len |-> Max(L)]
        BY <2>1, <2>6, <2>7, <2>8, Zenon
      <3> HIDE DEF f
      <3> QED BY <3>1
    <2>12. Members(n, m - 1) \in SUBSET (0 .. MaxSent - 1)
      BY <1>1, <2>4, <2>6, Settings
    <2>13. \A x \in Members(n, m - 1) : Size(x) <= f[m].len
      <3>1. \A x \in Members(n, m - 1) : Size(x) \in L
        BY <2>6, <2>9
      <3> QED BY <2>10, <2>11, <3>1
    <2> QED BY <2>10, <2>11, <2>12, <2>13 DEF Bufs, MaxSize
  <1>4. f = [m \in 1 .. e |-> f[m]]
    BY DEF FecRows
  <1> HIDE DEF f
  <1>5. f \in [1 .. e -> Bufs]
    BY <1>3, <1>4
  <1>6. f \in Seq(Bufs) /\ Len(f) = e
    BY <1>1, <1>5
  <1> QED BY <1>3, <1>6 DEF f

-----------------------------------------------------------------------------
(* The ring of the receiver.                                               *)

SlotTypes == [buf : Bufs, span : {0, Span}, entries : 0 .. Entries,
              fec : [0 .. Entries - 1 -> Bufs]]
RxTypes   == [Slots -> SlotTypes]

(* The numbers whose slots no later one has taken, when a is the latest.   *)
Recent(a) == { n \in 0 .. a : n > a - BufSize }

(* What slot x holds is the IFP of the one recent number that has the slot,*)
(* with all its octets, and the FEC beside it is that of the datagram with this number if it is *)
(* below k: one at k or above was malformed.                               *)
TrueIfp(b, x, a) ==
  b.len > 0 => \E n \in Recent(a) : n % BufSize = x /\ b.of = {n} /\ b.len >= Size(n)

FullRows(s, n) ==
  /\ s.span = WindUpSpan(n) /\ s.entries = WindUpEntries(n)
  /\ \A m \in 0 .. WindUpEntries(n) - 1 :
       /\ s.fec[m].len > 0 /\ s.fec[m].of = Members(n, m)
       /\ \A x \in Members(n, m) : Size(x) <= s.fec[m].len

TrueFec(s, x, a, k) ==
  s.fec[0].len > 0 => \E n \in Recent(a) : n % BufSize = x /\ (n < k => FullRows(s, n))

TrueRing(r, a, k) == \A x \in Slots : TrueIfp(r[x].buf, x, a) /\ TrueFec(r[x], x, a, k)

LEMMA OneRecent ==
  ASSUME NEW a \in Int, NEW n \in Recent(a), NEW m \in Recent(a), n % BufSize = m % BufSize
  PROVE  n = m
  <1>1. n \in Int /\ m \in Int /\ n - m < BufSize /\ m - n < BufSize
    BY Settings DEF Recent
  <1> QED BY <1>1, Settings, RemainderNear

LEMMA LessKnown ==
  ASSUME NEW r, NEW a \in Int, NEW k \in Nat, NEW j \in Nat, j <= k, TrueRing(r, a, k)
  PROVE  TrueRing(r, a, j)
  <1>1. \A n \in Recent(a) : n < j => n < k
    BY DEF Recent
  <1> QED BY <1>1 DEF TrueRing, TrueFec

LEMMA IfpIs ==
  ASSUME NEW n \in 0 .. MaxSent - 1
  PROVE  /\ Ifp(n) \in Bufs /\ Ifp(n).of = {n} /\ Ifp(n).len > 0
         /\ Ifp(n).len = Size(n) /\ Ifp(n).len >= Size(n)
  <1>1. n \in 0 .. MaxSent
    BY Settings
  <1>2. Size(n) \in 1 .. MaxSize
    BY <1>1, FecAssumption
  <1> QED BY <1>2 DEF Ifp, Bufs, MaxSize

\* A slot that is cleared has neither an IFP nor FEC.
LEMMA ClearIs ==
  ASSUME NEW s \in SlotTypes, NEW c, c = ClearSlot(s), NEW b \in Bufs,
         NEW d, d = [c EXCEPT !.buf = b]
  PROVE  /\ c \in SlotTypes /\ c.buf = Missing /\ c.buf.len = -1
         /\ c.fec[0].len = 0 /\ c.span = 0 /\ c.entries = 0
         /\ d \in SlotTypes /\ d.buf = b
         /\ d.fec[0].len = 0 /\ d.span = 0 /\ d.entries = 0
  <1>0. 0 \in 0 .. Entries - 1 /\ 0 \in 0 .. Entries
    BY Settings
  <1>1. Missing \in Bufs /\ Missing.len = -1
    BY DEF Missing, Bufs, MaxSize
  <1>2. s.fec[0] \in Bufs /\ s.fec \in [0 .. Entries - 1 -> Bufs]
    BY <1>0 DEF SlotTypes
  <1>3. [s.fec[0] EXCEPT !.len = 0] \in Bufs /\ [s.fec[0] EXCEPT !.len = 0].len = 0
    <2>1. PICK g \in Bufs : g = s.fec[0]
      BY <1>2
    <2>2. g.of \in SUBSET (0 .. MaxSent - 1) /\ [g EXCEPT !.len = 0] = [of |-> g.of, len |-> 0]
      BY DEF Bufs
    <2>3. [of |-> g.of, len |-> 0] \in Bufs
      BY <2>2 DEF Bufs, MaxSize
    <2> QED BY <2>1, <2>2, <2>3
  <1> DEFINE f == [s.fec EXCEPT ![0] = [s.fec[0] EXCEPT !.len = 0]]
  <1>4. f \in [0 .. Entries - 1 -> Bufs] /\ f[0].len = 0
    BY <1>0, <1>2, <1>3
  <1>5. c = [s EXCEPT !.buf = Missing, !.fec = f, !.span = 0, !.entries = 0]
    BY DEF ClearSlot, SlotTypes
  <1> HIDE DEF f
  <1>6. c = [buf |-> Missing, span |-> 0, entries |-> 0, fec |-> f]
    BY <1>5 DEF SlotTypes
  <1>7. d = [buf |-> b, span |-> 0, entries |-> 0, fec |-> f]
    BY <1>6
  <1> HIDE DEF Missing
  <1> QED BY <1>0, <1>1, <1>4, <1>6, <1>7 DEF SlotTypes

\* What Stored leaves in a slot.
LEMMA StoredIs ==
  ASSUME rx \in RxTypes, NEW p, Made(p), rx_seq_no \in Nat, NEW i \in Slots
  PROVE  /\ Stored(p) \in RxTypes
         /\ i = p.primary % BufSize =>
              /\ Stored(p)[i].buf = Ifp(p.primary) /\ Stored(p)[i].fec[0].len = 0
              /\ Stored(p)[i].span = 0 /\ Stored(p)[i].entries = 0
         /\ i # p.primary % BufSize =>
              \/ /\ Stored(p)[i].buf.len = -1 /\ Stored(p)[i].fec[0].len = 0
                 /\ \E n \in rx_seq_no .. p.primary - 1 : n % BufSize = i
              \/ /\ Stored(p)[i] = rx[i]
                 /\ \A n \in rx_seq_no .. p.primary - 1 : n % BufSize # i
  <1> DEFINE x == p.primary % BufSize
             missed == { Entry(n) : n \in rx_seq_no .. p.seq - 1 }
             new(s) == [ClearSlot(s) EXCEPT !.buf = Ifp(p.primary)]
             r == Stored(p)
  <1>1. /\ p.primary \in 0 .. MaxSent - 1 /\ p.seq = p.primary /\ p.primary \in Int
        /\ Entry(p.seq) = x
    BY SlotOf DEF Made
  <1>2. r = [j \in Slots |-> IF j = x THEN new(rx[j])
                             ELSE IF j \in missed THEN ClearSlot(rx[j]) ELSE rx[j]]
    BY <1>1 DEF Stored
  <1>3. Ifp(p.primary) \in Bufs
    BY <1>1, IfpIs
  <1>4. \A j \in Slots : rx[j] \in SlotTypes
    BY DEF RxTypes
  <1>5. ASSUME NEW j \in Slots
        PROVE  /\ ClearSlot(rx[j]) \in SlotTypes /\ ClearSlot(rx[j]).buf.len = -1
               /\ ClearSlot(rx[j]).fec[0].len = 0
               /\ new(rx[j]) \in SlotTypes /\ new(rx[j]).buf = Ifp(p.primary)
               /\ new(rx[j]).fec[0].len = 0 /\ new(rx[j]).span = 0 /\ new(rx[j]).entries = 0
    BY <1>3, <1>4, ClearIs
  <1>6. missed = { n % BufSize : n \in rx_seq_no .. p.primary - 1 }
    <2>1. \A n \in rx_seq_no .. p.primary - 1 : n \in Int
      BY <1>1
    <2>2. \A n \in rx_seq_no .. p.primary - 1 : Entry(n) = n % BufSize
      BY <2>1, SlotOf
    <2> QED BY <1>1, <2>2
  <1> HIDE DEF new, x, missed, r
  <1>7. r \in RxTypes
    BY <1>2, <1>4, <1>5 DEF RxTypes
  <1>8. ASSUME i = x
        PROVE  /\ r[i].buf = Ifp(p.primary) /\ r[i].fec[0].len = 0
               /\ r[i].span = 0 /\ r[i].entries = 0
    BY <1>2, <1>5, <1>8
  <1>9. ASSUME i # x
        PROVE  \/ /\ r[i].buf.len = -1 /\ r[i].fec[0].len = 0
                  /\ \E n \in rx_seq_no .. p.primary - 1 : n % BufSize = i
               \/ r[i] = rx[i] /\ \A n \in rx_seq_no .. p.primary - 1 : n % BufSize # i
    <2>1. CASE i \in missed
      BY <1>2, <1>5, <1>6, <1>9, <2>1
    <2>2. CASE i \notin missed
      BY <1>2, <1>6, <1>9, <2>2
    <2> QED BY <2>1, <2>2
  <1> QED BY <1>7, <1>8, <1>9 DEF x, r

\* The latest datagram when one with number n comes.
Latest(n, a) == IF n > a THEN n ELSE a

LEMMA StoredTrue ==
  ASSUME rx \in RxTypes, NEW p, Made(p), rx_seq_no \in Nat,
         came \in Int, came >= -1, rx_seq_no <= came + 1, p.primary >= came - Delay,
         TrueRing(rx, came, rx_seq_no),
         NEW j \in Nat, j <= p.primary + 1 \/ j <= rx_seq_no
  PROVE  TrueRing(Stored(p), Latest(p.primary, came), j)
  <1> DEFINE N == p.primary
             a == Latest(N, came)
             r == Stored(p)
  <1>1. /\ N \in Nat /\ N \in 0 .. MaxSent - 1 /\ a \in Nat /\ a >= N /\ a >= came
        /\ BufSize \in Nat /\ BufSize > Delay /\ (a = N \/ a = came) /\ Delay \in Nat
    BY Settings DEF Made, Latest
  <1> SUFFICES ASSUME NEW i \in Slots
               PROVE  TrueIfp(r[i].buf, i, a) /\ TrueFec(r[i], i, a, j)
    BY DEF TrueRing
  <1>2. /\ i = N % BufSize => r[i].buf = Ifp(N) /\ r[i].fec[0].len = 0
        /\ i # N % BufSize =>
              \/ r[i].buf.len = -1 /\ r[i].fec[0].len = 0
              \/ /\ r[i] = rx[i]
                 /\ \A n \in rx_seq_no .. N - 1 : n % BufSize # i
    BY StoredIs
  <1> HIDE DEF r, N, a
  <1>3. CASE i = N % BufSize
    <2>1. N \in Recent(a)
      BY <1>1, p.primary >= came - Delay DEF Recent, N
    <2>2. Ifp(N).of = {N} /\ Ifp(N).len >= Size(N)
      BY <1>1, IfpIs
    <2> QED BY <1>2, <1>3, <2>1, <2>2 DEF TrueIfp, TrueFec
  <1>4. CASE i # N % BufSize /\ r[i].buf.len = -1 /\ r[i].fec[0].len = 0
    BY <1>4 DEF TrueIfp, TrueFec
  <1>5. CASE /\ i # N % BufSize /\ r[i] = rx[i]
             /\ \A n \in rx_seq_no .. N - 1 : n % BufSize # i
    <2>1. ASSUME NEW n \in Recent(came), n % BufSize = i
          PROVE  n \in Recent(a) /\ (n < j => n < rx_seq_no)
      <3>0. j <= N + 1 \/ j <= rx_seq_no
        BY DEF N
      <3>1. n \in Nat /\ n <= came /\ n > came - BufSize /\ n # N
        BY <1>5, <2>1 DEF Recent
      <3>2. /\ n < N => n < rx_seq_no
            /\ n < j => n < rx_seq_no
        BY <1>1, <1>5, <2>1, <3>0, <3>1
      <3>3. CASE a = came
        BY <1>1, <3>1, <3>2, <3>3 DEF Recent
      <3>4. CASE a # came
        <4>1. a = N /\ N > came
          BY <1>1, <3>4
        <4>2. SUFFICES ASSUME n <= N - BufSize PROVE FALSE
          BY <1>1, <3>1, <3>2, <4>1 DEF Recent
        <4>3. n + BufSize \in rx_seq_no .. N /\ n + BufSize \in Int
          BY <1>1, <3>1, <4>1, <4>2
        <4>4. (n + BufSize) % BufSize = n % BufSize
          <5>1. n \in Int /\ BufSize \in Nat /\ BufSize > 0
            BY <3>1, Settings
          <5> QED BY <5>1, RoundOn
        <4>5. n + BufSize # N
          BY <1>5, <2>1, <4>4
        <4> QED BY <1>1, <1>5, <2>1, <4>3, <4>4, <4>5
      <3> QED BY <3>3, <3>4
    <2>2. TrueIfp(rx[i].buf, i, came) /\ TrueFec(rx[i], i, came, rx_seq_no)
      BY DEF TrueRing
    <2> QED BY <1>5, <2>1, <2>2 DEF TrueIfp, TrueFec
  <1> QED BY <1>2, <1>3, <1>4, <1>5

(* The secondaries of a datagram that is at most Delay late are recent,    *)
(* and those that are new are stored.                                      *)
LEMMA SecondariesTrue ==
  ASSUME NEW r \in RxTypes, NEW p, Made(p), p.mode = "redundancy",
         NEW a \in Int, p.primary <= a, p.primary - Entries > a - BufSize, NEW j \in Nat
  PROVE  /\ WithSecondaries(r, p) \in RxTypes
         /\ TrueRing(r, a, j) => TrueRing(WithSecondaries(r, p), a, j)
         /\ \A i \in Slots : r[i].buf.len > 0 => WithSecondaries(r, p)[i].buf.len > 0
         /\ r[p.primary % BufSize].buf = Ifp(p.primary)
              => WithSecondaries(r, p)[p.primary % BufSize].buf = Ifp(p.primary)
         /\ \A k \in 1 .. Count(p.primary) :
              p.primary - k >= rx_seq_no /\ p.primary > rx_seq_no
                => WithSecondaries(r, p)[(p.primary - k) % BufSize].buf = Ifp(p.primary - k)
  <1> DEFINE N == p.primary
             q == WithSecondaries(r, p)
             hit(i) == \E k \in DOMAIN p.secondary :
                         p.seq > rx_seq_no /\ Fresh(p, k) /\ i = Entry(p.seq - k)
             from(i) == CHOOSE k \in DOMAIN p.secondary : i = Entry(p.seq - k)
             new(i) == [ClearSlot(r[i]) EXCEPT !.buf = Ifp(p.secondary[from(i)])]
  <1>1. /\ N \in 0 .. MaxSent - 1 /\ N \in Nat /\ N < MaxSent /\ p.seq = N
        /\ p.secondary = [k \in 1 .. Count(N) |-> N - k]
        /\ Count(N) \in Nat /\ Count(N) <= N /\ Count(N) <= Entries
        /\ Entries \in Nat /\ BufSize \in Nat /\ MaxSent \in Nat
    BY Settings DEF Made, Count
  <1>2. q = [i \in Slots |-> IF hit(i) THEN new(i) ELSE r[i]]
    BY DEF WithSecondaries
  <1>3. ASSUME NEW i \in Slots, hit(i)
        PROVE  /\ new(i) \in SlotTypes /\ new(i).fec[0].len = 0 /\ new(i).buf.len > 0
               /\ \E n \in Recent(a) : /\ n % BufSize = i /\ new(i).buf = Ifp(n)
                                       /\ Ifp(n).of = {n} /\ Ifp(n).len >= Size(n)
    <2>1. from(i) \in 1 .. Count(N) /\ i = Entry(N - from(i))
      <3>1. \E k \in 1 .. Count(N) : i = Entry(N - k)
        BY <1>1, <1>3
      <3>2. from(i) = CHOOSE k \in 1 .. Count(N) : i = Entry(N - k)
        BY <1>1
      <3> HIDE DEF from
      <3> QED BY <3>1, <3>2
    <2> DEFINE k == from(i)
    <2> HIDE DEF from, k
    <2>2. /\ k \in 1 .. Count(N) /\ i = Entry(N - k)
          /\ new(i) = [ClearSlot(r[i]) EXCEPT !.buf = Ifp(p.secondary[k])]
      BY <2>1 DEF k
    <2>3. /\ p.secondary[k] = N - k /\ N - k \in 0 .. MaxSent - 1 /\ N - k \in Recent(a)
          /\ N - k \in Int
      BY <1>1, <2>2 DEF Recent
    <2>4. Entry(N - k) = (N - k) % BufSize
      BY <2>3, SlotOf
    <2>5. r[i] \in SlotTypes
      BY DEF RxTypes
    <2>6. /\ Ifp(N - k) \in Bufs /\ Ifp(N - k).of = {N - k} /\ Ifp(N - k).len > 0
          /\ Ifp(N - k).len >= Size(N - k)
      BY <2>3, IfpIs
    <2> DEFINE d == new(i)
    <2>7. d = [ClearSlot(r[i]) EXCEPT !.buf = Ifp(N - k)]
      BY <2>2, <2>3
    <2> HIDE DEF d, new
    <2>8. d \in SlotTypes /\ d.buf = Ifp(N - k) /\ d.fec[0].len = 0
      BY <2>5, <2>6, <2>7, ClearIs
    <2> QED BY <2>2, <2>3, <2>4, <2>6, <2>8 DEF d
  <1>6. ASSUME NEW k \in 1 .. Count(N), N - k >= rx_seq_no, N > rx_seq_no
        PROVE  hit((N - k) % BufSize) /\ (N - k) % BufSize \in Slots /\ N - k \in Recent(a)
    <2>1. k \in DOMAIN p.secondary /\ p.seq > rx_seq_no /\ Fresh(p, k)
      BY <1>1, <1>6 DEF Fresh
    <2>2. N - k \in Int /\ p.seq - k = N - k
      BY <1>1
    <2>3. Entry(N - k) = (N - k) % BufSize /\ (N - k) % BufSize \in Slots
      BY <2>2, SlotOf
    <2>4. N - k \in Recent(a)
      BY <1>1, <1>6 DEF Recent
    <2> QED BY <2>1, <2>2, <2>3, <2>4
  <1> HIDE DEF q, hit, new, N
  <1>7. \A i \in Slots : r[i].buf.len > 0 => q[i].buf.len > 0
    BY <1>2, <1>3
  <1>8. \A k \in 1 .. Count(N) :
          N - k >= rx_seq_no /\ N > rx_seq_no => q[(N - k) % BufSize].buf = Ifp(N - k)
    <2> SUFFICES ASSUME NEW k \in 1 .. Count(N), N - k >= rx_seq_no, N > rx_seq_no
                 PROVE  q[(N - k) % BufSize].buf = Ifp(N - k)
      OBVIOUS
    <2> DEFINE i == (N - k) % BufSize
    <2>1. hit(i) /\ i \in Slots /\ N - k \in Recent(a)
      BY <1>6
    <2>2. PICK n \in Recent(a) : n % BufSize = i /\ new(i).buf = Ifp(n)
      BY <1>3, <2>1
    <2>3. n = N - k
      BY <2>1, <2>2, OneRecent
    <2> QED BY <1>2, <2>1, <2>2, <2>3
  <1>4. q \in RxTypes
    BY <1>2, <1>3 DEF RxTypes
  <1>5. ASSUME TrueRing(r, a, j) PROVE TrueRing(q, a, j)
    <2> SUFFICES ASSUME NEW i \in Slots
                 PROVE  TrueIfp(q[i].buf, i, a) /\ TrueFec(q[i], i, a, j)
      BY DEF TrueRing
    <2>1. CASE hit(i)
      BY <1>2, <1>3, <2>1 DEF TrueIfp, TrueFec
    <2>2. CASE ~hit(i)
      BY <1>2, <1>5, <2>2 DEF TrueRing
    <2> QED BY <2>1, <2>2
  <1>9. ASSUME r[N % BufSize].buf = Ifp(N) PROVE q[N % BufSize].buf = Ifp(N)
    <2>1. N \in Recent(a) /\ N % BufSize \in Slots
      <3>1. N \in Int
        BY <1>1
      <3> QED BY <1>1, <3>1, SlotOf DEF Recent, N
    <2>2. CASE hit(N % BufSize)
      <3>1. PICK n \in Recent(a) : n % BufSize = N % BufSize /\ new(N % BufSize).buf = Ifp(n)
        BY <1>3, <2>1, <2>2
      <3>2. n = N
        BY <2>1, <3>1, OneRecent
      <3> QED BY <1>2, <2>1, <2>2, <3>1, <3>2
    <2> QED BY <1>2, <1>9, <2>1, <2>2
  <1> QED BY <1>4, <1>5, <1>7, <1>8, <1>9 DEF q, N

\* The FEC of a datagram, or part of it, changes only what stands beside its IFP.
Beside(q, r, x) ==
  /\ q \in RxTypes /\ q[x].buf = r[x].buf
  /\ \A i \in Slots : i # x => q[i] = r[i]

LEMMA BesideTrue ==
  ASSUME NEW r, NEW a \in Int, NEW j \in Nat, TrueRing(r, a, j), NEW n \in Recent(a),
         NEW q, Beside(q, r, n % BufSize),
         q[n % BufSize].fec[0].len > 0 /\ n < j => FullRows(q[n % BufSize], n)
  PROVE  TrueRing(q, a, j)
  <1> SUFFICES ASSUME NEW i \in Slots
               PROVE  TrueIfp(q[i].buf, i, a) /\ TrueFec(q[i], i, a, j)
    BY DEF TrueRing
  <1>1. TrueIfp(r[i].buf, i, a) /\ TrueFec(r[i], i, a, j)
    BY DEF TrueRing
  <1>2. CASE i = n % BufSize
    <2>1. q[i].buf = r[i].buf
      BY <1>2 DEF Beside
    <2> QED BY <1>1, <1>2, <2>1 DEF TrueFec
  <1>3. CASE i # n % BufSize
    BY <1>1, <1>3 DEF Beside
  <1> QED BY <1>2, <1>3

LEMMA FecIs ==
  ASSUME NEW r \in RxTypes, NEW p, Made(p), NEW k \in 0 .. Len(p.fec)
  PROVE  LET q == WithFec(r, p, k)
             x == p.primary % BufSize
         IN  /\ Beside(q, r, x)
             /\ q[x].span = p.span /\ q[x].entries = Len(p.fec)
             /\ \A m \in 0 .. k - 1 : q[x].fec[m] = p.fec[m + 1]
             /\ k = 0 => q[x].fec = r[x].fec
  <1> DEFINE q == WithFec(r, p, k)
             x == p.primary % BufSize
             s == r[x]
             f == [m \in 0 .. Entries - 1 |-> IF m < k THEN p.fec[m + 1] ELSE s.fec[m]]
  <1>1. /\ x \in Slots /\ Entry(p.seq) = x /\ p.fec \in Seq(Bufs) /\ Len(p.fec) <= Entries
        /\ p.span \in {0, Span} /\ Entries \in Nat /\ Len(p.fec) \in Nat
    <2>1. p.primary \in Int /\ p.seq = p.primary
      BY DEF Made
    <2>2. x \in Slots /\ Entry(p.seq) = x
      BY <2>1, SlotOf
    <2>3. p.fec \in Seq(Bufs) /\ Len(p.fec) <= Entries /\ p.span \in {0, Span}
      BY DEF Made
    <2> QED BY <2>2, <2>3, Settings
  <1>2. s \in SlotTypes /\ s.fec \in [0 .. Entries - 1 -> Bufs]
    BY <1>1 DEF RxTypes, SlotTypes
  <1>3. \A m \in 0 .. Entries - 1 : m < k => p.fec[m + 1] \in Bufs
    BY <1>1
  <1>4. f \in [0 .. Entries - 1 -> Bufs]
    BY <1>2, <1>3
  <1> DEFINE c == [buf |-> s.buf, span |-> p.span, entries |-> Len(p.fec), fec |-> f]
  <1>5. q = [r EXCEPT ![x] = c]
    BY <1>1 DEF WithFec
  <1>6. \A m \in 0 .. k - 1 : f[m] = p.fec[m + 1]
    BY <1>1
  <1>7. ASSUME k = 0 PROVE f = s.fec
    <2>1. \A m \in 0 .. Entries - 1 : f[m] = s.fec[m]
      BY <1>1, <1>7
    <2> DEFINE g == s.fec
    <2>2. f \in [0 .. Entries - 1 -> Bufs] /\ g \in [0 .. Entries - 1 -> Bufs]
          /\ \A m \in 0 .. Entries - 1 : f[m] = g[m]
      BY <1>2, <1>4, <2>1
    <2> HIDE DEF f, g
    <2>3. f = [m \in 0 .. Entries - 1 |-> f[m]] /\ g = [m \in 0 .. Entries - 1 |-> g[m]]
      BY ONLY <2>2
    <2>4. f = g
      BY ONLY <2>2, <2>3
    <2> QED BY <2>4 DEF g
  <1> HIDE DEF f, s, x
  <1>8. c \in SlotTypes /\ c.buf = s.buf /\ c.span = p.span /\ c.entries = Len(p.fec)
        /\ c.fec = f
    <2>1. s.buf \in Bufs /\ Len(p.fec) \in 0 .. Entries
      BY <1>1, <1>2 DEF SlotTypes
    <2> QED BY <1>1, <1>4, <2>1 DEF SlotTypes
  <1> HIDE DEF c, q
  <1>10. q \in RxTypes /\ q[x] = c /\ \A i \in Slots : i # x => q[i] = r[i]
    BY <1>1, <1>5, <1>8 DEF RxTypes
  <1>11. Beside(q, r, x)
    BY <1>8, <1>10 DEF Beside, s
  <1> QED BY <1>6, <1>7, <1>8, <1>10, <1>11 DEF q, x, s

LEMMA FecCutIs ==
  ASSUME NEW r \in RxTypes, NEW p, Made(p), NEW k \in 0 .. Len(p.fec) - 1,
         NEW q \in WithFecCut(r, p, k)
  PROVE  Beside(q, r, p.primary % BufSize)
  <1> DEFINE x == p.primary % BufSize
             w == WithFec(r, p, k)
             s == w[x]
  <1>1. /\ x \in Slots /\ Entry(p.seq) = x /\ p.fec \in Seq(Bufs) /\ Len(p.fec) <= Entries
        /\ k \in 0 .. Entries - 1 /\ k + 1 \in 1 .. Len(p.fec) /\ k \in 0 .. Len(p.fec)
    <2>1. p.primary \in Int /\ p.seq = p.primary
      BY DEF Made
    <2>2. x \in Slots /\ Entry(p.seq) = x
      BY <2>1, SlotOf
    <2>3. p.fec \in Seq(Bufs) /\ Len(p.fec) <= Entries
      BY DEF Made
    <2> QED BY <2>2, <2>3, Settings
  <1>2. Beside(w, r, x)
    BY <1>1, FecIs
  <1>3. PICK l \in {0, p.fec[k + 1].len} : q = [w EXCEPT ![x].fec[k].len = l]
    BY <1>1 DEF WithFecCut
  <1>4. l \in -1 .. MaxSize
    <2>1. p.fec[k + 1] \in Bufs
      BY <1>1
    <2>2. p.fec[k + 1].len \in -1 .. MaxSize
      BY <2>1 DEF Bufs
    <2>3. 0 \in -1 .. MaxSize
      BY DEF MaxSize
    <2>4. l = 0 \/ l = p.fec[k + 1].len
      BY <1>3
    <2> QED BY <2>2, <2>3, <2>4
  <1> HIDE DEF w, x
  <1>5. s \in SlotTypes /\ w \in RxTypes /\ s.fec \in [0 .. Entries - 1 -> Bufs]
    BY <1>1, <1>2 DEF Beside, RxTypes, SlotTypes
  <1> HIDE DEF s
  <1>6. PICK g \in Bufs : g = s.fec[k]
    BY <1>1, <1>5
  <1>7. [g EXCEPT !.len = l] \in Bufs
    <2>1. [g EXCEPT !.len = l] = [of |-> g.of, len |-> l] /\ g.of \in SUBSET (0 .. MaxSent - 1)
      BY DEF Bufs
    <2> QED BY <1>4, <2>1 DEF Bufs
  <1> DEFINE f == [s.fec EXCEPT ![k] = [g EXCEPT !.len = l]]
             c == [s EXCEPT !.fec = f]
  <1>8. f \in [0 .. Entries - 1 -> Bufs]
    BY <1>5, <1>7
  <1>9. q = [w EXCEPT ![x] = c]
    BY <1>1, <1>3, <1>5, <1>6 DEF RxTypes, SlotTypes, s
  <1> HIDE DEF f
  <1>10. c = [buf |-> s.buf, span |-> s.span, entries |-> s.entries, fec |-> f]
    BY <1>5 DEF SlotTypes
  <1> HIDE DEF c
  <1>11. c \in SlotTypes /\ c.buf = s.buf
    BY <1>5, <1>8, <1>10 DEF SlotTypes
  <1>12. q \in RxTypes /\ q[x] = c /\ \A i \in Slots : i # x => q[i] = w[i]
    BY <1>1, <1>5, <1>9, <1>11 DEF RxTypes
  <1> QED BY <1>2, <1>11, <1>12 DEF Beside, x, s

-----------------------------------------------------------------------------
(* Repair.                                                                 *)

Repairing(st) == st \in [rx : RxTypes, repaired : SUBSET Slots]

\* A ring of which n is the latest, with what has been repaired.
RepairedTrue(st, n) ==
  TrueRing(st.rx, n, n + 1) /\ \A x \in st.repaired : st.rx[x].buf.len > 0

LEMMA RowInRing ==
  ASSUME NEW l \in Slots, NEW m \in Nat, NEW span \in Nat, NEW entries \in Nat
  PROVE  Row(l, m, span, entries) \in [1 .. span -> Slots]
  <1> SUFFICES ASSUME NEW i \in 1 .. span
               PROVE  (l + m - (span + 1 - i) * entries) % BufSize \in Slots
    BY DEF Row
  <1>1. span + 1 - i \in Nat /\ l \in Int
    BY Settings DEF Slots
  <1>2. (span + 1 - i) * entries \in Nat
    BY <1>1
  <1> DEFINE d == (span + 1 - i) * entries
  <1> HIDE DEF d
  <1>3. l + m - d \in Int
    BY <1>1, <1>2 DEF d
  <1> QED BY <1>3, SlotOf DEF d

\* What is repaired, the w-th IFP of row m beside slot l.
Repairs1(st, l, m, w, b) ==
  LET s   == st.rx[l]
      row == Row(l, m, s.span, s.entries)
  IN  /\ s.fec[0].len > 0 /\ m < s.entries /\ w \in 1 .. s.span
      /\ \A i \in 1 .. s.span : st.rx[row[i]].buf.len <= 0 <=> i = w
      /\ b = [of  |-> XorNames(<< s.fec[m].of >> \o
                        [i \in 1 .. s.span |->
                           IF i = w THEN {} ELSE st.rx[row[i]].buf.of]),
              len |-> s.fec[m].len]
      /\ RepairRow(st, l, m) =
           [rx       |-> [st.rx EXCEPT ![row[w]].buf = b],
            repaired |-> st.repaired \union {row[w]}]

LEMMA RepairRowIs ==
  ASSUME NEW st, Repairing(st), NEW l \in Slots, NEW m \in Nat, RepairRow(st, l, m) # st
  PROVE  \E w, b : Repairs1(st, l, m, w, b)
  <1> DEFINE s     == st.rx[l]
             row   == Row(l, m, s.span, s.entries)
             gone  == { i \in DOMAIN row : st.rx[row[i]].buf.len <= 0 }
             which == row[CHOOSE i \in gone : TRUE]
             rest  == [i \in DOMAIN row |-> IF i \in gone THEN {} ELSE st.rx[row[i]].buf.of]
             b     == [of |-> XorNames(<< s.fec[m].of >> \o rest), len |-> s.fec[m].len]
             new   == [rx       |-> [st.rx EXCEPT ![which].buf = b],
                       repaired |-> st.repaired \union {which}]
  <1>1. RepairRow(st, l, m) =
          IF s.fec[0].len <= 0 \/ m >= s.entries \/ Cardinality(gone) # 1 THEN st ELSE new
    BY Zenon DEF RepairRow
  <1>2. s \in SlotTypes
    BY DEF Repairing, RxTypes
  <1>3. s.span \in Nat /\ s.entries \in Nat /\ s.fec[0].len \in Int
    <2>1. s.fec[0] \in Bufs
      BY <1>2, Settings DEF SlotTypes
    <2>2. s.span \in Nat /\ s.entries \in Nat
      BY <1>2, Settings DEF SlotTypes
    <2> QED BY <2>1, <2>2 DEF Bufs
  <1>4. DOMAIN row = 1 .. s.span
    BY DEF Row
  <1> HIDE DEF s, row
  <1>5. ~(s.fec[0].len <= 0 \/ m >= s.entries \/ Cardinality(gone) # 1)
        /\ RepairRow(st, l, m) = new
    BY <1>1, Zenon
  <1>6. PICK w : gone = {w}
    <2>1. IsFiniteSet(1 .. s.span)
      <3>1. 1 \in Int /\ s.span \in Int
        BY <1>3
      <3> QED BY <3>1, FS_Interval, Zenon
    <2>2. gone \in SUBSET (1 .. s.span)
      BY <1>4
    <2> HIDE DEF gone
    <2>3. IsFiniteSet(gone)
      BY <2>1, <2>2, FS_Subset
    <2> QED BY <1>5, <2>3, FS_Singleton
  <1>7. w \in 1 .. s.span /\ \A i \in 1 .. s.span : st.rx[row[i]].buf.len <= 0 <=> i = w
    BY <1>4, <1>6
  <1>8. which = row[w]
    <2> HIDE DEF gone
    <2>1. (CHOOSE i \in gone : TRUE) = w
      BY <1>6
    <2> QED BY <2>1
  <1>9. rest = [i \in 1 .. s.span |-> IF i = w THEN {} ELSE st.rx[row[i]].buf.of]
    <2> HIDE DEF gone
    <2> QED BY <1>4, <1>6
  <1> HIDE DEF rest
  <1>10. b = [of |-> XorNames(<< s.fec[m].of >> \o
                       [i \in 1 .. s.span |->
                          IF i = w THEN {} ELSE st.rx[row[i]].buf.of]),
              len |-> s.fec[m].len]
    BY <1>9
  <1> HIDE DEF b, which
  <1>11. RepairRow(st, l, m) = [rx       |-> [st.rx EXCEPT ![row[w]].buf = b],
                                repaired |-> st.repaired \union {row[w]}]
    BY <1>5, <1>8
  <1>12. s.fec[0].len > 0 /\ m < s.entries
    BY <1>3, <1>5
  <1>13. Repairs1(st, l, m, w, b)
    BY <1>7, <1>10, <1>11, <1>12, Zenon DEF Repairs1, s, row
  <1> QED BY <1>13

LEMMA XorInRange ==
  ASSUME NEW U, NEW F \in SUBSET U, NEW k \in Nat, NEW rest \in [1 .. k -> SUBSET U]
  PROVE  XorNames(<< F >> \o rest) \subseteq U
  <1> DEFINE f == << F >> \o rest
  <1>1. rest \in Seq(SUBSET U) /\ << F >> \in Seq(SUBSET U)
    OBVIOUS
  <1>2. f \in Seq(SUBSET U)
    BY <1>1
  <1> HIDE DEF f
  <1>3. \A i \in DOMAIN f : f[i] \subseteq U
    BY <1>2
  <1>4. XorNames(f) \subseteq U
    BY <1>3 DEF XorNames
  <1> QED BY <1>4 DEF f

\* A slot of which only the IFP is replaced.
WithIfp(r, x, b) == [r EXCEPT ![x].buf = b]

LEMMA NewIfp ==
  ASSUME NEW r \in RxTypes, NEW x \in Slots, NEW b \in Bufs,
         NEW q, q = WithIfp(r, x, b)
  PROVE  /\ q \in RxTypes /\ q[x].buf = b /\ q[x].fec = r[x].fec
         /\ q[x].span = r[x].span /\ q[x].entries = r[x].entries
         /\ \A y \in Slots : y # x => q[y] = r[y]
  <1> DEFINE s == r[x]
             c == [s EXCEPT !.buf = b]
  <1>1. s \in SlotTypes
    BY DEF RxTypes
  <1>2. q = [r EXCEPT ![x] = c]
    BY DEF WithIfp
  <1> HIDE DEF s
  <1>3. c = [buf |-> b, span |-> s.span, entries |-> s.entries, fec |-> s.fec]
    BY <1>1 DEF SlotTypes
  <1> HIDE DEF c
  <1>4. c \in SlotTypes /\ c.buf = b /\ c.fec = s.fec /\ c.span = s.span
        /\ c.entries = s.entries
    BY <1>1, <1>3 DEF SlotTypes
  <1>5. q \in RxTypes /\ q[x] = c /\ \A y \in Slots : y # x => q[y] = r[y]
    BY <1>2, <1>4 DEF RxTypes
  <1> QED BY <1>4, <1>5 DEF s

(* Repairs from t to u have filled slots that were empty, and put down     *)
(* which.                                                                  *)
Grown(u, t) ==
  /\ t.repaired \subseteq u.repaired
  /\ \A x \in Slots :
       /\ u.rx[x].span = t.rx[x].span /\ u.rx[x].entries = t.rx[x].entries
       /\ u.rx[x].fec = t.rx[x].fec
       /\ t.rx[x].buf.len > 0 => u.rx[x].buf = t.rx[x].buf
       /\ u.rx[x].buf.len > 0 => t.rx[x].buf.len > 0 \/ x \in u.repaired

\* Whatever the ring holds, a repair leaves IFPs and FEC of these names in it.
LEMMA RepairTypes ==
  ASSUME NEW st, Repairing(st), NEW l \in Slots, NEW m \in 0 .. Entries - 1
  PROVE  Repairing(RepairRow(st, l, m)) /\ Grown(RepairRow(st, l, m), st)
  <1>1. CASE RepairRow(st, l, m) = st
    BY <1>1 DEF Grown
  <1>2. CASE RepairRow(st, l, m) # st
    <2> DEFINE s   == st.rx[l]
               row == Row(l, m, s.span, s.entries)
               r   == st.rx
    <2>1. m \in Nat /\ m \in 0 .. Entries - 1
      BY Settings
    <2>2. PICK w, b : Repairs1(st, l, m, w, b)
      BY <1>2, <2>1, RepairRowIs
    <2> DEFINE rest == [i \in 1 .. s.span |-> IF i = w THEN {} ELSE r[row[i]].buf.of]
    <2>3. /\ w \in 1 .. s.span /\ ~(r[row[w]].buf.len > 0)
          /\ b = [of |-> XorNames(<< s.fec[m].of >> \o rest), len |-> s.fec[m].len]
          /\ RepairRow(st, l, m) = [rx       |-> [r EXCEPT ![row[w]].buf = b],
                                    repaired |-> st.repaired \union {row[w]}]
      <3>1. r[row[w]].buf.len <= 0 /\ w \in 1 .. s.span
        BY <2>2, Zenon DEF Repairs1
      <3>2. ~(r[row[w]].buf.len > 0)
        <4>1. s.span \in Nat /\ s.entries \in Nat
          <5>1. s \in SlotTypes
            BY DEF Repairing, RxTypes
          <5> QED BY <5>1, Settings DEF SlotTypes
        <4> HIDE DEF s
        <4>2. row \in [1 .. s.span -> Slots]
          BY <2>1, <4>1, RowInRing
        <4> HIDE DEF row
        <4>3. r[row[w]] \in SlotTypes
          BY <3>1, <4>2 DEF Repairing, RxTypes
        <4> DEFINE b1 == r[row[w]].buf
        <4>4. b1 \in Bufs
          BY <4>3 DEF SlotTypes
        <4> HIDE DEF b1, r
        <4>5. b1.len \in Int
          BY <4>4, Settings DEF Bufs, MaxSize
        <4> QED BY <3>1, <4>5 DEF b1
      <3> QED BY <2>2, <3>1, <3>2, Zenon DEF Repairs1
    <2>4. r \in RxTypes /\ st.repaired \in SUBSET Slots /\ s \in SlotTypes
      BY DEF Repairing, RxTypes
    <2>5. s.span \in Nat /\ s.entries \in Nat /\ s.fec[m] \in Bufs
      BY <2>4, Settings DEF SlotTypes
    <2>6. row \in [1 .. s.span -> Slots]
      <3> HIDE DEF s
      <3> QED BY <2>1, <2>5, RowInRing
    <2> HIDE DEF s, row, r
    <2>7. rest \in [1 .. s.span -> SUBSET (0 .. MaxSent - 1)]
      <3> SUFFICES ASSUME NEW i \in 1 .. s.span
                   PROVE  r[row[i]].buf.of \in SUBSET (0 .. MaxSent - 1)
        OBVIOUS
      <3>1. r[row[i]] \in SlotTypes
        BY <2>4, <2>6 DEF RxTypes
      <3>2. r[row[i]].buf \in Bufs
        BY <3>1 DEF SlotTypes
      <3> QED BY <3>2 DEF Bufs
    <2> HIDE DEF rest
    <2>8. b \in Bufs
      <3>1. s.fec[m].of \in SUBSET (0 .. MaxSent - 1) /\ s.fec[m].len \in -1 .. MaxSize
        BY <2>5 DEF Bufs
      <3>2. XorNames(<< s.fec[m].of >> \o rest) \subseteq 0 .. MaxSent - 1
        BY <2>5, <2>7, <3>1, XorInRange
      <3> QED BY <2>3, <3>1, <3>2 DEF Bufs
    <2> DEFINE q == WithIfp(r, row[w], b)
    <2>9. row[w] \in Slots
      BY <2>3, <2>6
    <2>10. /\ q \in RxTypes /\ q[row[w]].fec = r[row[w]].fec
           /\ q[row[w]].span = r[row[w]].span /\ q[row[w]].entries = r[row[w]].entries
           /\ \A y \in Slots : y # row[w] => q[y] = r[y]
      BY <2>4, <2>8, <2>9, NewIfp
    <2> HIDE DEF q
    <2>11. RepairRow(st, l, m) = [rx |-> q, repaired |-> st.repaired \union {row[w]}]
      BY <2>3 DEF q, WithIfp
    <2> DEFINE u == RepairRow(st, l, m)
    <2>12. u.rx = q /\ u.repaired = st.repaired \union {row[w]} /\ u \in [rx : RxTypes, repaired : SUBSET Slots]
      BY <2>4, <2>9, <2>10, <2>11
    <2> HIDE DEF u
    <2>13. Grown(u, st)
      <3> SUFFICES ASSUME NEW x \in Slots
                   PROVE  /\ q[x].span = r[x].span /\ q[x].entries = r[x].entries
                          /\ q[x].fec = r[x].fec
                          /\ r[x].buf.len > 0 => q[x].buf = r[x].buf
                          /\ q[x].buf.len > 0 => r[x].buf.len > 0 \/ x \in u.repaired
        BY <2>12 DEF Grown, r
      <3> QED BY <2>3, <2>10, <2>12
    <2> QED BY <2>12, <2>13 DEF Repairing, u
  <1> QED BY <1>1, <1>2

(* A row of a slot that is no further back than the rows of the latest     *)
(* datagram allow holds recent IFPs only, so that what is repaired is the  *)
(* one that was missing.                                                   *)
LEMMA RepairTrue ==
  ASSUME NEW st, Repairing(st), NEW n \in 0 .. MaxSent - 1, RepairedTrue(st, n),
         NEW j \in Nat, Reach(n) > 0, j < BufSize - Reach(n),
         NEW l, l = (n - j) % BufSize, NEW m \in 0 .. Entries - 1
  PROVE  RepairedTrue(RepairRow(st, l, m), n)
  <1>1. CASE RepairRow(st, l, m) = st
    BY <1>1
  <1>2. CASE RepairRow(st, l, m) # st
    <2> DEFINE s   == st.rx[l]
               r   == st.rx
    <2>1. /\ n \in Nat /\ n < MaxSent /\ m \in Nat /\ n - j \in Int /\ BufSize \in Nat
          /\ MaxSent \in Nat /\ BufSize > 0
      BY Settings
    <2>2. l \in Slots
      BY <2>1, SlotOf
    <2>3. PICK w, b : Repairs1(st, l, m, w, b)
      BY <1>2, <2>1, <2>2, RepairRowIs
    <2>4. /\ s.fec[0].len > 0 /\ m < s.entries /\ w \in 1 .. s.span
          /\ r \in RxTypes /\ st.repaired \in SUBSET Slots
      BY <2>3, Zenon DEF Repairs1, Repairing
    <2>5. TrueRing(r, n, n + 1) /\ \A x \in st.repaired : r[x].buf.len > 0
      BY DEF RepairedTrue
    \* The FEC of slot l is that of IFP n - j.
    <2>6. PICK k \in Recent(n) : k % BufSize = l /\ (k < n + 1 => FullRows(s, k))
      BY <2>2, <2>4, <2>5 DEF TrueRing, TrueFec
    <2>7. k \in Nat /\ k <= n /\ k > n - BufSize /\ k \in Int /\ k < n + 1
      BY <2>1, <2>6 DEF Recent
    <2>8. Reach(n) \in Nat /\ Reach(n) <= n /\ Reach(n) < BufSize
      BY <2>1, ReachIs
    <2>9. k = n - j
      <3>1. k - (n - j) < BufSize /\ (n - j) - k < BufSize
        BY <2>1, <2>7, <2>8
      <3>2. k % BufSize = (n - j) % BufSize
        BY <2>6
      <3> QED BY <2>1, <2>7, <3>1, <3>2, RemainderNear
    <2>10. /\ Reach(k) \in Nat /\ Reach(k) <= k /\ Reach(k) <= Reach(n)
           /\ WindUpEntries(k) \in Nat /\ WindUpSpan(k) \in Nat
      BY <2>1, <2>7, ReachIs, ReachGrows
    <2>11. FullRows(s, k)
      BY <2>6, <2>7
    <2> DEFINE e   == WindUpEntries(k)
               p   == WindUpSpan(k)
               row == Row(l, m, p, e)
               g   == [i \in 1 .. p |-> Member(k, m, i)]
    <2>12. s.span = p /\ s.entries = e /\ m \in 0 .. e - 1 /\ e \in Nat /\ p \in Nat
      BY <2>1, <2>4, <2>10, <2>11 DEF FullRows
    <2>13. /\ s.fec[m].len > 0 /\ s.fec[m].of = Members(k, m)
           /\ \A y \in Members(k, m) : Size(y) <= s.fec[m].len
      BY <2>11, <2>12 DEF FullRows
    <2>14. ASSUME NEW i \in 1 .. p
           PROVE  /\ g[i] \in Recent(n) /\ row[i] = g[i] % BufSize
                  /\ g[i] \in 0 .. MaxSent - 1
      <3>1. /\ Member(k, m, i) \in Nat /\ Member(k, m, i) >= k - Reach(k)
            /\ Member(k, m, i) < k /\ row[i] = Member(k, m, i) % BufSize
        BY <2>6, <2>7, <2>12, MemberIs
      <3>2. Member(k, m, i) \in Recent(n) /\ Member(k, m, i) \in 0 .. MaxSent - 1
        BY <2>1, <2>7, <2>8, <2>9, <2>10, <3>1 DEF Recent
      <3> QED BY <3>1, <3>2
    <2>15. \A i, h \in 1 .. p : g[i] = g[h] => i = h
      BY <2>7, <2>12, MemberIs
    <2>16. Members(k, m) = { g[i] : i \in 1 .. p }
      BY DEF Members
    <2>17. /\ \A i \in 1 .. p : r[row[i]].buf.len <= 0 <=> i = w
           /\ b = [of  |-> XorNames(<< s.fec[m].of >> \o
                             [i \in 1 .. p |-> IF i = w THEN {} ELSE r[row[i]].buf.of]),
                   len |-> s.fec[m].len]
           /\ RepairRow(st, l, m) =
                [rx       |-> [r EXCEPT ![row[w]].buf = b],
                 repaired |-> st.repaired \union {row[w]}]
      BY <2>3, <2>12, Zenon DEF Repairs1
    <2> HIDE DEF g, row, p, e, s
    <2>18. ASSUME NEW i \in 1 .. p, i # w PROVE r[row[i]].buf.of = {g[i]}
      <3> DEFINE c == r[row[i]].buf
      <3>1. g[i] \in Recent(n) /\ row[i] = g[i] % BufSize /\ row[i] \in Slots
        <4>1. g[i] \in Recent(n) /\ row[i] = g[i] % BufSize
          BY <2>14
        <4>2. g[i] \in Int
          BY <4>1 DEF Recent
        <4> QED BY <4>1, <4>2, SlotOf
      <3>2. c.len > 0
        <4>1. ~(c.len <= 0)
          BY <2>17, <2>18
        <4>2. c \in Bufs
          BY <2>4, <3>1 DEF RxTypes, SlotTypes
        <4> QED BY <4>1, <4>2 DEF Bufs
      <3>3. PICK h \in Recent(n) : h % BufSize = row[i] /\ c.of = {h}
        BY <2>5, <3>1, <3>2 DEF TrueRing, TrueIfp
      <3>4. h = g[i]
        <4>1. n \in Int /\ h % BufSize = g[i] % BufSize
          BY <2>1, <3>1, <3>3
        <4> QED BY <3>1, <3>3, <4>1, OneRecent
      <3> QED BY <3>3, <3>4
    <2> DEFINE rest == [i \in 1 .. p |-> IF i = w THEN {} ELSE r[row[i]].buf.of]
    <2>19. rest = [i \in 1 .. p |-> IF i = w THEN {} ELSE {g[i]}]
      BY <2>18
    <2> HIDE DEF rest
    <2>20. w \in 1 .. p
      BY <2>4, <2>12
    <2>21. XorNames(<< s.fec[m].of >> \o rest) = {g[w]}
      <3>1. p \in Nat /\ w \in 1 .. p /\ Distinct(g, p)
        BY <2>12, <2>15, <2>20 DEF Distinct
      <3>2. s.fec[m].of = { g[i] : i \in 1 .. p } /\ rest = AllBut(g, p, w)
        BY <2>13, <2>16, <2>19 DEF AllBut
      <3>3. XorNames(<< { g[i] : i \in 1 .. p } >> \o AllBut(g, p, w)) = { g[w] }
        BY ONLY <3>1, XorOfRest
      <3> QED BY <3>2, <3>3
    <2>22. b.of = {g[w]} /\ b.len > 0 /\ b.len >= Size(g[w])
      <3>1. b.of = {g[w]} /\ b.len = s.fec[m].len
        BY <2>17, <2>21 DEF rest
      <3>2. Size(g[w]) <= s.fec[m].len
        BY <2>13, <2>16, <2>20
      <3> QED BY <2>13, <3>1, <3>2
    <2> DEFINE x == row[w]
               q == WithIfp(r, x, b)
    <2>23. x = g[w] % BufSize /\ g[w] \in Recent(n) /\ x \in Slots
           /\ g[w] \in 0 .. MaxSent - 1
      <3>1. g[w] \in Recent(n) /\ row[w] = g[w] % BufSize /\ g[w] \in 0 .. MaxSent - 1
        BY <2>14, <2>20
      <3>2. g[w] \in Int
        BY <3>1 DEF Recent
      <3> QED BY <3>1, <3>2, SlotOf
    <2>24. b \in Bufs
      <3>1. s.fec[m].len \in -1 .. MaxSize
        <4>1. s.fec[m] \in Bufs
          BY <2>2, <2>4 DEF RxTypes, SlotTypes, s
        <4> QED BY <4>1 DEF Bufs
      <3>2. b = [of |-> {g[w]}, len |-> s.fec[m].len]
        BY <2>17, <2>21 DEF rest
      <3>3. {g[w]} \in SUBSET (0 .. MaxSent - 1)
        BY <2>23
      <3> HIDE DEF g
      <3> QED BY <3>1, <3>2, <3>3 DEF Bufs
    <2>25. RepairRow(st, l, m) = [rx |-> q, repaired |-> st.repaired \union {x}]
      BY <2>17 DEF WithIfp
    <2> HIDE DEF x, q
    <2>26. /\ q \in RxTypes /\ q[x].buf = b /\ q[x].fec = r[x].fec
           /\ q[x].span = r[x].span /\ q[x].entries = r[x].entries
           /\ \A y \in Slots : y # x => q[y] = r[y]
      <3>1. q = WithIfp(r, x, b)
        BY DEF q
      <3> HIDE DEF r
      <3>2. r \in RxTypes /\ x \in Slots /\ b \in Bufs
        BY <2>4, <2>23, <2>24
      <3> QED BY ONLY <3>1, <3>2, NewIfp
    <2>27. TrueRing(q, n, n + 1)
      <3> SUFFICES ASSUME NEW y \in Slots
                   PROVE  TrueIfp(q[y].buf, y, n) /\ TrueFec(q[y], y, n, n + 1)
        BY DEF TrueRing
      <3>1. TrueIfp(r[y].buf, y, n) /\ TrueFec(r[y], y, n, n + 1)
        BY <2>5 DEF TrueRing
      <3>2. CASE y = x
        <4>1. TrueIfp(b, x, n)
          BY <2>22, <2>23 DEF TrueIfp
        <4>2. TrueFec(q[x], x, n, n + 1)
          BY <2>26, <3>1, <3>2 DEF TrueFec, FullRows
        <4> QED BY <2>26, <3>2, <4>1, <4>2
      <3>3. CASE y # x
        BY <2>26, <3>1, <3>3
      <3> QED BY <3>2, <3>3
    <2>28. \A y \in st.repaired \union {x} : q[y].buf.len > 0
      BY <2>4, <2>5, <2>22, <2>26
    <2> QED BY <2>25, <2>27, <2>28 DEF RepairedTrue
  <1> QED BY <1>1, <1>2

\* How many slots p can repair with the FEC of, from its own back.
Back(p) == (BufSize - p.span * Len(p.fec)) % BufSize

LEMMA BackIs ==
  ASSUME NEW p, Made(p), p.mode = "fec"
  PROVE  /\ Back(p) \in Nat /\ Back(p) * Entries \in Nat
         /\ Reach(p.primary) > 0 => Entries <= Back(p) * Entries
         /\ \A i \in 0 .. Back(p) * Entries - 1 :
              /\ i % Entries \in 0 .. Entries - 1
              /\ Reach(p.primary) > 0 /\ i \div Entries \in Nat
              /\ i \div Entries < BufSize - Reach(p.primary)
              /\ (Entry(p.seq) - i \div Entries) % BufSize
                   = (p.primary - i \div Entries) % BufSize
  <1> DEFINE N == p.primary
             R == Reach(N)
             b == Back(p)
  <1>1. /\ p.primary \in 0 .. MaxSent - 1 /\ p.seq = p.primary
        /\ p.span = WindUpSpan(p.primary) /\ Len(p.fec) = WindUpEntries(p.primary)
    BY DEF Made
  <1>2. /\ N \in Nat /\ N \in Int /\ BufSize \in Nat /\ BufSize > 0
        /\ Entries \in Nat /\ Entries > 0
    BY <1>1, Settings
  <1>3. R \in Nat /\ R < BufSize
    BY <1>2, ReachIs
  <1>4. b = (BufSize - R) % BufSize
    BY <1>1 DEF Back, Reach
  <1>5. IF R = 0 THEN b = 0 ELSE b = BufSize - R
    <2>1. CASE R = 0
      <3>1. (BufSize * 1 + 0) % BufSize = 0
        BY <1>2, RemainderOf
      <3> QED BY <1>2, <1>4, <2>1, <3>1
    <2>2. CASE R # 0
      <3> DEFINE d == BufSize - R
      <3>1. d \in Int /\ 0 <= d /\ d < BufSize
        BY <1>2, <1>3, <2>2
      <3> HIDE DEF d
      <3>2. (BufSize * 0 + d) % BufSize = d /\ BufSize * 0 + d = d
        BY <1>2, <3>1, RemainderOf
      <3> QED BY <1>4, <2>2, <3>2 DEF d
    <2> QED BY <2>1, <2>2
  <1> HIDE DEF b, R
  <1>6. b \in Nat /\ b * Entries \in Nat /\ b * Entries = Entries * b
    BY <1>2, <1>3, <1>5
  <1>7. ASSUME NEW i \in 0 .. b * Entries - 1
        PROVE  /\ i % Entries \in 0 .. Entries - 1 /\ R > 0
               /\ i \div Entries \in Nat /\ i \div Entries < BufSize - R
               /\ (Entry(p.seq) - i \div Entries) % BufSize = (N - i \div Entries) % BufSize
    <2> DEFINE d == i \div Entries
               m == i % Entries
    <2>1. i \in Int /\ i >= 0 /\ i < Entries * b
      BY <1>6
    <2>2. /\ d \in Int /\ m \in Int /\ 0 <= m /\ m < Entries /\ i = Entries * d + m
      BY <1>2, <2>1, Remainder
    <2> HIDE DEF d, m
    <2>3. d \in Nat
      <3> SUFFICES ASSUME -d >= 1 PROVE FALSE
        BY <2>2
      <3>1. -d \in Nat
        BY <2>2
      <3>2. Entries * 1 <= Entries * (-d)
        BY <1>2, <3>1, Times
      <3>3. Entries * (-d) = -(Entries * d)
        BY <1>2, <2>2
      <3> QED BY <1>2, <2>1, <2>2, <3>2, <3>3
    <2>4. d < b
      <3> SUFFICES ASSUME b <= d PROVE FALSE
        BY <1>6, <2>3
      <3>1. Entries * b <= Entries * d /\ Entries * d \in Nat /\ Entries * b \in Nat
        BY <1>2, <1>6, <2>3, Times
      <3> QED BY <2>1, <2>2, <3>1
    <2>5. R > 0 /\ d < BufSize - R
      BY <1>2, <1>3, <1>5, <2>3, <2>4
    <2>6. (Entry(p.seq) - d) % BufSize = (N - d) % BufSize
      <3>1. -d \in Int
        BY <2>3
      <3>2. ((N % BufSize) + (-d)) % BufSize = (N + (-d)) % BufSize
        BY <1>2, <3>1, RingAdvance
      <3>3. N % BufSize \in Int /\ Entry(p.seq) = N % BufSize
        BY <1>1, <1>2, Remainder, SlotOf
      <3>4. (N % BufSize) + (-d) = (N % BufSize) - d /\ N + (-d) = N - d
        BY <1>2, <2>3, <3>3
      <3> QED BY <3>2, <3>3, <3>4
    <2>7. m \in 0 .. Entries - 1
      BY <1>2, <2>2
    <2> QED BY <2>3, <2>5, <2>6, <2>7 DEF d, m
  <1>8. R > 0 => Entries <= b * Entries
    <2>1. R > 0 => b \in Nat /\ 1 <= b
      BY <1>2, <1>3, <1>5
    <2>2. R > 0 => Entries * 1 <= Entries * b
      BY <1>2, <2>1, Times
    <2> QED BY <1>2, <1>6, <2>2
  <1> QED BY <1>6, <1>7, <1>8 DEF b, R

\* The ring after every row that has been tried.
Tries(t, r, p, m) ==
  t = [j \in 0 .. m |->
         IF j = 0 THEN [rx |-> r, repaired |-> {}]
         ELSE RepairRow(t[j - 1],
                        (Entry(p.seq) - (j - 1) \div Entries) % BufSize, (j - 1) % Entries)]

LEMMA HuntIs ==
  ASSUME NEW r, NEW p, NEW n \in Nat, n = Back(p) * Entries
  PROVE  \E t : Tries(t, r, p, n) /\ Hunt(r, p) = t[n]
  <1> DEFINE Start == [rx |-> r, repaired |-> {}]
             Step(t, j) == RepairRow(t, (Entry(p.seq) - (j - 1) \div Entries) % BufSize,
                                     (j - 1) % Entries)
             Is(t, m) == t = [j \in 0 .. m |-> IF j = 0 THEN Start ELSE Step(t[j - 1], j)]
             D == { m \in 0 .. n : ~ \E t : Is(t, m) }
  <1> HIDE DEF Step, Start
  <1>1. \E t : Is(t, 0)
    <2> DEFINE t == [j \in 0 .. 0 |-> Start]
    <2>1. Is(t, 0)
      <3>1. \A j \in 0 .. 0 : j = 0
        OBVIOUS
      <3>2. [j \in 0 .. 0 |-> IF j = 0 THEN Start ELSE Step(t[j - 1], j)]
              = [j \in 0 .. 0 |-> Start]
        BY <3>1
      <3> QED BY <3>2
    <2> QED BY <2>1
  <1>2. ASSUME NEW m \in 0 .. n, m # n, NEW t, Is(t, m)
        PROVE  \E u : Is(u, m + 1)
    <2> DEFINE u == [j \in 0 .. m + 1 |-> IF j <= m THEN t[j] ELSE Step(t[m], j)]
    <2>1. \A j \in 0 .. m : u[j] = t[j]
      OBVIOUS
    <2>2. \A j \in 0 .. m : t[j] = IF j = 0 THEN Start ELSE Step(t[j - 1], j)
      BY <1>2
    <2>3. u[m + 1] = Step(t[m], m + 1)
      OBVIOUS
    <2>4. \A j \in 0 .. m + 1 : u[j] = IF j = 0 THEN Start ELSE Step(u[j - 1], j)
      <3> SUFFICES ASSUME NEW j \in 0 .. m + 1
                   PROVE  u[j] = IF j = 0 THEN Start ELSE Step(u[j - 1], j)
        OBVIOUS
      <3>1. CASE j <= m
        <4>1. j \in 0 .. m /\ (j # 0 => j - 1 \in 0 .. m)
          BY <3>1
        <4> HIDE DEF u
        <4> QED BY <2>1, <2>2, <4>1
      <3>2. CASE j = m + 1
        <4>1. j # 0 /\ j - 1 = m /\ m \in 0 .. m
          BY <3>2
        <4> HIDE DEF u
        <4> QED BY <2>1, <2>3, <3>2, <4>1
      <3> QED BY <3>1, <3>2
    <2>5. u = [j \in 0 .. m + 1 |-> u[j]]
      OBVIOUS
    <2> HIDE DEF u
    <2>6. Is(u, m + 1)
      BY <2>4, <2>5, Zenon
    <2> QED BY <2>6
  <1> HIDE DEF Is
  <1>3. D = {}
    <2> SUFFICES ASSUME D # {} PROVE FALSE
      OBVIOUS
    <2>1. D \in SUBSET Nat
      OBVIOUS
    <2> HIDE DEF D
    <2>2. PICK m \in D : \A y \in D : m <= y
      BY <2>1, LeastMember
    <2> USE DEF D
    <2>3. m \in 0 .. n /\ m # 0
      BY <1>1, <2>2
    <2>4. m - 1 \in 0 .. n /\ m - 1 # n /\ ~(m <= m - 1) /\ (m - 1) + 1 = m
      BY <2>3
    <2>5. \E t : Is(t, m - 1)
      BY <2>2, <2>4
    <2>6. \E u : Is(u, (m - 1) + 1)
      BY <1>2, <2>4, <2>5
    <2> QED BY <2>2, <2>4, <2>6
  <1>4. \E t : Is(t, n)
    BY <1>3
  <1> DEFINE f == CHOOSE t : Is(t, n)
  <1>5. Is(f, n)
    BY <1>4
  <1>6. f = CHOOSE t : Tries(t, r, p, n)
    BY DEF Is, Tries, Step, Start
  <1>7. Hunt(r, p) = f[n]
    BY <1>6 DEF Hunt, Back, Tries
  <1>8. Tries(f, r, p, n)
    BY <1>5 DEF Is, Tries, Step, Start
  <1> QED BY <1>7, <1>8

LEMMA HuntKeeps ==
  ASSUME NEW r \in RxTypes, NEW p, Made(p), p.mode = "fec"
  PROVE  /\ Repairing(Hunt(r, p))
         /\ TrueRing(r, p.primary, p.primary + 1) => RepairedTrue(Hunt(r, p), p.primary)
  <1> DEFINE N == p.primary
             n == Back(p) * Entries
             Good(t) == Repairing(t) /\ (TrueRing(r, N, N + 1) => RepairedTrue(t, N))
  <1>1. n \in Nat /\ N \in 0 .. MaxSent - 1
    BY BackIs DEF Made
  <1>2. PICK t : Tries(t, r, p, n) /\ Hunt(r, p) = t[n]
    BY <1>1, HuntIs
  <1>3. /\ t[0] = [rx |-> r, repaired |-> {}]
        /\ \A j \in 1 .. n :
             t[j] = RepairRow(t[j - 1], (Entry(p.seq) - (j - 1) \div Entries) % BufSize,
                              (j - 1) % Entries)
    <2> HIDE DEF n
    <2>1. \A j \in 0 .. n :
            t[j] = IF j = 0 THEN [rx |-> r, repaired |-> {}]
                   ELSE RepairRow(t[j - 1],
                          (Entry(p.seq) - (j - 1) \div Entries) % BufSize, (j - 1) % Entries)
      BY <1>2, Zenon DEF Tries
    <2>2. 0 \in 0 .. n /\ \A j \in 1 .. n : j \in 0 .. n /\ j # 0
      BY <1>1
    <2> QED BY <2>1, <2>2
  <1>4. Good(t[0])
    BY <1>3 DEF Repairing, RepairedTrue
  <1>5. ASSUME NEW j \in 1 .. n, Good(t[j - 1]) PROVE Good(t[j])
    <2> DEFINE d == (j - 1) \div Entries
               m == (j - 1) % Entries
               l == (Entry(p.seq) - d) % BufSize
    <2>1. j - 1 \in 0 .. n - 1
      BY <1>1
    <2>2. /\ m \in 0 .. Entries - 1 /\ Reach(N) > 0 /\ d \in Nat /\ d < BufSize - Reach(N)
          /\ l = (N - d) % BufSize
      BY <2>1, BackIs
    <2>3. l \in Slots
      <3>1. N - d \in Int
        BY <1>1, <2>2
      <3> HIDE DEF l, d
      <3> QED BY <2>2, <3>1, SlotOf
    <2>4. t[j] = RepairRow(t[j - 1], l, m)
      BY <1>3
    <2> HIDE DEF d, m, l, n, N
    <2>5. Repairing(RepairRow(t[j - 1], l, m))
      BY <1>5, <2>2, <2>3, RepairTypes
    <2>6. TrueRing(r, N, N + 1) => RepairedTrue(RepairRow(t[j - 1], l, m), N)
      BY <1>1, <1>5, <2>2, RepairTrue
    <2> QED BY <2>4, <2>5, <2>6
  <1> DEFINE D == { j \in 0 .. n : ~ Good(t[j]) }
  <1> HIDE DEF Good, n
  <1>6. D = {}
    <2> SUFFICES ASSUME D # {} PROVE FALSE
      OBVIOUS
    <2>1. D \in SUBSET Nat
      OBVIOUS
    <2> HIDE DEF D
    <2>2. PICK j \in D : \A y \in D : j <= y
      BY <2>1, LeastMember
    <2> USE DEF D
    <2>3. j \in 1 .. n
      BY <1>1, <1>4, <2>2
    <2>4. j - 1 \in 0 .. n /\ ~(j <= j - 1)
      BY <1>1, <2>3
    <2> QED BY <1>5, <2>2, <2>3, <2>4
  <1>7. Good(t[n])
    BY <1>1, <1>6
  <1> QED BY <1>2, <1>7 DEF Good

(* A row of which exactly one IFP is missing is repaired.                  *)
OneGone(st, l, m, s, row, w) ==
  /\ s = st.rx[l] /\ row = Row(l, m, s.span, s.entries)
  /\ m < s.entries /\ s.fec[0].len > 0 /\ w \in 1 .. s.span
  /\ \A i \in 1 .. s.span : st.rx[row[i]].buf.len <= 0 <=> i = w

LEMMA RepairRowDoes ==
  ASSUME NEW st, Repairing(st), NEW l \in Slots, NEW m \in Nat, NEW s, NEW row, NEW w,
         OneGone(st, l, m, s, row, w)
  PROVE  /\ row[w] \in RepairRow(st, l, m).repaired
         /\ row[w] \in Slots => RepairRow(st, l, m).rx[row[w]].buf.len = s.fec[m].len
  <1> DEFINE gone  == { i \in DOMAIN row : st.rx[row[i]].buf.len <= 0 }
             which == row[CHOOSE i \in gone : TRUE]
             rest  == [i \in DOMAIN row |-> IF i \in gone THEN {} ELSE st.rx[row[i]].buf.of]
             b     == [of |-> XorNames(<< s.fec[m].of >> \o rest), len |-> s.fec[m].len]
             new   == [rx       |-> [st.rx EXCEPT ![which].buf = b],
                       repaired |-> st.repaired \union {which}]
  <1>0. /\ s = st.rx[l] /\ row = Row(l, m, s.span, s.entries)
        /\ m < s.entries /\ s.fec[0].len > 0 /\ w \in 1 .. s.span
        /\ \A i \in 1 .. s.span : st.rx[row[i]].buf.len <= 0 <=> i = w
    BY DEF OneGone
  <1>1. RepairRow(st, l, m) =
          IF s.fec[0].len <= 0 \/ m >= s.entries \/ Cardinality(gone) # 1 THEN st ELSE new
    BY <1>0 DEF RepairRow
  <1>2. s \in SlotTypes
    BY <1>0 DEF Repairing, RxTypes
  <1>3. s.span \in Nat /\ s.entries \in Nat /\ s.fec[0].len \in Int
    <2>1. s.fec[0] \in Bufs
      BY <1>2, Settings DEF SlotTypes
    <2>2. s.span \in Nat /\ s.entries \in Nat
      BY <1>2, Settings DEF SlotTypes
    <2> QED BY <2>1, <2>2 DEF Bufs
  <1>4. DOMAIN row = 1 .. s.span
    BY <1>0 DEF Row
  <1>5. gone = {w}
    <2>1. \A i \in 1 .. s.span : st.rx[row[i]].buf.len <= 0 <=> i = w
      BY <1>0
    <2>2. w \in 1 .. s.span
      BY <1>0
    <2> QED BY ONLY <1>4, <2>1, <2>2
  <1>6. Cardinality(gone) = 1
    BY <1>5, FS_Singleton
  <1>7. which = row[w]
    <2> HIDE DEF gone
    <2>1. (CHOOSE i \in gone : TRUE) = w
      BY <1>5
    <2> QED BY <2>1
  <1> HIDE DEF gone, which, b
  <1>8. ~(s.fec[0].len <= 0 \/ m >= s.entries \/ Cardinality(gone) # 1)
    BY <1>0, <1>3, <1>6
  <1>9. RepairRow(st, l, m) = new
    BY <1>1, <1>8, Zenon
  <1>10. which \in new.repaired
    OBVIOUS
  <1>11. which \in Slots => new.rx[which].buf.len = b.len
    BY DEF Repairing, RxTypes, SlotTypes
  <1>12. b.len = s.fec[m].len
    BY DEF b
  <1> QED BY <1>7, <1>9, <1>10, <1>11, <1>12, Zenon

LEMMA GrownTwice ==
  ASSUME NEW t, NEW u, NEW v, Grown(u, t), Grown(v, u)
  PROVE  Grown(v, t)
  <1> SUFFICES ASSUME NEW x \in Slots
               PROVE  /\ v.rx[x].span = t.rx[x].span /\ v.rx[x].entries = t.rx[x].entries
                      /\ v.rx[x].fec = t.rx[x].fec
                      /\ t.rx[x].buf.len > 0 => v.rx[x].buf = t.rx[x].buf
                      /\ v.rx[x].buf.len > 0 => t.rx[x].buf.len > 0 \/ x \in v.repaired
    BY DEF Grown
  <1> QED BY DEF Grown

(* What the hunt has repaired after some of its tries, it keeps.           *)
LEMMA TriesGrow ==
  ASSUME NEW r \in RxTypes, NEW p, Made(p), p.mode = "fec",
         NEW n \in Nat, n = Back(p) * Entries, NEW t, Tries(t, r, p, n)
  PROVE  /\ t[0] = [rx |-> r, repaired |-> {}]
         /\ \A j \in 1 .. n :
              t[j] = RepairRow(t[j - 1], (Entry(p.seq) - (j - 1) \div Entries) % BufSize,
                               (j - 1) % Entries)
         /\ \A j \in 0 .. n : Repairing(t[j])
         /\ \A j, k \in 0 .. n : j <= k => Grown(t[k], t[j])
  <1> DEFINE N == p.primary
  <1>1. N \in 0 .. MaxSent - 1
    BY DEF Made
  <1>2. /\ t[0] = [rx |-> r, repaired |-> {}]
        /\ \A j \in 1 .. n :
             t[j] = RepairRow(t[j - 1], (Entry(p.seq) - (j - 1) \div Entries) % BufSize,
                              (j - 1) % Entries)
    <2>1. \A j \in 0 .. n :
            t[j] = IF j = 0 THEN [rx |-> r, repaired |-> {}]
                   ELSE RepairRow(t[j - 1],
                          (Entry(p.seq) - (j - 1) \div Entries) % BufSize, (j - 1) % Entries)
      BY Zenon DEF Tries
    <2>2. 0 \in 0 .. n /\ \A j \in 1 .. n : j \in 0 .. n /\ j # 0
      OBVIOUS
    <2> QED BY <2>1, <2>2
  <1>3. Repairing(t[0])
    BY <1>2 DEF Repairing
  <1>4. ASSUME NEW j \in 1 .. n, Repairing(t[j - 1])
        PROVE  Repairing(t[j]) /\ Grown(t[j], t[j - 1])
    <2> DEFINE d == (j - 1) \div Entries
               m == (j - 1) % Entries
               l == (Entry(p.seq) - d) % BufSize
    <2>1. j - 1 \in 0 .. Back(p) * Entries - 1
      OBVIOUS
    <2>2. m \in 0 .. Entries - 1 /\ d \in Nat /\ l = (N - d) % BufSize
      BY <2>1, BackIs
    <2>3. l \in Slots
      <3>1. N - d \in Int
        BY <1>1, <2>2
      <3> HIDE DEF l, d
      <3> QED BY <2>2, <3>1, SlotOf
    <2>4. t[j] = RepairRow(t[j - 1], l, m)
      BY <1>2
    <2> HIDE DEF d, m, l, N
    <2>5. Repairing(RepairRow(t[j - 1], l, m)) /\ Grown(RepairRow(t[j - 1], l, m), t[j - 1])
      BY <1>4, <2>2, <2>3, RepairTypes
    <2> QED BY <2>4, <2>5
  <1>5. \A j \in 0 .. n : Repairing(t[j])
    <2> DEFINE D == { j \in 0 .. n : ~ Repairing(t[j]) }
    <2> SUFFICES ASSUME D # {} PROVE FALSE
      OBVIOUS
    <2>1. D \in SUBSET Nat
      OBVIOUS
    <2> HIDE DEF D
    <2>2. PICK j \in D : \A y \in D : j <= y
      BY <2>1, LeastMember
    <2> USE DEF D
    <2>3. j \in 1 .. n
      BY <1>3, <2>2
    <2>4. j - 1 \in 0 .. n /\ ~(j <= j - 1)
      BY <2>3
    <2> QED BY <1>4, <2>2, <2>3, <2>4
  <1>6. ASSUME NEW j \in 0 .. n PROVE \A k \in 0 .. n : j <= k => Grown(t[k], t[j])
    <2> DEFINE D == { k \in 0 .. n : j <= k /\ ~ Grown(t[k], t[j]) }
    <2> SUFFICES ASSUME D # {} PROVE FALSE
      OBVIOUS
    <2>1. D \in SUBSET Nat
      OBVIOUS
    <2> HIDE DEF D
    <2>2. PICK k \in D : \A y \in D : k <= y
      BY <2>1, LeastMember
    <2> USE DEF D
    <2>3. Grown(t[j], t[j])
      BY DEF Grown
    <2>4. k \in 1 .. n /\ j <= k - 1 /\ k - 1 \in 0 .. n /\ ~(k <= k - 1)
      BY <2>2, <2>3
    <2>5. Grown(t[k - 1], t[j])
      BY <2>2, <2>4
    <2>6. Grown(t[k], t[k - 1])
      BY <1>4, <1>5, <2>4
    <2>7. Grown(t[k], t[j])
      BY <2>5, <2>6, GrownTwice
    <2> QED BY <2>2, <2>7
  <1> QED BY <1>2, <1>5, <1>6

\* Two rows of one datagram share no slot.
LEMMA RowsApart ==
  ASSUME NEW n \in 0 .. MaxSent - 1,
         NEW m \in 0 .. WindUpEntries(n) - 1, NEW k \in 0 .. WindUpEntries(n) - 1,
         NEW i \in 1 .. WindUpSpan(n), NEW j \in 1 .. WindUpSpan(n),
         Member(n, m, i) % BufSize = Member(n, k, j) % BufSize
  PROVE  m = k
  <1> DEFINE a  == Member(n, m, i)
             b  == Member(n, k, j)
             e  == WindUpEntries(n)
             s  == WindUpSpan(n)
             c  == s + 1 - i
             d  == s + 1 - j
  <1>1. /\ n \in Nat /\ e \in Nat /\ s \in Nat /\ BufSize \in Nat /\ BufSize > 0
        /\ Reach(n) \in Nat /\ Reach(n) < BufSize
    <2>1. n \in Nat
      BY Settings
    <2> QED BY <2>1, ReachIs, Settings
  <1>2. /\ a \in Nat /\ a >= n - Reach(n) /\ a < n
        /\ b \in Nat /\ b >= n - Reach(n) /\ b < n
    BY <1>1, MemberIs
  <1>3. a = n + m - c * e /\ b = n + k - d * e
    BY DEF Member
  <1> HIDE DEF a, b, e, s
  <1>4. a = b
    <2>1. a - b < BufSize /\ b - a < BufSize /\ a \in Int /\ b \in Int
      BY <1>1, <1>2
    <2>2. a % BufSize = b % BufSize
      BY DEF a, b
    <2> QED BY <1>1, <2>1, <2>2, RemainderNear
  <1>5. /\ m \in Int /\ k \in Int /\ 0 <= m /\ m < e /\ 0 <= k /\ k < e /\ e > 0
        /\ c \in Int /\ d \in Int
    BY <1>1 DEF e, s
  <1> HIDE DEF c, d
  <1>6. e * c \in Int /\ e * d \in Int /\ c * e = e * c /\ d * e = e * d
    BY <1>1, <1>5
  <1>7. m - e * c = k - e * d
    BY <1>1, <1>3, <1>4, <1>5, <1>6
  <1> DEFINE h == d - c
  <1>8. h \in Int /\ e * h = e * d - e * c
    BY <1>1, <1>5
  <1> HIDE DEF h
  <1>9. e * h + m = e * 0 + k
    BY <1>1, <1>5, <1>6, <1>7, <1>8
  <1>10. (e * h + m) % e = m
    BY <1>1, <1>5, <1>8, RemainderOf
  <1>11. (e * 0 + k) % e = k
    BY <1>1, <1>5, RemainderOf
  <1> QED BY <1>9, <1>10, <1>11

\* The first tries of the hunt are at the rows of p itself.
LEMMA OwnTries ==
  ASSUME NEW r \in RxTypes, NEW p, Made(p), p.mode = "fec", Reach(p.primary) > 0,
         NEW c \in Nat, c = Back(p) * Entries, NEW t, Tries(t, r, p, c),
         NEW m \in 0 .. Entries - 1
  PROVE  m + 1 \in 1 .. c /\ t[m + 1] = RepairRow(t[m], p.primary % BufSize, m)
  <1> DEFINE N == p.primary
             x == N % BufSize
  <1>1. /\ N \in Nat /\ p.seq = N /\ Entries \in Nat /\ Entries > 0 /\ m \in Nat
        /\ m \in Int /\ m < Entries /\ BufSize \in Nat /\ BufSize > 0
    BY Settings DEF Made
  <1>2. m + 1 \in 1 .. c /\ m \in 0 .. c - 1
    <2>1. Entries <= c
      BY BackIs
    <2> QED BY <1>1, <2>1
  <1>3. t[m + 1] = RepairRow(t[m], (Entry(p.seq) - m \div Entries) % BufSize, m % Entries)
    <2>1. \A j \in 0 .. c :
            t[j] = IF j = 0 THEN [rx |-> r, repaired |-> {}]
                   ELSE RepairRow(t[j - 1],
                          (Entry(p.seq) - (j - 1) \div Entries) % BufSize, (j - 1) % Entries)
      BY Zenon DEF Tries
    <2>2. (m + 1) - 1 = m /\ m + 1 \in 0 .. c /\ m + 1 # 0
      BY <1>1, <1>2
    <2> QED BY <2>1, <2>2
  <1>4. m % Entries = m
    <2>1. (Entries * 0 + m) % Entries = m /\ Entries * 0 + m = m
      BY <1>1, RemainderOf
    <2> QED BY <2>1
  <1>5. m \div Entries = 0
    <2> DEFINE d == m \div Entries
    <2>1. d \in Int /\ m = Entries * d + (m % Entries)
      BY <1>1, Remainder
    <2> HIDE DEF d
    <2>2. Entries * d = 0
      BY <1>1, <1>4, <2>1
    <2>3. ~(1 <= d)
      <3> SUFFICES ASSUME 1 <= d PROVE FALSE
        OBVIOUS
      <3>1. d \in Nat
        BY <2>1
      <3>2. Entries * 1 <= Entries * d
        BY <1>1, <3>1, Times
      <3> QED BY <1>1, <2>2, <3>2
    <2>4. ~(1 <= -d)
      <3> SUFFICES ASSUME 1 <= -d PROVE FALSE
        OBVIOUS
      <3>1. -d \in Nat
        BY <2>1
      <3>2. Entries * 1 <= Entries * (-d)
        BY <1>1, <3>1, Times
      <3>3. Entries * (-d) = -(Entries * d)
        BY <1>1, <2>1
      <3> QED BY <1>1, <2>2, <3>2, <3>3
    <2> QED BY <2>1, <2>3, <2>4 DEF d
  <1>6. N \in Int /\ N - 0 = N /\ m \in 0 .. Back(p) * Entries - 1
    BY <1>1, <1>2
  <1>7. (Entry(p.seq) - m \div Entries) % BufSize = (N - m \div Entries) % BufSize
    BY <1>6, BackIs
  <1> QED BY <1>2, <1>3, <1>4, <1>5, <1>6, <1>7

\* Of the rows of p itself, the hunt repairs each that lacks one IFP, at the length
\* of its FEC: no other row of p has that slot.
LEMMA HuntRepairs ==
  ASSUME NEW r \in RxTypes, NEW p, Made(p), p.mode = "fec",
         FullRows(r[p.primary % BufSize], p.primary),
         NEW m \in 0 .. WindUpEntries(p.primary) - 1,
         NEW n \in Members(p.primary, m), ~(r[n % BufSize].buf.len > 0),
         \A k \in Members(p.primary, m) : k # n => r[k % BufSize].buf.len > 0
  PROVE  /\ n % BufSize \in Hunt(r, p).repaired
         /\ Hunt(r, p).rx[n % BufSize].buf.len = r[p.primary % BufSize].fec[m].len
  <1> DEFINE N  == p.primary
             x  == N % BufSize
             e  == WindUpEntries(N)
             sp == WindUpSpan(N)
             c  == Back(p) * Entries
             g  == [i \in 1 .. sp |-> Member(N, m, i)]
             row == Row(x, m, sp, e)
  <1>1. /\ N \in Nat /\ N \in 0 .. MaxSent - 1 /\ p.seq = N
        /\ e \in Nat /\ sp \in Nat /\ m \in Nat /\ m < e /\ e <= Entries /\ Entries \in Nat
        /\ Entries > 0 /\ BufSize \in Nat /\ BufSize > 0 /\ m \in 0 .. Entries - 1
    <2>1. N \in Nat /\ N \in 0 .. MaxSent - 1 /\ p.seq = N
      BY Settings DEF Made
    <2>2. e \in Nat /\ e <= Entries /\ sp \in Nat
      BY <2>1, ReachIs
    <2> QED BY <2>1, <2>2, Settings
  <1>2. \A i \in 1 .. sp : /\ g[i] \in Nat /\ g[i] < N /\ g[i] >= N - Reach(N)
                           /\ \A j \in 1 .. sp : g[i] = g[j] => i = j
                           /\ row[i] = g[i] % BufSize
    BY <1>1, MemberIs
  <1>3. Members(N, m) = { g[i] : i \in 1 .. sp }
    BY DEF Members
  <1>4. PICK w \in 1 .. sp : n = g[w]
    BY <1>3
  <1>5. Reach(N) \in Nat /\ Reach(N) < BufSize /\ Reach(N) > 0
    <2>1. Reach(N) \in Nat /\ Reach(N) < BufSize
      BY <1>1, ReachIs
    <2>2. g[w] < N /\ g[w] >= N - Reach(N) /\ g[w] \in Nat
      BY <1>2
    <2> HIDE DEF g, N
    <2> QED BY <1>1, <2>1, <2>2
  <1> HIDE DEF g, sp, e, row
  <1>6. c \in Nat /\ m + 1 \in 1 .. c /\ m \in 0 .. c /\ m + 1 \in 0 .. c /\ c \in 0 .. c
    <2>1. c \in Nat /\ Entries <= c
      BY <1>5, BackIs
    <2> HIDE DEF c
    <2> QED BY <1>1, <2>1
  <1>7. PICK t : Tries(t, r, p, c) /\ Hunt(r, p) = t[c]
    BY <1>6, HuntIs
  <1>8. c = Back(p) * Entries
    OBVIOUS
  <1> HIDE DEF c
  <1>9. /\ t[0] = [rx |-> r, repaired |-> {}]
        /\ \A j \in 0 .. c : Repairing(t[j])
        /\ \A j, k \in 0 .. c : j <= k => Grown(t[k], t[j])
    BY <1>6, <1>7, <1>8, TriesGrow
  <1>10. \A j \in 0 .. Entries - 1 : t[j + 1] = RepairRow(t[j], x, j)
    BY <1>5, <1>6, <1>7, <1>8, OwnTries
  <1>11. /\ t[0] = [rx |-> r, repaired |-> {}]
         /\ Repairing(t[m]) /\ Grown(t[m], t[0]) /\ Grown(t[c], t[m + 1]) /\ Grown(t[c], t[m])
    <2>1. /\ t[0] = [rx |-> r, repaired |-> {}]
          /\ \A j \in 0 .. c : Repairing(t[j])
          /\ \A j, k \in 0 .. c : j <= k => Grown(t[k], t[j])
      BY <1>9
    <2>2. 0 \in 0 .. c /\ 0 <= m /\ m + 1 <= c /\ m <= c
      BY <1>1, <1>6
    <2> QED BY <1>6, <2>1, <2>2
  <1>12. t[m + 1] = RepairRow(t[m], x, m) /\ x \in Slots
    <2>1. N \in Int
      BY <1>1
    <2>2. x \in Slots
      BY <2>1, SlotOf
    <2>3. t[m + 1] = RepairRow(t[m], x, m)
      BY <1>1, <1>10
    <2> QED BY <2>2, <2>3
  <1> DEFINE u == t[m]
             s == u.rx[x]
  <1>13. u.rx \in RxTypes /\ s \in SlotTypes
    BY <1>11, <1>12 DEF Repairing, RxTypes
  <1>14. /\ s.span = sp /\ s.entries = e /\ s.fec[0].len > 0
         /\ s.fec[m].len > 0 /\ s.fec[m].len = r[x].fec[m].len
    <2>1. s.span = r[x].span /\ s.entries = r[x].entries /\ s.fec = r[x].fec
      BY <1>11, <1>12 DEF Grown
    <2>2. r[x].span = sp /\ r[x].entries = e /\ \A j \in 0 .. e - 1 : r[x].fec[j].len > 0
      BY DEF FullRows, e, sp
    <2>3. 0 \in 0 .. e - 1 /\ m \in 0 .. e - 1
      BY <1>1
    <2> QED BY <2>1, <2>2, <2>3
  <1>15. ASSUME NEW i \in 1 .. sp
         PROVE  row[i] \in Slots /\ u.rx[row[i]].buf.len \in Int
    <2>1. row[i] \in Slots
      BY <1>2, SlotOf
    <2>2. u.rx[row[i]] \in SlotTypes
      BY <1>13, <2>1 DEF RxTypes
    <2> DEFINE b == u.rx[row[i]].buf
    <2>3. b \in Bufs
      BY <2>2 DEF SlotTypes
    <2> HIDE DEF b, u
    <2>4. b.len \in Int
      BY <2>3 DEF Bufs, MaxSize
    <2> QED BY <2>1, <2>4 DEF b
  <1>16. ASSUME NEW i \in 1 .. sp, i # w PROVE u.rx[row[i]].buf.len > 0
    <2>1. g[i] \in Members(N, m) /\ g[i] # n
      BY <1>2, <1>3, <1>4, <1>16
    <2>2. r[g[i] % BufSize].buf.len > 0
      BY <2>1
    <2>3. row[i] = g[i] % BufSize
      BY <1>2
    <2> QED BY <1>11, <1>15, <2>2, <2>3 DEF Grown
  <1>17. row[w] = n % BufSize
    BY <1>2, <1>4
  <1> DEFINE y == n % BufSize
             D == { j \in 0 .. m : t[j].rx[y].buf.len > 0 }
  <1>18. D = {}
    <2> SUFFICES ASSUME D # {} PROVE FALSE
      OBVIOUS
    <2>1. D \in SUBSET Nat
      BY <1>1
    <2> HIDE DEF D
    <2>2. PICK j \in D : \A i \in D : j <= i
      BY <2>1, LeastMember
    <2>3. j \in 0 .. m /\ t[j].rx[y].buf.len > 0
      BY <2>2 DEF D
    <2>4. j # 0
      BY <1>11, <2>3
    <2> DEFINE h == j - 1
    <2>5. /\ h \in Nat /\ h \in 0 .. m /\ ~(j <= h) /\ j = h + 1 /\ h # m
          /\ h \in 0 .. e - 1 /\ h \in 0 .. Entries - 1 /\ h \in 0 .. c
      BY <1>1, <1>6, <2>3, <2>4
    <2> HIDE DEF h
    <2>6. ~(t[h].rx[y].buf.len > 0)
      BY <2>2, <2>5 DEF D
    <2>7. t[j] = RepairRow(t[h], x, h)
      BY <1>10, <2>5
    <2>8. Repairing(t[h]) /\ Grown(t[h], t[0])
      <3>1. 0 \in 0 .. c /\ 0 <= h
        BY <1>6, <2>5
      <3> QED BY <1>9, <2>5, <3>1
    <2>9. t[h].rx[x].span = sp /\ t[h].rx[x].entries = e
      BY <1>11, <1>12, <2>8 DEF Grown, FullRows, e, sp
    <2>10. t[j] # t[h]
      BY <2>3, <2>6
    <2>11. PICK v, b : Repairs1(t[h], x, h, v, b)
      BY <1>12, <2>5, <2>7, <2>8, <2>10, RepairRowIs
    <2> DEFINE z == Row(x, h, sp, e)[v]
    <2>12. v \in 1 .. sp /\ t[j].rx = [t[h].rx EXCEPT ![z].buf = b]
      <3> DEFINE a == t[h].rx[x]
                 q == Row(x, h, a.span, a.entries)
      <3>1. a.span = sp /\ a.entries = e /\ q[v] = z
        BY <2>9
      <3>2. /\ v \in 1 .. a.span
            /\ RepairRow(t[h], x, h) =
                 [rx       |-> [t[h].rx EXCEPT ![q[v]].buf = b],
                  repaired |-> t[h].repaired \union {q[v]}]
        BY <2>11, Zenon DEF Repairs1
      <3> HIDE DEF a, q, z, x
      <3> QED BY <2>7, <3>1, <3>2
    <2>13. z = Member(N, h, v) % BufSize
      BY <1>1, <2>5, <2>12, MemberIs DEF e, sp
    <2>14. y = Member(N, m, w) % BufSize
      BY <1>4 DEF g
    <2>15. y # z
      BY <1>1, <2>5, <2>12, <2>13, <2>14, RowsApart DEF e, sp
    <2> HIDE DEF z, y
    <2>16. t[j].rx[y] = t[h].rx[y]
      BY <2>12, <2>15
    <2> QED BY <2>3, <2>6, <2>16
  <1>19. ~(u.rx[row[w]].buf.len > 0)
    BY <1>1, <1>17, <1>18
  <1>20. /\ n % BufSize \in Hunt(r, p).repaired
         /\ Hunt(r, p).rx[n % BufSize].buf.len = r[x].fec[m].len
    <2>1. \A i \in 1 .. sp : u.rx[row[i]].buf.len <= 0 <=> i = w
      <3> SUFFICES ASSUME NEW i \in 1 .. sp
                   PROVE  u.rx[row[i]].buf.len <= 0 <=> i = w
        OBVIOUS
      <3> DEFINE a == u.rx[row[i]].buf.len
      <3>1. a \in Int
        BY <1>15
      <3>2. i # w => a > 0
        BY <1>16
      <3>3. i = w => ~(a > 0)
        BY <1>19
      <3> HIDE DEF a
      <3>4. a <= 0 <=> i = w
        BY <3>1, <3>2, <3>3
      <3> QED BY <3>4 DEF a
    <2>2. row = Row(x, m, s.span, s.entries)
      BY <1>14 DEF row
    <2> HIDE DEF u, s, x, N
    <2>3. Repairing(u) /\ s = u.rx[x] /\ m < s.entries /\ w \in 1 .. s.span
      BY <1>1, <1>11, <1>14 DEF u, s
    <2>4. /\ row[w] \in RepairRow(u, x, m).repaired
          /\ row[w] \in Slots => RepairRow(u, x, m).rx[row[w]].buf.len = s.fec[m].len
      <3>1. m \in Nat /\ x \in Slots
        BY <1>1, <1>12
      <3>2. s.fec[0].len > 0
        BY <1>14
      <3>3. \A i \in 1 .. s.span : u.rx[row[i]].buf.len <= 0 <=> i = w
        BY <1>14, <2>1, Zenon
      <3>4. OneGone(u, x, m, s, row, w)
        BY <2>2, <2>3, <3>2, <3>3, Zenon DEF OneGone
      <3> QED BY ONLY <2>3, <3>1, <3>4, RepairRowDoes
    <2>5. /\ row[w] \in t[m + 1].repaired /\ row[w] \in Slots
          /\ t[m + 1].rx[row[w]].buf.len = s.fec[m].len
      BY <1>12, <1>15, <2>4 DEF u
    <2>6. s.fec[m].len > 0 /\ s.fec[m].len = r[x].fec[m].len
      BY <1>14
    <2>7. t[c].rx[row[w]].buf = t[m + 1].rx[row[w]].buf
      BY <1>11, <2>5, <2>6 DEF Grown
    <2> QED BY <1>7, <1>11, <1>17, <2>5, <2>6, <2>7 DEF Grown
  <1> QED BY <1>20 DEF x, N

-----------------------------------------------------------------------------
(* What is handed over, and what the engine takes of it.                   *)

AnyPairs == ((UNKNOWN .. MaxSent - 1) \X Int)
OwnPairs == { << n, n % SeqSpace >> : n \in 0 .. MaxSent - 1 }

LEMMA OwnIsAny == OwnPairs \subseteq AnyPairs
  <1> SUFFICES ASSUME NEW n \in 0 .. MaxSent - 1 PROVE << n, n % SeqSpace >> \in AnyPairs
    BY DEF OwnPairs
  <1>1. n \in Int /\ n \in UNKNOWN .. MaxSent - 1
    BY Settings DEF UNKNOWN
  <1>2. n % SeqSpace \in Int
    BY <1>1, Sizes, Remainder
  <1> QED BY <1>1, <1>2 DEF AnyPairs

LEMMA NamedIs ==
  ASSUME NEW b \in Bufs
  PROVE  /\ Named(b) \in UNKNOWN .. MaxSent - 1
         /\ \A n \in 0 .. MaxSent - 1 : b.of = {n} /\ b.len >= Size(n) => Named(b) = n
  <1>1. b.of \in SUBSET (0 .. MaxSent - 1) /\ UNKNOWN \in UNKNOWN .. MaxSent - 1
    BY Settings DEF Bufs, UNKNOWN
  <1>2. ASSUME NEW n, b.of = {n} PROVE (CHOOSE x \in b.of : TRUE) = n
    BY <1>2
  <1>3. CASE \E n \in b.of : b.of = {n} /\ b.len >= Size(n)
    <2>1. PICK n \in b.of : b.of = {n}
      BY <1>3
    <2>2. Named(b) = n
      BY <1>2, <1>3, <2>1 DEF Named
    <2>3. n \in UNKNOWN .. MaxSent - 1
      BY <1>1, Settings DEF UNKNOWN
    <2> QED BY <2>1, <2>2, <2>3
  <1>4. CASE ~\E n \in b.of : b.of = {n} /\ b.len >= Size(n)
    <2>1. Named(b) = UNKNOWN
      BY <1>4 DEF Named
    <2>2. ASSUME NEW n, b.of = {n}, b.len >= Size(n) PROVE FALSE
      BY <1>4, <2>2
    <2> QED BY <1>1, <2>1, <2>2
  <1> QED BY <1>3, <1>4

(* The repaired IFPs are handed over each under its own number, in order.  *)
LEMMA PlayedIs ==
  ASSUME NEW st, Repairing(st), NEW p, Made(p)
  PROVE  /\ Played(st, p) \in Seq(AnyPairs)
         /\ RepairedTrue(st, p.primary) =>
              /\ Played(st, p) \in Seq(OwnPairs)
              /\ \A k \in DOMAIN Played(st, p) :
                   /\ Played(st, p)[k][1] \in Recent(p.primary)
                   /\ Played(st, p)[k][1] < p.primary
                   /\ Played(st, p)[k][1] % BufSize \in st.repaired
              /\ \A j, k \in DOMAIN Played(st, p) :
                   j < k => Played(st, p)[j][1] < Played(st, p)[k][1]
              /\ \A n \in Recent(p.primary) : n < p.primary /\ n % BufSize \in st.repaired =>
                   \E k \in DOMAIN Played(st, p) : Played(st, p)[k][1] = n
  <1> DEFINE N == p.primary
             S == { i \in 1 .. BufSize - 1 : (Entry(p.seq) + i) % BufSize \in st.repaired }
             q == Ascending(S)
             c == Cardinality(S)
             h == Played(st, p)
  <1>1. /\ N \in 0 .. MaxSent - 1 /\ p.seq = N /\ N \in Int /\ N \in Nat /\ N < MaxSent
        /\ BufSize \in Nat /\ BufSize > 0 /\ MaxSent \in Nat
    BY Settings DEF Made
  <1>2. Entry(p.seq) = N % BufSize /\ N % BufSize \in Int
    BY <1>1, SlotOf, Remainder
  <1>3. S \in SUBSET (0 .. BufSize - 1)
    BY <1>1
  <1>4. IsFiniteSet(S) /\ Enumerates(q, S)
    <2> HIDE DEF S
    <2>1. BufSize - 1 \in Nat
      BY <1>1
    <2> QED BY <1>3, <2>1, EnumerationExists
  <1>5. c \in Nat /\ q \in [1 .. c -> S]
    BY <1>4, FS_CardinalityType DEF Enumerates
  <1>6. h = [k \in 1 .. c |-> << Named(st.rx[(Entry(p.seq) + q[k]) % BufSize].buf),
                                 (p.seq + q[k] - BufSize) % SeqSpace >>]
    BY <1>5 DEF Played
  <1> HIDE DEF q, c, h
  <1>7. ASSUME NEW k \in 1 .. c
        PROVE  /\ h[k] \in AnyPairs
               /\ RepairedTrue(st, N) =>
                    /\ h[k] \in OwnPairs /\ h[k][1] = q[k] + (N - BufSize)
                    /\ h[k][1] \in Recent(N) /\ h[k][1] < N
                    /\ h[k][1] % BufSize \in st.repaired
    <2> DEFINE i == q[k]
               x == (Entry(p.seq) + i) % BufSize
               b == st.rx[x].buf
    <2>1. i \in 1 .. BufSize - 1 /\ x \in st.repaired
      BY <1>5
    <2>2. i \in Int /\ 1 <= i /\ i < BufSize
      BY <1>1, <2>1
    <2>3. h[k] = << Named(b), (N + i - BufSize) % SeqSpace >>
      BY <1>1, <1>6
    <2> HIDE DEF i
    <2>4. x = (N + i) % BufSize
      BY <1>1, <1>2, <2>2, RingAdvance
    <2> HIDE DEF x
    <2>5. x \in Slots /\ st.rx \in RxTypes
      BY <2>1 DEF Repairing
    <2>6. b \in Bufs
      BY <2>5 DEF RxTypes, SlotTypes
    <2> HIDE DEF b
    <2>7. N + i - BufSize \in Int
      BY <1>1, <2>2
    <2>8. (N + i - BufSize) % SeqSpace \in Int
      <3> DEFINE d == N + i - BufSize
      <3>1. d \in Int
        BY <2>7
      <3> HIDE DEF d
      <3>2. d % SeqSpace \in Int
        BY <3>1, Sizes, Remainder
      <3> QED BY <3>2 DEF d
    <2>9. h[k] \in AnyPairs
      BY <2>3, <2>6, <2>8, NamedIs DEF AnyPairs
    <2>10. ASSUME RepairedTrue(st, N)
           PROVE  /\ h[k] \in OwnPairs /\ h[k][1] = i + (N - BufSize)
                  /\ h[k][1] \in Recent(N) /\ h[k][1] < N
                  /\ h[k][1] % BufSize \in st.repaired
      <3>1. b.len > 0 /\ TrueIfp(b, x, N)
        BY <2>1, <2>5, <2>10 DEF RepairedTrue, TrueRing, b
      <3>2. PICK n \in Recent(N) : n % BufSize = x /\ b.of = {n} /\ b.len >= Size(n)
        BY <3>1 DEF TrueIfp
      <3>3. n \in Int /\ n <= N /\ n > N - BufSize /\ n \in 0 .. MaxSent - 1
        BY <1>1, <3>2 DEF Recent
      <3> DEFINE d == N + i
      <3>4. d \in Int /\ d - BufSize \in Int /\ x = d % BufSize
        BY <1>1, <2>2, <2>4
      <3>5. n - (d - BufSize) < BufSize /\ (d - BufSize) - n < BufSize
        BY <1>1, <2>2, <3>3
      <3> HIDE DEF d
      <3>6. (d + BufSize) % BufSize = d % BufSize /\ (d - BufSize) % BufSize = d % BufSize
        BY <1>1, <3>4, RoundOn
      <3>7. n % BufSize = (d - BufSize) % BufSize
        BY <3>2, <3>4, <3>6
      <3>8. n = d - BufSize
        BY <1>1, <3>3, <3>4, <3>5, <3>7, RemainderNear
      <3>9. Named(b) = n
        BY <2>6, <3>2, <3>3, NamedIs
      <3>10. h[k] = << n, n % SeqSpace >>
        <4>1. N + i - BufSize = n
          BY <1>1, <2>2, <3>8 DEF d
        <4> QED BY <2>3, <3>9, <4>1, Zenon
      <3>11. n = i + (N - BufSize) /\ n < N
        BY <1>1, <2>2, <3>8 DEF d
      <3>12. n % BufSize \in st.repaired
        BY <2>1, <3>2
      <3>13. h[k][1] = n
        BY <3>10
      <3> QED BY <3>2, <3>3, <3>10, <3>11, <3>12, <3>13 DEF OwnPairs
    <2> QED BY <2>9, <2>10 DEF i
  <1>8. h = [k \in 1 .. c |-> h[k]]
    BY <1>6
  <1>9. h \in Seq(AnyPairs)
    <2>1. h \in [1 .. c -> AnyPairs]
      BY <1>7, <1>8
    <2> QED BY <1>5, <2>1
  <1>10. ASSUME RepairedTrue(st, N) PROVE h \in Seq(OwnPairs)
    <2>1. h \in [1 .. c -> OwnPairs]
      BY <1>7, <1>8, <1>10
    <2> QED BY <1>5, <2>1
  <1>11. DOMAIN h = 1 .. c
    BY <1>8
  <1>12. ASSUME RepairedTrue(st, N), NEW j \in 1 .. c, NEW k \in 1 .. c, j < k
         PROVE  h[j][1] < h[k][1]
    <2>1. q[j] < q[k]
      BY <1>4, <1>12 DEF Enumerates, c
    <2>2. q[j] \in Int /\ q[k] \in Int
      BY <1>5
    <2>3. h[j][1] = q[j] + (N - BufSize) /\ h[k][1] = q[k] + (N - BufSize)
      BY <1>7, <1>12
    <2> QED BY <1>1, <2>1, <2>2, <2>3
  <1>13. ASSUME RepairedTrue(st, N), NEW n \in Recent(N), n < N, n % BufSize \in st.repaired
         PROVE  \E k \in 1 .. c : h[k][1] = n
    <2> DEFINE i == n - (N - BufSize)
    <2>1. n \in Int /\ i \in 1 .. BufSize - 1 /\ i \in Int /\ N + i = n + BufSize
      BY <1>1, <1>13 DEF Recent
    <2> HIDE DEF i
    <2>2. ((N % BufSize) + i) % BufSize = (N + i) % BufSize
      BY <1>1, <2>1, RingAdvance
    <2>3. (n + BufSize) % BufSize = n % BufSize
      BY <1>1, <2>1, RoundOn
    <2>4. i \in S
      BY <1>2, <1>13, <2>1, <2>2, <2>3
    <2>5. PICK k \in 1 .. c : q[k] = i
      BY <1>4, <2>4 DEF Enumerates, c
    <2>6. h[k][1] = i + (N - BufSize)
      BY <1>7, <1>13, <2>5
    <2>7. i + (N - BufSize) = n
      BY <1>1, <2>1 DEF i
    <2> QED BY <2>5, <2>6, <2>7
  <1> HIDE DEF N
  <1>14. RepairedTrue(st, N) =>
              /\ h \in Seq(OwnPairs)
              /\ \A k \in DOMAIN h :
                   h[k][1] \in Recent(N) /\ h[k][1] < N /\ h[k][1] % BufSize \in st.repaired
              /\ \A j, k \in DOMAIN h : j < k => h[j][1] < h[k][1]
              /\ \A n \in Recent(N) : n < N /\ n % BufSize \in st.repaired =>
                   \E k \in DOMAIN h : h[k][1] = n
    BY <1>7, <1>10, <1>11, <1>12, <1>13
  <1> QED BY <1>9, <1>14 DEF h, N

LEMMA RedundancyHands ==
  ASSUME rx_seq_no \in Nat, NEW p, Made(p), p.mode = "redundancy"
  PROVE  HandedBy(p) \in Seq(OwnPairs)
  <1>1. p.primary \in 0 .. MaxSent - 1 /\ p.seq = p.primary
        /\ p.secondary = [i \in 1 .. Count(p.primary) |-> p.primary - i]
    BY DEF Made
  <1>2. p.primary \in Nat /\ p.primary < MaxSent /\ p.primary \in Int /\ MaxSent \in Nat
    BY <1>1, Settings
  <1>3. p.primary % SeqSpace = p.primary
    BY <1>1, <1>2, SlotOf
  <1>4. Built(p)
    BY <1>1, <1>2, <1>3 DEF Built
  <1>5. PICK n \in Nat : HandsOver(p, n)
    BY <1>4, ReceiveHands
  <1>6. CASE p.seq >= rx_seq_no
    <2>1. n \in 1 .. Count(p.primary) + 1 /\ HandedBy(p) = Consecutive(p.primary - n, n)
      BY <1>5, <1>6 DEF HandsOver
    <2>2. Count(p.primary) \in Nat /\ Count(p.primary) <= p.primary
      BY <1>2, CountBound
    <2>3. ASSUME NEW k \in 1 .. n
          PROVE  << (p.primary - n) + k, ((p.primary - n) + k) % SeqSpace >> \in OwnPairs
      <3>1. (p.primary - n) + k \in 0 .. MaxSent - 1
        BY <1>2, <2>1, <2>2
      <3> QED BY <3>1 DEF OwnPairs
    <2>4. Consecutive(p.primary - n, n) \in [1 .. n -> OwnPairs]
      BY <2>3 DEF Consecutive
    <2>5. Consecutive(p.primary - n, n) \in Seq(OwnPairs)
      BY <2>4
    <2> QED BY <2>1, <2>5
  <1>7. CASE ~(p.seq >= rx_seq_no)
    <2>1. HandedBy(p) = << >>
      BY <1>5, <1>7 DEF HandsOver
    <2> QED BY <2>1
  <1> QED BY <1>6, <1>7

\* The engine takes only what it was given.
LEMMA TakenOfGiven ==
  ASSUME NEW h, h \in Seq(AnyPairs)
  PROVE  /\ Given(h).taken \in Seq(UNKNOWN .. MaxSent - 1)
         /\ \A k \in DOMAIN Given(h).taken : \E j \in DOMAIN h : Given(h).taken[k] = h[j][1]
  <1> DEFINE n == Len(h)
             V == { h[j][1] : j \in DOMAIN h }
  <1>1. n \in Nat /\ DOMAIN h = 1 .. n /\ \A j \in 1 .. n : h[j] \in AnyPairs
    OBVIOUS
  <1>2. V \subseteq UNKNOWN .. MaxSent - 1
    BY <1>1 DEF AnyPairs
  <1>3. PICK st : /\ st = [k \in 0 .. n |-> IF k = 0 THEN Before ELSE Engine(st[k - 1], h[k])]
                  /\ Given(h) = st[n]
    BY <1>1, GivenIs
  <1>4. /\ st[0] = Before
        /\ \A k \in 1 .. n : st[k] = Engine(st[k - 1], h[k])
    <2>1. \A k \in 0 .. n : st[k] = IF k = 0 THEN Before ELSE Engine(st[k - 1], h[k])
      BY <1>3, Zenon
    <2>2. 0 \in 0 .. n /\ \A k \in 1 .. n : k \in 0 .. n /\ k # 0
      BY <1>1
    <2> QED BY <2>1, <2>2
  <1> HIDE DEF n
  <1>5. st[0].taken \in Seq(V)
    BY <1>4 DEF Before
  <1>6. ASSUME NEW k \in 1 .. n, st[k - 1].taken \in Seq(V) PROVE st[k].taken \in Seq(V)
    <2>1. h[k][1] \in V
      BY <1>1
    <2>2. st[k] = Engine(st[k - 1], h[k])
      BY <1>4
    <2>3. CASE st[k] = st[k - 1]
      BY <1>6, <2>3
    <2>4. CASE st[k] # st[k - 1]
      <3>1. st[k] = [expected |-> After(h[k][2]), taken |-> Append(st[k - 1].taken, h[k][1])]
        BY <2>2, <2>4, Zenon DEF Engine
      <3>2. st[k].taken = Append(st[k - 1].taken, h[k][1])
        BY <3>1
      <3> HIDE DEF V
      <3> DEFINE u == st[k - 1].taken
                 e == h[k][1]
      <3>3. u \in Seq(V) /\ e \in V
        BY <1>6, <2>1
      <3> HIDE DEF u, e
      <3>4. Append(u, e) \in Seq(V)
        BY <3>3
      <3> QED BY <3>2, <3>4 DEF u, e
    <2> QED BY <2>3, <2>4
  <1> DEFINE D == { k \in 0 .. n : st[k].taken \notin Seq(V) }
  <1> HIDE DEF V
  <1>7. D = {}
    <2> SUFFICES ASSUME D # {} PROVE FALSE
      OBVIOUS
    <2>1. D \in SUBSET Nat
      OBVIOUS
    <2> HIDE DEF D
    <2>2. PICK k \in D : \A y \in D : k <= y
      BY <2>1, LeastMember
    <2> USE DEF D
    <2>3. k \in 1 .. n
      BY <1>1, <1>5, <2>2
    <2>4. k - 1 \in 0 .. n /\ ~(k <= k - 1)
      BY <1>1, <2>3
    <2> QED BY <1>6, <2>2, <2>3, <2>4
  <1>8. Given(h).taken \in Seq(V)
    <2>1. n \in 0 .. n
      BY <1>1
    <2>2. st[n].taken \in Seq(V)
      BY <1>7, <2>1
    <2> QED BY <1>3, <2>2
  <1> DEFINE t == Given(h).taken
  <1> HIDE DEF t
  <1>9. t \in Seq(V)
    BY <1>8 DEF t
  <1>10. t \in Seq(UNKNOWN .. MaxSent - 1)
    <2> DEFINE W == UNKNOWN .. MaxSent - 1
    <2> HIDE DEF W
    <2>1. V \subseteq W
      BY <1>2 DEF W
    <2>2. t \in [1 .. Len(t) -> V] /\ Len(t) \in Nat
      BY <1>9
    <2>3. t \in [1 .. Len(t) -> W]
      BY <2>1, <2>2
    <2>4. t \in Seq(W)
      BY <2>2, <2>3
    <2> QED BY <2>4 DEF W
  <1>11. \A k \in DOMAIN t : t[k] \in V
    BY <1>9
  <1>12. \A k \in DOMAIN t : \E j \in DOMAIN h : t[k] = h[j][1]
    BY <1>11 DEF V
  <1> QED BY <1>10, <1>12 DEF t

-----------------------------------------------------------------------------
(* The inductive invariant.  The ring is true up to the latest datagram    *)
(* that has come, unless FEC was used that a later one had overtaken, or   *)
(* was left by a malformed datagram behind the engine.                     *)
FecInv ==
  /\ fecOn \in BOOLEAN /\ broken \in BOOLEAN /\ mixed \in BOOLEAN
  /\ refused \in 0 .. MaxRefused
  /\ held \subseteq UNKNOWN .. MaxSent - 1
  /\ tx_seq_no \in 0 .. MaxSent /\ Keeps(tx, tx_seq_no - 1)
  /\ \A p \in net : /\ Made(p) /\ p.primary < tx_seq_no
                    /\ p.primary >= tx_seq_no - 1 - Delay
  /\ came \in Int /\ came >= -1 /\ came < tx_seq_no
  /\ rx \in RxTypes
  /\ rx_seq_no \in Nat /\ rx_seq_no <= came + 1
  /\ ~mixed => TrueRing(rx, came, rx_seq_no)
  /\ TakenIsOriginal

LEMMA InitFec ==
  ASSUME FecInit
  PROVE  FecInv
  <1> USE Settings DEF FecInit, Init, UNKNOWN
  <1> DEFINE e == [of |-> {}, len |-> 0]
             s == [buf |-> Missing, span |-> 0, entries |-> 0,
                   fec |-> [m \in 0 .. Entries - 1 |-> e]]
  <1>1. e \in Bufs /\ e.len = 0 /\ Missing \in Bufs /\ Missing.len = -1
    BY DEF Bufs, Missing, MaxSize
  <1>2. rx = [x \in Slots |-> s]
    OBVIOUS
  <1> HIDE DEF e, Missing
  <1>3. s \in SlotTypes /\ s.buf.len = -1 /\ s.fec[0].len = 0
    BY <1>1 DEF SlotTypes
  <1> HIDE DEF s
  <1>4. rx \in RxTypes
    BY <1>2, <1>3 DEF RxTypes
  <1>5. TrueRing(rx, came, rx_seq_no)
    BY <1>2, <1>3 DEF TrueRing, TrueIfp, TrueFec
  <1>6. Keeps(tx, tx_seq_no - 1)
    <2>1. tx \in [Slots -> Int]
      BY DEF Slots
    <2>2. tx_seq_no - 1 = -1 /\ \A m \in 0 .. -1 : FALSE
      OBVIOUS
    <2> QED BY <2>1, <2>2 DEF Keeps
  <1>7. TakenIsOriginal
    BY DEF TakenIsOriginal
  <1>8. /\ fecOn \in BOOLEAN /\ broken \in BOOLEAN /\ mixed \in BOOLEAN
        /\ refused \in 0 .. MaxRefused /\ held \subseteq UNKNOWN .. MaxSent - 1
    <2>1. MaxRefused \in Nat
      BY ONLY FecAssumption
    <2>2. refused \in 0 .. MaxRefused
      BY <2>1
    <2> QED BY <2>2
  <1>9. /\ tx_seq_no \in 0 .. MaxSent /\ came \in Int /\ came >= -1 /\ came < tx_seq_no
        /\ rx_seq_no \in Nat /\ rx_seq_no <= came + 1 /\ net = {}
    OBVIOUS
  <1> QED BY ONLY <1>4, <1>5, <1>6, <1>7, <1>8, <1>9 DEF FecInv

LEMMA SendMade ==
  ASSUME NEW n \in 0 .. MaxSent - 1, NEW t, Keeps(t, n), NEW fec \in BOOLEAN
  PROVE  Made(Datagram(t, n, fec)) /\ Datagram(t, n, fec).primary = n
  <1>1. n \in Nat /\ n \in 0 .. MaxSent
    BY Settings
  <1>2. n % SeqSpace = n
    BY <1>1, SlotOf
  <1>3. WindUpSpan(n) \in {0, Span} /\ WindUpEntries(n) \in 0 .. Entries
    BY <1>1, WindUpIs
  <1>4. WindUpEntries(n) <= Entries
    BY <1>3, Settings
  <1>5. CASE fec
    <2> DEFINE f == FecRows(t, n)
    <2>1. /\ f \in Seq(Bufs) /\ Len(f) = WindUpEntries(n)
          /\ \A m \in 1 .. WindUpEntries(n) :
               /\ f[m].len > 0 /\ f[m].of = Members(n, m - 1)
               /\ \A x \in Members(n, m - 1) : Size(x) <= f[m].len
      BY RowsAre
    <2> HIDE DEF f
    <2>2. Datagram(t, n, fec) =
            [seq |-> n, primary |-> n, mode |-> "fec", secondary |-> << >>,
             span |-> WindUpSpan(n), fec |-> f]
      BY <1>2, <1>5 DEF Datagram, f
    <2> QED BY <1>3, <1>4, <2>1, <2>2 DEF Made
  <1>6. CASE ~fec
    <2>1. Secondaries(t, n) = [i \in 1 .. Count(n) |-> n - i]
      BY SecondariesAre
    <2>2. Datagram(t, n, fec) =
            [seq |-> n, primary |-> n, mode |-> "redundancy",
             secondary |-> [i \in 1 .. Count(n) |-> n - i], span |-> 0, fec |-> << >>]
      BY <1>2, <1>6, <2>1 DEF Datagram
    <2>3. << >> \in Seq(Bufs) /\ Len(<< >>) = 0
      OBVIOUS
    <2> QED BY <2>2, <2>3, Settings DEF Made
  <1> QED BY <1>5, <1>6

LEMMA SendFec ==
  ASSUME FecInv, FecSend
  PROVE  FecInv'
  <1> DEFINE n == tx_seq_no
  <1>1. /\ n \in 0 .. MaxSent - 1 /\ n \in Int /\ n' = n + 1 /\ n' \in 0 .. MaxSent
        /\ Keeps(tx, n - 1) /\ n \in Nat
    BY Settings DEF FecInv, FecSend
  <1>2. Keeps(tx', n)
    <2>1. tx' = [tx EXCEPT ![n % BufSize] = n] /\ n % BufSize \in Slots
      BY <1>1, SlotOf DEF FecSend
    <2>2. tx \in [Slots -> Int] /\ \A m \in 0 .. n - 1 : m > n - 1 - BufSize =>
                                       tx[m % BufSize] = m
      BY <1>1 DEF Keeps
    <2>3. tx' \in [Slots -> Int]
      BY <1>1, <2>1, <2>2
    <2>4. ASSUME NEW m \in 0 .. n, m > n - BufSize PROVE tx'[m % BufSize] = m
      <3>1. m \in Int /\ n - m < BufSize /\ m - n < BufSize /\ BufSize \in Nat /\ BufSize > 0
        BY <1>1, <2>4, Settings
      <3>2. m % BufSize \in Slots
        BY <3>1, SlotOf
      <3>3. CASE m = n
        BY <2>1, <2>2, <3>3
      <3>4. CASE m # n
        <4>1. m % BufSize # n % BufSize
          BY <1>1, <3>1, <3>4, RemainderNear
        <4>2. m \in 0 .. n - 1 /\ m > n - 1 - BufSize
          BY <1>1, <2>4, <3>1, <3>4
        <4> QED BY <2>1, <2>2, <3>2, <4>1, <4>2
      <3> QED BY <3>3, <3>4
    <2> QED BY <2>3, <2>4 DEF Keeps
  <1>3. \A p \in net' : Made(p) /\ p.primary < n' /\ p.primary >= n' - 1 - Delay
    <2> SUFFICES ASSUME NEW p \in net'
                 PROVE  Made(p) /\ p.primary < n' /\ p.primary >= n' - 1 - Delay
      OBVIOUS
    <2>1. CASE p \in net /\ p.primary >= n - Delay
      <3>1. Made(p) /\ p.primary < n
        BY <2>1 DEF FecInv
      <3>2. p.primary \in Int
        BY <3>1 DEF Made
      <3> QED BY <1>1, <2>1, <3>1, <3>2, Settings
    <2>2. CASE \E fec \in BOOLEAN : p = Datagram(tx', n, fec)
      <3>1. PICK fec \in BOOLEAN : p = Datagram(tx', n, fec)
        BY <2>2
      <3>2. Made(Datagram(tx', n, fec)) /\ Datagram(tx', n, fec).primary = n
        BY <1>1, <1>2, SendMade, Zenon
      <3>3. Made(p) /\ p.primary = n
        BY <3>1, <3>2
      <3> QED BY <1>1, <3>3, Settings
    <2> QED BY <2>1, <2>2 DEF FecSend
  <1>4. fecOn' \in BOOLEAN
    BY DEF FecSend, FecInv
  <1>5. /\ rx_seq_no' = rx_seq_no /\ rx' = rx /\ held' = held /\ broken' = broken
        /\ came' = came /\ mixed' = mixed /\ refused' = refused
        /\ handed' = handed /\ taken' = taken
    BY DEF FecSend, rxVars, histVars
  <1>6. Keeps(tx', n' - 1)
    <2>1. n' - 1 = n
      BY <1>1
    <2> QED BY <1>2, <2>1
  <1>7. TakenIsOriginal'
    BY <1>5 DEF FecInv, TakenIsOriginal
  <1>8. came < n'
    BY <1>1 DEF FecInv
  <1>9. (~mixed => TrueRing(rx, came, rx_seq_no))'
    BY <1>5 DEF FecInv, TrueRing, TrueIfp, TrueFec
  <1> QED BY <1>1, <1>3, <1>4, <1>5, <1>6, <1>7, <1>8, <1>9 DEF FecInv

\* What is known of a datagram that comes.
LEMMA ComesIs ==
  ASSUME FecInv, NEW p \in net, Comes(p)
  PROVE  /\ Made(p) /\ p.primary \in 0 .. MaxSent - 1 /\ p.seq = p.primary
         /\ p.primary \in Nat /\ p.primary >= came - Delay
         /\ came' = Latest(p.primary, came) /\ came' \in Int /\ came' >= -1
         /\ came' >= p.primary /\ came' < tx_seq_no
         /\ p.primary > came' - BufSize /\ p.primary - Entries > came' - BufSize
         /\ p.primary \in Recent(came')
  <1>1. /\ Made(p) /\ p.primary < tx_seq_no /\ p.primary >= tx_seq_no - 1 - Delay
        /\ came \in Int /\ came >= -1 /\ came < tx_seq_no /\ tx_seq_no \in Int
    BY Settings DEF FecInv
  <1>2. p.primary \in 0 .. MaxSent - 1 /\ p.seq = p.primary /\ p.primary \in Nat
    BY <1>1, Settings DEF Made
  <1>3. came' = Latest(p.primary, came)
    BY DEF Comes, Latest
  <1>4. p.primary >= came - Delay
    BY <1>1, <1>2, Settings
  <1>5. /\ came' \in Int /\ came' >= -1 /\ came' >= p.primary /\ came' < tx_seq_no
        /\ p.primary > came' - BufSize /\ p.primary - Entries > came' - BufSize
    BY <1>1, <1>2, <1>3, <1>4, Settings DEF Latest
  <1>6. p.primary \in Recent(came')
    BY <1>2, <1>5 DEF Recent
  <1> QED BY <1>1, <1>2, <1>3, <1>4, <1>5, <1>6

\* The ring that a malformed datagram leaves.
LEMMA RefusedLeaves ==
  ASSUME FecInv, NEW p \in net, Refused(p)
  PROVE  /\ Beside(rx', Stored(p), p.primary % BufSize)
         /\ p.mode # "fec" => rx'[p.primary % BufSize].fec
                                = Stored(p)[p.primary % BufSize].fec
  <1> DEFINE N == p.primary
             x == N % BufSize
             r == Stored(p)
  <1>1. Comes(p)
    BY DEF Refused
  <1>2. Made(p) /\ N \in 0 .. MaxSent - 1
    BY <1>1, ComesIs
  <1>3. rx \in RxTypes /\ rx_seq_no \in Nat
    BY DEF FecInv
  <1>4. r \in RxTypes
    <2>1. 0 \in Slots
      BY Settings DEF Slots
    <2> QED BY <1>2, <1>3, <2>1, StoredIs
  <1> HIDE DEF r, x
  <1>5. Len(p.fec) \in Nat /\ Len(p.fec) \in 0 .. Len(p.fec)
        /\ (p.mode # "fec" => Len(p.fec) = 0)
    BY <1>2 DEF Made
  <1>6. Beside(rx', r, x) /\ (p.mode # "fec" => rx'[x].fec = r[x].fec)
    <2>2. CASE rx' = WithFec(r, p, Len(p.fec))
      <3>1. /\ Beside(WithFec(r, p, Len(p.fec)), r, x)
            /\ Len(p.fec) = 0 => WithFec(r, p, Len(p.fec))[x].fec = r[x].fec
        BY <1>2, <1>4, <1>5, FecIs DEF x
      <3> QED BY <1>5, <2>2, <3>1
    <2>3. CASE \E k \in 0 .. Len(p.fec) - 1 : rx' \in WithFecCut(r, p, k)
      <3>1. PICK k \in 0 .. Len(p.fec) - 1 : rx' \in WithFecCut(r, p, k)
        BY <2>3
      <3>2. Len(p.fec) # 0
        BY <1>5, <3>1
      <3>3. Beside(rx', r, x)
        BY <1>2, <1>4, <3>1, FecCutIs DEF x
      <3> QED BY <1>5, <3>2, <3>3
    <2>4. CASE rx' = r
      BY <1>4, <2>4 DEF Beside
    <2> QED BY <2>2, <2>3, <2>4 DEF Refused, r
  <1> QED BY <1>6 DEF r, x

\* A malformed datagram leaves its IFP, and part of its FEC beside it.
LEMMA RefusedFec ==
  ASSUME FecInv, NEW p \in net, Refused(p)
  PROVE  FecInv'
  <1> DEFINE N == p.primary
             x == N % BufSize
             r == Stored(p)
  <1>1. Comes(p) /\ mixed' = (mixed \/ (p.mode = "fec" /\ p.seq < rx_seq_no))
    BY DEF Refused
  <1>2. /\ Made(p) /\ N \in 0 .. MaxSent - 1 /\ p.seq = N /\ N \in Nat /\ N >= came - Delay
        /\ came' = Latest(N, came) /\ came' \in Int /\ came' >= -1
        /\ came' >= N /\ came' < tx_seq_no /\ N \in Recent(came')
    BY <1>1, ComesIs
  <1>3. /\ rx \in RxTypes /\ rx_seq_no \in Nat /\ came \in Int /\ came >= -1
        /\ rx_seq_no <= came + 1 /\ (~mixed => TrueRing(rx, came, rx_seq_no))
    BY DEF FecInv
  <1>4. r \in RxTypes
    <2>1. 0 \in Slots
      BY Settings DEF Slots
    <2> QED BY <1>2, <1>3, <2>1, StoredIs
  <1> HIDE DEF r, x
  <1>5. Beside(rx', r, x) /\ (p.mode # "fec" => rx'[x].fec = r[x].fec)
    BY RefusedLeaves DEF r, x
  <1>6. rx' \in RxTypes
    BY <1>5 DEF Beside
  <1>7. ASSUME ~mixed' PROVE TrueRing(rx', came', rx_seq_no)
    <2>1. ~mixed /\ (p.mode = "fec" => ~(N < rx_seq_no))
      BY <1>1, <1>2, <1>7
    <2>2. TrueRing(r, came', rx_seq_no)
      BY <1>2, <1>3, <2>1, StoredTrue DEF r
    <2>3. p.mode # "fec" => rx'[x].fec[0].len = 0
      <3>1. r[x].fec[0].len = 0
        BY <1>2, <1>3, StoredIs, SlotOf DEF r, x
      <3> QED BY <1>5, <3>1
    <2>4. rx'[x].fec[0].len > 0 /\ N < rx_seq_no => FullRows(rx'[x], N)
      BY <2>1, <2>3
    <2> QED BY <1>2, <1>3, <1>5, <2>2, <2>4, BesideTrue DEF x
  <1>8. /\ rx_seq_no' = rx_seq_no /\ held' = held /\ broken' = broken /\ mixed' \in BOOLEAN
        /\ fecOn' = fecOn /\ refused' \in 0 .. MaxRefused /\ tx_seq_no' = tx_seq_no /\ tx' = tx
        /\ net' = net
    BY FecAssumption DEF FecInv, Refused, txVars
  <1>9. handed' = << >> /\ taken' = << >>
    <2>1. handed' = << >> /\ taken' = Given(<< >>).taken
      BY DEF Refused, Process
    <2>2. << >> \in Seq(AnyPairs) /\ DOMAIN << >> = {}
      OBVIOUS
    <2>3. /\ Given(<< >>).taken \in Seq(UNKNOWN .. MaxSent - 1)
          /\ \A k \in DOMAIN Given(<< >>).taken : \E j \in DOMAIN << >> :
               Given(<< >>).taken[k] = << >>[j][1]
      BY <2>2, TakenOfGiven
    <2> DEFINE t == Given(<< >>).taken
    <2> HIDE DEF t
    <2>4. t \in Seq(UNKNOWN .. MaxSent - 1) /\ DOMAIN t = {}
      BY <2>2, <2>3 DEF t
    <2>5. t = << >>
      BY <2>4
    <2> QED BY <2>1, <2>5 DEF t
  <1>10. TakenIsOriginal'
    BY <1>9 DEF TakenIsOriginal
  <1>11. rx_seq_no <= came' + 1
    BY <1>2, <1>3 DEF Latest
  <1>12. (~mixed => TrueRing(rx, came, rx_seq_no))'
    BY <1>7, <1>8 DEF TrueRing, TrueIfp, TrueFec
  <1>13. came' \in Int /\ came' >= -1 /\ came' < tx_seq_no
    BY <1>2
  <1> QED BY <1>6, <1>8, <1>10, <1>11, <1>12, <1>13 DEF FecInv

LEMMA SubSequences ==
  ASSUME NEW A, NEW B, A \subseteq B, NEW s \in Seq(A)
  PROVE  s \in Seq(B)
  <1>1. s \in [1 .. Len(s) -> A] /\ Len(s) \in Nat
    OBVIOUS
  <1>2. s \in [1 .. Len(s) -> B]
    BY <1>1
  <1> QED BY <1>1, <1>2

(* A datagram that is well formed.                                         *)
LEMMA AfterIs ==
  ASSUME NEW n \in 0 .. MaxSent - 1
  PROVE  After(n) \in Nat /\ After(n) <= n + 1
  <1>1. n \in Nat /\ n < SeqSpace /\ SeqSpace \in Nat /\ SeqSpace > 0
    BY SlotOf, Settings, Sizes
  <1>2. CASE n + 1 = SeqSpace
    <2>1. (SeqSpace * 1 + 0) % SeqSpace = 0
      BY <1>1, RemainderOf
    <2> QED BY <1>1, <1>2, <2>1 DEF After
  <1>3. CASE n + 1 # SeqSpace
    <2> DEFINE m == n + 1
    <2>1. m \in Int /\ 0 <= m /\ m < SeqSpace
      BY <1>1, <1>3
    <2> HIDE DEF m
    <2>2. (SeqSpace * 0 + m) % SeqSpace = m /\ SeqSpace * 0 + m = m
      BY <1>1, <2>1, RemainderOf
    <2>3. After(n) = m
      BY <2>2 DEF After, m
    <2> QED BY <1>1, <2>3 DEF m
  <1> QED BY <1>2, <1>3

\* The ring before any repair.
Filled(p) == IF p.mode = "fec" THEN WithFec(Stored(p), p, Len(p.fec))
             ELSE WithSecondaries(Stored(p), p)

\* With the FEC of a datagram its slot has the rows of it, every one.
LEMMA FilledIs ==
  ASSUME FecInv, NEW p \in net, Comes(p), p.mode = "fec"
  PROVE  /\ Beside(Filled(p), Stored(p), p.primary % BufSize)
         /\ FullRows(Filled(p)[p.primary % BufSize], p.primary)
         /\ \A m \in 1 .. Len(p.fec) :
              Filled(p)[p.primary % BufSize].fec[m - 1] = p.fec[m]
  <1> DEFINE N == p.primary
             x == N % BufSize
             r == Stored(p)
             q == Filled(p)
  <1>1. Made(p) /\ N \in 0 .. MaxSent - 1
    BY ComesIs
  <1>2. r \in RxTypes
    <2>1. 0 \in Slots
      BY Settings DEF Slots
    <2> QED BY <1>1, <2>1, StoredIs DEF FecInv
  <1> HIDE DEF r, x, q, N
  <1>3. q = WithFec(r, p, Len(p.fec))
    BY DEF Filled, q, r
  <1>4. /\ Len(p.fec) \in Nat /\ p.span = WindUpSpan(N) /\ Len(p.fec) = WindUpEntries(N)
        /\ \A m \in 1 .. Len(p.fec) :
             /\ p.fec[m].len > 0 /\ p.fec[m].of = Members(N, m - 1)
             /\ \A y \in Members(N, m - 1) : Size(y) <= p.fec[m].len
    BY <1>1 DEF Made, N
  <1>5. /\ Beside(q, r, x) /\ q[x].span = p.span /\ q[x].entries = Len(p.fec)
        /\ \A m \in 0 .. Len(p.fec) - 1 : q[x].fec[m] = p.fec[m + 1]
    <2>1. Len(p.fec) \in 0 .. Len(p.fec)
      BY <1>4
    <2> QED BY <1>1, <1>2, <1>3, <2>1, FecIs DEF x, N
  <1>6. FullRows(q[x], N)
    <2>1. ASSUME NEW m \in 0 .. WindUpEntries(N) - 1
          PROVE  /\ q[x].fec[m].len > 0 /\ q[x].fec[m].of = Members(N, m)
                 /\ \A y \in Members(N, m) : Size(y) <= q[x].fec[m].len
      <3>1. m + 1 \in 1 .. Len(p.fec) /\ m \in 0 .. Len(p.fec) - 1 /\ (m + 1) - 1 = m
        BY <1>4
      <3> QED BY <1>4, <1>5, <3>1
    <2> QED BY <1>4, <1>5, <2>1 DEF FullRows
  <1>7. ASSUME NEW m \in 1 .. Len(p.fec) PROVE q[x].fec[m - 1] = p.fec[m]
    <2>1. m - 1 \in 0 .. Len(p.fec) - 1 /\ (m - 1) + 1 = m
      BY <1>4
    <2> QED BY <1>5, <2>1
  <1> QED BY <1>5, <1>6, <1>7 DEF q, r, x, N

LEMMA FilledTrue ==
  ASSUME FecInv, NEW p \in net, Comes(p)
  PROVE  /\ Filled(p) \in RxTypes
         /\ ~mixed => TrueRing(Filled(p), came', p.primary + 1)
  <1> DEFINE N == p.primary
             x == N % BufSize
             r == Stored(p)
             q == Filled(p)
  <1>1. /\ Made(p) /\ N \in 0 .. MaxSent - 1 /\ p.seq = N /\ N \in Nat /\ N >= came - Delay
        /\ came' = Latest(N, came) /\ came' \in Int /\ came' >= -1
        /\ came' >= N /\ N - Entries > came' - BufSize /\ N \in Recent(came')
    BY ComesIs
  <1>2. /\ rx \in RxTypes /\ rx_seq_no \in Nat /\ came \in Int /\ came >= -1
        /\ rx_seq_no <= came + 1 /\ (~mixed => TrueRing(rx, came, rx_seq_no))
    BY DEF FecInv
  <1>3. r \in RxTypes
    <2>1. 0 \in Slots
      BY Settings DEF Slots
    <2> QED BY <1>1, <1>2, <2>1, StoredIs
  <1>4. ~mixed => TrueRing(r, came', N + 1)
    <2>1. N + 1 \in Nat /\ N + 1 <= N + 1
      BY <1>1
    <2> QED BY <1>1, <1>2, <2>1, StoredTrue
  <1> HIDE DEF r, x, q, N
  <1>5. N + 1 \in Nat
    BY <1>1
  <1>6. CASE p.mode = "fec"
    <2>1. Beside(q, r, x) /\ FullRows(q[x], N)
      BY <1>6, FilledIs DEF q, r, x, N
    <2>2. ~mixed => TrueRing(q, came', N + 1)
      BY <1>1, <1>4, <1>5, <2>1, BesideTrue DEF x
    <2> QED BY <2>1, <2>2 DEF Beside, q, N
  <1>7. CASE p.mode # "fec"
    <2>1. q = WithSecondaries(r, p) /\ p.mode = "redundancy"
      BY <1>1, <1>7 DEF Filled, q, r, Made
    <2>2. /\ q \in RxTypes
          /\ TrueRing(r, came', N + 1) => TrueRing(q, came', N + 1)
      BY <1>1, <1>3, <1>5, <2>1, SecondariesTrue DEF N
    <2> QED BY <1>4, <2>2 DEF q, N
  <1> QED BY <1>6, <1>7

(* Before any repair the ring has all that it had when the primary was     *)
(* stored, and the secondaries that are new, or the FEC.                   *)
LEMMA FilledKeeps ==
  ASSUME FecInv, NEW p \in net, Comes(p)
  PROVE  /\ \A i \in Slots : Stored(p)[i].buf.len > 0 => Filled(p)[i].buf.len > 0
         /\ Filled(p)[p.primary % BufSize].buf.len > 0
         /\ Filled(p)[p.primary % BufSize].buf.len = Size(p.primary)
         /\ p.mode = "fec" =>
              /\ FullRows(Filled(p)[p.primary % BufSize], p.primary)
              /\ \A m \in 1 .. Len(p.fec) :
                   Filled(p)[p.primary % BufSize].fec[m - 1] = p.fec[m]
              /\ \A i \in Slots : Filled(p)[i].buf = Stored(p)[i].buf
         /\ p.mode # "fec" /\ p.primary > rx_seq_no =>
              \A k \in 1 .. Count(p.primary) :
                p.primary - k >= rx_seq_no =>
                  /\ Filled(p)[(p.primary - k) % BufSize].buf.len > 0
                  /\ Filled(p)[(p.primary - k) % BufSize].buf.len = Size(p.primary - k)
  <1> DEFINE N == p.primary
             x == N % BufSize
             r == Stored(p)
             q == Filled(p)
  <1>1. /\ Made(p) /\ N \in 0 .. MaxSent - 1 /\ p.seq = N /\ N \in Nat
        /\ came' \in Int /\ came' >= N /\ N - Entries > came' - BufSize
    BY ComesIs
  <1>2. rx \in RxTypes /\ rx_seq_no \in Nat
    BY DEF FecInv
  <1>3. x \in Slots
    <2>1. N \in Int
      BY <1>1
    <2> QED BY <2>1, SlotOf
  <1>4. r \in RxTypes /\ r[x].buf = Ifp(N)
    BY <1>1, <1>2, <1>3, StoredIs
  <1>5. r[x].buf.len > 0 /\ r[x].buf.len = Size(N)
    BY <1>1, <1>4, IfpIs
  <1> HIDE DEF r, x, q, N
  <1>6. CASE p.mode = "fec"
    <2>1. /\ Beside(q, r, x) /\ FullRows(q[x], N)
          /\ \A m \in 1 .. Len(p.fec) : q[x].fec[m - 1] = p.fec[m]
      BY <1>6, FilledIs DEF q, r, x, N
    <2>2. \A i \in Slots : q[i].buf = r[i].buf
      BY <2>1 DEF Beside
    <2> QED BY <1>3, <1>5, <1>6, <2>1, <2>2 DEF q, r, x, N
  <1>7. CASE p.mode # "fec"
    <2>1. q = WithSecondaries(r, p) /\ p.mode = "redundancy"
      BY <1>1, <1>7 DEF Filled, q, r, Made
    <2>2. /\ \A i \in Slots : r[i].buf.len > 0 => q[i].buf.len > 0
          /\ \A k \in 1 .. Count(N) :
               N - k >= rx_seq_no /\ N > rx_seq_no => q[(N - k) % BufSize].buf = Ifp(N - k)
      <3>1. 0 \in Nat
        OBVIOUS
      <3> QED BY <1>1, <1>4, <2>1, <3>1, SecondariesTrue DEF N
    <2>3. ASSUME NEW k \in 1 .. Count(N)
          PROVE  Ifp(N - k).len > 0 /\ Ifp(N - k).len = Size(N - k)
      <3>1. Count(N) \in Nat /\ Count(N) <= N
        BY <1>1, CountBound
      <3>2. N - k \in 0 .. MaxSent - 1
        BY <1>1, <3>1, Settings
      <3> QED BY <3>2, IfpIs
    <2>4. \A k \in 1 .. Count(N) :
            N - k >= rx_seq_no /\ N > rx_seq_no =>
              /\ q[(N - k) % BufSize].buf.len > 0
              /\ q[(N - k) % BufSize].buf.len = Size(N - k)
      BY <2>2, <2>3
    <2>5. q[x].buf.len > 0 /\ q[x].buf.len = Size(N)
      <3>1. 0 \in Nat
        OBVIOUS
      <3>2. q[x].buf = Ifp(N)
        BY <1>1, <1>4, <2>1, <3>1, SecondariesTrue DEF N, x
      <3> QED BY <1>4, <1>5, <3>2
    <2> QED BY <1>7, <2>2, <2>4, <2>5 DEF q, r, x, N
  <1> QED BY <1>6, <1>7

(* The ring and the slots repaired when p has been decoded.                *)
Result(p) == IF p.mode = "fec" THEN Hunt(Filled(p), p)
             ELSE [rx |-> Filled(p), repaired |-> {}]

LEMMA ResultIs ==
  ASSUME FecInv, NEW p \in net, FecReceive(p)
  PROVE  /\ rx' = Result(p).rx /\ Process(FecHanded(p, Result(p)))
         /\ Repairing(Result(p)) /\ Grown(Result(p), [rx |-> Filled(p), repaired |-> {}])
         /\ ~mixed' =>
              /\ ~mixed /\ TrueRing(Result(p).rx, came', p.primary + 1)
              /\ p.mode = "fec" => came' = p.primary /\ RepairedTrue(Result(p), p.primary)
  <1> DEFINE N  == p.primary
             r  == Filled(p)
             st == Result(p)
  <1>1. /\ rx' = st.rx /\ Process(FecHanded(p, st)) /\ Comes(p)
        /\ mixed' = (mixed \/ (p.mode = "fec" /\ p.primary < came))
    BY DEF FecReceive, Filled, Result
  <1>2. ~mixed' => ~mixed /\ (p.mode = "fec" => ~(N < came))
    BY <1>1 DEF FecInv
  <1>3. Made(p) /\ N \in Nat /\ came' = Latest(N, came) /\ came' \in Int /\ came \in Int
    BY <1>1, ComesIs DEF FecInv
  <1>4. r \in RxTypes /\ (~mixed => TrueRing(r, came', N + 1))
    BY <1>1, FilledTrue
  <1>5. ~mixed' /\ p.mode = "fec" => came' = N
    <2> HIDE DEF N
    <2> QED BY ONLY <1>2, <1>3 DEF Latest
  <1> HIDE DEF r
  <1>6. CASE p.mode = "fec"
    <2>1. st = Hunt(r, p)
      BY <1>6 DEF Result, r
    <2> HIDE DEF st
    <2>2. /\ Repairing(Hunt(r, p))
          /\ TrueRing(r, N, N + 1) => RepairedTrue(Hunt(r, p), N)
      BY <1>3, <1>4, <1>6, HuntKeeps
    <2>3. Repairing(st) /\ (~mixed' => RepairedTrue(st, N))
      BY <1>2, <1>4, <1>5, <1>6, <2>1, <2>2
    <2>4. PICK n : n = Back(p) * Entries
      OBVIOUS
    <2>5. n \in Nat
      BY <1>3, <1>6, <2>4, BackIs
    <2>6. PICK t : Tries(t, r, p, n) /\ Hunt(r, p) = t[n]
      BY <2>4, <2>5, HuntIs
    <2>7. /\ t[0] = [rx |-> r, repaired |-> {}]
          /\ \A j, k \in 0 .. n : j <= k => Grown(t[k], t[j])
      BY <1>3, <1>4, <1>6, <2>4, <2>5, <2>6, TriesGrow
    <2>8. 0 \in 0 .. n /\ n \in 0 .. n /\ 0 <= n
      BY <2>5
    <2>9. Grown(st, [rx |-> r, repaired |-> {}])
      BY <2>1, <2>6, <2>7, <2>8
    <2>10. ~mixed' => TrueRing(st.rx, came', N + 1)
      BY <1>5, <1>6, <2>3 DEF RepairedTrue
    <2> QED BY <1>1, <1>2, <1>5, <1>6, <2>3, <2>9, <2>10 DEF r, st
  <1>7. CASE p.mode # "fec"
    <2>1. st = [rx |-> r, repaired |-> {}]
      BY <1>7 DEF Result, r
    <2>2. Repairing(st) /\ Grown(st, [rx |-> r, repaired |-> {}])
      BY <1>4, <2>1 DEF Repairing, Grown
    <2>3. ~mixed' => TrueRing(st.rx, came', N + 1)
      BY <1>2, <1>4, <2>1
    <2> QED BY <1>1, <1>2, <1>7, <2>2, <2>3 DEF r, st
  <1> QED BY <1>6, <1>7

LEMMA ReceiveFec ==
  ASSUME FecInv, NEW p \in net, FecReceive(p)
  PROVE  FecInv'
  <1> DEFINE N  == p.primary
             r  == Filled(p)
             st == IF p.mode = "fec" THEN Hunt(r, p) ELSE [rx |-> r, repaired |-> {}]
             h  == FecHanded(p, st)
  <1>1. /\ rx' = st.rx /\ Process(h) /\ rx_seq_no' = After(p.seq) /\ Comes(p)
        /\ held' = { n \in held \union { handed'[k][1] : k \in DOMAIN handed' } :
                       n > p.primary - BufSize }
        /\ broken' = \/ broken \/ p.primary < due - 1
                      \/ \E n \in top + 1 .. p.primary - 1 : ~Repairs(p, n)
        /\ mixed' = (mixed \/ (p.mode = "fec" /\ p.primary < came))
        /\ UNCHANGED << txVars, fecOn, refused >>
    BY DEF FecReceive, Filled
  <1>2. /\ Made(p) /\ N \in 0 .. MaxSent - 1 /\ p.seq = N /\ N \in Nat /\ N >= came - Delay
        /\ came' = Latest(N, came) /\ came' \in Int /\ came' >= -1
        /\ came' >= N /\ came' < tx_seq_no /\ came \in Int
    BY <1>1, ComesIs DEF FecInv
  <1>3. r \in RxTypes /\ (~mixed => TrueRing(r, came', N + 1))
    BY <1>1, FilledTrue
  <1> HIDE DEF r, st, h
  <1>4. /\ Repairing(st)
        /\ ~mixed' => TrueRing(st.rx, came', N + 1)
        /\ ~mixed' /\ p.mode = "fec" => RepairedTrue(st, N)
    BY ResultIs DEF st, N, r, Result
  <1>5. rx' \in RxTypes
    BY <1>1, <1>4 DEF Repairing
  <1>6. rx_seq_no' \in Nat /\ rx_seq_no' <= N + 1 /\ rx_seq_no' <= came' + 1
    <2>1. After(N) \in Nat /\ After(N) <= N + 1
      BY <1>2, AfterIs
    <2> QED BY <1>1, <1>2, <2>1
  <1>7. ~mixed' => TrueRing(rx', came', rx_seq_no')
    <2>1. N + 1 \in Nat
      BY <1>2
    <2> HIDE DEF N
    <2> QED BY <1>1, <1>2, <1>4, <1>6, <2>1, LessKnown
  <1>8. h \in Seq(AnyPairs) /\ (~mixed' => h \in Seq(OwnPairs))
    <2>1. Primary(p) \in Seq(OwnPairs)
      <3>1. p.seq % SeqSpace = p.seq
        BY <1>2, SlotOf
      <3>2. << p.primary, p.seq >> \in OwnPairs
        BY <1>2, <3>1 DEF OwnPairs
      <3> QED BY <3>2 DEF Primary
    <2>2. CASE p.mode = "fec"
      <3>1. h = Played(st, p) \o Primary(p)
        BY <2>2 DEF h, FecHanded
      <3>2. /\ Played(st, p) \in Seq(AnyPairs)
            /\ RepairedTrue(st, N) => Played(st, p) \in Seq(OwnPairs)
        BY <1>2, <1>4, PlayedIs
      <3>3. Primary(p) \in Seq(AnyPairs)
        BY <2>1, OwnIsAny, SubSequences
      <3> QED BY <1>4, <2>1, <2>2, <3>1, <3>2, <3>3
    <2>3. CASE p.mode # "fec"
      <3>1. h = HandedBy(p) /\ p.mode = "redundancy"
        BY <1>2, <2>3 DEF h, FecHanded, Made
      <3>2. h \in Seq(OwnPairs)
        BY <1>2, <3>1, RedundancyHands DEF FecInv
      <3>3. h \in Seq(AnyPairs)
        BY <3>2, OwnIsAny, SubSequences
      <3> QED BY <3>2, <3>3
    <2> QED BY <2>2, <2>3
  <1>9. /\ handed' = h /\ taken' = Given(h).taken
        /\ \A k \in DOMAIN taken' : \E j \in DOMAIN h : taken'[k] = h[j][1]
    <2>1. handed' = h /\ taken' = Given(h).taken
      BY <1>1 DEF Process
    <2>2. /\ Given(h).taken \in Seq(UNKNOWN .. MaxSent - 1)
          /\ \A k \in DOMAIN Given(h).taken : \E j \in DOMAIN h : Given(h).taken[k] = h[j][1]
      BY <1>8, TakenOfGiven
    <2> QED BY <2>1, <2>2
  <1>10. TakenIsOriginal'
    <2> SUFFICES ASSUME ~mixed', NEW k \in DOMAIN taken'
                 PROVE  \E j \in DOMAIN handed' :
                          handed'[j] = << taken'[k], taken'[k] % SeqSpace >>
      BY DEF TakenIsOriginal
    <2>1. PICK j \in DOMAIN h : taken'[k] = h[j][1]
      BY <1>9
    <2>2. h[j] \in OwnPairs
      BY <1>8, <2>1
    <2>3. h[j] = << h[j][1], h[j][1] % SeqSpace >>
      BY <2>2 DEF OwnPairs
    <2>4. handed'[j] = << taken'[k], taken'[k] % SeqSpace >> /\ j \in DOMAIN handed'
      BY ONLY <1>9, <2>1, <2>3, Zenon
    <2> QED BY ONLY <2>4, Zenon
  <1>11. held' \subseteq UNKNOWN .. MaxSent - 1
    <2>1. \A k \in DOMAIN h : h[k][1] \in UNKNOWN .. MaxSent - 1
      BY <1>8 DEF AnyPairs
    <2>2. ASSUME NEW n \in held' PROVE n \in held \/ \E k \in DOMAIN h : n = h[k][1]
      <3>1. n \in held \union { handed'[k][1] : k \in DOMAIN handed' }
        BY <1>1, <2>2
      <3> QED BY <1>9, <3>1
    <2>3. held \subseteq UNKNOWN .. MaxSent - 1
      BY DEF FecInv
    <2> QED BY <2>1, <2>2, <2>3
  <1>12. broken' \in BOOLEAN
    <2> DEFINE c == \E n \in top + 1 .. p.primary - 1 : ~Repairs(p, n)
    <2>1. c \in BOOLEAN
      OBVIOUS
    <2> HIDE DEF c
    <2>2. broken' = (broken \/ p.primary < due - 1 \/ c)
      BY <1>1 DEF c
    <2> QED BY <2>2
  <1>13. mixed' \in BOOLEAN
    BY <1>1
  <1>14. /\ tx_seq_no' = tx_seq_no /\ tx' = tx /\ net' = net /\ fecOn' = fecOn
         /\ refused' = refused
    BY <1>1 DEF txVars
  <1>15. (~mixed => TrueRing(rx, came, rx_seq_no))'
    BY <1>7 DEF TrueRing, TrueIfp, TrueFec
  <1>16. came' \in Int /\ came' >= -1 /\ came' < tx_seq_no
    BY <1>2
  <1> QED BY <1>5, <1>6, <1>10, <1>11, <1>12, <1>13, <1>14, <1>15, <1>16 DEF FecInv

THEOREM FecInvariance == FecSpec => []FecInv
  <1>1. FecInit => FecInv
    BY InitFec
  <1>2. FecInv /\ [FecNext]_<< vars, fecVars >> => FecInv'
    <2> SUFFICES ASSUME FecInv, [FecNext]_<< vars, fecVars >> PROVE FecInv'
      OBVIOUS
    <2>1. CASE FecSend
      BY <2>1, SendFec
    <2>2. CASE FecArrive
      BY <2>2, ReceiveFec, RefusedFec DEF FecArrive
    <2>3. CASE UNCHANGED << vars, fecVars >>
      BY <2>3 DEF FecInv, TakenIsOriginal, TrueRing, TrueIfp, TrueFec, vars, fecVars, txVars,
                  rxVars, histVars
    <2> QED BY <2>1, <2>2, <2>3 DEF FecNext
  <1> QED BY <1>1, <1>2, PTL DEF FecSpec

(* Types; every slot of the ring holds names of IFPs at a length an IFP    *)
(* may have, and FEC that a sender builds, whatever is repaired with what  *)
(* (src/src/udptl.c:193, 313).                                             *)
THEOREM FecTypesCorrect == FecSpec => []FecTypeOK
  <1>1. FecInv => FecTypeOK
    <2> SUFFICES ASSUME FecInv PROVE FecTypeOK
      OBVIOUS
    <2>1. came \in UNKNOWN .. MaxSent - 1
      BY Settings DEF FecInv, UNKNOWN
    <2>2. ASSUME NEW x \in Slots
          PROVE  /\ rx[x].buf.of \subseteq 0 .. MaxSent - 1 /\ rx[x].buf.len \in -1 .. MaxSize
                 /\ rx[x].span \in {0, Span} /\ rx[x].entries \in 0 .. Entries
      <3>1. rx[x] \in SlotTypes
        BY DEF FecInv, RxTypes
      <3>2. rx[x].buf \in Bufs /\ rx[x].span \in {0, Span} /\ rx[x].entries \in 0 .. Entries
        BY <3>1 DEF SlotTypes
      <3> QED BY <3>2 DEF Bufs
    <2> QED BY <2>1, <2>2 DEF FecTypeOK, FecInv
  <1> QED BY <1>1, FecInvariance, PTL

(* Whatever the engine processes, it was handed over as the packet built   *)
(* under that number, with all its octets and nothing but zeros behind     *)
(* them.  Until FEC is used that a later datagram had overtaken, or a      *)
(* datagram with FEC comes malformed that late, no repair uses a slot that *)
(* holds a packet of an earlier round or one that a malformed datagram has *)
(* half filled, and none is cut (src/src/udptl.c:193, 321, 331).           *)
THEOREM TakenAreOriginal == FecSpec => []TakenIsOriginal
  <1>1. FecInv => TakenIsOriginal
    BY DEF FecInv
  <1> QED BY <1>1, FecInvariance, PTL

-----------------------------------------------------------------------------
(* What the engine processes of IFPs that are handed over in order.        *)

TopOf(st) == IF st.taken = << >> THEN top ELSE Last(st.taken)

(* The engine has processed IFPs up to a only, each later than all before. *)
Rising(st, a) ==
  /\ st.taken \in Seq(Nat)
  /\ \A k \in DOMAIN st.taken :
       st.taken[k] > (IF k = 1 THEN top ELSE st.taken[k - 1]) /\ st.taken[k] <= a
  /\ Synced(st.expected, TopOf(st)) /\ TopOf(st) <= a

LEMMA RisingStep ==
  ASSUME NEW a \in Int, NEW st, Rising(st, a), NEW n \in Nat, n <= a, a - n < Offset - 1
  PROVE  Rising(Engine(st, << n, n % SeqSpace >>), a)
  <1> DEFINE t == TopOf(st)
             u == Engine(st, << n, n % SeqSpace >>)
             q == st.taken
  <1>1. /\ q \in Seq(Nat) /\ Synced(st.expected, t) /\ t <= a
        /\ \A k \in DOMAIN q : q[k] > (IF k = 1 THEN top ELSE q[k - 1]) /\ q[k] <= a
        /\ t = IF q = << >> THEN top ELSE q[Len(q)]
    BY DEF Rising, TopOf, Last
  <1>2. t \in Int /\ (t \in Nat \/ t = UNKNOWN) /\ (t = UNKNOWN => t < n)
    BY <1>1 DEF Synced, UNKNOWN
  <1> HIDE DEF t, u
  <1>3. /\ u = st \/ u = Takes(st, n)
        /\ t \in Nat /\ n <= t /\ t - n < Offset - 1 => u = st
    BY <1>1, EngineIs DEF u
  <1>4. CASE u = st
    BY <1>4 DEF u
  <1>5. CASE u # st
    <2>1. n > t
      <3> SUFFICES ASSUME ~(n > t) PROVE FALSE
        OBVIOUS
      <3>1. Offset \in Int
        BY SizeAssumption
      <3>2. t \in Nat /\ n <= t /\ t - n < Offset - 1
        BY <1>1, <1>2, <3>1
      <3> QED BY <1>3, <1>5, <3>2
    <2>2. u.expected = (n + 1) % SeqSpace /\ u.taken = Append(q, n)
      BY <1>3, <1>5 DEF Takes
    <2> HIDE DEF q
    <2> DEFINE v == u.taken
    <2> HIDE DEF v, u
    <2>3. v = [k \in 1 .. Len(q) + 1 |-> IF k = Len(q) + 1 THEN n ELSE q[k]]
      BY <1>1, <2>2, AppendIs DEF v
    <2>4. Len(q) \in Nat /\ DOMAIN q = 1 .. Len(q) /\ \A k \in 1 .. Len(q) : q[k] \in Nat
      BY <1>1
    <2>5. DOMAIN v = 1 .. Len(q) + 1 /\ v[Len(q) + 1] = n /\ \A k \in 1 .. Len(q) : v[k] = q[k]
      BY <2>3, <2>4
    <2>6. v \in Seq(Nat) /\ Len(v) = Len(q) + 1 /\ v # << >>
      <3>1. v \in [1 .. Len(q) + 1 -> Nat]
        BY <2>3, <2>4
      <3>2. v \in Seq(Nat) /\ Len(v) = Len(q) + 1
        BY <2>4, <3>1
      <3> QED BY <2>4, <3>2
    <2>7. ASSUME NEW k \in DOMAIN v
          PROVE  v[k] > (IF k = 1 THEN top ELSE v[k - 1]) /\ v[k] <= a
      <3>1. CASE k = Len(q) + 1
        <4>1. v[k] = n /\ v[k] <= a
          BY <2>5, <3>1
        <4>2. CASE k = 1
          <5>1. q = << >>
            BY <1>1, <2>4, <3>1, <4>2
          <5> QED BY <1>1, <2>1, <4>1, <4>2, <5>1
        <4>3. CASE k # 1
          <5>1. q # << >> /\ k - 1 = Len(q) /\ k - 1 \in 1 .. Len(q)
            BY <2>4, <3>1, <4>3
          <5> QED BY <1>1, <2>1, <2>5, <4>1, <4>3, <5>1
        <4> QED BY <4>2, <4>3
      <3>2. CASE k # Len(q) + 1
        <4>1. k \in 1 .. Len(q) /\ (k # 1 => k - 1 \in 1 .. Len(q))
          BY <2>4, <2>5, <3>2
        <4> QED BY <1>1, <2>4, <2>5, <4>1
      <3> QED BY <3>1, <3>2
    <2>8. TopOf(u) = n
      BY <2>4, <2>5, <2>6 DEF TopOf, Last, v
    <2>9. Synced(u.expected, n)
      BY <2>2 DEF Synced
    <2> QED BY <2>6, <2>7, <2>8, <2>9 DEF Rising, v, u
  <1> QED BY <1>4, <1>5

LEMMA EngineRises ==
  ASSUME top \in Nat \union {UNKNOWN}, Synced(rx_expected_seq_no, top),
         NEW a \in Int, top <= a, NEW h, h \in Seq(OwnPairs),
         \A k \in DOMAIN h : h[k][1] <= a /\ a - h[k][1] < Offset - 1
  PROVE  Rising(Given(h), a)
  <1> DEFINE n == Len(h)
  <1>1. /\ n \in Nat /\ DOMAIN h = 1 .. n
        /\ \A k \in 1 .. n : h[k][1] \in Nat /\ h[k] = << h[k][1], h[k][1] % SeqSpace >>
    <2>1. n \in Nat /\ DOMAIN h = 1 .. n /\ \A k \in 1 .. n : h[k] \in OwnPairs
      OBVIOUS
    <2>2. \A x \in OwnPairs : x[1] \in Nat /\ x = << x[1], x[1] % SeqSpace >>
      BY DEF OwnPairs
    <2> QED BY <2>1, <2>2
  <1>2. PICK st : /\ st = [k \in 0 .. n |-> IF k = 0 THEN Before ELSE Engine(st[k - 1], h[k])]
                  /\ Given(h) = st[n]
    BY <1>1, GivenIs
  <1>3. /\ st[0] = Before
        /\ \A k \in 1 .. n : st[k] = Engine(st[k - 1], h[k])
    <2>1. \A k \in 0 .. n : st[k] = IF k = 0 THEN Before ELSE Engine(st[k - 1], h[k])
      BY <1>2, Zenon
    <2>2. 0 \in 0 .. n /\ \A k \in 1 .. n : k \in 0 .. n /\ k # 0
      BY <1>1
    <2> QED BY <2>1, <2>2
  <1> HIDE DEF n
  <1>4. Rising(st[0], a)
    BY <1>3 DEF Rising, Before, TopOf
  <1>5. ASSUME NEW k \in 1 .. n, Rising(st[k - 1], a) PROVE Rising(st[k], a)
    <2>1. Rising(Engine(st[k - 1], << h[k][1], h[k][1] % SeqSpace >>), a)
      BY <1>1, <1>5, RisingStep
    <2>2. st[k] = Engine(st[k - 1], h[k]) /\ h[k] = << h[k][1], h[k][1] % SeqSpace >>
      BY <1>1, <1>3
    <2> QED BY <2>1, <2>2
  <1> DEFINE D == { k \in 0 .. n : ~ Rising(st[k], a) }
  <1>6. D = {}
    <2> SUFFICES ASSUME D # {} PROVE FALSE
      OBVIOUS
    <2>1. D \in SUBSET Nat
      OBVIOUS
    <2> HIDE DEF D
    <2>2. PICK k \in D : \A y \in D : k <= y
      BY <2>1, LeastMember
    <2> USE DEF D
    <2>3. k \in 1 .. n
      BY <1>1, <1>4, <2>2
    <2>4. k - 1 \in 0 .. n /\ ~(k <= k - 1)
      BY <1>1, <2>3
    <2> QED BY <1>5, <2>2, <2>3, <2>4
  <1>7. Rising(st[n], a)
    BY <1>1, <1>6
  <1> QED BY <1>2, <1>7

(* The engine has processed the IFPs after top up to c, none left out.     *)
Upto(st, c) ==
  /\ st.taken = [k \in 1 .. c - top |-> top + k]
  /\ Synced(st.expected, c)

LEMMA UptoStep ==
  ASSUME top \in Nat \union {UNKNOWN}, NEW c \in Int, c >= top, NEW st, Upto(st, c)
  PROVE  Upto(Engine(st, << c + 1, (c + 1) % SeqSpace >>), c + 1)
  <1> DEFINE n == c + 1
             u == Engine(st, << n, n % SeqSpace >>)
             q == st.taken
             m == c - top
  <1>1. q = [k \in 1 .. m |-> top + k] /\ Synced(st.expected, c)
    BY DEF Upto
  <1>2. /\ top \in Int /\ m \in Nat /\ n \in Nat /\ (c \in Nat \/ c = UNKNOWN)
        /\ n > c /\ n - c <= SeqSpace - Offset /\ n - top = m + 1 /\ top + (m + 1) = n
    <2>1. SeqSpace \in Int /\ Offset \in Nat /\ 2 * Offset < SeqSpace
      BY SizeAssumption
    <2> QED BY <2>1 DEF UNKNOWN
  <1> HIDE DEF n, u, m
  <1>3. /\ c = UNKNOWN => u = Takes(st, n)
        /\ c \in Nat /\ n > c /\ n - c <= SeqSpace - Offset => u = Takes(st, n)
    BY <1>1, <1>2, EngineIs DEF u
  <1>4. u.expected = (n + 1) % SeqSpace /\ u.taken = Append(q, n)
    BY <1>2, <1>3 DEF Takes
  <1> HIDE DEF q
  <1>5. q \in Seq(Int) /\ Len(q) = m
    <2>1. q \in [1 .. m -> Int]
      BY <1>1, <1>2
    <2> QED BY <1>2, <2>1
  <1>6. Append(q, n) = [k \in 1 .. m + 1 |-> IF k = m + 1 THEN n ELSE q[k]]
    BY <1>5, AppendIs
  <1>7. \A k \in 1 .. m + 1 : (IF k = m + 1 THEN n ELSE q[k]) = top + k
    BY <1>1, <1>2
  <1>8. u.taken = [k \in 1 .. n - top |-> top + k]
    BY <1>2, <1>4, <1>6, <1>7
  <1>9. Synced(u.expected, n)
    BY <1>2, <1>4 DEF Synced
  <1> QED BY <1>8, <1>9 DEF Upto, u, n

\* Given them in order, the engine processes all that it has not had.
LEMMA EngineFills ==
  ASSUME top \in Nat \union {UNKNOWN}, Synced(rx_expected_seq_no, top),
         NEW N \in Nat, top <= N, NEW h, h \in Seq(OwnPairs),
         \A k \in DOMAIN h : h[k][1] <= N /\ top - h[k][1] < Offset - 1,
         \A j, k \in DOMAIN h : j < k => h[j][1] < h[k][1],
         \A n \in top + 1 .. N : \E k \in DOMAIN h : h[k][1] = n
  PROVE  Upto(Given(h), N)
  <1> DEFINE l == Len(h)
  <1>1. /\ l \in Nat /\ DOMAIN h = 1 .. l
        /\ \A k \in 1 .. l : h[k][1] \in Nat /\ h[k] = << h[k][1], h[k][1] % SeqSpace >>
    <2>1. l \in Nat /\ DOMAIN h = 1 .. l /\ \A k \in 1 .. l : h[k] \in OwnPairs
      OBVIOUS
    <2>2. \A x \in OwnPairs : x[1] \in Nat /\ x = << x[1], x[1] % SeqSpace >>
      BY DEF OwnPairs
    <2> QED BY <2>1, <2>2
  <1>2. PICK st : /\ st = [k \in 0 .. l |-> IF k = 0 THEN Before ELSE Engine(st[k - 1], h[k])]
                  /\ Given(h) = st[l]
    BY <1>1, GivenIs
  <1>3. /\ st[0] = Before
        /\ \A k \in 1 .. l : st[k] = Engine(st[k - 1], h[k])
    <2>1. \A k \in 0 .. l : st[k] = IF k = 0 THEN Before ELSE Engine(st[k - 1], h[k])
      BY <1>2, Zenon
    <2>2. 0 \in 0 .. l /\ \A k \in 1 .. l : k \in 0 .. l /\ k # 0
      BY <1>1
    <2> QED BY <2>1, <2>2
  <1> HIDE DEF l
  <1>4. top \in Int /\ (top \in Nat \/ top = UNKNOWN) /\ top >= -1 /\ Offset \in Int
    BY SizeAssumption DEF UNKNOWN
  <1>11. \A k \in 1 .. l : h[k][1] <= N /\ top - h[k][1] < Offset - 1
    BY <1>1
  <1>12. \A j, k \in 1 .. l : j < k => h[j][1] < h[k][1]
    BY <1>1
  <1> DEFINE At(j, c) == /\ c >= top /\ c <= N /\ Upto(st[j], c)
                         /\ \A i \in 1 .. j : h[i][1] <= c
                         /\ c = top \/ \E i \in 1 .. j : h[i][1] = c
             Good(j) == \E c \in Int : At(j, c)
  <1>5. Good(0)
    <2>1. Upto(st[0], top)
      <3>1. [k \in 1 .. top - top |-> top + k] = << >>
        BY <1>4
      <3> QED BY <1>3, <3>1 DEF Upto, Before
    <2>2. At(0, top)
      BY <1>4, <2>1
    <2> QED BY <1>4, <2>2
  <1>6. ASSUME NEW j \in 1 .. l, Good(j - 1) PROVE Good(j)
    <2>1. PICK c \in Int : At(j - 1, c)
      BY <1>6
    <2> DEFINE n == h[j][1]
    <2>2. n \in Nat /\ n <= N /\ top - n < Offset - 1 /\ j \in Nat /\ j \in 1 .. j
      <3>1. j \in 1 .. l
        OBVIOUS
      <3>2. j \in Nat /\ j \in 1 .. j
        BY <1>1, <3>1
      <3> QED BY <1>1, <1>11, <3>1, <3>2, Zenon
    <2>3. st[j] = Engine(st[j - 1], << n, n % SeqSpace >>)
      BY <1>1, <1>3
    <2>4. \A i \in 1 .. j - 1 : h[i][1] < n /\ i \in 1 .. j /\ h[i][1] \in Nat
      <3>1. \A i \in 1 .. j - 1 : i \in 1 .. l /\ i < j /\ i \in 1 .. j
        BY <1>1
      <3> QED BY <1>1, <1>12, <3>1, Zenon
    <2>5. \A i \in 1 .. j : i \in 1 .. j - 1 \/ i = j
      BY <1>1
    <2>6. c >= top /\ c <= N /\ Upto(st[j - 1], c)
      BY <2>1
    <2>7. \A i \in 1 .. j - 1 : h[i][1] <= c
      BY <2>1
    <2>8. c = top \/ \E i \in 1 .. j - 1 : h[i][1] = c
      BY <2>1
    <2>9. c = top \/ c < n
      BY <2>4, <2>8
    <2>10. CASE n <= top
      <3>1. c = top /\ c \in Nat /\ top \in Nat
        BY <1>4, <2>2, <2>6, <2>9, <2>10
      <3>2. Synced(st[j - 1].expected, c)
        BY <2>6 DEF Upto
      <3> HIDE DEF n
      <3>3. c \in Nat /\ n <= c /\ c - n < Offset - 1
        BY <2>2, <2>10, <3>1
      <3>4. st[j] = st[j - 1]
        BY <2>2, <2>3, <3>2, <3>3, EngineIs
      <3>5. \A i \in 1 .. j : h[i][1] <= c
        BY <2>5, <2>7, <3>3 DEF n
      <3>6. At(j, c)
        BY <2>6, <3>1, <3>4, <3>5
      <3> QED BY <3>6
    <2>11. CASE ~(n <= top)
      <3>1. c < n
        BY <1>4, <2>2, <2>9, <2>11
      <3>2. c >= n - 1
        <4>1. CASE n - 1 = top
          BY <2>6, <4>1
        <4>2. CASE n - 1 # top
          <5>1. n - 1 \in top + 1 .. N
            <6>1. N \in Int /\ top \in Int
              BY <1>4
            <6> HIDE DEF n
            <6> QED BY <2>2, <2>11, <4>2, <6>1
          <5>2. PICK k \in 1 .. l : h[k][1] = n - 1
            BY <1>1, <5>1
          <5>3. k < j
            <6> SUFFICES ASSUME k >= j PROVE FALSE
              OBVIOUS
            <6>1. k = j \/ j < k
              BY <1>1
            <6>2. k = j \/ n < h[k][1]
              BY <1>12, <6>1, Zenon
            <6> HIDE DEF n
            <6>3. k = j => n = n - 1
              BY <5>2 DEF n
            <6>4. n < h[k][1] => n < n - 1
              BY <5>2
            <6> QED BY <2>2, <6>2, <6>3, <6>4
          <5>4. k \in 1 .. j - 1
            BY <1>1, <5>3
          <5> QED BY <2>7, <5>2, <5>4
        <4> QED BY <4>1, <4>2
      <3>3. n = c + 1
        BY <2>2, <3>1, <3>2
      <3> HIDE DEF n
      <3>4. Upto(Engine(st[j - 1], << n, n % SeqSpace >>), n)
        BY <2>6, <3>3, UptoStep
      <3>5. \A i \in 1 .. j : h[i][1] <= n
        BY <2>2, <2>4, <2>5 DEF n
      <3>6. n >= top /\ n \in Int
        BY <2>2, <2>6, <1>4, <3>3
      <3>7. \E i \in 1 .. j : h[i][1] = n
        BY <2>2 DEF n
      <3>8. At(j, n)
        BY <2>2, <2>3, <3>4, <3>5, <3>6, <3>7
      <3> QED BY <3>6, <3>8
    <2> QED BY <2>10, <2>11
  <1> DEFINE D == { j \in 0 .. l : ~ Good(j) }
  <1> HIDE DEF Good
  <1>7. D = {}
    <2> SUFFICES ASSUME D # {} PROVE FALSE
      OBVIOUS
    <2>1. D \in SUBSET Nat
      OBVIOUS
    <2> HIDE DEF D
    <2>2. PICK j \in D : \A y \in D : j <= y
      BY <2>1, LeastMember
    <2> USE DEF D
    <2>3. j \in 1 .. l
      BY <1>1, <1>5, <2>2
    <2>4. j - 1 \in 0 .. l /\ ~(j <= j - 1)
      BY <1>1, <2>3
    <2> QED BY <1>6, <2>2, <2>3, <2>4
  <1>8. Good(l)
    BY <1>1, <1>7
  <1> USE DEF Good
  <1>9. PICK c \in Int : At(l, c)
    BY <1>8
  <1>10. c = N
    <2>1. CASE N = top
      BY <1>9, <2>1
    <2>2. CASE N # top
      <3>1. N \in top + 1 .. N
        BY <1>4, <2>2
      <3>2. PICK k \in 1 .. l : h[k][1] = N
        BY <1>1, <3>1
      <3> QED BY <1>9, <3>2
    <2> QED BY <2>1, <2>2
  <1> QED BY <1>2, <1>9, <1>10

-----------------------------------------------------------------------------
(* UDPTL with FEC implements IfpStream.                                    *)

(* As long as nothing is mixed, the engine expects what follows the latest *)
(* IFP it has had; and as long as nothing is lost, so does udptl_rx_packet,*)
(* and the recent IFPs that have come are in the ring.                     *)
FecStreamInv ==
  /\ ~mixed => /\ top \in Nat \union {UNKNOWN} /\ top <= came
               /\ Synced(rx_expected_seq_no, top)
  /\ ~mixed /\ ~broken =>
       /\ due = top + 1
       /\ due < SeqSpace => rx_seq_no = due
       /\ \A n \in held :
            /\ n \in Nat /\ n <= top
            /\ n > came - BufSize /\ due < SeqSpace => rx[n % BufSize].buf.len > 0

(* The items of a sequence of numbers at the places in S.                  *)
Picked(q, S) == LET u == Ascending(S) IN [j \in DOMAIN u |-> q[u[j]]]

Whole == { k \in DOMAIN taken : Intact(taken[k]) }

LEMMA UnderstoodIs == Understood' = Picked(taken', Whole')
  BY DEF Understood, Picked, Whole

LEMMA PlacesOf ==
  ASSUME NEW c \in Nat, NEW S \in SUBSET (1 .. c)
  PROVE  IsFiniteSet(S) /\ Enumerates(Ascending(S), S) /\ Cardinality(S) \in Nat
  <1>1. S \in SUBSET (0 .. c)
    OBVIOUS
  <1> QED BY <1>1, EnumerationExists, FS_CardinalityType

\* At all its places: the sequence itself.
LEMMA PickedAll ==
  ASSUME NEW q, NEW c \in Nat, q = [k \in 1 .. c |-> q[k]]
  PROVE  Picked(q, 1 .. c) = q
  <1> DEFINE S == 1 .. c
             u == Ascending(S)
  <1>1. Cardinality(S) = c /\ Enumerates(u, S)
    <2>1. Cardinality(S) = c
      BY FS_Interval
    <2> QED BY <2>1, PlacesOf
  <1> HIDE DEF u
  <1>2. /\ u \in [1 .. c -> 1 .. c]
        /\ \A j, k \in 1 .. c : j < k => u[j] < u[k]
    BY <1>1 DEF Enumerates
  <1>3. ASSUME NEW k \in 1 .. c PROVE u[k] = k
    <2>1. ~(u[k] < k)
      <3> SUFFICES ASSUME u[k] < k PROVE FALSE
        OBVIOUS
      <3> DEFINE D == { j \in 1 .. c : u[j] < j }
      <3>1. D \in SUBSET Nat /\ D # {}
        BY <2>1
      <3> HIDE DEF D
      <3>2. PICK j \in D : \A i \in D : j <= i
        BY <3>1, LeastMember
      <3>3. j \in 1 .. c /\ u[j] < j /\ u[j] \in 1 .. c
        BY <1>2, <3>2 DEF D
      <3>4. u[u[j]] < u[j]
        BY <1>2, <3>3
      <3>5. u[j] \in D
        BY <3>3, <3>4 DEF D
      <3> QED BY <3>2, <3>3, <3>5
    <2>2. ~(u[k] > k)
      <3> SUFFICES ASSUME u[k] > k PROVE FALSE
        OBVIOUS
      <3> DEFINE D == { c - j : j \in { i \in 1 .. c : u[i] > i } }
      <3>1. D \in SUBSET Nat /\ D # {}
        BY <2>2
      <3>2. \A j \in 1 .. c : u[j] > j => c - j \in D
        OBVIOUS
      <3>3. \A d \in D : \E j \in 1 .. c : d = c - j /\ u[j] > j
        OBVIOUS
      <3> HIDE DEF D
      <3>4. PICK d \in D : \A i \in D : d <= i
        BY <3>1, LeastMember
      <3>5. PICK j \in 1 .. c : d = c - j /\ u[j] > j
        BY <3>3
      <3>6. u[j] \in 1 .. c /\ u[u[j]] > u[j]
        BY <1>2, <3>5
      <3>7. c - u[j] \in D
        BY <3>2, <3>6
      <3> QED BY <3>4, <3>5, <3>6, <3>7
    <2> QED BY <1>2, <2>1, <2>2
  <1>4. Picked(q, S) = [k \in 1 .. c |-> q[u[k]]]
    BY <1>2 DEF Picked, u
  <1>5. [k \in 1 .. c |-> q[u[k]]] = [k \in 1 .. c |-> q[k]]
    BY <1>3
  <1> QED BY <1>4, <1>5

\* What is picked of a rising sequence rises.
LEMMA PickedRises ==
  ASSUME NEW c \in Nat, NEW S \in SUBSET (1 .. c), NEW q \in [1 .. c -> Int],
         \A j, k \in 1 .. c : j < k => q[j] < q[k],
         NEW a \in Int, NEW b \in Int, \A k \in 1 .. c : a < q[k] /\ q[k] <= b,
         NEW k \in DOMAIN Picked(q, S)
  PROVE  Picked(q, S)[k] \in (IF k = 1 THEN a + 1 ELSE Picked(q, S)[k - 1] + 1) .. b
  <1> DEFINE n == Cardinality(S)
             u == Ascending(S)
             v == Picked(q, S)
  <1>1. n \in Nat /\ Enumerates(u, S)
    BY PlacesOf
  <1> HIDE DEF n, u
  <1>2. /\ u \in [1 .. n -> 1 .. c] /\ DOMAIN u = 1 .. n
        /\ \A i, j \in 1 .. n : i < j => u[i] < u[j]
    BY <1>1 DEF Enumerates, n
  <1>3. DOMAIN v = 1 .. n /\ \A j \in 1 .. n : v[j] = q[u[j]]
    BY <1>2 DEF Picked, u
  <1> HIDE DEF v
  <1>4. k \in 1 .. n /\ v[k] = q[u[k]] /\ a < v[k] /\ v[k] <= b /\ v[k] \in Int
    <2>1. k \in 1 .. n
      BY <1>3 DEF v
    <2> QED BY <1>2, <1>3, <2>1
  <1>5. ASSUME k # 1 PROVE v[k - 1] < v[k] /\ v[k - 1] \in Int
    <2>1. k - 1 \in 1 .. n /\ k - 1 < k
      BY <1>1, <1>4, <1>5
    <2>2. u[k - 1] < u[k] /\ u[k - 1] \in 1 .. c /\ u[k] \in 1 .. c
      BY <1>2, <1>4, <2>1
    <2> QED BY <1>3, <1>4, <2>1, <2>2
  <1>6. v[k] \in (IF k = 1 THEN a + 1 ELSE v[k - 1] + 1) .. b
    BY <1>4, <1>5
  <1> QED BY <1>6 DEF v

LEMMA UnderstoodNone ==
  /\ taken = << >> => Understood = << >>
  /\ taken' = << >> => Understood' = << >>
  <1>1. Picked(<< >>, 1 .. 0) = << >>
    <2>1. << >> = [k \in 1 .. 0 |-> << >>[k]]
      OBVIOUS
    <2> QED BY <2>1, PickedAll
  <1>2. taken = << >> => Whole = 1 .. 0
    BY DEF Whole
  <1>3. taken' = << >> => Whole' = 1 .. 0
    BY DEF Whole
  <1>4. Understood = Picked(taken, Whole) /\ Understood' = Picked(taken', Whole')
    BY DEF Understood, Picked, Whole
  <1> QED BY <1>1, <1>2, <1>3, <1>4

LEMMA InitFecStream ==
  ASSUME FecInit
  PROVE  FecStreamInv /\ FecStream!Init
  <1>1. top = UNKNOWN /\ came = UNKNOWN /\ rx_expected_seq_no = UNKNOWN /\ due = 0
        /\ rx_seq_no = 0 /\ held = {} /\ taken = << >> /\ tx_seq_no = 0 /\ broken = FALSE
        /\ mixed = FALSE
    BY DEF FecInit, Init
  <1>2. top + 1 = 0 /\ top <= came
    BY <1>1 DEF UNKNOWN
  <1>3. FecStreamInv
    BY <1>1, <1>2 DEF FecStreamInv, Synced
  <1>4. Understood = << >>
    BY <1>1, UnderstoodNone
  <1> QED BY <1>1, <1>2, <1>3, <1>4 DEF FecStream!Init

LEMMA SendFecStream ==
  ASSUME FecStreamInv, FecSend
  PROVE  FecStreamInv' /\ FecStream!Send
  <1>1. /\ rx_expected_seq_no' = rx_expected_seq_no /\ rx_seq_no' = rx_seq_no
        /\ top' = top /\ due' = due /\ taken' = taken /\ rx' = rx /\ held' = held
        /\ broken' = broken /\ came' = came /\ mixed' = mixed
        /\ tx_seq_no' = tx_seq_no + 1
    BY DEF FecSend, rxVars, histVars
  <1>2. Understood' = Understood
    BY <1>1 DEF Understood, Intact
  <1> QED BY <1>1, <1>2 DEF FecStreamInv, Synced, FecStream!Send

LEMMA GivenNone == Given(<< >>) = Before
  <1>1. 0 \in Nat /\ Len(<< >>) = 0
    OBVIOUS
  <1>2. PICK st : /\ st = [k \in 0 .. 0 |-> IF k = 0 THEN Before
                                            ELSE Engine(st[k - 1], << >>[k])]
                  /\ Given(<< >>) = st[0]
    BY <1>1, GivenIs
  <1>3. 0 \in 0 .. 0
    OBVIOUS
  <1>4. st[0] = Before
    BY <1>2, <1>3, Zenon
  <1> QED BY <1>2, <1>4

(* What has come stays in the ring when the slots that were missed are     *)
(* cleared.                                                                *)
LEMMA HeldStays ==
  ASSUME FecInv, FecStreamInv, NEW p \in net, Comes(p), ~mixed, ~broken, due < SeqSpace,
         NEW n \in held, n > came' - BufSize
  PROVE  Stored(p)[n % BufSize].buf.len > 0
  <1> DEFINE N == p.primary
             i == n % BufSize
             r == Stored(p)
  <1>1. /\ Made(p) /\ N \in 0 .. MaxSent - 1 /\ N \in Nat
        /\ came' = Latest(N, came) /\ came' \in Int /\ came' >= N /\ N > came' - BufSize
    BY ComesIs
  <1>2. /\ rx \in RxTypes /\ rx_seq_no \in Nat /\ came \in Int
    BY DEF FecInv
  <1>3. /\ due = top + 1 /\ rx_seq_no = top + 1 /\ n \in Nat /\ n <= top /\ top <= came
        /\ (n > came - BufSize => rx[n % BufSize].buf.len > 0)
        /\ top \in Nat \union {UNKNOWN}
    BY DEF FecStreamInv
  <1>4. BufSize \in Nat /\ BufSize > 0 /\ came' >= came /\ top \in Int
    BY <1>1, <1>2, <1>3, Settings DEF Latest, UNKNOWN
  <1>5. i \in Slots
    BY <1>3, SlotOf
  <1>6. /\ i = N % BufSize => r[i].buf = Ifp(N)
        /\ i # N % BufSize => \/ \E m \in rx_seq_no .. N - 1 : m % BufSize = i
                              \/ r[i] = rx[i]
    BY <1>1, <1>2, <1>5, StoredIs
  <1> HIDE DEF i, r, N
  <1>7. CASE i = N % BufSize
    BY <1>1, <1>6, <1>7, IfpIs DEF i, r
  <1>8. CASE i # N % BufSize
    <2>1. ASSUME NEW m \in rx_seq_no .. N - 1, m % BufSize = i PROVE FALSE
      <3>1. m \in Int /\ n \in Int /\ m > n /\ m - n < BufSize /\ n - m < BufSize
        BY <1>1, <1>3, <1>4, <2>1
      <3>2. m % BufSize = n % BufSize
        BY <2>1 DEF i
      <3>3. m = n
        BY <1>4, <3>1, <3>2, RemainderNear
      <3> QED BY <3>1, <3>3
    <2>2. r[i] = rx[i]
      BY <1>6, <1>8, <2>1
    <2>3. n > came - BufSize
      BY <1>1, <1>2, <1>3, <1>4
    <2> QED BY <1>3, <2>2, <2>3 DEF i, r
  <1> QED BY <1>7, <1>8

LEMMA RefusedFecStream ==
  ASSUME FecInv, FecStreamInv, NEW p \in net, Refused(p)
  PROVE  FecStreamInv' /\ FecStream!Next
  <1>1. /\ Comes(p) /\ rx_seq_no' = rx_seq_no /\ due' = due /\ held' = held
        /\ broken' = broken /\ tx_seq_no' = tx_seq_no
        /\ mixed' = (mixed \/ (p.mode = "fec" /\ p.seq < rx_seq_no))
    BY DEF Refused, txVars
  <1>2. /\ Made(p) /\ p.primary \in 0 .. MaxSent - 1
        /\ came' = Latest(p.primary, came) /\ came' \in Int /\ came \in Int
        /\ mixed \in BOOLEAN /\ broken \in BOOLEAN /\ came < tx_seq_no
        /\ tx_seq_no \in Nat /\ rx \in RxTypes /\ rx_seq_no \in Nat
    BY <1>1, ComesIs DEF FecInv
  <1>3. came' >= came
    <2>1. p.primary \in Int
      BY <1>2
    <2> QED BY <1>2, <2>1 DEF Latest
  <1>4. Understood' = << >> /\ top' = top /\ rx_expected_seq_no' = rx_expected_seq_no
    <2>1. Given(<< >>).expected = rx_expected_seq_no /\ Given(<< >>).taken = << >>
      BY GivenNone DEF Before
    <2>2. taken' = << >>
      BY <2>1 DEF Refused, Process
    <2> QED BY <2>1, <2>2, UnderstoodNone DEF Refused, Process
  <1>5. Beside(rx', Stored(p), p.primary % BufSize)
    BY RefusedLeaves
  <1>6. mixed' \in BOOLEAN
    BY <1>1
  <1>7. FecStreamInv'
    <2>1. ASSUME ~mixed'
          PROVE  /\ top \in Nat \union {UNKNOWN} /\ top <= came'
                 /\ Synced(rx_expected_seq_no, top)
      <3>1. ~mixed
        BY <1>1, <2>1
      <3>2. top \in Nat \union {UNKNOWN} /\ top <= came /\ Synced(rx_expected_seq_no, top)
        BY <3>1 DEF FecStreamInv
      <3> QED BY <1>2, <1>3, <3>2 DEF UNKNOWN
    <2>2. ASSUME ~mixed', ~broken
          PROVE  /\ due = top + 1
                 /\ due < SeqSpace => rx_seq_no = due
                 /\ \A n \in held :
                      /\ n \in Nat /\ n <= top
                      /\ n > came' - BufSize /\ due < SeqSpace
                           => rx'[n % BufSize].buf.len > 0
      <3>1. ~mixed
        BY <1>1, <2>2
      <3>2. /\ due = top + 1 /\ (due < SeqSpace => rx_seq_no = due)
            /\ \A n \in held : n \in Nat /\ n <= top
        BY <2>2, <3>1 DEF FecStreamInv
      <3>3. ASSUME NEW n \in held, n > came' - BufSize, due < SeqSpace
            PROVE  rx'[n % BufSize].buf.len > 0
        <4>1. Stored(p)[n % BufSize].buf.len > 0
          BY <1>1, <2>2, <3>1, <3>3, HeldStays
        <4>2. n % BufSize \in Slots
          <5>1. n \in Int
            BY <3>2
          <5> QED BY <5>1, SlotOf
        <4>3. rx'[n % BufSize].buf = Stored(p)[n % BufSize].buf
          BY <1>5, <4>2 DEF Beside
        <4> QED BY <4>1, <4>3
      <3> QED BY <3>2, <3>3
    <2> QED BY <1>1, <1>4, <2>1, <2>2 DEF FecStreamInv, Synced
  <1>8. CASE mixed'
    <2>1. mixed' = TRUE
      BY <1>6, <1>8
    <2> QED BY <1>1, <1>7, <2>1 DEF FecStream!Next, FecStream!Garble
  <1>9. CASE ~mixed' /\ broken
    <2>1. broken' = TRUE /\ mixed' = mixed
      BY <1>1, <1>2, <1>9
    <2>2. DOMAIN << >> = {}
      OBVIOUS
    <2>3. top + 1 \in top + 1 .. tx_seq_no
      <3>1. top \in Nat \union {UNKNOWN} /\ top <= came
        BY <1>9, <2>1 DEF FecStreamInv
      <3>2. top \in Int /\ came \in Int /\ tx_seq_no \in Int /\ came < tx_seq_no
        BY <1>2, <3>1 DEF UNKNOWN
      <3>3. top + 1 <= tx_seq_no /\ top + 1 \in Int
        BY <3>1, <3>2
      <3> QED BY <3>2, <3>3
    <2>4. FecStream!Skip
      BY <1>1, <1>4, <2>1, <2>2, <2>3 DEF FecStream!Skip
    <2> QED BY <1>7, <2>4 DEF FecStream!Next
  <1>10. CASE ~mixed' /\ ~broken
    <2>1. mixed' = mixed /\ ~mixed
      BY <1>1, <1>2, <1>10
    <2>2. top \in Nat \union {UNKNOWN} /\ top <= came
      BY <2>1 DEF FecStreamInv
    <2>3. top + 1 \in top + 1 .. tx_seq_no /\ top \in Int
      BY <1>2, <2>2 DEF UNKNOWN
    <2>4. [k \in 1 .. (top + 1) - (top + 1) |-> (top + 1) + k - 1] = << >>
      BY <2>3
    <2>5. FecStream!Receive
      BY <1>1, <1>4, <1>10, <2>1, <2>3, <2>4 DEF FecStream!Receive
    <2> QED BY <1>7, <2>5 DEF FecStream!Next
  <1> QED BY <1>2, <1>8, <1>9, <1>10

(* IFPs up to n are handed over under their own numbers and in order.      *)
InTurn(h, n) ==
  /\ h \in Seq(OwnPairs)
  /\ \A k \in DOMAIN h : h[k][1] <= n
  /\ \A j, k \in DOMAIN h : j < k => h[j][1] < h[k][1]

Has(h, n) == \E k \in DOMAIN h : h[k][1] = n

LEMMA AddPrimary ==
  ASSUME NEW p, Made(p), rx_seq_no \in Nat, NEW u, InTurn(u, p.primary - 1)
  PROVE  /\ InTurn(u \o Primary(p), p.primary)
         /\ \A n : Has(u, n) => Has(u \o Primary(p), n)
         /\ p.primary >= rx_seq_no => Has(u \o Primary(p), p.primary)
         /\ \A n : Has(u \o Primary(p), n) => n = p.primary \/ Has(u, n)
  <1> DEFINE N == p.primary
             v == Primary(p)
             h == u \o v
             a == Len(u)
  <1>1. N \in 0 .. MaxSent - 1 /\ p.seq = N /\ N \in Nat /\ N % SeqSpace = N
    <2>1. N \in 0 .. MaxSent - 1 /\ p.seq = N
      BY DEF Made
    <2>2. N \in Int /\ N \in Nat
      BY <2>1
    <2> QED BY <2>1, <2>2, SlotOf
  <1>2. << N, p.seq >> \in OwnPairs
    BY <1>1 DEF OwnPairs
  <1>3. /\ u \in Seq(OwnPairs) /\ a \in Nat /\ DOMAIN u = 1 .. a
        /\ \A k \in 1 .. a : u[k][1] <= N - 1
        /\ \A j, k \in 1 .. a : j < k => u[j][1] < u[k][1]
    BY DEF InTurn
  <1>4. \A k \in 1 .. a : u[k] \in OwnPairs /\ u[k][1] \in Int
    BY <1>3 DEF OwnPairs
  <1> HIDE DEF N, v, h, a
  <1>5. CASE ~(N >= rx_seq_no)
    <2>1. v = << >>
      BY <1>1, <1>5 DEF Primary, v, N
    <2>2. h = u
      BY <1>3, <2>1 DEF h
    <2>3. InTurn(u, N)
      <3>1. \A k \in 1 .. a : u[k][1] <= N
        BY <1>1, <1>3, <1>4
      <3> QED BY <1>3, <3>1 DEF InTurn
    <2> QED BY <1>5, <2>2, <2>3 DEF h, v, N
  <1>6. CASE N >= rx_seq_no
    <2>1. v = << << N, p.seq >> >>
      BY <1>1, <1>6 DEF Primary, v, N
    <2>2. v \in Seq(OwnPairs) /\ Len(v) = 1 /\ v[1][1] = N
      BY <1>2, <2>1
    <2>3. /\ h \in Seq(OwnPairs) /\ Len(h) = a + 1
          /\ \A k \in 1 .. a + 1 : h[k] = IF k <= a THEN u[k] ELSE v[k - a]
      <3>1. /\ u \o v \in Seq(OwnPairs) /\ Len(u \o v) = Len(u) + Len(v)
            /\ \A k \in 1 .. Len(u) + Len(v) :
                 (u \o v)[k] = IF k <= Len(u) THEN u[k] ELSE v[k - Len(u)]
        BY ONLY <1>3, <2>2, ConcatProperties
      <3> QED BY ONLY <2>2, <3>1 DEF h, a
    <2>4. DOMAIN h = 1 .. a + 1
      BY <2>3
    <2>5. /\ \A k \in 1 .. a : h[k] = u[k] /\ k \in 1 .. a + 1
          /\ h[a + 1][1] = N /\ a + 1 \in 1 .. a + 1
          /\ \A k \in 1 .. a + 1 : k = a + 1 \/ k \in 1 .. a
      <3>1. \A k \in 1 .. a : k \in 1 .. a + 1 /\ k <= a
        BY <1>3
      <3>2. a + 1 \in 1 .. a + 1 /\ ~(a + 1 <= a) /\ (a + 1) - a = 1
        BY <1>3
      <3>3. \A k \in 1 .. a + 1 : k = a + 1 \/ k \in 1 .. a
        BY <1>3
      <3> QED BY <2>2, <2>3, <3>1, <3>2, <3>3
    <2>6. \A k \in 1 .. a + 1 : h[k][1] <= N
      <3> SUFFICES ASSUME NEW k \in 1 .. a + 1 PROVE h[k][1] <= N
        OBVIOUS
      <3>1. CASE k = a + 1
        BY <1>1, <2>5, <3>1
      <3>2. CASE k \in 1 .. a
        BY <1>1, <1>3, <1>4, <2>5, <3>2
      <3> QED BY <2>5, <3>1, <3>2
    <2>7. \A j, k \in 1 .. a + 1 : j < k => h[j][1] < h[k][1]
      <3> SUFFICES ASSUME NEW j \in 1 .. a + 1, NEW k \in 1 .. a + 1, j < k
                   PROVE  h[j][1] < h[k][1]
        OBVIOUS
      <3>1. j \in 1 .. a
        BY <1>3
      <3>2. CASE k = a + 1
        <4>1. h[j] = u[j] /\ u[j][1] <= N - 1 /\ u[j][1] \in Int
          BY <1>3, <1>4, <2>5, <3>1
        <4> QED BY <1>1, <2>5, <3>2, <4>1
      <3>3. CASE k \in 1 .. a
        BY <1>3, <2>5, <3>1, <3>3
      <3> QED BY <2>5, <3>2, <3>3
    <2>8. InTurn(h, N)
      BY <2>3, <2>4, <2>6, <2>7 DEF InTurn
    <2>9. ASSUME NEW n, Has(u, n) PROVE Has(h, n)
      BY <1>3, <2>4, <2>5, <2>9 DEF Has
    <2>10. Has(h, N)
      BY <2>4, <2>5 DEF Has
    <2>11. ASSUME NEW n, Has(h, n) PROVE n = N \/ Has(u, n)
      <3>1. PICK k \in 1 .. a + 1 : h[k][1] = n
        BY <2>4, <2>11 DEF Has
      <3> QED BY <1>3, <2>5, <3>1 DEF Has
    <2> QED BY <2>8, <2>9, <2>10, <2>11 DEF h, v, N
  <1>7. N >= rx_seq_no \/ ~(N >= rx_seq_no)
    OBVIOUS
  <1> QED BY <1>5, <1>6, <1>7

(* Which IFPs a datagram that nothing is mixed by hands over: none that    *)
(* the engine could take for one of another round, each from its slot, and *)
(* from the one udptl_rx_packet expects on all that it can.                *)
HandsRightly(h, p) ==
  /\ InTurn(h, p.primary)
  /\ \A n : Has(h, n) => /\ n \in Nat /\ came' - n < Offset - 1
                         /\ Result(p).rx[n % BufSize].buf.len > 0
  /\ \A n \in Nat :
       /\ n >= rx_seq_no
       /\ \/ n = p.primary
          \/ p.mode # "fec" /\ n < p.primary /\ n >= p.primary - Count(p.primary)
          \/ /\ p.mode = "fec" /\ n < p.primary /\ n > p.primary - BufSize
             /\ n % BufSize \in Result(p).repaired
       /\ p.primary >= rx_seq_no
       => Has(h, n)

LEMMA FecHandsRightly ==
  ASSUME FecInv, NEW p \in net, FecReceive(p), ~mixed', p.mode = "fec"
  PROVE  HandsRightly(FecHanded(p, Result(p)), p)
  <1> DEFINE N  == p.primary
             st == Result(p)
             u  == Played(st, p)
             h  == FecHanded(p, st)
  <1>1. /\ Grown(st, [rx |-> Filled(p), repaired |-> {}])
        /\ Repairing(st) /\ RepairedTrue(st, N) /\ came' = N
    BY ResultIs
  <1>2. Comes(p)
    BY DEF FecReceive
  <1>3. Made(p) /\ N \in 0 .. MaxSent - 1 /\ N \in Nat /\ N \in Recent(N)
    BY <1>1, <1>2, ComesIs
  <1>4. rx_seq_no \in Nat /\ BufSize \in Nat /\ Offset \in Nat /\ BufSize < Offset
    BY Settings, SizeAssumption, RingAssumption DEF FecInv
  <1>5. Filled(p)[N % BufSize].buf.len > 0
    BY <1>2, FilledKeeps
  <1>6. N % BufSize \in Slots
    BY <1>3, SlotOf
  <1>7. st.rx[N % BufSize].buf.len > 0
    BY <1>1, <1>5, <1>6 DEF Grown
  <1>8. \A y \in st.repaired : st.rx[y].buf.len > 0
    BY <1>1 DEF RepairedTrue
  <1>9. /\ u \in Seq(OwnPairs)
        /\ \A k \in DOMAIN u : /\ u[k][1] \in Recent(N) /\ u[k][1] < N
                               /\ u[k][1] % BufSize \in st.repaired
        /\ \A j, k \in DOMAIN u : j < k => u[j][1] < u[k][1]
        /\ \A n \in Recent(N) : n < N /\ n % BufSize \in st.repaired =>
             \E k \in DOMAIN u : u[k][1] = n
    BY <1>1, <1>3, PlayedIs
  <1>10. h = u \o Primary(p)
    BY DEF FecHanded
  <1> HIDE DEF st, u, h, N
  <1>11. InTurn(u, N - 1)
    <2>1. \A k \in DOMAIN u : u[k][1] <= N - 1
      BY <1>3, <1>9 DEF Recent
    <2> QED BY <1>9, <2>1 DEF InTurn
  <1>12. /\ InTurn(h, N)
         /\ \A n : Has(u, n) => Has(h, n)
         /\ N >= rx_seq_no => Has(h, N)
         /\ \A n : Has(h, n) => n = N \/ Has(u, n)
    BY <1>3, <1>4, <1>10, <1>11, AddPrimary DEF N
  <1>13. ASSUME NEW n, Has(h, n)
         PROVE  n \in Nat /\ came' - n < Offset - 1 /\ st.rx[n % BufSize].buf.len > 0
    <2>1. CASE n = N
      <3>1. Offset > 1
        BY Settings, <1>4
      <3> QED BY <1>1, <1>3, <1>4, <1>7, <2>1, <3>1
    <2>2. CASE Has(u, n)
      <3>1. n \in Recent(N) /\ n % BufSize \in st.repaired
        BY <1>9, <2>2 DEF Has
      <3>2. n \in Nat /\ n > N - BufSize
        BY <1>3, <3>1 DEF Recent
      <3> QED BY <1>1, <1>3, <1>4, <1>8, <3>1, <3>2
    <2> QED BY <1>12, <1>13, <2>1, <2>2
  <1>14. ASSUME NEW n \in Nat, N >= rx_seq_no,
                \/ n = N
                \/ n < N /\ n > N - BufSize /\ n % BufSize \in st.repaired
         PROVE  Has(h, n)
    <2>1. CASE n = N
      BY <1>12, <1>14, <2>1
    <2>2. CASE n < N /\ n > N - BufSize /\ n % BufSize \in st.repaired
      <3>1. n \in Recent(N)
        BY <1>3, <2>2 DEF Recent
      <3>2. Has(u, n)
        BY <1>9, <2>2, <3>1 DEF Has
      <3> QED BY <1>12, <3>2
    <2> QED BY <1>14, <2>1, <2>2
  <1> QED BY <1>12, <1>13, <1>14 DEF HandsRightly, N, st, h

LEMMA RedundancyHandsRightly ==
  ASSUME FecInv, NEW p \in net, FecReceive(p), ~mixed', p.mode # "fec"
  PROVE  HandsRightly(FecHanded(p, Result(p)), p)
  <1> DEFINE N  == p.primary
             st == Result(p)
             h  == HandedBy(p)
             c  == Count(N)
  <1>1. Grown(st, [rx |-> Filled(p), repaired |-> {}])
    BY ResultIs
  <1>2. Comes(p)
    BY DEF FecReceive
  <1>3. /\ Made(p) /\ N \in 0 .. MaxSent - 1 /\ N \in Nat /\ p.seq = N
        /\ N >= came - Delay /\ came' = Latest(N, came) /\ came' \in Int /\ came \in Int
    BY <1>2, ComesIs DEF FecInv
  <1>4. /\ rx_seq_no \in Nat /\ Offset \in Nat /\ Delay \in Nat /\ Entries \in Nat
        /\ Delay + Entries + 1 < Offset
    BY Settings, SizeAssumption, BoundAssumption DEF FecInv
  <1>5. p.secondary = [i \in 1 .. c |-> N - i] /\ p.mode = "redundancy"
    BY <1>3 DEF Made
  <1>6. N \in Int /\ N < MaxSent /\ MaxSent \in Nat
    BY <1>3, Settings
  <1>7. Built(p)
    <2>1. N % SeqSpace = N
      BY <1>3, <1>6, SlotOf
    <2> QED BY <1>3, <1>5, <2>1 DEF Built
  <1>8. c \in Nat /\ c <= N /\ c <= Entries
    BY <1>7, BuiltIs
  <1>9. PICK a \in Nat : HandsOver(p, a)
    BY <1>4, <1>7, ReceiveHands
  <1>10. h \in Seq(OwnPairs)
    BY <1>3, <1>4, <1>5, RedundancyHands
  <1>11. FecHanded(p, st) = h
    BY <1>5 DEF FecHanded
  <1>12. /\ Filled(p)[N % BufSize].buf.len > 0
         /\ N > rx_seq_no => \A k \in 1 .. c :
              N - k >= rx_seq_no => Filled(p)[(N - k) % BufSize].buf.len > 0
    BY <1>2, FilledKeeps
  <1>13. \A i \in Slots : Filled(p)[i].buf.len > 0 => st.rx[i].buf.len > 0
    BY <1>1 DEF Grown
  <1>14. came' - N <= Delay
    <2> HIDE DEF N
    <2> QED BY <1>3, <1>4 DEF Latest
  <1> HIDE DEF st, h, c, N
  <1>15. CASE N >= rx_seq_no
    <2>1. /\ a \in 1 .. c + 1 /\ h = Consecutive(N - a, a)
          /\ (a = c + 1 \/ a = N - rx_seq_no + 1) /\ a <= N - rx_seq_no + 1
      BY <1>3, <1>9, <1>15 DEF HandsOver, N, h, c
    <2> DEFINE b == N - a
    <2>2. b \in Int /\ b + a = N
      BY <1>8, <1>6, <2>1
    <2>3. h = [k \in 1 .. a |-> << b + k, (b + k) % SeqSpace >>]
      BY <2>1 DEF Consecutive
    <2> HIDE DEF b
    <2>4. DOMAIN h = 1 .. a /\ \A k \in 1 .. a : h[k][1] = b + k
      BY <2>3
    <2>5. InTurn(h, N)
      <3>1. \A k \in 1 .. a : b + k <= N
        BY <2>1, <2>2, <1>6
      <3>2. \A j, k \in 1 .. a : j < k => b + j < b + k
        BY <2>2, <1>9
      <3> QED BY <1>10, <2>4, <3>1, <3>2 DEF InTurn
    <2>6. ASSUME NEW n, Has(h, n)
          PROVE  n \in Nat /\ came' - n < Offset - 1 /\ st.rx[n % BufSize].buf.len > 0
      <3>1. PICK k \in 1 .. a : n = b + k
        BY <2>4, <2>6 DEF Has
      <3> DEFINE j == N - n
      <3>2. /\ n \in Int /\ n = N - j /\ j \in 0 .. c /\ n >= rx_seq_no
            /\ n \in Nat /\ (j > 0 => N > rx_seq_no) /\ j <= Entries
        BY <1>4, <1>8, <1>6, <1>9, <2>1, <2>2, <3>1
      <3> HIDE DEF j
      <3>3. came' - n < Offset - 1
        BY <1>3, <1>4, <1>6, <1>14, <3>2
      <3>4. n % BufSize \in Slots
        BY <3>2, SlotOf
      <3>5. Filled(p)[n % BufSize].buf.len > 0
        <4>1. CASE j = 0
          <5>1. n = N
            BY <1>6, <3>2, <4>1
          <5> QED BY <1>12, <5>1
        <4>2. CASE j # 0
          <5>1. j \in 1 .. c /\ j > 0
            BY <1>8, <3>2, <4>2
          <5> QED BY <1>12, <3>2, <5>1
        <4> QED BY <4>1, <4>2
      <3> QED BY <1>13, <3>2, <3>3, <3>4, <3>5
    <2>7. ASSUME NEW n \in Nat, n >= rx_seq_no, n = N \/ (n < N /\ n >= N - c)
          PROVE  Has(h, n)
      <3> DEFINE k == n - b
      <3>1. k \in 1 .. a /\ b + k = n
        BY <1>4, <1>8, <1>6, <1>9, <2>1, <2>2, <2>7
      <3> HIDE DEF k
      <3> QED BY <2>4, <3>1 DEF Has
    <2> QED BY <1>5, <1>11, <2>5, <2>6, <2>7 DEF HandsRightly, N, st, c
  <1>16. CASE ~(N >= rx_seq_no)
    <2>1. h = << >>
      BY <1>3, <1>9, <1>16 DEF HandsOver, h, N
    <2>2. DOMAIN h = {}
      BY <2>1
    <2>3. InTurn(h, N)
      BY <1>10, <2>2 DEF InTurn
    <2>4. ASSUME NEW n PROVE ~Has(h, n)
      BY <2>2 DEF Has
    <2> QED BY <1>11, <1>16, <2>3, <2>4 DEF HandsRightly, N, st
  <1> QED BY <1>15, <1>16

(* When nothing is lost that p does not repair, all that the engine has    *)
(* not had is handed over, and no indicator with zeros behind it.          *)
LEMMA AllHanded ==
  ASSUME FecInv, FecStreamInv, NEW p \in net, FecReceive(p), ~mixed', ~broken'
  PROVE  /\ top \in Nat \union {UNKNOWN} /\ top <= p.primary
         /\ \A n \in top + 1 .. p.primary :
              /\ Has(FecHanded(p, Result(p)), n)
              /\ n \in Indicators => Result(p).rx[n % BufSize].buf.len = Size(n)
  <1> DEFINE N  == p.primary
             st == Result(p)
             h  == FecHanded(p, st)
             q  == Filled(p)
  <1>1. /\ Comes(p)
        /\ broken' = \/ broken \/ p.primary < due - 1
                      \/ \E n \in top + 1 .. p.primary - 1 : ~Repairs(p, n)
    BY DEF FecReceive
  <1>2. /\ ~broken /\ ~(N < due - 1)
        /\ \A n \in top + 1 .. N - 1 : Repairs(p, n)
    BY <1>1
  <1>3. ~mixed /\ (p.mode = "fec" => came' = N)
    BY ResultIs
  <1>4. /\ Made(p) /\ N \in 0 .. MaxSent - 1 /\ N \in Nat /\ p.seq = N /\ N < SeqSpace
    BY <1>1, ComesIs, SlotOf
  <1>5. /\ due = top + 1 /\ (due < SeqSpace => rx_seq_no = due)
        /\ top \in Nat \union {UNKNOWN}
    BY <1>2, <1>3 DEF FecStreamInv
  <1>6. top \in Int /\ top >= -1 /\ BufSize \in Nat /\ SeqSpace \in Nat
    BY <1>5, Settings, SizeAssumption DEF UNKNOWN
  <1>7. HandsRightly(h, p)
    BY FecHandsRightly, RedundancyHandsRightly
  <1>8. \A i \in Slots : q[i].buf.len > 0 => st.rx[i].buf = q[i].buf
    BY ResultIs DEF Grown
  <1>9. N % BufSize \in Slots
    BY <1>4, SlotOf
  <1> HIDE DEF N, st, h, q
  <1>10. top <= N
    BY <1>2, <1>4, <1>5, <1>6
  <1>11. ASSUME NEW n \in top + 1 .. N
        PROVE  Has(h, n) /\ (n \in Indicators => st.rx[n % BufSize].buf.len = Size(n))
    <2>1. /\ n \in Nat /\ n \in Int /\ due < SeqSpace /\ rx_seq_no = top + 1
          /\ n >= rx_seq_no /\ N >= rx_seq_no
      BY <1>4, <1>5, <1>6, <1>11
    <2>2. CASE n = N
      <3>1. Has(h, n)
        BY <1>7, <2>1, <2>2 DEF HandsRightly, N
      <3>2. q[N % BufSize].buf.len > 0 /\ q[N % BufSize].buf.len = Size(N)
        BY <1>1, FilledKeeps DEF N, q
      <3> QED BY <1>8, <1>9, <2>2, <3>1, <3>2
    <2>3. CASE n # N
      <3>1. n < N /\ n \in top + 1 .. N - 1
        BY <1>4, <1>6, <1>11, <2>1, <2>3
      <3>2. Repairs(p, n)
        BY <1>2, <3>1
      <3>3. CASE p.mode # "fec"
        <4>1. p.fec = << >> /\ p.secondary = [i \in 1 .. Count(N) |-> N - i]
          BY <1>4, <3>3 DEF Made, N
        <4>2. DOMAIN p.fec = {}
          BY <4>1
        <4>3. PICK k \in DOMAIN p.secondary : p.secondary[k] = n
          BY <3>2, <4>2 DEF Repairs
        <4>4. k \in 1 .. Count(N) /\ n = N - k
          BY <4>1, <4>3
        <4>5. Count(N) \in Nat
          BY <1>4, CountBound
        <4>6. n >= N - Count(N)
          BY <1>4, <4>4, <4>5
        <4>7. Has(h, n)
          BY <1>7, <2>1, <3>1, <3>3, <4>6 DEF HandsRightly, N
        <4>8. N > rx_seq_no /\ N - k >= rx_seq_no
          BY <1>4, <1>6, <2>1, <3>1, <4>4
        <4>9. q[n % BufSize].buf.len > 0 /\ q[n % BufSize].buf.len = Size(n)
          BY <1>1, <3>3, <4>4, <4>8, FilledKeeps DEF N, q
        <4>10. n % BufSize \in Slots
          BY <2>1, SlotOf
        <4> QED BY <1>8, <4>7, <4>9, <4>10
      <3>4. CASE p.mode = "fec"
        <4>1. /\ p.secondary = << >> /\ Len(p.fec) = WindUpEntries(N)
              /\ DOMAIN p.fec = 1 .. Len(p.fec)
              /\ \A m \in 1 .. Len(p.fec) : p.fec[m].of = Members(N, m - 1)
          BY <1>4, <3>4 DEF Made, N
        <4>2. DOMAIN p.secondary = {}
          BY <4>1
        <4>3. PICK m \in 1 .. Len(p.fec) :
                /\ Members(N, m - 1) \ held = {n}
                /\ n \in Indicators => p.fec[m].len = Size(n)
          BY <3>2, <4>1, <4>2 DEF Repairs
        <4>4. WindUpEntries(N) \in Nat /\ Reach(N) < BufSize /\ Reach(N) \in Nat
          BY <1>4, ReachIs
        <4>5. m - 1 \in 0 .. WindUpEntries(N) - 1
          BY <4>1, <4>3, <4>4
        <4>6. ASSUME NEW k \in Members(N, m - 1)
              PROVE  k \in Nat /\ k > N - BufSize /\ k < N
          <5>1. PICK i \in 1 .. WindUpSpan(N) : k = Member(N, m - 1, i)
            BY <4>6 DEF Members
          <5>2. k \in Nat /\ k >= N - Reach(N) /\ k < N
            BY <1>4, <4>5, <5>1, MemberIs
          <5> QED BY <1>4, <1>6, <4>4, <5>2
        <4>7. n \in Members(N, m - 1) /\ n > N - BufSize
          BY <4>3, <4>6
        <4>8. /\ q \in RxTypes /\ FullRows(q[N % BufSize], N)
              /\ \A i \in Slots : q[i].buf = Stored(p)[i].buf
              /\ q[N % BufSize].fec[m - 1] = p.fec[m]
          BY <1>1, <3>4, FilledTrue, FilledKeeps DEF q, N
        <4>9. n % BufSize \in Slots /\ N % BufSize \in Slots
          BY <1>4, <2>1, SlotOf
        <4>10. ~(q[n % BufSize].buf.len > 0)
          <5>1. n % BufSize # N % BufSize
            <6>1. N \in Int /\ n < N /\ N - n < BufSize /\ n - N < BufSize /\ n # N
                  /\ BufSize > 0
              BY <1>4, <1>6, <2>1, <3>1, <4>7
            <6> QED BY ONLY <1>6, <2>1, <6>1, RemainderNear
          <5>2. n \in rx_seq_no .. N - 1
            BY <2>1, <3>1, <1>4, <1>6
          <5>3. Stored(p)[n % BufSize].buf.len = -1
            BY <1>4, <4>9, <5>1, <5>2, StoredIs DEF FecInv, N
          <5> QED BY <4>8, <4>9, <5>3
        <4>11. ASSUME NEW k \in Members(N, m - 1), k # n
               PROVE  q[k % BufSize].buf.len > 0
          <5>1. k \in held /\ k > came' - BufSize
            BY <1>3, <3>4, <4>3, <4>6, <4>11
          <5>2. Stored(p)[k % BufSize].buf.len > 0
            BY <1>1, <1>2, <1>3, <2>1, <5>1, HeldStays
          <5>3. k % BufSize \in Slots
            BY <4>6, <4>11, SlotOf
          <5> QED BY <4>8, <5>2, <5>3
        <4>12. /\ n % BufSize \in Hunt(q, p).repaired
               /\ Hunt(q, p).rx[n % BufSize].buf.len = q[N % BufSize].fec[m - 1].len
          BY <1>4, <3>4, <4>5, <4>7, <4>8, <4>10, <4>11, HuntRepairs DEF N
        <4>13. n % BufSize \in st.repaired /\ st.rx[n % BufSize].buf.len = p.fec[m].len
          BY <3>4, <4>8, <4>12 DEF st, Result, q
        <4>14. Has(h, n)
          BY <1>7, <2>1, <3>1, <3>4, <4>7, <4>13 DEF HandsRightly, N, st
        <4> QED BY <4>3, <4>13, <4>14
      <3> QED BY <3>3, <3>4
    <2> QED BY <2>2, <2>3
  <1> QED BY <1>5, <1>10, <1>11 DEF N, h, st

(* What the engine has processed of a datagram by which nothing is mixed,  *)
(* and nothing is missing.                                                 *)
LEMMA ReceiveRises ==
  ASSUME FecInv, FecStreamInv, NEW p \in net, FecReceive(p), ~mixed'
  PROVE  LET h == FecHanded(p, Result(p))
         IN  /\ HandsRightly(h, p)
             /\ handed' = h /\ taken' = Given(h).taken /\ top' = TopOf(Given(h))
             /\ rx_expected_seq_no' = Given(h).expected
             /\ Rising(Given(h), came')
             /\ ~broken' => Upto(Given(h), p.primary)
  <1> DEFINE N == p.primary
             h == FecHanded(p, Result(p))
  <1>1. Comes(p) /\ Process(h) /\ ~mixed
    BY ResultIs DEF FecReceive
  <1>2. HandsRightly(h, p)
    BY FecHandsRightly, RedundancyHandsRightly
  <1>3. /\ handed' = h /\ taken' = Given(h).taken /\ top' = TopOf(Given(h))
        /\ rx_expected_seq_no' = Given(h).expected
    BY <1>1 DEF Process, TopOf
  <1>4. /\ N \in Nat /\ came' = Latest(N, came) /\ came' \in Int /\ came' >= N /\ came \in Int
    BY <1>1, ComesIs DEF FecInv
  <1>5. top \in Nat \union {UNKNOWN} /\ top <= came /\ Synced(rx_expected_seq_no, top)
    BY <1>1 DEF FecStreamInv
  <1>6. top \in Int /\ Offset \in Nat
    BY <1>5, SizeAssumption DEF UNKNOWN
  <1>7. top <= came'
    <2> HIDE DEF N
    <2> QED BY <1>4, <1>5, <1>6 DEF Latest
  <1>8. ~broken' => /\ top <= N
                    /\ \A n \in top + 1 .. N : Has(h, n)
    BY AllHanded
  <1> HIDE DEF h, N
  <1>9. /\ h \in Seq(OwnPairs)
        /\ \A k \in DOMAIN h : /\ h[k][1] <= N /\ h[k][1] \in Nat
                               /\ came' - h[k][1] < Offset - 1
        /\ \A j, k \in DOMAIN h : j < k => h[j][1] < h[k][1]
    BY <1>2 DEF HandsRightly, InTurn, Has, N
  <1>10. Rising(Given(h), came')
    <2>1. \A k \in DOMAIN h : h[k][1] <= came' /\ came' - h[k][1] < Offset - 1
      BY <1>4, <1>9
    <2> QED BY <1>4, <1>5, <1>7, <1>9, <2>1, EngineRises
  <1>11. ASSUME ~broken' PROVE Upto(Given(h), N)
    <2>1. \A k \in DOMAIN h : h[k][1] <= N /\ top - h[k][1] < Offset - 1
      BY <1>4, <1>6, <1>7, <1>9
    <2>2. top <= N /\ \A n \in top + 1 .. N : \E k \in DOMAIN h : h[k][1] = n
      BY <1>8, <1>11 DEF Has
    <2> QED BY <1>4, <1>5, <1>9, <2>1, <2>2, EngineFills
  <1> QED BY <1>2, <1>3, <1>10, <1>11 DEF h, N

LEMMA UptoTop ==
  ASSUME top \in Nat \union {UNKNOWN}, NEW N \in Nat, top <= N, NEW st, Upto(st, N)
  PROVE  TopOf(st) = N
  <1>1. top \in Int
    BY DEF UNKNOWN
  <1> DEFINE d == N - top
  <1>2. d \in Nat /\ top + d = N
    BY <1>1
  <1> HIDE DEF d
  <1>3. st.taken = [k \in 1 .. d |-> top + k]
    BY DEF Upto, d
  <1>4. Len(st.taken) = d /\ (st.taken = << >> <=> d = 0) /\ (d # 0 => d \in 1 .. d)
    BY <1>1, <1>2, <1>3
  <1>5. CASE d = 0
    BY <1>1, <1>2, <1>4, <1>5 DEF TopOf
  <1>6. CASE d # 0
    <2>1. Last(st.taken) = top + d
      BY <1>3, <1>4, <1>6 DEF Last
    <2> QED BY <1>2, <1>4, <1>6, <2>1 DEF TopOf
  <1> QED BY <1>5, <1>6

LEMMA ReceiveFecInv ==
  ASSUME FecInv, FecStreamInv, NEW p \in net, FecReceive(p)
  PROVE  FecStreamInv'
  <1> DEFINE N  == p.primary
             h  == FecHanded(p, Result(p))
  <1>1. /\ Comes(p) /\ rx_seq_no' = After(p.seq) /\ due' = p.primary + 1
        /\ held' = { n \in held \union { handed'[k][1] : k \in DOMAIN handed' } :
                       n > p.primary - BufSize }
        /\ broken' = \/ broken \/ p.primary < due - 1
                      \/ \E n \in top + 1 .. p.primary - 1 : ~Repairs(p, n)
    BY DEF FecReceive
  <1>2. /\ N \in 0 .. MaxSent - 1 /\ p.seq = N /\ N \in Nat /\ N < SeqSpace
        /\ came' \in Int /\ came' >= N
    BY <1>1, ComesIs, SlotOf
  <1>3. ASSUME ~mixed'
        PROVE  /\ top' \in Nat \union {UNKNOWN} /\ top' <= came'
               /\ Synced(rx_expected_seq_no', top')
    <2>1. /\ top' = TopOf(Given(h)) /\ rx_expected_seq_no' = Given(h).expected
          /\ Rising(Given(h), came')
      BY <1>3, ReceiveRises
    <2>2. top \in Nat \union {UNKNOWN}
      <3>1. ~mixed
        BY <1>3, ResultIs
      <3> QED BY <3>1 DEF FecStreamInv
    <2> DEFINE st == Given(h)
    <2> HIDE DEF st, h
    <2>3. st.taken \in Seq(Nat) /\ Synced(st.expected, TopOf(st)) /\ TopOf(st) <= came'
      BY <2>1 DEF Rising, st
    <2>4. TopOf(st) \in Nat \union {UNKNOWN}
      <3>1. CASE st.taken = << >>
        BY <2>2, <3>1 DEF TopOf
      <3>2. CASE st.taken # << >>
        <4>1. Len(st.taken) \in 1 .. Len(st.taken) /\ DOMAIN st.taken = 1 .. Len(st.taken)
          BY <2>3, <3>2
        <4>2. st.taken[Len(st.taken)] \in Nat
          BY <2>3, <4>1
        <4> QED BY <3>2, <4>2 DEF TopOf, Last
      <3> QED BY <3>1, <3>2
    <2> QED BY <2>1, <2>3, <2>4 DEF st
  <1>4. ASSUME ~mixed', ~broken'
        PROVE  /\ due' = top' + 1
               /\ due' < SeqSpace => rx_seq_no' = due'
               /\ \A n \in held' :
                    /\ n \in Nat /\ n <= top'
                    /\ n > came' - BufSize /\ due' < SeqSpace
                         => rx'[n % BufSize].buf.len > 0
    <2>1. /\ rx' = Result(p).rx /\ ~mixed
          /\ Grown(Result(p), [rx |-> Filled(p), repaired |-> {}])
      BY <1>4, ResultIs
    <2>2. ~broken
      BY <1>1, <1>4
    <2>3. /\ top \in Nat \union {UNKNOWN} /\ due = top + 1
          /\ \A n \in held : n \in Nat /\ n <= top
      BY <2>1, <2>2 DEF FecStreamInv
    <2>4. top \in Int
      BY <2>3 DEF UNKNOWN
    <2>5. /\ HandsRightly(h, p) /\ handed' = h /\ top' = TopOf(Given(h))
          /\ Upto(Given(h), N)
      BY <1>4, ReceiveRises
    <2>6. top <= N
      BY <1>4, AllHanded
    <2>7. top' = N
      BY <1>2, <2>3, <2>5, <2>6, UptoTop
    <2>8. ASSUME due' < SeqSpace PROVE rx_seq_no' = due'
      <3> DEFINE d == N + 1
      <3>1. due' = d /\ rx_seq_no' = d % SeqSpace
        BY <1>1, <1>2 DEF After
      <3>2. d \in Nat /\ d < SeqSpace
        BY <1>2, <2>8, <3>1
      <3> HIDE DEF d
      <3>3. SeqSpace \in Nat /\ SeqSpace > 0 /\ d \in Int
        BY <1>2, <3>2, SizeAssumption
      <3>4. (SeqSpace * 0 + d) % SeqSpace = d /\ SeqSpace * 0 + d = d
        BY <3>2, <3>3, RemainderOf
      <3> QED BY <3>1, <3>4
    <2> HIDE DEF h
    <2>9. ASSUME NEW n \in held'
          PROVE  /\ n \in Nat /\ n <= top'
                 /\ n > came' - BufSize /\ due' < SeqSpace => rx'[n % BufSize].buf.len > 0
      <3>1. n \in held \/ Has(h, n)
        BY <1>1, <2>5, <2>9 DEF Has
      <3>2. CASE Has(h, n)
        <4>1. n \in Nat /\ n <= N /\ Result(p).rx[n % BufSize].buf.len > 0
          BY <2>5, <3>2 DEF HandsRightly, InTurn, Has
        <4> QED BY <2>1, <2>7, <4>1
      <3>3. CASE n \in held
        <4>1. n \in Nat /\ n <= N
          BY <1>2, <2>3, <2>4, <2>6, <3>3
        <4>2. ASSUME n > came' - BufSize, due' < SeqSpace
              PROVE  rx'[n % BufSize].buf.len > 0
          <5>1. due < SeqSpace
            BY <1>1, <1>2, <2>3, <2>4, <2>6, <4>2, SizeAssumption
          <5>2. Stored(p)[n % BufSize].buf.len > 0
            BY <1>1, <2>1, <2>2, <3>3, <4>2, <5>1, HeldStays
          <5>3. n % BufSize \in Slots
            BY <4>1, SlotOf
          <5>4. Filled(p)[n % BufSize].buf.len > 0
            BY <1>1, <5>2, <5>3, FilledKeeps
          <5> QED BY <2>1, <5>3, <5>4 DEF Grown
        <4> QED BY <2>7, <4>1, <4>2
      <3> QED BY <3>1, <3>2, <3>3
    <2> QED BY <1>1, <2>7, <2>8, <2>9
  <1> QED BY <1>3, <1>4 DEF FecStreamInv, Synced

\* What the engine has processed is later than all before, up to the latest.
LEMMA RisingOrder ==
  ASSUME NEW a \in Int, NEW st, Rising(st, a), top \in Int
  PROVE  LET q == st.taken
         IN  /\ Len(q) \in Nat /\ q \in [1 .. Len(q) -> Int] /\ DOMAIN q = 1 .. Len(q)
             /\ \A i, j \in 1 .. Len(q) : i < j => q[i] < q[j]
             /\ \A i \in 1 .. Len(q) : top < q[i] /\ q[i] <= TopOf(st)
             /\ top <= TopOf(st) /\ TopOf(st) <= a /\ TopOf(st) \in Int
  <1> DEFINE q == st.taken
             c == Len(q)
  <1>1. q \in Seq(Nat) /\ TopOf(st) <= a
    BY DEF Rising
  <1>2. c \in Nat /\ q \in [1 .. c -> Int] /\ DOMAIN q = 1 .. c
    BY <1>1
  <1>3. \A k \in 1 .. c : q[k] > (IF k = 1 THEN top ELSE q[k - 1])
    BY <1>2 DEF Rising
  <1>4. TopOf(st) = IF c = 0 THEN top ELSE q[c]
    BY <1>1 DEF TopOf, Last
  <1> HIDE DEF q, c
  <1>5. ASSUME NEW i \in 1 .. c PROVE \A j \in 1 .. c : i < j => q[i] < q[j]
    <2> DEFINE D == { j \in 1 .. c : i < j /\ ~(q[i] < q[j]) }
    <2> SUFFICES ASSUME D # {} PROVE FALSE
      OBVIOUS
    <2>1. D \in SUBSET Nat
      OBVIOUS
    <2> HIDE DEF D
    <2>2. PICK j \in D : \A k \in D : j <= k
      BY <2>1, LeastMember
    <2>3. j \in 1 .. c /\ i < j /\ ~(q[i] < q[j])
      BY <2>2 DEF D
    <2>4. j - 1 \in 1 .. c /\ j # 1 /\ ~(j <= j - 1) /\ (i < j - 1 \/ i = j - 1)
      BY <1>2, <2>3
    <2>5. q[j] > q[j - 1] /\ q[j] \in Int /\ q[j - 1] \in Int /\ q[i] \in Int
      BY <1>2, <1>3, <2>3, <2>4
    <2>6. ~(q[i] < q[j - 1])
      BY <2>3, <2>5
    <2>7. i < j - 1
      BY <2>3, <2>4, <2>5
    <2>8. j - 1 \in D
      BY <2>4, <2>6, <2>7 DEF D
    <2> QED BY <2>2, <2>4, <2>8
  <1>6. ASSUME NEW i \in 1 .. c PROVE top < q[i] /\ q[i] <= TopOf(st)
    <2>1. 1 \in 1 .. c /\ c \in 1 .. c /\ c # 0 /\ (i = 1 \/ 1 < i) /\ (i = c \/ i < c)
      BY <1>2
    <2>2. top < q[1] /\ q[1] \in Int /\ q[c] \in Int /\ q[i] \in Int
      BY <1>2, <1>3, <2>1
    <2> QED BY <1>4, <1>5, <2>1, <2>2
  <1>7. top <= TopOf(st) /\ TopOf(st) \in Int
    <2>1. CASE c = 0
      BY <1>4, <2>1
    <2>2. CASE c # 0
      <3>1. c \in 1 .. c
        BY <1>2, <2>2
      <3>2. top < q[c] /\ q[c] \in Int
        BY <1>2, <1>6, <3>1
      <3> QED BY <1>4, <2>2, <3>2
    <2> QED BY <2>1, <2>2
  <1> QED BY <1>1, <1>2, <1>5, <1>6, <1>7 DEF q, c

LEMMA ReceiveFecStream ==
  ASSUME FecInv, FecStreamInv, NEW p \in net, FecReceive(p)
  PROVE  FecStream!Next
  <1> DEFINE N  == p.primary
             st == Given(FecHanded(p, Result(p)))
  <1>1. /\ Comes(p) /\ tx_seq_no' = tx_seq_no
        /\ mixed' = (mixed \/ (p.mode = "fec" /\ p.primary < came))
        /\ broken' = \/ broken \/ p.primary < due - 1
                      \/ \E n \in top + 1 .. p.primary - 1 : ~Repairs(p, n)
    BY DEF FecReceive, txVars
  <1>2. N \in Nat /\ came' \in Int /\ came' < tx_seq_no /\ came' >= N /\ tx_seq_no \in Nat
    BY <1>1, ComesIs DEF FecInv
  <1>3. mixed' \in BOOLEAN /\ mixed \in BOOLEAN /\ broken \in BOOLEAN
    BY <1>1 DEF FecInv
  <1>4. broken' \in BOOLEAN
    BY ReceiveFec DEF FecInv
  <1>5. CASE mixed'
    <2>1. mixed' = TRUE
      BY <1>3, <1>5
    <2> QED BY <1>1, <2>1 DEF FecStream!Next, FecStream!Garble
  <1>6. ASSUME ~mixed'
        PROVE  /\ mixed' = mixed /\ top \in Nat \union {UNKNOWN}
               /\ taken' = st.taken /\ top' = TopOf(st)
               /\ Rising(st, came') /\ rx' = Result(p).rx
               /\ ~broken' =>
                    /\ Upto(st, N) /\ top <= N
                    /\ \A n \in top + 1 .. N :
                         n \in Indicators => Result(p).rx[n % BufSize].buf.len = Size(n)
    <2>1. ~mixed
      BY <1>6, ResultIs
    <2>2. top \in Nat \union {UNKNOWN}
      BY <2>1 DEF FecStreamInv
    <2>3. ~broken' =>
            /\ top <= N
            /\ \A n \in top + 1 .. N :
                 n \in Indicators => Result(p).rx[n % BufSize].buf.len = Size(n)
      BY <1>6, AllHanded
    <2>4. mixed' = mixed
      BY <1>3, <1>6, <2>1
    <2>5. /\ taken' = st.taken /\ top' = TopOf(st)
          /\ Rising(st, came') /\ (~broken' => Upto(st, N))
      BY <1>6, ReceiveRises
    <2>6. rx' = Result(p).rx
      BY ResultIs
    <2> QED BY <2>2, <2>3, <2>4, <2>5, <2>6
  <1> HIDE DEF st, N
  <1>7. CASE ~mixed' /\ broken'
    <2>1. broken' = TRUE
      BY <1>4, <1>7
    <2>2. top \in Int /\ st.taken \in Seq(Nat)
      BY <1>6, <1>7 DEF Rising, UNKNOWN
    <2> DEFINE q == st.taken
               c == Len(q)
    <2>3. /\ c \in Nat /\ q \in [1 .. c -> Int] /\ DOMAIN q = 1 .. c
          /\ \A i, j \in 1 .. c : i < j => q[i] < q[j]
          /\ \A i \in 1 .. c : top < q[i] /\ q[i] <= top'
          /\ top <= top' /\ top' <= came' /\ top' \in Int
      BY <1>2, <1>6, <1>7, <2>2, RisingOrder
    <2> HIDE DEF q, c
    <2>4. Whole' \in SUBSET (1 .. c) /\ taken' = q
      <3>1. taken' = q
        BY <1>6, <1>7 DEF q
      <3> QED BY <2>3, <3>1 DEF Whole
    <2> DEFINE v == Understood'
    <2>5. v = Picked(q, Whole')
      BY <2>4, UnderstoodIs
    <2> HIDE DEF v
    <2>6. ASSUME NEW k \in DOMAIN v
          PROVE  v[k] \in (IF k = 1 THEN top + 1 ELSE v[k - 1] + 1) .. (top' + 1) - 1
      <3>1. v[k] \in (IF k = 1 THEN top + 1 ELSE v[k - 1] + 1) .. top'
        BY <2>2, <2>3, <2>4, <2>5, <2>6, PickedRises
      <3> DEFINE d == top'
      <3>2. d \in Int
        BY <2>3
      <3> HIDE DEF d
      <3>3. (d + 1) - 1 = d
        BY <3>2
      <3>4. (top' + 1) - 1 = top'
        BY <3>3 DEF d
      <3> QED BY <3>1, <3>4
    <2>7. top' + 1 \in top + 1 .. tx_seq_no
      <3> DEFINE d == top'
                 e == came'
      <3>1. d \in Int /\ top <= d /\ d <= e
        BY <2>3
      <3>2. e \in Int /\ e < tx_seq_no /\ tx_seq_no \in Int /\ top \in Int
        BY <1>2, <2>2 DEF UNKNOWN
      <3> HIDE DEF d, e
      <3>3. d + 1 \in top + 1 .. tx_seq_no
        BY <3>1, <3>2
      <3> QED BY <3>3 DEF d
    <2>8. FecStream!Skip
      BY <1>1, <1>6, <1>7, <2>1, <2>6, <2>7 DEF FecStream!Skip, v
    <2> QED BY <2>8 DEF FecStream!Next
  <1>8. CASE ~mixed' /\ ~broken'
    <2>1. broken' = broken /\ ~broken
      BY <1>1, <1>3, <1>4, <1>8
    <2>2. top \in Int /\ top <= N
      BY <1>6, <1>8 DEF UNKNOWN
    <2>3. top' = N
      BY <1>2, <1>6, <1>8, UptoTop
    <2>4. top' + 1 \in top + 1 .. tx_seq_no
      BY <1>2, <2>2, <2>3
    <2>5. Understood' = [k \in 1 .. (top' + 1) - (top + 1) |-> (top + 1) + k - 1]
      <3>1. taken' = [k \in 1 .. N - top |-> top + k]
        BY <1>6, <1>8 DEF Upto
      <3>2. (top' + 1) - (top + 1) = N - top
        BY <1>2, <2>2, <2>3
      <3>3. \A k \in 1 .. N - top : top + k = (top + 1) + k - 1
        BY <2>2
      <3> DEFINE c == N - top
                 q == taken'
      <3>4. c \in Nat /\ q = [k \in 1 .. c |-> top + k]
        BY <1>2, <2>2, <3>1
      <3> HIDE DEF c, q
      <3>5. ASSUME NEW k \in 1 .. c PROVE Intact(taken[k])'
        <4> DEFINE n == top + k
        <4>1. q[k] = n
          BY <3>4, <3>5
        <4>2. n \in top + 1 .. N /\ n \in Int
          BY <1>2, <2>2, <3>4, <3>5 DEF c
        <4> HIDE DEF n
        <4>3. n \in Indicators => rx'[n % BufSize].buf.len = Size(n)
          BY <1>6, <1>8, <4>2
        <4>4. Entry(n) = n % BufSize
          BY <4>2, SlotOf
        <4> QED BY <4>1, <4>3, <4>4 DEF Intact, q
      <3>6. Whole' = 1 .. c
        BY <3>4, <3>5 DEF Whole, q
      <3>7. q = [k \in 1 .. c |-> q[k]]
        BY <3>4
      <3>8. Understood' = q
        BY <3>4, <3>6, <3>7, PickedAll, UnderstoodIs DEF q
      <3>9. Understood' = [k \in 1 .. N - top |-> top + k]
        BY <3>1, <3>8 DEF q
      <3> QED BY ONLY <3>2, <3>3, <3>9
    <2>6. FecStream!Receive
      BY <1>1, <1>6, <1>8, <2>1, <2>4, <2>5 DEF FecStream!Receive
    <2> QED BY <2>6 DEF FecStream!Next
  <1> QED BY <1>3, <1>4, <1>5, <1>7, <1>8

(* The engine understands the sender's packets in order, and without a gap *)
(* as long as each one lost is a secondary, or the only one lost of a row  *)
(* of FEC, of the next datagram that comes (src/src/udptl.c:313).  An      *)
(* indicator that is repaired at the length of a longer packet of its row  *)
(* (src/src/udptl.c:331) counts as lost.                                   *)
THEOREM StreamOfFec == FecSpec => FecImplementsIfpStream
  <1>1. FecInit => FecStreamInv /\ FecStream!Init
    BY InitFecStream
  <1>2. /\ FecInv /\ FecStreamInv /\ [FecNext]_<< vars, fecVars >>
        => FecStreamInv' /\ [FecStream!Next]_(FecStream!vars)
    <2> SUFFICES ASSUME FecInv, FecStreamInv, [FecNext]_<< vars, fecVars >>
                 PROVE  FecStreamInv' /\ [FecStream!Next]_(FecStream!vars)
      OBVIOUS
    <2>1. CASE FecSend
      BY <2>1, SendFecStream DEF FecStream!Next
    <2>2. CASE FecArrive
      <3>1. PICK p \in net : FecReceive(p) \/ Refused(p)
        BY <2>2 DEF FecArrive
      <3>2. CASE FecReceive(p)
        BY <3>2, ReceiveFecInv, ReceiveFecStream
      <3>3. CASE Refused(p)
        BY <3>3, RefusedFecStream
      <3> QED BY <3>1, <3>2, <3>3
    <2>3. CASE UNCHANGED << vars, fecVars >>
      <3>1. /\ rx_expected_seq_no' = rx_expected_seq_no /\ rx_seq_no' = rx_seq_no
            /\ top' = top /\ due' = due /\ taken' = taken /\ rx' = rx /\ held' = held
            /\ broken' = broken /\ came' = came /\ mixed' = mixed
            /\ tx_seq_no' = tx_seq_no
        BY <2>3 DEF vars, fecVars, txVars, rxVars, histVars
      <3>2. Understood' = Understood
        BY <3>1 DEF Understood, Intact
      <3> QED BY <3>1, <3>2 DEF FecStreamInv, Synced, FecStream!vars
    <2> QED BY <2>1, <2>2, <2>3 DEF FecNext
  <1> QED BY <1>1, <1>2, FecInvariance, PTL DEF FecSpec, FecImplementsIfpStream, FecStream!Spec

=============================================================================
