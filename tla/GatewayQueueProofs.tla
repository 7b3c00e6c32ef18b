------------------------- MODULE GatewayQueueProofs -------------------------
(***************************************************************************)
(* Proofs about the queue between the link and the modems, whatever is     *)
(* lost and however the two threads meet: that the pieces of the frames    *)
(* leave in order, that a frame leaves through the modem it was meant for, *)
(* and that its FCS tells what became of it.                               *)
(***************************************************************************)
EXTENDS GatewayProofs

-----------------------------------------------------------------------------
(* The ring, seen from out: how far a buffer is behind it.                 *)

Off(b, o) == (b - o) % QLen

LEMMA OffIs ==
  ASSUME NEW b \in Bufs, NEW o \in Bufs
  PROVE  /\ Off(b, o) = IF b >= o THEN b - o ELSE b - o + QLen
         /\ Off(b, o) \in 0 .. QLen - 1 /\ Off(b, o) \in Int
         /\ Off(b, o) = 0 <=> b = o
         /\ QLen \in Nat /\ QLen > 2
  BY QueueAssumption DEF Bufs, Off

LEMMA NxtIs ==
  ASSUME NEW b \in Bufs
  PROVE  Nxt(b) \in Bufs /\ Nxt(b) = (IF b = QLen - 1 THEN 0 ELSE b + 1) /\ Nxt(b) # b
  BY QueueAssumption DEF Bufs, Nxt

LEMMA OffOne ==
  ASSUME NEW b \in Bufs, NEW c \in Bufs, NEW o \in Bufs
  PROVE  /\ Off(b, o) = Off(c, o) => b = c
         /\ Off(Nxt(b), o) = IF Off(b, o) = QLen - 1 THEN 0 ELSE Off(b, o) + 1
         /\ Off(b, Nxt(o)) = IF b = o THEN QLen - 1 ELSE Off(b, o) - 1
  <1>1. QLen \in Nat /\ QLen > 2 /\ b \in 0 .. QLen - 1 /\ c \in 0 .. QLen - 1 /\ o \in 0 .. QLen - 1
    BY QueueAssumption DEF Bufs
  <1>2. /\ Off(b, o) = IF b >= o THEN b - o ELSE b - o + QLen
        /\ Off(c, o) = IF c >= o THEN c - o ELSE c - o + QLen
        /\ Off(Nxt(b), o) = IF Nxt(b) >= o THEN Nxt(b) - o ELSE Nxt(b) - o + QLen
        /\ Off(b, Nxt(o)) = IF b >= Nxt(o) THEN b - Nxt(o) ELSE b - Nxt(o) + QLen
    BY OffIs, NxtIs
  <1>3. Nxt(b) = (IF b = QLen - 1 THEN 0 ELSE b + 1) /\ Nxt(o) = (IF o = QLen - 1 THEN 0 ELSE o + 1)
    BY NxtIs
  <1>4. Off(b, o) = Off(c, o) => b = c
    BY ONLY <1>1, <1>2
  <1>5. Off(Nxt(b), o) = IF Off(b, o) = QLen - 1 THEN 0 ELSE Off(b, o) + 1
    BY ONLY <1>1, <1>2, <1>3
  <1>6. Off(b, Nxt(o)) = IF b = o THEN QLen - 1 ELSE Off(b, o) - 1
    BY ONLY <1>1, <1>2, <1>3
  <1> QED BY <1>4, <1>5, <1>6

-----------------------------------------------------------------------------
(* What the operators on the queue change.                                 *)

LEMMA NoneIs ==
  /\ NONE \notin { "hdlc", "non_ecm", "fsk", "fast", "silence", "v21", "ecm", "tcf", "image",
                   "v21_preamble", "training", "no_signal" }
  /\ NONE \notin BOOLEAN
  /\ \A i \in Indicators : Ind(i) # NONE /\ IsInd(Ind(i)) /\ ~IsData(Ind(i))
  /\ \A d \in DataTypes : Data(d) # NONE /\ IsData(Data(d)) /\ ~IsInd(Data(d))
  /\ ~IsInd(NONE) /\ ~IsData(NONE)
  BY NoneAssumption DEF Indicators, DataTypes, Ind, Data, IsInd, IsData

LEMMA FieldsOf ==
  ASSUME NEW h, Queue(h)
  PROVE  /\ h.in \in Bufs /\ h.out \in Bufs /\ h.tx \in TxTypes
         /\ h.buf \in [Bufs -> BufTypes]
         /\ h.tx.pieces \in Seq(Pieces)
         /\ \A b \in Bufs : /\ h.buf[b] \in BufTypes /\ h.buf[b].pieces \in Seq(Pieces)
                            /\ h.buf[b].flags \subseteq Flags /\ h.buf[b].contents \in Contents
                            /\ Len(h.buf[b].pieces) <= MaxLen
  BY QueueIs DEF Frames, Sized, BufTypes

Noted(s) == [s EXCEPT !.flags = @ \union { "MISSING_DATA" }]

LEMMA RxMissingIs ==
  ASSUME NEW h, Queue(h)
  PROVE  RxMissing(h) = [h EXCEPT !.buf = [h.buf EXCEPT ![h.in] = Noted(h.buf[h.in])]]
  BY Zenon DEF RxMissing, Noted

(* What a packet that came leaves in the queue.                            *)
SeenAs(h, g, missing) ==
  /\ g.buf = IF missing THEN [h.buf EXCEPT ![h.in] = Noted(h.buf[h.in])] ELSE h.buf
  /\ g.in = h.in /\ g.out = h.out /\ g.tx = h.tx
  /\ g.current_rx_indicator = h.current_rx_indicator

LEMMA SeenIs ==
  ASSUME Queue(hdlc), NEW p, NEW c
  PROVE  /\ SeenAs(hdlc, Seen(p), far.gap) /\ Seen(p).last = p
         /\ Seen(p).field_class = hdlc.field_class
         /\ SeenAs(hdlc, [Seen(p) EXCEPT !.field_class = c], far.gap)
         /\ [Seen(p) EXCEPT !.field_class = c].last = p
         /\ [Seen(p) EXCEPT !.field_class = c].field_class = c
  <1> DEFINE B == IF far.gap THEN [hdlc.buf EXCEPT ![hdlc.in] = Noted(hdlc.buf[hdlc.in])]
                  ELSE hdlc.buf
             h == IF far.gap THEN RxMissing(hdlc) ELSE hdlc
  <1>1. h = [hdlc EXCEPT !.buf = B]
    <2>1. CASE far.gap
      BY <2>1, RxMissingIs
    <2>2. CASE ~far.gap
      <3>1. hdlc = [hdlc EXCEPT !.buf = hdlc.buf]
        BY DEF Queue, HdlcTypes
      <3> QED BY <2>2, <3>1
    <2> QED BY <2>1, <2>2
  <1>2. Seen(p) = [h EXCEPT !.last = p]
    BY DEF Seen
  <1>3. B = IF far.gap THEN [hdlc.buf EXCEPT ![hdlc.in] = Noted(hdlc.buf[hdlc.in])]
                  ELSE hdlc.buf
    OBVIOUS
  <1> HIDE DEF h, B
  <1>4. Seen(p) = [hdlc EXCEPT !.buf = B, !.last = p]
    BY <1>1, <1>2 DEF Queue, HdlcTypes
  <1>5. hdlc \in HdlcTypes
    BY DEF Queue
  <1>6. /\ Seen(p).buf = B /\ Seen(p).in = hdlc.in /\ Seen(p).out = hdlc.out
        /\ Seen(p).tx = hdlc.tx /\ Seen(p).current_rx_indicator = hdlc.current_rx_indicator
        /\ Seen(p).last = p /\ Seen(p).field_class = hdlc.field_class
    BY ONLY <1>4, <1>5 DEF HdlcTypes
  <1> DEFINE g == [Seen(p) EXCEPT !.field_class = c]
  <1>7. /\ g.buf = B /\ g.in = hdlc.in /\ g.out = hdlc.out
        /\ g.tx = hdlc.tx /\ g.current_rx_indicator = hdlc.current_rx_indicator
        /\ g.last = p /\ g.field_class = c
    BY ONLY <1>4, <1>5 DEF HdlcTypes
  <1> HIDE DEF g
  <1>8. SeenAs(hdlc, Seen(p), far.gap) /\ SeenAs(hdlc, g, far.gap)
    BY <1>3, <1>6, <1>7, Zenon DEF SeenAs
  <1> QED BY <1>6, <1>7, <1>8 DEF g

Landing(h) == IF h.buf[h.in].contents # NONE THEN Nxt(h.in) ELSE h.in

LEMMA RxIndicatorIs ==
  ASSUME NEW h, Queue(h), NEW i \in Indicators, NEW same, h.current_rx_indicator # i,
         NEW g, g = RxIndicator(h, i, same) \/ g = [RxIndicator(h, i, same) EXCEPT !.field_class = "none"]
  PROVE  /\ g.buf = [h.buf EXCEPT ![Landing(h)] = [h.buf[Landing(h)] EXCEPT !.contents = Ind(i)]]
         /\ Landing(h) \in Bufs
         /\ g.in = Nxt(Landing(h)) /\ g.out = h.out /\ g.last = h.last
         /\ g.tx = h.tx \/ g.tx = [h.tx EXCEPT !.tx_end = TRUE]
         /\ g.current_rx_indicator = i
  <1> DEFINE in1 == Landing(h)
             s   == [h.buf[in1] EXCEPT !.contents = Ind(i)]
             B   == [h.buf EXCEPT ![in1] = s]
             n   == Nxt(in1)
             t   == IF same /\ h.field_class = "hdlc" THEN TxFrame(h.tx, << >>) ELSE h.tx
             f   == RxIndicator(h, i, same)
  <1>1. in1 \in Bufs /\ n \in Bufs
    BY QueueIs DEF Landing
  <1>2. f = [h EXCEPT !.buf[in1].contents = Ind(i), !.in = Nxt(in1), !.tx = t,
                      !.field_class = "none", !.current_rx_indicator = i]
    BY Zenon DEF RxIndicator, Landing
  <1>3. f = [h EXCEPT !.buf = B, !.in = n, !.tx = t,
                      !.field_class = "none", !.current_rx_indicator = i]
    BY <1>2, Zenon
  <1>4. t = h.tx \/ t = [h.tx EXCEPT !.tx_end = TRUE]
    BY DEF TxFrame
  <1>5. B = [h.buf EXCEPT ![Landing(h)] = [h.buf[Landing(h)] EXCEPT !.contents = Ind(i)]]
    OBVIOUS
  <1>6. n = Nxt(Landing(h)) /\ h \in HdlcTypes /\ Landing(h) \in Bufs /\ (g = f \/ g = [f EXCEPT !.field_class = "none"])
    BY <1>1 DEF Queue
  <1> HIDE DEF B, n, t, f
  <1>7. CASE g = f
    BY ONLY <1>3, <1>4, <1>5, <1>6, <1>7 DEF HdlcTypes
  <1>8. CASE g = [f EXCEPT !.field_class = "none"]
    <2>1. g = f
      BY ONLY <1>3, <1>6, <1>8 DEF HdlcTypes
    <2> QED BY <1>7, <2>1
  <1> QED BY <1>6, <1>7, <1>8

\* A buffer with a piece more.
Longer(s, p, missing, start) ==
  [contents |-> Data(p.d), pieces |-> Append(s.pieces, p),
   flags |-> s.flags \union (IF missing THEN { "MISSING_DATA" } ELSE {})
                     \union (IF start THEN { "PROCEED" } ELSE {})]

(* What a piece changes in the queue, and what hdlc_tx gets of it.         *)
PutIn(h, g, p, same) ==
  LET s       == h.buf[h.in]
      missing == ~Headed(s, p)
  IN  /\ g.in = h.in /\ g.out = h.out /\ g.last = h.last
      /\ g.current_rx_indicator = h.current_rx_indicator
      /\ \/ /\ Len(s.pieces) + 1 > MaxLen
            /\ g.buf = [h.buf EXCEPT ![h.in] = Noted(s)] /\ g.tx = h.tx
         \/ \E start \in BOOLEAN :
              /\ start <=> p.d = "v21" /\ Len(s.pieces) + 1 >= StartLevel
              /\ g.buf = [h.buf EXCEPT ![h.in] = Longer(s, p, missing, start)]
              /\ g.tx = IF start /\ same
                        THEN TxFrame(h.tx, IF "PROCEED" \in s.flags THEN << p >>
                                           ELSE Append(s.pieces, p))
                        ELSE h.tx

LEMMA RxDataIs ==
  ASSUME NEW h, Queue(h), NEW p \in Pieces, NEW same
  PROVE  PutIn(h, RxData(h, p, same), p, same)
  <1> DEFINE g  == RxData(h, p, same)
             s  == h.buf[h.in]
             missing == ~Headed(s, p)
             h1 == IF missing THEN RxMissing(h) ELSE h
             s1 == h1.buf[h1.in]
             ps == Append(s1.pieces, p)
             start == p.d = "v21" /\ Len(ps) >= StartLevel
             s2 == [contents |-> Data(p.d), pieces |-> ps,
                    flags |-> s1.flags \union (IF start THEN { "PROCEED" } ELSE {})]
             t  == IF start /\ same THEN TxFrame(h1.tx, Fresh(s1, ps)) ELSE h1.tx
             B1 == IF missing THEN [h.buf EXCEPT ![h.in] = Noted(s)] ELSE h.buf
             s3 == IF missing THEN Noted(s) ELSE s
  <1>1. g = IF ~Fits(ps) THEN RxMissing(h1) ELSE [h1 EXCEPT !.buf[h1.in] = s2, !.tx = t]
    BY Zenon DEF RxData
  <1>2. /\ h.in \in Bufs /\ h.buf \in [Bufs -> BufTypes] /\ h \in HdlcTypes
        /\ s \in BufTypes /\ s.pieces \in Seq(Pieces)
    BY FieldsOf DEF Queue
  <1>3. h1 = [h EXCEPT !.buf = B1]
    <2>1. CASE missing
      BY <2>1, RxMissingIs
    <2>2. CASE ~missing
      <3>1. h = [h EXCEPT !.buf = h.buf]
        BY <1>2 DEF HdlcTypes
      <3> HIDE DEF missing
      <3> QED BY <2>2, <3>1
    <2> QED BY <2>1, <2>2
  <1>4. Queue(h1)
    BY RxMissingQueue
  <1>5. B1[h.in] = s3 /\ B1 \in [Bufs -> BufTypes]
    <2>1. Noted(s) \in BufTypes
      BY <1>2 DEF Noted, BufTypes, Flags
    <2> HIDE DEF missing
    <2> QED BY <1>2, <2>1
  <1>6. s3.pieces = s.pieces /\ s3.flags = s.flags \union (IF missing THEN { "MISSING_DATA" } ELSE {})
    <2> HIDE DEF missing
    <2>1. s3 = IF missing THEN [s EXCEPT !.flags = @ \union { "MISSING_DATA" }] ELSE s
      BY DEF Noted
    <2> HIDE DEF s3
    <2> QED BY <1>2, <2>1 DEF BufTypes
  <1>7. /\ h1.buf = B1 /\ h1.in = h.in /\ h1.out = h.out /\ h1.last = h.last /\ h1.tx = h.tx
        /\ h1.current_rx_indicator = h.current_rx_indicator
    <2> HIDE DEF h1, B1
    <2> QED BY <1>2, <1>3 DEF HdlcTypes
  <1>8. s1 = s3
    BY <1>5, <1>7
  <1>9. ps = Append(s.pieces, p) /\ Len(ps) = Len(s.pieces) + 1 /\ ps[Len(ps)] = p
    <2>1. ps = Append(s.pieces, p)
      BY <1>6, <1>8
    <2> DEFINE q == s.pieces
    <2>2. q \in Seq(Pieces) /\ ps = Append(q, p)
      BY <1>2, <2>1
    <2> HIDE DEF q, ps
    <2>3. Len(ps) = Len(q) + 1 /\ ps[Len(ps)] = p
      BY <2>2
    <2> QED BY <2>2, <2>3 DEF q
  <1>10. CASE ~Fits(ps)
    <2>1. g = RxMissing(h1)
      BY <1>1, <1>10
    <2>2. RxMissing(h1) = [h1 EXCEPT !.buf = [h1.buf EXCEPT ![h1.in] = Noted(h1.buf[h1.in])]]
      BY <1>4, RxMissingIs
    <2>3. [h1.buf EXCEPT ![h1.in] = Noted(h1.buf[h1.in])] = [B1 EXCEPT ![h.in] = Noted(s3)]
      BY <1>5, <1>7
    <2>4. [B1 EXCEPT ![h.in] = Noted(s3)] = [h.buf EXCEPT ![h.in] = Noted(s)]
      <3>1. Noted(s3) = Noted(s)
        <4>1. CASE missing
          <5>1. Noted(Noted(s)) = Noted(s)
            BY <1>2 DEF Noted, BufTypes
          <5> HIDE DEF missing
          <5> QED BY <4>1, <5>1
        <4>2. CASE ~missing
          BY <4>2
        <4> QED BY <4>1, <4>2
      <3> HIDE DEF missing, s3
      <3> QED BY <1>2, <3>1
    <2>5. Len(s.pieces) + 1 > MaxLen
      <3> DEFINE n == Len(s.pieces)
      <3>1. n \in Nat /\ Len(ps) = n + 1
        <4> DEFINE q == s.pieces
        <4>1. q \in Seq(Pieces) /\ Len(ps) = Len(q) + 1
          BY <1>2, <1>9
        <4> HIDE DEF q, ps
        <4>2. Len(q) \in Nat
          BY <4>1
        <4> QED BY <4>1, <4>2 DEF q
      <3> HIDE DEF n, ps
      <3>2. MaxLen \in Nat /\ ~(n + 1 <= MaxLen)
        BY <1>10, <3>1, QueueAssumption DEF Fits
      <3>3. n + 1 > MaxLen
        BY ONLY <3>1, <3>2
      <3> QED BY <3>3 DEF n
    <2> DEFINE C == [h.buf EXCEPT ![h.in] = Noted(s)]
    <2> HIDE DEF C, h1, s3
    <2>6. g = [h1 EXCEPT !.buf = C] /\ h1 \in HdlcTypes
      BY <1>4, <2>1, <2>2, <2>3, <2>4 DEF C, Queue
    <2> HIDE DEF g
    <2>7. g.in = h1.in /\ g.out = h1.out /\ g.last = h1.last /\ g.tx = h1.tx /\ g.buf = C
          /\ g.current_rx_indicator = h1.current_rx_indicator
      BY ONLY <2>6 DEF HdlcTypes
    <2> QED BY <1>7, <2>5, <2>7, Zenon DEF g, C, PutIn
  <1>11. CASE Fits(ps)
    <2> DEFINE C == [h1.buf EXCEPT ![h1.in] = s2]
    <2>1. g = [h1 EXCEPT !.buf = C, !.tx = t]
      BY <1>1, <1>11, Zenon
    <2>2. h1 \in HdlcTypes
      BY <1>4 DEF Queue
    <2> HIDE DEF C, g, h1, t
    <2>3. g.in = h1.in /\ g.out = h1.out /\ g.last = h1.last /\ g.tx = t /\ g.buf = C
          /\ g.current_rx_indicator = h1.current_rx_indicator
      BY ONLY <2>1, <2>2 DEF HdlcTypes
    <2>4. s2 = Longer(s, p, missing, start)
      <3> HIDE DEF missing, start, ps, s3
      <3>1. s1.flags = s.flags \union (IF missing THEN { "MISSING_DATA" } ELSE {})
        BY <1>6, <1>8
      <3> HIDE DEF s1
      <3> QED BY <1>9, <3>1 DEF Longer
    <2>5. C = [h.buf EXCEPT ![h.in] = Longer(s, p, missing, start)]
      <3>1. C = [B1 EXCEPT ![h.in] = s2]
        BY <1>7 DEF C
      <3> HIDE DEF missing, s2, start
      <3> QED BY <1>2, <2>4, <3>1
    <2>6. Fresh(s1, ps) = IF "PROCEED" \in s.flags THEN << p >> ELSE Append(s.pieces, p)
      <3>1. "PROCEED" \in s1.flags <=> "PROCEED" \in s.flags
        <4>1. s1.flags = s.flags \union (IF missing THEN { "MISSING_DATA" } ELSE {})
          BY <1>6, <1>8
        <4> HIDE DEF s1, missing
        <4> QED BY <4>1
      <3> HIDE DEF s1, ps
      <3> QED BY <1>9, <3>1 DEF Fresh
    <2>7. t = IF start /\ same THEN TxFrame(h.tx, IF "PROCEED" \in s.flags THEN << p >>
                                                  ELSE Append(s.pieces, p)) ELSE h.tx
      <3> HIDE DEF start, ps, s1
      <3> QED BY <1>7, <2>6 DEF t
    <2>8. start \in BOOLEAN /\ (start <=> p.d = "v21" /\ Len(s.pieces) + 1 >= StartLevel)
      <3> HIDE DEF ps, s, s1, h1
      <3> QED BY <1>9
    <2> HIDE DEF start, missing, s2, s1, ps
    <2>9. \E x \in BOOLEAN :
                     /\ x <=> p.d = "v21" /\ Len(s.pieces) + 1 >= StartLevel
                     /\ g.buf = [h.buf EXCEPT ![h.in] = Longer(s, p, missing, x)]
                     /\ g.tx = IF x /\ same
                               THEN TxFrame(h.tx, IF "PROCEED" \in s.flags THEN << p >>
                                                  ELSE Append(s.pieces, p))
                               ELSE h.tx
      BY <2>3, <2>5, <2>7, <2>8
    <2> QED BY <1>7, <2>3, <2>9, Zenon DEF g, missing, PutIn
  <1> QED BY <1>10, <1>11

(* A buffer with its FCS.                                                  *)
Complete(s, d, bad) ==
  [s EXCEPT !.contents = Data(d),
            !.flags = @ \union { "PROCEED", "FINISHED" }
                        \union (IF bad THEN { "CORRUPT_CRC" } ELSE {})]

LEMMA FinaliseIs ==
  ASSUME NEW h, Queue(h), NEW d \in DataTypes, NEW good, NEW same
  PROVE  LET g   == Finalise(h, d, good, same)
             s   == h.buf[h.in]
             bad == Spoilt(s, good)
             tx1 == IF "PROCEED" \in s.flags THEN h.tx ELSE TxFrame(h.tx, s.pieces)
         IN  /\ g.in = Nxt(h.in) /\ g.out = h.out /\ g.last = h.last
             /\ g.current_rx_indicator = h.current_rx_indicator
             /\ g.buf = [[h.buf EXCEPT ![h.in] = Complete(s, d, bad)] EXCEPT ![Nxt(h.in)] = Cleared]
             /\ g.tx = IF ~same THEN h.tx ELSE IF bad THEN TxCorrupt(tx1) ELSE tx1
  <1> DEFINE g   == Finalise(h, d, good, same)
             s   == h.buf[h.in]
             bad == Spoilt(s, good)
             tx1 == IF "PROCEED" \in s.flags THEN h.tx ELSE TxFrame(h.tx, s.pieces)
             B   == [[h.buf EXCEPT ![h.in] = Complete(s, d, bad)] EXCEPT ![Nxt(h.in)] = Cleared]
             t   == IF ~same THEN h.tx ELSE IF bad THEN TxCorrupt(tx1) ELSE tx1
             n   == Nxt(h.in)
  <1>1. g = [h EXCEPT !.buf = B, !.tx = t, !.in = n] /\ h \in HdlcTypes
    BY Zenon DEF Finalise, Complete, Queue
  <1> HIDE DEF B, t, n, g
  <1>2. g.in = n /\ g.out = h.out /\ g.last = h.last /\ g.buf = B /\ g.tx = t
        /\ g.current_rx_indicator = h.current_rx_indicator
    BY ONLY <1>1 DEF HdlcTypes
  <1> QED BY <1>2 DEF B, t, n, g

LEMMA ReusedIs ==
  ASSUME NEW h, Queue(h), NEW g, NEW s,
         \/ g = Reused(h) /\ s = [h.buf[h.in] EXCEPT !.contents = NONE]
         \/ g = ThrownOut(h) /\ s = Cleared
  PROVE  /\ g.in = h.in /\ g.out = h.out /\ g.last = h.last /\ g.tx = h.tx
         /\ g.current_rx_indicator = h.current_rx_indicator
         /\ g.buf = [h.buf EXCEPT ![h.in] = s]
  <1> DEFINE B == [h.buf EXCEPT ![h.in] = s]
  <1>1. g = [h EXCEPT !.buf = B] /\ h \in HdlcTypes
    BY Zenon DEF Reused, ThrownOut, Queue
  <1> HIDE DEF B
  <1>2. g.in = h.in /\ g.out = h.out /\ g.last = h.last /\ g.tx = h.tx /\ g.buf = B
         /\ g.current_rx_indicator = h.current_rx_indicator
    BY ONLY <1>1 DEF HdlcTypes
  <1> QED BY <1>2 DEF B

(* What hdlc_tx is given when out comes to a buffer.                       *)
Started(tx, s) ==
  CASE IsInd(s.contents) -> TxFrame(tx, << >>)
    [] IsData(s.contents) /\ "PROCEED" \in s.flags ->
         IF "CORRUPT_CRC" \in s.flags THEN TxCorrupt(TxFrame(tx, s.pieces))
         ELSE TxFrame(tx, s.pieces)
    [] OTHER -> tx

LEMMA UnderflowIs ==
  ASSUME NEW h, Queue(h)
  PROVE  LET g == Underflow(h)
         IN  \/ "PROCEED" \notin h.buf[h.out].flags /\ g = h
             \/ /\ "PROCEED" \in h.buf[h.out].flags
                /\ g.buf = [h.buf EXCEPT ![h.out] = Cleared] /\ g.out = Nxt(h.out)
                /\ g.in = h.in /\ g.last = h.last
                /\ g.current_rx_indicator = h.current_rx_indicator
                /\ g.tx = Started(h.tx, h.buf[Nxt(h.out)])
  <1> DEFINE B  == [h.buf EXCEPT ![h.out] = Cleared]
             o  == Nxt(h.out)
             h1 == [h EXCEPT !.buf = B, !.out = o]
             g  == Underflow(h)
             s  == h1.buf[h1.out]
             t  == Started(h.tx, s)
  <1>1. g = IF "PROCEED" \notin h.buf[h.out].flags THEN h
                       ELSE CASE IsInd(s.contents) -> [h1 EXCEPT !.tx = TxFrame(@, << >>)]
                              [] IsData(s.contents) /\ "PROCEED" \in s.flags -> StartFrame(h1)
                              [] OTHER -> h1
    BY Zenon DEF Underflow
  <1>2. h.out \in Bufs /\ o \in Bufs /\ o # h.out /\ h.buf \in [Bufs -> BufTypes] /\ h \in HdlcTypes
    BY FieldsOf, NxtIs DEF Queue
  <1>3. B[o] = h.buf[o]
    BY <1>2
  <1> HIDE DEF B, o
  <1>4. h1.buf = B /\ h1.out = o /\ h1.tx = h.tx
    BY ONLY <1>2 DEF HdlcTypes
  <1>5. s = h.buf[o]
    BY <1>3, <1>4
  <1>6. StartFrame(h1) = [h1 EXCEPT !.tx = IF "CORRUPT_CRC" \in s.flags THEN TxCorrupt(TxFrame(h.tx, s.pieces))
                                           ELSE TxFrame(h.tx, s.pieces)]
    <2>1. StartFrame(h1) = [h1 EXCEPT !.tx = IF "CORRUPT_CRC" \in s.flags
                                             THEN TxCorrupt(TxFrame(h1.tx, s.pieces))
                                             ELSE TxFrame(h1.tx, s.pieces)]
      BY Zenon DEF StartFrame
    <2> HIDE DEF s, h1
    <2> QED BY <1>4, <2>1
  <1>7. h1 = [h1 EXCEPT !.tx = h.tx]
    BY ONLY <1>2 DEF HdlcTypes
  <1> HIDE DEF s, g
  <1>8. "PROCEED" \in h.buf[h.out].flags => g = [h1 EXCEPT !.tx = t]
    <2> SUFFICES ASSUME "PROCEED" \in h.buf[h.out].flags PROVE g = [h1 EXCEPT !.tx = t]
      OBVIOUS
    <2>1. [h1 EXCEPT !.tx = TxFrame(@, << >>)] = [h1 EXCEPT !.tx = TxFrame(h.tx, << >>)]
      BY <1>4
    <2> HIDE DEF h1
    <2>2. g = CASE IsInd(s.contents) -> [h1 EXCEPT !.tx = TxFrame(h.tx, << >>)]
                [] IsData(s.contents) /\ "PROCEED" \in s.flags ->
                     [h1 EXCEPT !.tx = IF "CORRUPT_CRC" \in s.flags THEN TxCorrupt(TxFrame(h.tx, s.pieces))
                                           ELSE TxFrame(h.tx, s.pieces)]
                [] OTHER -> [h1 EXCEPT !.tx = h.tx]
      BY <1>1, <1>6, <1>7, <2>1
    <2>3. CASE IsInd(s.contents)
      BY <2>2, <2>3 DEF Started
    <2>4. CASE ~IsInd(s.contents) /\ IsData(s.contents) /\ "PROCEED" \in s.flags
      BY <2>2, <2>4 DEF Started
    <2>5. CASE ~IsInd(s.contents) /\ ~(IsData(s.contents) /\ "PROCEED" \in s.flags)
      BY <2>2, <2>5 DEF Started
    <2> QED BY <2>3, <2>4, <2>5
  <1> HIDE DEF t
  <1>9. LET f == [h1 EXCEPT !.tx = t]
        IN  /\ f.buf = B /\ f.out = o /\ f.in = h.in /\ f.last = h.last /\ f.tx = t
            /\ f.current_rx_indicator = h.current_rx_indicator
    BY ONLY <1>2 DEF HdlcTypes
  <1> HIDE DEF h1
  <1> QED BY <1>1, <1>5, <1>8, <1>9 DEF t, g, B, o

(* What the end of a frame changes, or of the preamble, when there is      *)
(* nothing yet: hdlc_tx has t.                                             *)
Ended(h, t, g) ==
  \/ /\ "PROCEED" \notin h.buf[h.out].flags
     /\ g.buf = h.buf /\ g.out = h.out /\ g.tx = t
     /\ g.in = h.in /\ g.last = h.last
     /\ g.current_rx_indicator = h.current_rx_indicator
  \/ /\ "PROCEED" \in h.buf[h.out].flags
     /\ g.buf = [h.buf EXCEPT ![h.out] = Cleared] /\ g.out = Nxt(h.out)
     /\ g.in = h.in /\ g.last = h.last
     /\ g.current_rx_indicator = h.current_rx_indicator
     /\ g.tx = Started(t, h.buf[Nxt(h.out)])

LEMMA TxDoneIs ==
  ASSUME NEW h, Queue(h), NEW t \in TxTypes, NEW g, g = Underflow([h EXCEPT !.tx = t])
  PROVE  Ended(h, t, g)
  <1> DEFINE f == [h EXCEPT !.tx = t]
  <1>1. Queue(f) /\ h \in HdlcTypes
    BY WithTx DEF Queue
  <1>2. /\ f.buf = h.buf /\ f.out = h.out /\ f.in = h.in /\ f.last = h.last /\ f.tx = t
        /\ f.current_rx_indicator = h.current_rx_indicator
    BY ONLY <1>1 DEF HdlcTypes
  <1> HIDE DEF f
  <1>3. g = Underflow(f)
    BY DEF f
  <1> QED BY <1>1, <1>2, <1>3, UnderflowIs DEF Ended

Emptied(B, b) == [B EXCEPT ![b] = [B[b] EXCEPT !.pieces = << >>]]

LEMMA NextTxTypeIs ==
  ASSUME Queue(hdlc), NextTxType
  PROVE  \E i \in Indicators :
           /\ Ready /\ modem.next = NONE /\ hdlc.in # hdlc.out
           /\ hdlc.buf[hdlc.out].contents = Ind(i)
           /\ hdlc'.in = hdlc.in /\ hdlc'.out = Nxt(hdlc.out) /\ hdlc'.last = hdlc.last
           /\ hdlc'.current_rx_indicator = hdlc.current_rx_indicator
           /\ hdlc'.buf = IF i = "v21_preamble"
                          THEN Emptied([hdlc.buf EXCEPT ![hdlc.out] = Cleared], hdlc.in)
                          ELSE [hdlc.buf EXCEPT ![hdlc.out] = Cleared]
           /\ modem'.handler = "silence" /\ ~modem'.ended
           /\ modem'.src = "hdlc" =>
                (i = "v21_preamble" /\ modem'.next = "fsk") \/ (i = "training" /\ modem'.next = "fast")
           /\ \/ hdlc'.tx.pieces = << >> /\ ~hdlc'.tx.crc /\ ~hdlc'.tx.bad
              \/ /\ modem'.src # "hdlc" /\ hdlc'.tx.pieces = hdlc.tx.pieces
                 /\ hdlc'.tx.crc = hdlc.tx.crc /\ hdlc'.tx.bad = hdlc.tx.bad
           /\ hit' = IF i # "no_signal" /\ hdlc.buf[Nxt(hdlc.out)].contents # NONE
                     THEN hit \union { "behind" } ELSE hit
           /\ UNCHANGED << main, mode, far, left, nonEcmVars >>
  <1> DEFINE i   == hdlc.buf[hdlc.out].contents[2]
             ecm == mode.image /\ mode.ecm
             B   == [hdlc.buf EXCEPT ![hdlc.out] = Cleared]
             o   == Nxt(hdlc.out)
             t   == IF ecm THEN TxInit ELSE hdlc.tx
             h1  == [hdlc EXCEPT !.buf = B, !.out = o, !.tx = t]
             c   == hdlc.buf[hdlc.out].contents
             n   == CASE i = "no_signal" -> NONE
                      [] i = "v21_preamble" -> "fsk"
                      [] i = "training" -> "fast"
             r   == CASE i = "no_signal" -> NONE
                      [] i = "v21_preamble" -> "hdlc"
                      [] i = "training" -> IF ecm THEN "hdlc" ELSE "non_ecm"
  <1>1. hdlc.out \in Bufs /\ hdlc.tx \in TxTypes /\ hdlc \in HdlcTypes /\ c \in Contents
    BY FieldsOf DEF Queue
  <1>2. i \in Indicators /\ c = Ind(i)
    <2>1. c # NONE /\ c[1] = "indicator"
      BY DEF NextTxType, IsInd
    <2>2. i = c[2]
      OBVIOUS
    <2> HIDE DEF c, i
    <2>3. c \in { "indicator" } \X Indicators
      BY <1>1, <2>1 DEF Contents, DataTypes
    <2> QED BY <2>2, <2>3 DEF Ind
  <1>3. /\ Ready /\ modem.next = NONE /\ hdlc.in # hdlc.out
        /\ UNCHANGED << main, mode, far, left, nonEcmVars >>
    BY DEF NextTxType
  <1>4. hdlc' = CASE i = "no_signal" -> h1
                  [] i = "v21_preamble" ->
                       [h1 EXCEPT !.tx = [TxInit EXCEPT !.preamble = TRUE],
                                  !.buf[h1.in].pieces = << >>]
                  [] i = "training" -> [h1 EXCEPT !.tx = TxFlags(@)]
    BY Zenon DEF NextTxType
  <1>5. modem' = [handler |-> "silence", ended |-> FALSE, next |-> n, src |-> r]
    BY Zenon DEF NextTxType
  <1>6. hit' = IF i # "no_signal" /\ hdlc.buf[Nxt(hdlc.out)].contents # NONE
                     THEN hit \union { "behind" } ELSE hit
    BY Zenon DEF NextTxType
  <1>7. TxInit.pieces = << >> /\ ~TxInit.crc /\ ~TxInit.bad
    BY DEF TxInit
  <1> HIDE DEF i, B, o
  <1>8. t = TxInit \/ (r # "hdlc" /\ t = hdlc.tx) \/ i = "v21_preamble"
    BY <1>2, NoneIs DEF Indicators
  <1>9. /\ modem'.handler = "silence" /\ ~modem'.ended /\ modem'.src = r
        /\ r = "hdlc" => (i = "v21_preamble" /\ modem'.next = "fsk")
                                  \/ (i = "training" /\ modem'.next = "fast")
    <2>1. r = "hdlc" => (i = "v21_preamble" /\ n = "fsk") \/ (i = "training" /\ n = "fast")
      BY <1>2, NoneIs DEF Indicators
    <2> HIDE DEF n, r
    <2> QED BY <1>5, <2>1
  <1> HIDE DEF r, n, t
  <1>10. /\ h1.buf = B /\ h1.out = o /\ h1.in = hdlc.in /\ h1.last = hdlc.last /\ h1.tx = t
         /\ h1.current_rx_indicator = hdlc.current_rx_indicator
    BY ONLY <1>1 DEF HdlcTypes
  <1>11. /\ hdlc'.in = hdlc.in /\ hdlc'.out = o /\ hdlc'.last = hdlc.last
         /\ hdlc'.current_rx_indicator = hdlc.current_rx_indicator
         /\ hdlc'.buf = IF i = "v21_preamble" THEN Emptied(B, hdlc.in) ELSE B
         /\ hdlc'.tx = CASE i = "no_signal" -> t
                         [] i = "v21_preamble" -> [TxInit EXCEPT !.preamble = TRUE]
                         [] i = "training" -> TxFlags(t)
    <2>1. CASE i = "no_signal"
      BY <1>4, <1>10, <2>1
    <2>2. CASE i = "v21_preamble"
      <3> DEFINE u == [TxInit EXCEPT !.preamble = TRUE]
                 C == Emptied(B, hdlc.in)
      <3>1. hdlc' = [h1 EXCEPT !.tx = u, !.buf = C]
        <4>1. hdlc' = [h1 EXCEPT !.tx = u, !.buf = [h1.buf EXCEPT ![h1.in] = [h1.buf[h1.in] EXCEPT !.pieces = << >>]]]
          BY <1>4, <2>2
        <4> HIDE DEF h1, u
        <4>2. h1.buf = B /\ h1.in = hdlc.in
          BY <1>10
        <4> QED BY <4>1, <4>2 DEF Emptied
      <3> HIDE DEF u, C
      <3>2. hdlc'.buf = C /\ hdlc'.tx = u /\ hdlc'.in = h1.in /\ hdlc'.out = h1.out
            /\ hdlc'.last = h1.last /\ hdlc'.current_rx_indicator = h1.current_rx_indicator
        BY ONLY <1>1, <3>1 DEF HdlcTypes
      <3> HIDE DEF h1
      <3> QED BY <1>10, <2>2, <3>2 DEF C, u
    <2>3. CASE i = "training"
      <3>1. hdlc' = [h1 EXCEPT !.tx = TxFlags(t)]
        BY <1>4, <1>10, <2>3
      <3> DEFINE u == TxFlags(t)
      <3> HIDE DEF u
      <3>2. hdlc'.buf = h1.buf /\ hdlc'.tx = u /\ hdlc'.in = h1.in /\ hdlc'.out = h1.out
            /\ hdlc'.last = h1.last /\ hdlc'.current_rx_indicator = h1.current_rx_indicator
        BY ONLY <1>1, <3>1 DEF HdlcTypes, u
      <3> HIDE DEF h1
      <3> QED BY <1>10, <2>3, <3>2 DEF u
    <2> QED BY <1>2, <2>1, <2>2, <2>3 DEF Indicators
  <1>12. \/ hdlc'.tx.pieces = << >> /\ ~hdlc'.tx.crc /\ ~hdlc'.tx.bad
         \/ /\ modem'.src # "hdlc" /\ hdlc'.tx.pieces = hdlc.tx.pieces
            /\ hdlc'.tx.crc = hdlc.tx.crc /\ hdlc'.tx.bad = hdlc.tx.bad
    <2>1. \A u \in TxTypes : TxFlags(u).pieces = u.pieces /\ TxFlags(u).crc = u.crc
                             /\ TxFlags(u).bad = u.bad
      BY DEF TxFlags, TxTypes
    <2>2. TxInit \in TxTypes
      BY <1>1, TxTypesKept
    <2>3. CASE i = "v21_preamble"
      <3>1. hdlc'.tx = [TxInit EXCEPT !.preamble = TRUE]
        BY <1>11, <2>3
      <3>2. hdlc'.tx.pieces = << >> /\ ~hdlc'.tx.crc /\ ~hdlc'.tx.bad
        BY <3>1 DEF TxInit
      <3> QED BY <3>2
    <2>4. CASE i # "v21_preamble"
      <3>1. hdlc'.tx = t \/ hdlc'.tx = TxFlags(t)
        BY <1>2, <1>11, <2>4 DEF Indicators
      <3> QED BY <1>1, <1>7, <1>8, <1>9, <2>1, <2>2, <2>4, <3>1
    <2> QED BY <2>3, <2>4
  <1> HIDE DEF h1
  <1> QED BY <1>2, <1>3, <1>6, <1>9, <1>11, <1>12 DEF B, o, c

-----------------------------------------------------------------------------
(* The order of the pieces.  A piece is known by its frame and its number. *)

Keys(ps)       == { << ps[i].f, ps[i].k >> : i \in DOMAIN ps }
Precedes(A, B) == \A a \in A, b \in B : Before(a, b)
Sorted(ps) ==
  \A i, j \in DOMAIN ps : i < j => Before(<< ps[i].f, ps[i].k >>, << ps[j].f, ps[j].k >>)

LEMMA BeforeTransitive ==
  ASSUME NEW a \in Nat \X Nat, NEW b \in Nat \X Nat, NEW c \in Nat \X Nat,
         Before(a, b), Before(b, c)
  PROVE  Before(a, c)
  <1>1. a[1] \in Nat /\ a[2] \in Nat /\ b[1] \in Nat /\ b[2] \in Nat /\ c[1] \in Nat /\ c[2] \in Nat
    OBVIOUS
  <1> QED BY <1>1 DEF Before

LEMMA PrecedesTransitive ==
  ASSUME NEW A \in SUBSET (Nat \X Nat), NEW b \in Nat \X Nat, NEW C \in SUBSET (Nat \X Nat),
         Precedes(A, { b }), Precedes({ b }, C)
  PROVE  Precedes(A, C)
  <1> SUFFICES ASSUME NEW a \in A, NEW c \in C PROVE Before(a, c)
    BY DEF Precedes
  <1>1. a \in Nat \X Nat /\ c \in Nat \X Nat /\ Before(a, b) /\ Before(b, c)
    BY DEF Precedes
  <1> QED BY <1>1, BeforeTransitive

LEMMA PrecedesParts ==
  ASSUME NEW A, NEW B, NEW C
  PROVE  /\ Precedes({}, A) /\ Precedes(A, {})
         /\ Precedes(A \union B, C) <=> Precedes(A, C) /\ Precedes(B, C)
         /\ Precedes(C, A \union B) <=> Precedes(C, A) /\ Precedes(C, B)
         /\ B \subseteq A /\ Precedes(A, C) => Precedes(B, C)
         /\ B \subseteq A /\ Precedes(C, A) => Precedes(C, B)
  BY DEF Precedes

LEMMA KeysOf ==
  ASSUME NEW ps \in Seq(Pieces)
  PROVE  /\ Keys(ps) \in SUBSET (Nat \X Nat)
         /\ \A i \in DOMAIN ps : << ps[i].f, ps[i].k >> \in Keys(ps)
         /\ \A i \in DOMAIN ps : ps[i] \in Pieces
         /\ DOMAIN ps = 1 .. Len(ps) /\ Len(ps) \in Nat
         /\ ps # << >> => Len(ps) \in DOMAIN ps /\ 1 \in DOMAIN ps
  <1>1. \A i \in DOMAIN ps : ps[i] \in Pieces /\ ps[i].f \in Nat /\ ps[i].k \in Nat
    <2>1. \A i \in DOMAIN ps : ps[i] \in Pieces
      OBVIOUS
    <2>2. \A p \in Pieces : p.f \in Nat /\ p.k \in Nat
      BY DEF Pieces
    <2> QED BY <2>1, <2>2
  <1>2. Keys(ps) \in SUBSET (Nat \X Nat)
    BY <1>1 DEF Keys
  <1>3. \A i \in DOMAIN ps : << ps[i].f, ps[i].k >> \in Keys(ps)
    BY DEF Keys
  <1>4. DOMAIN ps = 1 .. Len(ps) /\ Len(ps) \in Nat
    OBVIOUS
  <1>5. ps # << >> => Len(ps) \in DOMAIN ps /\ 1 \in DOMAIN ps
    OBVIOUS
  <1> QED BY <1>1, <1>2, <1>3, <1>4, <1>5

LEMMA KeysNone == Keys(<< >>) = {} /\ Sorted(<< >>)
  BY DEF Keys, Sorted

LEMMA KeysJoin ==
  ASSUME NEW ps \in Seq(Pieces), NEW qs \in Seq(Pieces)
  PROVE  Keys(ps \o qs) = Keys(ps) \union Keys(qs)
  <1> DEFINE rs == ps \o qs
  <1>1. /\ Len(ps) \in Nat /\ Len(qs) \in Nat /\ Len(rs) = Len(ps) + Len(qs)
        /\ DOMAIN ps = 1 .. Len(ps) /\ DOMAIN qs = 1 .. Len(qs) /\ DOMAIN rs = 1 .. Len(rs)
        /\ \A i \in DOMAIN rs : rs[i] = IF i <= Len(ps) THEN ps[i] ELSE qs[i - Len(ps)]
    OBVIOUS
  <1> HIDE DEF rs
  <1>2. ASSUME NEW t \in Keys(rs) PROVE t \in Keys(ps) \union Keys(qs)
    <2>1. PICK i \in DOMAIN rs : t = << rs[i].f, rs[i].k >>
      BY DEF Keys
    <2>2. CASE i <= Len(ps)
      <3>1. i \in DOMAIN ps /\ rs[i] = ps[i]
        BY <1>1, <2>2
      <3> QED BY <2>1, <3>1 DEF Keys
    <2>3. CASE ~(i <= Len(ps))
      <3>1. i - Len(ps) \in DOMAIN qs /\ rs[i] = qs[i - Len(ps)]
        BY <1>1, <2>3
      <3> QED BY <2>1, <3>1 DEF Keys
    <2> QED BY <2>2, <2>3
  <1>3. ASSUME NEW t \in Keys(ps) PROVE t \in Keys(rs)
    <2>1. PICK i \in DOMAIN ps : t = << ps[i].f, ps[i].k >>
      BY DEF Keys
    <2>2. i \in DOMAIN rs /\ rs[i] = ps[i]
      BY <1>1
    <2> QED BY <2>1, <2>2 DEF Keys
  <1>4. ASSUME NEW t \in Keys(qs) PROVE t \in Keys(rs)
    <2>1. PICK i \in DOMAIN qs : t = << qs[i].f, qs[i].k >>
      BY DEF Keys
    <2>2. i + Len(ps) \in DOMAIN rs /\ rs[i + Len(ps)] = qs[i]
      BY <1>1
    <2> QED BY <2>1, <2>2 DEF Keys
  <1> QED BY <1>2, <1>3, <1>4 DEF rs

LEMMA SortedJoin ==
  ASSUME NEW ps \in Seq(Pieces), NEW qs \in Seq(Pieces), Sorted(ps), Sorted(qs),
         Precedes(Keys(ps), Keys(qs))
  PROVE  Sorted(ps \o qs)
  <1> DEFINE rs == ps \o qs
  <1>1. /\ Len(ps) \in Nat /\ Len(qs) \in Nat /\ Len(rs) = Len(ps) + Len(qs)
        /\ DOMAIN ps = 1 .. Len(ps) /\ DOMAIN qs = 1 .. Len(qs) /\ DOMAIN rs = 1 .. Len(rs)
        /\ \A i \in DOMAIN rs : rs[i] = IF i <= Len(ps) THEN ps[i] ELSE qs[i - Len(ps)]
    OBVIOUS
  <1> HIDE DEF rs
  <1> SUFFICES ASSUME NEW i \in DOMAIN rs, NEW j \in DOMAIN rs, i < j
               PROVE  Before(<< rs[i].f, rs[i].k >>, << rs[j].f, rs[j].k >>)
    BY DEF Sorted, rs
  <1>2. CASE j <= Len(ps)
    <2>1. i \in DOMAIN ps /\ j \in DOMAIN ps /\ rs[i] = ps[i] /\ rs[j] = ps[j]
      BY <1>1, <1>2
    <2> QED BY <2>1 DEF Sorted
  <1>3. CASE i <= Len(ps) /\ ~(j <= Len(ps))
    <2>1. i \in DOMAIN ps /\ j - Len(ps) \in DOMAIN qs /\ rs[i] = ps[i] /\ rs[j] = qs[j - Len(ps)]
      BY <1>1, <1>3
    <2>2. << rs[i].f, rs[i].k >> \in Keys(ps) /\ << rs[j].f, rs[j].k >> \in Keys(qs)
      BY <2>1 DEF Keys
    <2> QED BY <2>2 DEF Precedes
  <1>4. CASE ~(i <= Len(ps))
    <2>1. i - Len(ps) \in DOMAIN qs /\ j - Len(ps) \in DOMAIN qs /\ i - Len(ps) < j - Len(ps)
          /\ rs[i] = qs[i - Len(ps)] /\ rs[j] = qs[j - Len(ps)]
      BY <1>1, <1>4
    <2> QED BY <2>1 DEF Sorted
  <1> QED BY <1>1, <1>2, <1>3, <1>4

LEMMA OnePiece ==
  ASSUME NEW p \in Pieces
  PROVE  << p >> \in Seq(Pieces) /\ Keys(<< p >>) = { << p.f, p.k >> } /\ Sorted(<< p >>)
         /\ << p >> # << >>
         /\ \A ps \in Seq(Pieces) : Append(ps, p) = ps \o << p >> /\ Append(ps, p) \in Seq(Pieces)
                                    /\ Append(ps, p) # << >>
  <1> DEFINE q == << p >>
  <1>1. q \in Seq(Pieces) /\ DOMAIN q = { 1 } /\ q[1] = p /\ q # << >>
    OBVIOUS
  <1>2. \A ps \in Seq(Pieces) : Append(ps, p) = ps \o << p >> /\ Append(ps, p) \in Seq(Pieces)
                                /\ Append(ps, p) # << >>
    OBVIOUS
  <1> HIDE DEF q
  <1>3. Keys(q) = { << p.f, p.k >> } /\ Sorted(q)
    BY <1>1 DEF Keys, Sorted
  <1> QED BY <1>1, <1>2, <1>3 DEF q

(* The ring B read from out, behind the piece that left last and those     *)
(* that hdlc_tx has; and the buffers that hdlc_tx has yet to be given.     *)
InOrder(B, o, ps, l) ==
  /\ Sorted(ps) /\ Precedes({ l }, Keys(ps))
  /\ \A b \in Bufs : Sorted(B[b].pieces)
  /\ \A b, c \in Bufs : Off(b, o) < Off(c, o) => Precedes(Keys(B[b].pieces), Keys(B[c].pieces))

Given(B, o, ps, l) ==
  \A b \in Bufs : b # o \/ "PROCEED" \notin B[b].flags =>
    Precedes({ l } \union Keys(ps), Keys(B[b].pieces))

LEMMA OrderShrinks ==
  ASSUME NEW B, NEW C, NEW o, NEW ps, NEW qs, NEW l, InOrder(B, o, ps, l),
         \A b \in Bufs : C[b].pieces = B[b].pieces \/ C[b].pieces = << >>,
         qs = ps \/ qs = << >>
  PROVE  /\ InOrder(C, o, qs, l)
         /\ Given(B, o, ps, l)
            /\ ("PROCEED" \in C[o].flags \/ C[o].pieces = << >> \/ "PROCEED" \notin B[o].flags)
            => Given(C, o, qs, l)
  <1>1. \A b \in Bufs : Keys(C[b].pieces) \subseteq Keys(B[b].pieces) /\ Sorted(C[b].pieces)
    BY KeysNone DEF InOrder
  <1>2. Keys(qs) \subseteq Keys(ps) /\ Sorted(qs)
    BY KeysNone DEF InOrder
  <1>3. InOrder(C, o, qs, l)
    <2>1. Precedes({ l }, Keys(qs))
      BY <1>2 DEF InOrder, Precedes
    <2>2. \A b, c \in Bufs : Off(b, o) < Off(c, o) => Precedes(Keys(C[b].pieces), Keys(C[c].pieces))
      BY <1>1 DEF InOrder, Precedes
    <2> QED BY <1>1, <1>2, <2>1, <2>2 DEF InOrder
  <1>4. ASSUME Given(B, o, ps, l),
               "PROCEED" \in C[o].flags \/ C[o].pieces = << >> \/ "PROCEED" \notin B[o].flags
        PROVE  Given(C, o, qs, l)
    <2> SUFFICES ASSUME NEW b \in Bufs, b # o \/ "PROCEED" \notin C[b].flags
                 PROVE  Precedes({ l } \union Keys(qs), Keys(C[b].pieces))
      BY DEF Given
    <2>1. CASE C[b].pieces = << >>
      BY <2>1, KeysNone DEF Precedes
    <2>2. CASE C[b].pieces # << >>
      <3>1. b # o \/ "PROCEED" \notin B[b].flags
        BY <1>4, <2>2
      <3>2. Precedes({ l } \union Keys(ps), Keys(B[b].pieces))
        BY <1>4, <3>1 DEF Given
      <3> QED BY <1>1, <1>2, <3>2 DEF Precedes
    <2> QED BY <2>1, <2>2
  <1> QED BY <1>3, <1>4

LEMMA OrderOut ==
  ASSUME NEW B, NEW o \in Bufs, NEW ps, NEW l, InOrder(B, o, ps, l), B[o].pieces = << >>
  PROVE  /\ InOrder(B, Nxt(o), ps, l)
         /\ Given(B, o, ps, l) => \A b \in Bufs : Precedes({ l } \union Keys(ps), Keys(B[b].pieces))
  <1>1. ASSUME NEW b \in Bufs, NEW c \in Bufs, Off(b, Nxt(o)) < Off(c, Nxt(o))
        PROVE  Precedes(Keys(B[b].pieces), Keys(B[c].pieces))
    <2>1. CASE b = o \/ c = o
      BY <2>1, KeysNone DEF Precedes
    <2>2. CASE b # o /\ c # o
      <3>1. /\ Off(b, Nxt(o)) = Off(b, o) - 1 /\ Off(c, Nxt(o)) = Off(c, o) - 1
            /\ Off(b, o) \in Int /\ Off(c, o) \in Int
        BY <2>2, OffOne, OffIs
      <3>2. Off(b, o) < Off(c, o)
        BY ONLY <1>1, <3>1
      <3> QED BY <3>2 DEF InOrder
    <2> QED BY <2>1, <2>2
  <1>2. InOrder(B, Nxt(o), ps, l)
    BY <1>1 DEF InOrder
  <1>3. ASSUME Given(B, o, ps, l), NEW b \in Bufs
        PROVE  Precedes({ l } \union Keys(ps), Keys(B[b].pieces))
    <2>1. CASE b = o
      BY <2>1, KeysNone DEF Precedes
    <2>2. CASE b # o
      BY <1>3, <2>2 DEF Given
    <2> QED BY <2>1, <2>2
  <1> QED BY <1>2, <1>3

LEMMA OrderStart ==
  ASSUME NEW B, NEW o \in Bufs, NEW l, InOrder(B, o, << >>, l),
         \A b \in Bufs : Precedes({ l }, Keys(B[b].pieces)), "PROCEED" \in B[o].flags
  PROVE  InOrder(B, o, B[o].pieces, l) /\ Given(B, o, B[o].pieces, l)
  <1>1. InOrder(B, o, B[o].pieces, l)
    BY DEF InOrder
  <1>2. ASSUME NEW b \in Bufs, b # o
        PROVE  Precedes({ l } \union Keys(B[o].pieces), Keys(B[b].pieces))
    <2>1. Off(o, o) = 0 /\ Off(b, o) \in 0 .. QLen - 1 /\ Off(b, o) # 0
      BY <1>2, OffIs
    <2>2. Off(o, o) < Off(b, o)
      BY <2>1, QueueAssumption
    <2>3. Precedes(Keys(B[o].pieces), Keys(B[b].pieces))
      BY <2>2 DEF InOrder
    <2> QED BY <2>3 DEF Precedes
  <1> QED BY <1>1, <1>2 DEF Given

LEMMA OrderLeft ==
  ASSUME NEW B, NEW o, NEW ps \in Seq(Pieces), NEW l, InOrder(B, o, ps, l), ps # << >>,
         NEW m, m = << ps[Len(ps)].f, ps[Len(ps)].k >>
  PROVE  /\ InOrder(B, o, << >>, m)
         /\ Given(B, o, ps, l) => Given(B, o, << >>, m)
  <1>1. m \in Keys(ps)
    BY KeysOf
  <1>2. InOrder(B, o, << >>, m)
    <2>1. Precedes({ m }, Keys(<< >>))
      BY KeysNone DEF Precedes
    <2> QED BY <2>1, KeysNone DEF InOrder
  <1>3. Given(B, o, ps, l) => Given(B, o, << >>, m)
    BY <1>1, KeysNone DEF Given, Precedes
  <1> QED BY <1>2, <1>3

(* The frame at out goes to hdlc_tx.                                       *)
LEMMA OrderTake ==
  ASSUME NEW B, NEW o \in Bufs, NEW ps \in Seq(Pieces), NEW l, InOrder(B, o, ps, l),
         B[o].pieces \in Seq(Pieces),
         \A b \in Bufs : Precedes({ l } \union Keys(ps), Keys(B[b].pieces))
  PROVE  /\ InOrder(B, o, ps \o B[o].pieces, l)
         /\ "PROCEED" \in B[o].flags => Given(B, o, ps \o B[o].pieces, l)
  <1> DEFINE qs == B[o].pieces
             rs == ps \o qs
  <1>1. Keys(rs) = Keys(ps) \union Keys(qs)
    BY KeysJoin
  <1>2. Precedes({ l }, Keys(qs)) /\ Precedes(Keys(ps), Keys(qs))
    BY DEF Precedes
  <1>3. Sorted(rs)
    BY <1>2, SortedJoin DEF InOrder
  <1>4. Precedes({ l }, Keys(rs))
    BY <1>1, <1>2 DEF InOrder, Precedes
  <1>5. ASSUME NEW b \in Bufs, b # o
        PROVE  Precedes({ l } \union Keys(rs), Keys(B[b].pieces))
    <2>1. Off(o, o) = 0 /\ Off(b, o) \in 0 .. QLen - 1 /\ Off(b, o) # 0
      BY <1>5, OffIs
    <2>2. Off(o, o) < Off(b, o)
      BY <2>1, QueueAssumption
    <2>3. Precedes(Keys(qs), Keys(B[b].pieces))
      BY <2>2 DEF InOrder
    <2>4. Precedes({ l } \union Keys(ps), Keys(B[b].pieces))
      OBVIOUS
    <2> HIDE DEF qs, rs
    <2> QED BY <1>1, <2>3, <2>4 DEF Precedes
  <1> HIDE DEF rs
  <1>6. InOrder(B, o, rs, l)
    BY <1>3, <1>4 DEF InOrder
  <1>7. "PROCEED" \in B[o].flags => Given(B, o, rs, l)
    BY <1>5 DEF Given
  <1> QED BY <1>6, <1>7 DEF rs

(* A piece comes after all that came before.                               *)
LEMMA OrderAppend ==
  ASSUME NEW B \in [Bufs -> BufTypes], NEW o \in Bufs, NEW ps, NEW l, InOrder(B, o, ps, l),
         NEW i \in Bufs, NEW p \in Pieces, NEW s,
         s.pieces = Append(B[i].pieces, p), B[i].pieces \in Seq(Pieces),
         \A b \in Bufs : Off(b, o) > Off(i, o) => B[b].pieces = << >>,
         \A b \in Bufs : Precedes(Keys(B[b].pieces), { << p.f, p.k >> })
  PROVE  /\ InOrder([B EXCEPT ![i] = s], o, ps, l)
         /\ /\ Given(B, o, ps, l) /\ ("PROCEED" \in B[i].flags => "PROCEED" \in s.flags)
            /\ Precedes({ l } \union Keys(ps), { << p.f, p.k >> })
            => Given([B EXCEPT ![i] = s], o, ps, l)
  <1> DEFINE C == [B EXCEPT ![i] = s]
             t == << p.f, p.k >>
             q == B[i].pieces
  <1>1. q \in Seq(Pieces) /\ << p >> \in Seq(Pieces) /\ Keys(<< p >>) = { t } /\ Sorted(<< p >>)
        /\ Append(q, p) = q \o << p >>
    BY OnePiece
  <1>2. Keys(s.pieces) = Keys(q) \union { t }
    <2>1. s.pieces = q \o << p >>
      BY <1>1
    <2> HIDE DEF q
    <2>2. Keys(q \o << p >>) = Keys(q) \union Keys(<< p >>)
      BY <1>1, KeysJoin
    <2> QED BY <1>1, <2>1, <2>2
  <1>3. Sorted(s.pieces)
    <2>1. Precedes(Keys(q), Keys(<< p >>)) /\ Sorted(q)
      BY <1>1 DEF InOrder
    <2> QED BY <1>1, <2>1, SortedJoin
  <1>4. C[i] = s /\ \A b \in Bufs : b # i => C[b] = B[b]
    OBVIOUS
  <1>5. ASSUME NEW b \in Bufs, NEW c \in Bufs, Off(b, o) < Off(c, o)
        PROVE  Precedes(Keys(C[b].pieces), Keys(C[c].pieces))
    <2>1. Precedes(Keys(B[b].pieces), Keys(B[c].pieces))
      BY <1>5 DEF InOrder
    <2>2. b # c
      BY <1>5, OffIs
    <2>3. CASE b = i
      <3>1. B[c].pieces = << >> /\ c # i
        BY <1>5, <2>2, <2>3
      <3> QED BY <1>4, <3>1, KeysNone DEF Precedes
    <2>4. CASE c = i
      <3>1. C[b] = B[b] /\ C[c] = s
        BY <1>4, <2>2, <2>4
      <3>2. Precedes(Keys(B[b].pieces), { t }) /\ Precedes(Keys(B[b].pieces), Keys(q))
        BY <2>1, <2>4
      <3> HIDE DEF C, q, t
      <3> QED BY <1>2, <3>1, <3>2 DEF Precedes
    <2>5. CASE b # i /\ c # i
      BY <1>4, <2>1, <2>5
    <2> QED BY <2>3, <2>4, <2>5
  <1>6. \A b \in Bufs : Sorted(C[b].pieces)
    BY <1>3, <1>4 DEF InOrder
  <1>7. ASSUME Given(B, o, ps, l), "PROCEED" \in B[i].flags => "PROCEED" \in s.flags,
               Precedes({ l } \union Keys(ps), { t })
        PROVE  Given(C, o, ps, l)
    <2> SUFFICES ASSUME NEW b \in Bufs, b # o \/ "PROCEED" \notin C[b].flags
                 PROVE  Precedes({ l } \union Keys(ps), Keys(C[b].pieces))
      BY DEF Given
    <2>1. CASE b = i
      <3>1. b # o \/ "PROCEED" \notin B[b].flags
        BY <1>4, <1>7, <2>1
      <3>2. Precedes({ l } \union Keys(ps), Keys(q))
        BY <1>7, <2>1, <3>1 DEF Given
      <3>3. C[b] = s
        BY <1>4, <2>1
      <3> HIDE DEF C, q, t
      <3> QED BY <1>2, <1>7, <3>2, <3>3 DEF Precedes
    <2>2. CASE b # i
      BY <1>4, <1>7, <2>2 DEF Given
    <2> QED BY <2>1, <2>2
  <1> HIDE DEF C
  <1>8. InOrder(C, o, ps, l)
    BY <1>5, <1>6 DEF InOrder
  <1> QED BY <1>7, <1>8 DEF C

LEMMA OrderSend ==
  ASSUME NEW B, NEW o, NEW ps \in Seq(Pieces), NEW l, InOrder(B, o, ps, l),
         NEW p \in Pieces, Precedes({ l } \union Keys(ps), { << p.f, p.k >> })
  PROVE  InOrder(B, o, ps \o << p >>, l)
  <1>1. << p >> \in Seq(Pieces) /\ Keys(<< p >>) = { << p.f, p.k >> } /\ Sorted(<< p >>)
    BY OnePiece
  <1>2. Precedes({ l }, { << p.f, p.k >> }) /\ Precedes(Keys(ps), { << p.f, p.k >> })
    BY DEF Precedes
  <1>3. Sorted(ps \o << p >>) /\ Keys(ps \o << p >>) = Keys(ps) \union { << p.f, p.k >> }
    BY <1>1, <1>2, SortedJoin, KeysJoin DEF InOrder
  <1>4. Precedes({ l }, Keys(ps \o << p >>))
    BY <1>2, <1>3 DEF InOrder, Precedes
  <1> QED BY <1>3, <1>4 DEF InOrder

-----------------------------------------------------------------------------
(* The invariant of the order.                                             *)

Open     == far.sig \in Hdlcs /\ ~far.over
Used     == Off(hdlc.in, hdlc.out)
AllClear == \A b \in Bufs : hdlc.buf[b] = Cleared
Clean    == \A b \in Bufs : Off(b, hdlc.out) > Used => hdlc.buf[b] = Cleared

(* The fax thread has moved out past in, since the main thread looked, and *)
(* the frame in progress has gone to hdlc_tx all the same: nothing is left *)
(* that it could come to.                                                  *)
Stuck ==
  /\ main.todo = << >> /\ hdlc.out = Nxt(hdlc.in)
  /\ \A b \in Bufs : b # hdlc.in => hdlc.buf[b] = Cleared

Order ==
  /\ InOrder(hdlc.buf, hdlc.out, hdlc.tx.pieces, left)
  /\ Given(hdlc.buf, hdlc.out, hdlc.tx.pieces, left) \/ Stuck

(* The pieces that there are come before the one that is sent next, and    *)
(* before the one that the main thread has in hand.                        *)
PastKeys ==
  { t \in Nat \X Nat :
      \/ t[1] < far.f
      \/ t[1] = far.f /\ (Open => t[2] < far.k \/ (t[2] = far.k /\ ~ToDo("data"))) }

Within(B, ps, l, K) ==
  l \in K /\ Keys(ps) \subseteq K /\ \A b \in Bufs : Keys(B[b].pieces) \subseteq K

Recent == Within(hdlc.buf, hdlc.tx.pieces, left, PastKeys)

(* The piece in hand is the last that was sent, and goes last.             *)
InHand ==
  \A i \in DOMAIN main.todo : main.todo[i][1] = "data" =>
    /\ i = Len(main.todo) /\ Open
    /\ main.todo[i][2].f = far.f /\ main.todo[i][2].k = far.k

(* There is nothing behind in when it comes to its buffer.                 *)
NothingBehind ==
  ToDo("data") =>
    /\ \/ Clean
       \/ /\ hdlc.in = hdlc.out /\ Len(main.todo) = 1
          /\ "PROCEED" \notin hdlc.buf[hdlc.in].flags
          /\ \A b \in Bufs : b # hdlc.in => hdlc.buf[b].pieces = << >>
    /\ \/ Len(main.todo) = 1
       \/ /\ Len(main.todo) = 2 /\ Op = "ind"
          /\ Used <= QLen - 3 \/ (hdlc.out = Nxt(hdlc.in) /\ AllClear)
    /\ main.same = TRUE /\ hdlc.in # hdlc.out => hdlc.out = Nxt(hdlc.in) /\ AllClear

(* What the main thread saw at in has been cleared, if out has moved since. *)
SeenEmpty ==
  main.same = TRUE /\ hdlc.in # hdlc.out => hdlc.buf[hdlc.in].pieces = << >>

OrderInv == Order /\ Recent /\ InHand /\ NothingBehind /\ SeenEmpty

LEMMA HandIs ==
  ASSUME Types, InHand, ToDo("data")
  PROVE  /\ main.todo # << >> /\ Len(main.todo) \in Nat /\ Len(main.todo) >= 1
         /\ main.todo[Len(main.todo)][1] = "data"
         /\ main.todo[Len(main.todo)][2] \in Pieces
         /\ main.todo[Len(main.todo)][2].f = far.f /\ main.todo[Len(main.todo)][2].k = far.k
         /\ Open
  <1> DEFINE s == main.todo
  <1>1. s \in Seq(Ops)
    BY DEF Types, MainTypes
  <1>2. PICK i \in DOMAIN s : s[i][1] = "data"
    BY DEF ToDo
  <1>3. i = Len(s) /\ Open /\ s[i][2].f = far.f /\ s[i][2].k = far.k
    BY <1>2 DEF InHand
  <1>4. s[i] \in Ops
    BY <1>1, <1>2
  <1> DEFINE op == s[i]
  <1>5. op[2] \in Pieces
    <2>1. op \in Ops /\ op[1] = "data"
      BY <1>2, <1>4
    <2> HIDE DEF op
    <2> QED BY <2>1 DEF Ops
  <1> HIDE DEF s
  <1>6. s # << >> /\ Len(s) \in Nat /\ Len(s) >= 1
    BY <1>1, <1>2
  <1> QED BY <1>2, <1>3, <1>5, <1>6 DEF s

(* The piece in hand comes after all others.                               *)
LEMMA HandAfter ==
  ASSUME Types, OrderInv, ToDo("data"), NEW p, p = main.todo[Len(main.todo)][2]
  PROVE  /\ p \in Pieces /\ Open
         /\ Precedes(PastKeys, { << p.f, p.k >> })
         /\ Precedes({ left } \union Keys(hdlc.tx.pieces), { << p.f, p.k >> })
         /\ \A b \in Bufs : Precedes(Keys(hdlc.buf[b].pieces), { << p.f, p.k >> })
  <1>1. p \in Pieces /\ p.f = far.f /\ p.k = far.k /\ Open
    BY HandIs DEF OrderInv
  <1>2. Precedes(PastKeys, { << p.f, p.k >> })
    <2> SUFFICES ASSUME NEW t \in PastKeys PROVE Before(t, << p.f, p.k >>)
      BY DEF Precedes
    <2>1. t[1] < far.f \/ (t[1] = far.f /\ t[2] < far.k)
      BY <1>1 DEF PastKeys
    <2> QED BY <1>1, <2>1 DEF Before
  <1>3. left \in PastKeys /\ Keys(hdlc.tx.pieces) \subseteq PastKeys
        /\ \A b \in Bufs : Keys(hdlc.buf[b].pieces) \subseteq PastKeys
    BY DEF OrderInv, Recent, Within
  <1> QED BY <1>1, <1>2, <1>3 DEF Precedes

(* The buffers, the pointers and the frame in progress are left alone.     *)
QueueKept ==
  /\ hdlc'.buf = hdlc.buf /\ hdlc'.in = hdlc.in /\ hdlc'.out = hdlc.out
  /\ hdlc'.tx.pieces = hdlc.tx.pieces

LEMMA OrderIdle ==
  ASSUME Types, OrderInv, QueueKept, UNCHANGED << left, far >>,
         main'.todo = main.todo, main'.same = main.same \/ main'.same = Same
  PROVE  OrderInv'
  <1>1. Open' = Open /\ ToDo("data")' = ToDo("data") /\ Op' = Op
    BY DEF Open, ToDo, Op
  <1>2. Order' /\ Recent' /\ InHand'
    <2>1. PastKeys' = PastKeys
      BY <1>1 DEF PastKeys
    <2> QED BY <1>1, <2>1 DEF OrderInv, Order, Recent, InHand, Stuck, QueueKept
  <1>3. Used' = Used /\ Clean' = Clean /\ AllClear' = AllClear
    BY DEF QueueKept, Used, Clean, AllClear
  <1>4. Same = (hdlc.in = hdlc.out)
    BY DEF Same
  <1>5. NothingBehind' /\ SeenEmpty'
    BY <1>1, <1>3, <1>4 DEF OrderInv, NothingBehind, SeenEmpty, QueueKept
  <1> QED BY <1>2, <1>5 DEF OrderInv

(* An operation is done that is none of a piece. *)
LEMMA OrderDone ==
  ASSUME Types, OrderInv, main.todo # << >>, Op # "data", Done(<< >>)
  PROVE  /\ main'.same = NONE /\ main'.todo = << >> \o Tail(main.todo) /\ UNCHANGED << far, left >>
         /\ Given(hdlc.buf, hdlc.out, hdlc.tx.pieces, left)
         /\ ToDo("data")' = ToDo("data") /\ InHand' /\ Open' = Open /\ PastKeys' = PastKeys
         /\ ToDo("data") => Len(main.todo) = 2 /\ Op = "ind" /\ Len(main'.todo) = 1
  <1>1. /\ main' = [todo |-> << >> \o Tail(main.todo), same |-> NONE]
        /\ UNCHANGED << modem, far, left >>
    BY DoneTypes
  <1> DEFINE s == main.todo
             r == << >> \o Tail(main.todo)
  <1>2. /\ s \in Seq(Ops) /\ Op = s[1][1] /\ Len(r) = Len(s) - 1 /\ Len(s) \in Nat
        /\ r \in Seq(Ops)
        /\ \A i \in DOMAIN r : i \in Nat /\ i > 0 /\ i + 1 \in DOMAIN s /\ r[i] = s[i + 1]
        /\ \A i \in DOMAIN s : i > 1 => i - 1 \in DOMAIN r
    BY TailIs DEF Types, MainTypes, Op
  <1>3. main'.todo = r /\ main'.same = NONE /\ main.todo = s
    BY <1>1
  <1> HIDE DEF s, r
  <1>4. DOMAIN s = 1 .. Len(s)
    BY <1>2
  <1>5. ToDo("data")' = ToDo("data")
    <2>1. ASSUME ToDo("data") PROVE ToDo("data")'
      <3>1. PICK i \in DOMAIN s : s[i][1] = "data"
        BY <1>3, <2>1 DEF ToDo
      <3>2. i # 1
        BY <1>2, <3>1
      <3>3. i - 1 \in DOMAIN r /\ r[i - 1] = s[i]
        BY <1>2, <1>4, <3>1, <3>2
      <3> QED BY <1>3, <3>1, <3>3 DEF ToDo
    <2>2. ASSUME ToDo("data")' PROVE ToDo("data")
      <3>1. PICK i \in DOMAIN r : r[i][1] = "data"
        BY <1>3, <2>2 DEF ToDo
      <3> QED BY <1>2, <1>3, <3>1 DEF ToDo
    <2> QED BY <2>1, <2>2 DEF ToDo
  <1>6. Open' = Open /\ PastKeys' = PastKeys
    BY <1>1, <1>5 DEF Open, PastKeys
  <1>7. InHand'
    <2> SUFFICES ASSUME NEW i \in DOMAIN r, r[i][1] = "data"
                 PROVE  i = Len(r) /\ Open /\ r[i][2].f = far.f /\ r[i][2].k = far.k
      BY <1>1, <1>3, <1>6 DEF InHand
    <2>1. i + 1 \in DOMAIN s /\ r[i] = s[i + 1] /\ i \in Nat
      BY <1>2
    <2>2. i + 1 = Len(s) /\ Open /\ s[i + 1][2].f = far.f /\ s[i + 1][2].k = far.k
      BY <1>3, <2>1 DEF OrderInv, InHand
    <2> QED BY <1>2, <2>1, <2>2
  <1>8. Given(hdlc.buf, hdlc.out, hdlc.tx.pieces, left)
    BY DEF OrderInv, Order, Stuck
  <1>9. ToDo("data") => Len(s) = 2 /\ Op = "ind" /\ Len(r) = 1
    <2> SUFFICES ASSUME ToDo("data") PROVE Len(s) = 2 /\ Op = "ind" /\ Len(r) = 1
      OBVIOUS
    <2>1. s[Len(s)][1] = "data"
      BY <1>3, HandIs DEF OrderInv
    <2>2. Len(s) # 1
      BY <1>2, <2>1
    <2>3. Len(s) = 2 /\ Op = "ind"
      BY <1>3, <2>2 DEF OrderInv, NothingBehind
    <2> QED BY <1>2, <2>3
  <1> QED BY <1>1, <1>3, <1>5, <1>6, <1>7, <1>8, <1>9

LEMMA WithinShrinks ==
  ASSUME NEW B, NEW C, NEW ps, NEW qs, NEW l, NEW K, Within(B, ps, l, K),
         \A b \in Bufs : C[b].pieces = B[b].pieces \/ C[b].pieces = << >>,
         qs = ps \/ qs = << >>
  PROVE  Within(C, qs, l, K)
  BY KeysNone DEF Within

LEMMA OrderAfter ==
  ASSUME Types, OrderInv, main.todo # << >>, Op # "data", Done(<< >>),
         InOrder(hdlc'.buf, hdlc'.out, hdlc'.tx.pieces, left),
         Given(hdlc'.buf, hdlc'.out, hdlc'.tx.pieces, left),
         Within(hdlc'.buf, hdlc'.tx.pieces, left, PastKeys),
         ToDo("data") /\ Op = "ind" =>
           \/ Clean'
           \/ /\ hdlc'.in = hdlc'.out /\ "PROCEED" \notin hdlc'.buf[hdlc'.in].flags
              /\ \A b \in Bufs : b # hdlc'.in => hdlc'.buf[b].pieces = << >>
  PROVE  OrderInv'
  <1>1. /\ main'.same = NONE /\ UNCHANGED << far, left >>
        /\ ToDo("data")' = ToDo("data") /\ InHand' /\ PastKeys' = PastKeys
        /\ ToDo("data") => Len(main.todo) = 2 /\ Op = "ind" /\ Len(main'.todo) = 1
    BY OrderDone
  <1>2. Order' /\ Recent'
    BY <1>1 DEF Order, Recent
  <1>3. main'.same # TRUE
    BY <1>1, NoneIs
  <1>4. NothingBehind' /\ SeenEmpty'
    BY <1>1, <1>3 DEF NothingBehind, SeenEmpty
  <1> QED BY <1>1, <1>2, <1>4 DEF OrderInv

(* No piece comes, and the modem loses none that it was to be given.       *)
LEMMA OrderShrunk ==
  ASSUME Types, OrderInv, main.todo # << >>, Op # "data", Op # "ind", Done(<< >>),
         hdlc'.out = hdlc.out, hdlc'.tx.pieces = hdlc.tx.pieces,
         \A b \in Bufs : hdlc'.buf[b].pieces = hdlc.buf[b].pieces \/ hdlc'.buf[b].pieces = << >>,
         \/ "PROCEED" \in hdlc'.buf[hdlc.out].flags
         \/ hdlc'.buf[hdlc.out].pieces = << >>
         \/ "PROCEED" \notin hdlc.buf[hdlc.out].flags
  PROVE  OrderInv'
  <1>1. Given(hdlc.buf, hdlc.out, hdlc.tx.pieces, left)
    BY OrderDone
  <1>2. /\ InOrder(hdlc'.buf, hdlc'.out, hdlc'.tx.pieces, left)
        /\ Given(hdlc'.buf, hdlc'.out, hdlc'.tx.pieces, left)
    BY <1>1, OrderShrinks DEF OrderInv, Order
  <1>3. Within(hdlc'.buf, hdlc'.tx.pieces, left, PastKeys)
    BY WithinShrinks DEF OrderInv, Recent
  <1> QED BY <1>2, <1>3, OrderAfter

LEMMA OrderInjectedOrPushed ==
  ASSUME Types, OrderInv, Injected \/ Pushed
  PROVE  OrderInv'
  <1>1. main.todo # << >> /\ Op \in { "inject", "push", "pushed" } /\ Done(<< >>) /\ UNCHANGED hdlc
    BY DEF Injected, Pushed
  <1> QED BY <1>1, OrderShrunk

LEMMA OrderThrow ==
  ASSUME Types, OrderInv, Throw
  PROVE  OrderInv'
  <1>1. main.todo # << >> /\ Op = "throw" /\ Done(<< >>) /\ hdlc' = ThrownOut(hdlc)
    BY DEF Throw
  <1>2. /\ hdlc'.in = hdlc.in /\ hdlc'.out = hdlc.out /\ hdlc'.tx = hdlc.tx
        /\ hdlc'.buf = [hdlc.buf EXCEPT ![hdlc.in] = Cleared]
    BY <1>1, ReusedIs DEF Types
  <1>3. hdlc.buf \in [Bufs -> BufTypes] /\ hdlc.in \in Bufs /\ hdlc.out \in Bufs /\ Cleared.pieces = << >>
    BY FieldsOf DEF Types, Cleared
  <1>4. hdlc'.buf[hdlc.out] = hdlc.buf[hdlc.out] \/ hdlc'.buf[hdlc.out] = Cleared
    BY <1>2, <1>3
  <1>5. \A b \in Bufs : hdlc'.buf[b] = hdlc.buf[b] \/ hdlc'.buf[b] = Cleared
    BY <1>2, <1>3
  <1> QED BY <1>1, <1>2, <1>3, <1>4, <1>5, OrderShrunk

(* What a queued operation is. *)
LEMMA QueuedIs ==
  ASSUME Types, Queued
  PROVE  LET op == main.todo[1]
         IN  /\ main.todo # << >> /\ Done(<< >>) /\ Op = op[1] /\ op \in Ops
             /\ main.same \in BOOLEAN
             /\ hit' = hit \union Hits(op)
             /\ \/ /\ Op = "ind" /\ op[2] \in Indicators
                   /\ hdlc' = RxIndicator(hdlc, op[2], main.same)
                \/ /\ Op = "end" /\ op = << "end" >>
                   /\ hdlc' = [RxIndicator(hdlc, "no_signal", main.same) EXCEPT !.field_class = "none"]
                \/ /\ Op = "data" /\ op[2] \in Pieces
                   /\ hdlc' = RxData(hdlc, op[2], main.same)
                \/ /\ Op = "fcs" /\ op[2] \in DataTypes /\ op[3] \in BOOLEAN
                   /\ hdlc' = IF ~op[3] /\ op[5] /\ hdlc.buf[hdlc.in].pieces = << >>
                              THEN Reused(hdlc)
                              ELSE Finalise(hdlc, op[2], op[3], main.same)
  <1> DEFINE op == Head(main.todo)
  <1>1. main.todo # << >> /\ main.same # NONE /\ Done(<< >>) /\ main.todo \in Seq(Ops)
        /\ main.same \in BOOLEAN
    BY DEF Queued, Types, MainTypes
  <1>2. op = main.todo[1] /\ op \in Ops /\ Op = op[1] /\ Op \in Asking
    <2>1. Op \in Asking
      BY <1>1 DEF Types, Asked
    <2> QED BY <1>1, <2>1, TailIs DEF Op
  <1>3. /\ op[1] = "ind" => op[2] \in Indicators
        /\ op[1] = "end" => op = << "end" >>
        /\ op[1] = "data" => op[2] \in Pieces
        /\ op[1] = "fcs" => op[2] \in DataTypes /\ op[3] \in BOOLEAN
    <2> HIDE DEF op
    <2> QED BY <1>2 DEF Ops
  <1>4. /\ hit' = hit \union Hits(op)
        /\ hdlc' = CASE op[1] = "ind"  -> RxIndicator(hdlc, op[2], main.same)
                    [] op[1] = "end"  ->
                         [RxIndicator(hdlc, "no_signal", main.same)
                            EXCEPT !.field_class = "none"]
                    [] op[1] = "data" -> RxData(hdlc, op[2], main.same)
                    [] op[1] = "fcs"  ->
                         IF ~op[3] /\ op[5] /\ hdlc.buf[hdlc.in].pieces = << >>
                         THEN Reused(hdlc)
                         ELSE Finalise(hdlc, op[2], op[3], main.same)
    BY Zenon DEF Queued
  <1> HIDE DEF op
  <1>5. \/ op[1] = "ind" /\ hdlc' = RxIndicator(hdlc, op[2], main.same)
        \/ op[1] = "end" /\ hdlc' = [RxIndicator(hdlc, "no_signal", main.same)
                                       EXCEPT !.field_class = "none"]
        \/ op[1] = "data" /\ hdlc' = RxData(hdlc, op[2], main.same)
        \/ op[1] = "fcs" /\ hdlc' = IF ~op[3] /\ op[5] /\ hdlc.buf[hdlc.in].pieces = << >>
                                    THEN Reused(hdlc)
                                    ELSE Finalise(hdlc, op[2], op[3], main.same)
    BY <1>2, <1>4 DEF Asking
  <1> QED BY <1>1, <1>2, <1>3, <1>4, <1>5

LEMMA OrderQueuedEnd ==
  ASSUME Types, OrderInv, Queued, Op \in { "ind", "end" }, NEW i \in Indicators,
         \/ hdlc' = RxIndicator(hdlc, i, main.same)
         \/ hdlc' = [RxIndicator(hdlc, i, main.same) EXCEPT !.field_class = "none"]
  PROVE  OrderInv'
  <1>1. main.todo # << >> /\ Done(<< >>) /\ Queue(hdlc)
    BY DEF Queued, Types
  <1> DEFINE B == hdlc.buf
             n == Landing(hdlc)
  <1>2. /\ hdlc.in \in Bufs /\ hdlc.out \in Bufs /\ hdlc.buf \in [Bufs -> BufTypes]
        /\ \A b \in Bufs : hdlc.buf[b] \in BufTypes
    BY <1>1, FieldsOf
  <1>3. CASE hdlc.current_rx_indicator = i
    <2>1. RxIndicator(hdlc, i, main.same) = hdlc
      BY <1>3 DEF RxIndicator
    <2>2. QueueKept
      BY <1>1, <2>1 DEF QueueKept, Queue, HdlcTypes
    <2>3. Clean' = Clean
      BY <2>2 DEF QueueKept, Clean, Used
    <2>4. ToDo("data") => Clean
      <3>1. Op # "data"
        OBVIOUS
      <3>2. ToDo("data") => Len(main.todo) = 2
        BY <1>1, <3>1, OrderDone
      <3> QED BY <3>2 DEF OrderInv, NothingBehind
    <2>5. Given(hdlc.buf, hdlc.out, hdlc.tx.pieces, left)
      BY <1>1, OrderDone
    <2> QED BY <1>1, <2>2, <2>3, <2>4, <2>5, OrderAfter DEF QueueKept, OrderInv, Order, Recent
  <1>4. CASE hdlc.current_rx_indicator # i
    <2>1. /\ hdlc'.buf = [B EXCEPT ![n] = [B[n] EXCEPT !.contents = Ind(i)]]
          /\ n \in Bufs /\ hdlc'.in = Nxt(n) /\ hdlc'.out = hdlc.out
          /\ hdlc'.tx.pieces = hdlc.tx.pieces
      <3>1. /\ hdlc'.buf = [B EXCEPT ![n] = [B[n] EXCEPT !.contents = Ind(i)]]
            /\ n \in Bufs /\ hdlc'.in = Nxt(n) /\ hdlc'.out = hdlc.out
            /\ hdlc'.tx = hdlc.tx \/ hdlc'.tx = [hdlc.tx EXCEPT !.tx_end = TRUE]
        BY <1>1, <1>4, RxIndicatorIs
      <3>2. hdlc.tx \in TxTypes
        BY <1>1, FieldsOf
      <3>3. [hdlc.tx EXCEPT !.tx_end = TRUE].pieces = hdlc.tx.pieces
        BY <3>2 DEF TxTypes
      <3> QED BY <3>1, <3>3
    <2> HIDE DEF n
    <2>2. \A b \in Bufs : /\ hdlc'.buf[b].pieces = B[b].pieces /\ hdlc'.buf[b].flags = B[b].flags
                          /\ b # n => hdlc'.buf[b] = B[b]
      BY <1>2, <2>1 DEF BufTypes
    <2>3. Given(hdlc.buf, hdlc.out, hdlc.tx.pieces, left)
      BY <1>1, OrderDone
    <2>4. /\ InOrder(hdlc'.buf, hdlc'.out, hdlc'.tx.pieces, left)
          /\ Given(hdlc'.buf, hdlc'.out, hdlc'.tx.pieces, left)
      <3>1. /\ InOrder(hdlc.buf, hdlc.out, hdlc.tx.pieces, left)
            /\ hdlc'.out = hdlc.out /\ hdlc'.tx.pieces = hdlc.tx.pieces
            /\ \A b \in Bufs : hdlc'.buf[b].pieces = hdlc.buf[b].pieces
            /\ "PROCEED" \in hdlc'.buf[hdlc.out].flags \/ "PROCEED" \notin hdlc.buf[hdlc.out].flags
        BY <1>2, <2>1, <2>2 DEF OrderInv, Order
      <3> QED BY <2>3, <3>1, OrderShrinks
    <2>5. Within(hdlc'.buf, hdlc'.tx.pieces, left, PastKeys)
      <3>1. /\ Within(hdlc.buf, hdlc.tx.pieces, left, PastKeys)
            /\ hdlc'.tx.pieces = hdlc.tx.pieces
            /\ \A b \in Bufs : hdlc'.buf[b].pieces = hdlc.buf[b].pieces
        BY <2>1, <2>2 DEF OrderInv, Recent
      <3> QED BY <3>1, WithinShrinks
    <2>6. ASSUME ToDo("data"), Op = "ind"
          PROVE  \/ Clean'
                 \/ /\ hdlc'.in = hdlc'.out /\ "PROCEED" \notin hdlc'.buf[hdlc'.in].flags
                    /\ \A b \in Bufs : b # hdlc'.in => hdlc'.buf[b].pieces = << >>
      <3>1. Len(main.todo) = 2
        BY <1>1, <2>6, OrderDone
      <3>2. Clean /\ (Used <= QLen - 3 \/ (hdlc.out = Nxt(hdlc.in) /\ AllClear))
        BY <2>6, <3>1 DEF OrderInv, NothingBehind
      <3>3. CASE hdlc.out = Nxt(hdlc.in) /\ AllClear
        <4>1. n = hdlc.in
          BY <1>2, <3>3 DEF AllClear, Cleared, Landing, n
        <4>2. hdlc'.in = hdlc'.out /\ hdlc'.in \in Bufs
          BY <1>2, <2>1, <3>3, <4>1
        <4>3. \A b \in Bufs : hdlc'.buf[b].pieces = << >> /\ "PROCEED" \notin hdlc'.buf[b].flags
          BY <2>2, <3>3 DEF AllClear, Cleared
        <4> QED BY <4>2, <4>3
      <3>4. CASE Used <= QLen - 3
        <4> DEFINE o == hdlc.out
        <4>1. /\ n = hdlc.in \/ n = Nxt(hdlc.in)
              /\ Off(hdlc.in, o) \in 0 .. QLen - 1 /\ Off(hdlc.in, o) <= QLen - 3
              /\ Off(Nxt(hdlc.in), o) = IF Off(hdlc.in, o) = QLen - 1 THEN 0 ELSE Off(hdlc.in, o) + 1
              /\ Off(Nxt(n), o) = IF Off(n, o) = QLen - 1 THEN 0 ELSE Off(n, o) + 1
              /\ QLen \in Nat
          BY <1>2, <2>1, <3>4, OffOne, OffIs DEF Landing, n, Used
        <4>2. Off(Nxt(n), o) = Off(n, o) + 1 /\ Off(n, o) >= Off(hdlc.in, o)
              /\ Off(n, o) \in Int /\ Off(hdlc.in, o) \in Int
          BY ONLY <4>1
        <4>3. ASSUME NEW b \in Bufs, Off(b, o) > Off(Nxt(n), o)
              PROVE  hdlc'.buf[b] = Cleared
          <5>1. Off(b, o) \in Int
            BY <1>2, OffIs
          <5>2. Off(b, o) > Off(hdlc.in, o) /\ b # n
            BY <4>2, <4>3, <5>1
          <5>3. B[b] = Cleared
            BY <3>2, <5>2 DEF Clean, Used
          <5> QED BY <2>2, <5>2, <5>3
        <4> QED BY <2>1, <4>3 DEF Clean, Used
      <3> QED BY <3>2, <3>3, <3>4
    <2>7. Op # "data"
      OBVIOUS
    <2> QED BY <1>1, <2>4, <2>5, <2>6, <2>7, OrderAfter
  <1> QED BY <1>3, <1>4

LEMMA TxFrameIs ==
  ASSUME NEW t \in TxTypes, NEW ps \in Seq(Pieces)
  PROVE  /\ t.pieces \in Seq(Pieces) /\ TxFrame(t, ps) \in TxTypes
         /\ TxCorrupt(t).pieces = t.pieces /\ TxCorrupt(t).crc = t.crc
         /\ TxCorrupt(t).bad = IF t.pieces = << >> THEN t.bad ELSE ~t.bad
         /\ TxFrame(t, ps).crc = t.crc /\ TxFrame(t, ps).bad = t.bad
         /\ TxFrame(t, ps).pieces = IF ps = << >> \/ t.crc THEN t.pieces ELSE t.pieces \o ps
  <1>1. TxFrame(t, ps) \in TxTypes
    BY TxTypesKept
  <1>2. TxCorrupt(t).pieces = t.pieces /\ TxCorrupt(t).crc = t.crc
        /\ TxCorrupt(t).bad = IF t.pieces = << >> THEN t.bad ELSE ~t.bad
    BY DEF TxCorrupt, TxTypes
  <1> DEFINE qs == t.pieces \o ps
  <1>3. TxFrame(t, ps) = CASE ps = << >> -> [t EXCEPT !.tx_end = TRUE]
                           [] ps # << >> /\ t.crc -> t
                           [] OTHER -> [t EXCEPT !.pieces = qs, !.tx_end = FALSE]
    BY DEF TxFrame
  <1> HIDE DEF qs
  <1>4. /\ TxFrame(t, ps).crc = t.crc /\ TxFrame(t, ps).bad = t.bad
        /\ TxFrame(t, ps).pieces = IF ps = << >> \/ t.crc THEN t.pieces ELSE qs
    BY <1>3 DEF TxTypes
  <1>5. t.pieces \in Seq(Pieces)
    BY DEF TxTypes
  <1> QED BY <1>1, <1>2, <1>4, <1>5 DEF qs

LEMMA WithinTake ==
  ASSUME NEW B, NEW ps \in Seq(Pieces), NEW qs \in Seq(Pieces), NEW l, NEW K, Within(B, ps, l, K),
         Keys(qs) \subseteq K
  PROVE  Within(B, ps \o qs, l, K)
  BY KeysJoin DEF Within

LEMMA OrderQueuedFcs ==
  ASSUME Types, OrderInv, Queued, Op = "fcs", NEW d \in DataTypes, NEW good \in BOOLEAN,
         hdlc' = Reused(hdlc) \/ hdlc' = Finalise(hdlc, d, good, main.same)
  PROVE  OrderInv'
  <1>1. /\ main.todo # << >> /\ Done(<< >>) /\ Queue(hdlc) /\ Op # "data" /\ Op # "ind"
        /\ main.same \in BOOLEAN
    BY QueuedIs DEF Types
  <1>2. /\ hdlc.in \in Bufs /\ hdlc.out \in Bufs /\ hdlc.buf \in [Bufs -> BufTypes]
        /\ hdlc.tx \in TxTypes /\ hdlc.tx.pieces \in Seq(Pieces)
        /\ \A b \in Bufs : hdlc.buf[b] \in BufTypes /\ hdlc.buf[b].pieces \in Seq(Pieces)
    BY <1>1, FieldsOf
  <1>3. CASE hdlc' = Reused(hdlc)
    <2> DEFINE s == [hdlc.buf[hdlc.in] EXCEPT !.contents = NONE]
    <2>1. hdlc'.out = hdlc.out /\ hdlc'.tx = hdlc.tx /\ hdlc'.buf = [hdlc.buf EXCEPT ![hdlc.in] = s]
      BY <1>1, <1>3, ReusedIs
    <2>2. s.pieces = hdlc.buf[hdlc.in].pieces /\ s.flags = hdlc.buf[hdlc.in].flags
      BY <1>2 DEF BufTypes
    <2> HIDE DEF s
    <2>3. \A b \in Bufs : hdlc'.buf[b].pieces = hdlc.buf[b].pieces
                          /\ hdlc'.buf[b].flags = hdlc.buf[b].flags
      BY <1>2, <2>1, <2>2
    <2>4. "PROCEED" \in hdlc'.buf[hdlc.out].flags \/ "PROCEED" \notin hdlc.buf[hdlc.out].flags
      BY <1>2, <2>3
    <2> QED BY <1>1, <2>1, <2>3, <2>4, OrderShrunk
  <1>4. CASE hdlc' = Finalise(hdlc, d, good, main.same)
    <2> DEFINE s   == hdlc.buf[hdlc.in]
               bad == Spoilt(s, good)
               tx1 == IF "PROCEED" \in s.flags THEN hdlc.tx ELSE TxFrame(hdlc.tx, s.pieces)
               c   == Complete(s, d, bad)
               n   == Nxt(hdlc.in)
    <2>1. /\ hdlc'.out = hdlc.out
          /\ hdlc'.buf = [[hdlc.buf EXCEPT ![hdlc.in] = c] EXCEPT ![n] = Cleared]
          /\ hdlc'.tx = IF ~main.same THEN hdlc.tx ELSE IF bad THEN TxCorrupt(tx1) ELSE tx1
      BY <1>1, <1>4, FinaliseIs
    <2>2. c.pieces = s.pieces /\ "PROCEED" \in c.flags
      <3>1. s \in BufTypes
        BY <1>2
      <3> HIDE DEF s, bad
      <3> QED BY <3>1 DEF Complete, BufTypes
    <2>3. n \in Bufs /\ n # hdlc.in
      BY <1>2, NxtIs
    <2> HIDE DEF bad, c, n
    <2>4. /\ hdlc'.buf[hdlc.in] = c /\ hdlc'.buf[n] = Cleared
          /\ \A b \in Bufs : b # hdlc.in /\ b # n => hdlc'.buf[b] = hdlc.buf[b]
      BY <1>2, <2>1, <2>3
    <2>5. \A b \in Bufs : /\ hdlc'.buf[b].pieces = hdlc.buf[b].pieces \/ hdlc'.buf[b].pieces = << >>
                          /\ \/ "PROCEED" \in hdlc'.buf[b].flags
                             \/ hdlc'.buf[b].pieces = << >>
                             \/ "PROCEED" \notin hdlc.buf[b].flags
      BY <2>2, <2>4 DEF Cleared
    <2>6. CASE hdlc'.tx.pieces = hdlc.tx.pieces
      BY <1>1, <1>2, <2>1, <2>5, <2>6, OrderShrunk
    <2>7. CASE hdlc'.tx.pieces # hdlc.tx.pieces
      <3>1. tx1 \in TxTypes /\ hdlc'.tx.pieces = tx1.pieces /\ main.same = TRUE /\ tx1.pieces # hdlc.tx.pieces
        <4>1. tx1 \in TxTypes
          BY <1>2, TxTypesKept
        <4> HIDE DEF tx1
        <4> QED BY <1>1, <2>1, <2>7, <4>1, TxFrameIs, KeysNone DEF TxCorrupt, TxTypes
      <3>2. "PROCEED" \notin s.flags /\ tx1.pieces = hdlc.tx.pieces \o s.pieces /\ s.pieces # << >>
        <4>1. s.pieces \in Seq(Pieces)
          BY <1>2
        <4>2. "PROCEED" \notin s.flags
          <5>1. "PROCEED" \in s.flags => tx1 = hdlc.tx
            OBVIOUS
          <5> HIDE DEF tx1, s
          <5> QED BY <3>1, <5>1
        <4>3. tx1 = TxFrame(hdlc.tx, s.pieces)
          BY <4>2
        <4>4. TxFrame(hdlc.tx, s.pieces).pieces =
                IF s.pieces = << >> \/ hdlc.tx.crc THEN hdlc.tx.pieces ELSE hdlc.tx.pieces \o s.pieces
          BY <1>2, <4>1, TxFrameIs
        <4> HIDE DEF s, tx1
        <4> QED BY <3>1, <4>2, <4>3, <4>4
      <3>3. hdlc.in = hdlc.out
        BY <3>1, <3>2 DEF OrderInv, SeenEmpty
      <3>4. Given(hdlc.buf, hdlc.out, hdlc.tx.pieces, left)
        BY <1>1, OrderDone
      <3>5. \A b \in Bufs : Precedes({ left } \union Keys(hdlc.tx.pieces), Keys(hdlc.buf[b].pieces))
        BY <3>2, <3>3, <3>4 DEF Given
      <3>6. InOrder(hdlc'.buf, hdlc.out, hdlc.tx.pieces, left)
        <4>1. /\ InOrder(hdlc.buf, hdlc.out, hdlc.tx.pieces, left)
              /\ \A b \in Bufs : hdlc'.buf[b].pieces = hdlc.buf[b].pieces \/ hdlc'.buf[b].pieces = << >>
          BY <2>5 DEF OrderInv, Order
        <4> QED BY <4>1, OrderShrinks
      <3>7. \A b \in Bufs : Precedes({ left } \union Keys(hdlc.tx.pieces), Keys(hdlc'.buf[b].pieces))
        BY <2>5, <3>5, KeysNone DEF Precedes
      <3>8. hdlc'.buf[hdlc.out].pieces = s.pieces /\ "PROCEED" \in hdlc'.buf[hdlc.out].flags
            /\ s.pieces \in Seq(Pieces)
        BY <1>2, <2>2, <2>4, <3>3
      <3>9. /\ InOrder(hdlc'.buf, hdlc.out, hdlc.tx.pieces \o hdlc'.buf[hdlc.out].pieces, left)
            /\ Given(hdlc'.buf, hdlc.out, hdlc.tx.pieces \o hdlc'.buf[hdlc.out].pieces, left)
        BY <1>2, <3>6, <3>7, <3>8, OrderTake
      <3>10. hdlc'.tx.pieces = hdlc.tx.pieces \o hdlc'.buf[hdlc.out].pieces
        BY <3>1, <3>2, <3>8
      <3>11. Within(hdlc'.buf, hdlc'.tx.pieces, left, PastKeys)
        <4>1. Within(hdlc.buf, hdlc.tx.pieces, left, PastKeys) /\ Keys(s.pieces) \subseteq PastKeys
          BY <1>2 DEF OrderInv, Recent, Within
        <4>2. Within(hdlc'.buf, hdlc.tx.pieces, left, PastKeys)
          BY <2>5, <4>1, WithinShrinks
        <4> HIDE DEF s
        <4> QED BY <1>2, <3>8, <3>10, <4>1, <4>2, WithinTake
      <3> QED BY <1>1, <2>1, <3>9, <3>10, <3>11, OrderAfter
    <2> QED BY <2>6, <2>7
  <1> QED BY <1>3, <1>4

(* A piece is put into its buffer, and the main thread is done with it. *)
LEMMA OrderPut ==
  ASSUME Types, OrderInv, Queued, Op = "data"
  PROVE  LET p == main.todo[1][2]
         IN  /\ p \in Pieces /\ p = main.todo[Len(main.todo)][2] /\ ToDo("data") /\ Len(main.todo) = 1
             /\ main'.todo = << >> /\ main'.same = NONE
             /\ InHand' /\ NothingBehind' /\ SeenEmpty' /\ UNCHANGED << left, far >>
             /\ PastKeys \subseteq PastKeys' /\ << p.f, p.k >> \in PastKeys'
  <1> DEFINE s == main.todo
             p == main.todo[1][2]
  <1>1. /\ s # << >> /\ s \in Seq(Ops) /\ Done(<< >>) /\ s[1][1] = "data" /\ p \in Pieces
        /\ hdlc' = RxData(hdlc, p, main.same)
    BY QueuedIs DEF Types, MainTypes
  <1>2. ToDo("data") /\ Len(s) = 1 /\ Open /\ p.f = far.f /\ p.k = far.k
    <2>1. 1 \in DOMAIN s
      BY <1>1
    <2>2. 1 = Len(s) /\ Open /\ s[1][2].f = far.f /\ s[1][2].k = far.k
      BY <1>1, <2>1 DEF OrderInv, InHand
    <2> QED BY <1>1, <2>1, <2>2 DEF ToDo
  <1>3. main'.todo = << >> /\ main'.same = NONE /\ UNCHANGED << left, far >>
    <2>1. main' = [todo |-> << >> \o Tail(s), same |-> NONE] /\ UNCHANGED << modem, far, left >>
      BY <1>1, DoneTypes
    <2>2. << >> \o Tail(s) = << >>
      <3> DEFINE q == << >> \o Tail(s)
      <3>1. q \in Seq(Ops) /\ Len(q) = Len(s) - 1
        BY <1>1, TailIs
      <3> HIDE DEF q, s
      <3>2. q = << >>
        BY <1>2, <3>1
      <3> QED BY <3>2 DEF q
    <2> QED BY <2>1, <2>2
  <1>4. ~ToDo("data")' /\ Open' = Open /\ DOMAIN main'.todo = {} /\ main'.same # TRUE
    <2>1. DOMAIN main'.todo = {}
      BY <1>3
    <2>2. main'.same # TRUE
      BY <1>3, NoneIs
    <2> QED BY <1>3, <2>1, <2>2 DEF ToDo, Open
  <1>5. InHand' /\ NothingBehind' /\ SeenEmpty'
    BY <1>4 DEF InHand, NothingBehind, SeenEmpty
  <1>6. PastKeys \subseteq PastKeys' /\ << p.f, p.k >> \in PastKeys'
    <2>1. far.f \in Nat /\ far.k \in Nat
      BY DEF Types, FarTypes
    <2> HIDE DEF p
    <2> QED BY <1>2, <1>3, <1>4, <2>1 DEF PastKeys
  <1> QED BY <1>1, <1>2, <1>3, <1>5, <1>6 DEF s

LEMMA LongerIs ==
  ASSUME NEW s \in BufTypes, NEW p \in Pieces, NEW missing \in BOOLEAN, NEW start \in BOOLEAN,
         NEW c, c = Longer(s, p, missing, start)
  PROVE  /\ c.pieces = Append(s.pieces, p) /\ c.pieces # << >> /\ c.pieces \in Seq(Pieces)
         /\ Keys(c.pieces) = Keys(s.pieces) \union { << p.f, p.k >> }
         /\ "PROCEED" \in c.flags <=> start \/ "PROCEED" \in s.flags
         /\ c.contents = Data(p.d)
  <1> DEFINE q == s.pieces
  <1>1. q \in Seq(Pieces)
    BY DEF BufTypes
  <1>2. c.pieces = Append(q, p) /\ c.contents = Data(p.d)
        /\ c.flags = s.flags \union (IF missing THEN { "MISSING_DATA" } ELSE {})
                             \union (IF start THEN { "PROCEED" } ELSE {})
    BY DEF Longer
  <1> HIDE DEF q
  <1>3. Append(q, p) = q \o << p >> /\ << p >> \in Seq(Pieces) /\ Keys(<< p >>) = { << p.f, p.k >> }
        /\ Append(q, p) \in Seq(Pieces) /\ Append(q, p) # << >>
    BY <1>1, OnePiece
  <1>4. Keys(c.pieces) = Keys(q) \union { << p.f, p.k >> }
    <2>1. Keys(q \o << p >>) = Keys(q) \union Keys(<< p >>)
      BY <1>1, <1>3, KeysJoin
    <2>2. c.pieces = q \o << p >>
      BY <1>2, <1>3
    <2> QED BY <1>3, <2>1, <2>2
  <1>5. "PROCEED" \in c.flags <=> start \/ "PROCEED" \in s.flags
    BY <1>2
  <1> QED BY <1>2, <1>3, <1>4, <1>5 DEF q

LEMMA OrderQueuedData ==
  ASSUME Types, OrderInv, Queued, Op = "data"
  PROVE  OrderInv'
  <1> DEFINE p == main.todo[1][2]
             t == << p.f, p.k >>
  <1>1. /\ p \in Pieces /\ ToDo("data") /\ main.todo # << >> /\ Queue(hdlc)
        /\ main'.todo = << >> /\ InHand' /\ NothingBehind' /\ SeenEmpty' /\ UNCHANGED << left, far >>
        /\ PastKeys \subseteq PastKeys' /\ t \in PastKeys' /\ main.same \in BOOLEAN
    BY OrderPut, QueuedIs DEF Types
  <1>2. /\ Precedes({ left } \union Keys(hdlc.tx.pieces), { t })
        /\ \A b \in Bufs : Precedes(Keys(hdlc.buf[b].pieces), { t })
    BY OrderPut, HandAfter
  <1>3. hdlc' = RxData(hdlc, p, main.same)
    BY QueuedIs
  <1> HIDE DEF p
  <1> DEFINE s       == hdlc.buf[hdlc.in]
             missing == ~Headed(s, p)
  <1>4. /\ hdlc.in \in Bufs /\ hdlc.out \in Bufs /\ hdlc.buf \in [Bufs -> BufTypes]
        /\ hdlc.tx \in TxTypes /\ hdlc.tx.pieces \in Seq(Pieces)
        /\ \A b \in Bufs : hdlc.buf[b] \in BufTypes /\ hdlc.buf[b].pieces \in Seq(Pieces)
    BY <1>1, FieldsOf
  <1>5. /\ hdlc'.in = hdlc.in /\ hdlc'.out = hdlc.out
        /\ \/ hdlc'.buf = [hdlc.buf EXCEPT ![hdlc.in] = Noted(s)] /\ hdlc'.tx = hdlc.tx
           \/ \E start \in BOOLEAN :
                /\ hdlc'.buf = [hdlc.buf EXCEPT ![hdlc.in] = Longer(s, p, missing, start)]
                /\ hdlc'.tx = IF start /\ main.same
                              THEN TxFrame(hdlc.tx, IF "PROCEED" \in s.flags THEN << p >>
                                                    ELSE Append(s.pieces, p))
                              ELSE hdlc.tx
    <2>1. PutIn(hdlc, hdlc', p, main.same)
      BY <1>1, <1>3, RxDataIs
    <2> QED BY <2>1, Zenon DEF PutIn
  <1>6. /\ InOrder(hdlc.buf, hdlc.out, hdlc.tx.pieces, left)
        /\ Given(hdlc.buf, hdlc.out, hdlc.tx.pieces, left)
        /\ Within(hdlc.buf, hdlc.tx.pieces, left, PastKeys)
    BY <1>1 DEF OrderInv, Order, Stuck, Recent
  <1>7. CASE hdlc'.buf = [hdlc.buf EXCEPT ![hdlc.in] = Noted(s)] /\ hdlc'.tx = hdlc.tx
    <2>1. Noted(s).pieces = s.pieces /\ ("PROCEED" \in Noted(s).flags <=> "PROCEED" \in s.flags)
      <3>1. s \in BufTypes
        BY <1>4
      <3> HIDE DEF s
      <3> QED BY <3>1 DEF Noted, BufTypes
    <2>2. \A b \in Bufs : /\ hdlc'.buf[b].pieces = hdlc.buf[b].pieces
                          /\ "PROCEED" \in hdlc'.buf[b].flags <=> "PROCEED" \in hdlc.buf[b].flags
      BY <1>4, <1>7, <2>1
    <2>3. "PROCEED" \in hdlc'.buf[hdlc.out].flags \/ "PROCEED" \notin hdlc.buf[hdlc.out].flags
      BY <1>4, <2>2
    <2>4. Order'
      <3>1. /\ InOrder(hdlc'.buf, hdlc.out, hdlc.tx.pieces, left)
            /\ Given(hdlc'.buf, hdlc.out, hdlc.tx.pieces, left)
        BY <1>6, <2>2, <2>3, OrderShrinks
      <3> QED BY <1>1, <1>5, <1>7, <3>1 DEF Order
    <2>5. Recent'
      BY <1>1, <1>6, <1>7, <2>2 DEF Recent, Within
    <2> QED BY <1>1, <2>4, <2>5 DEF OrderInv
  <1>8. ASSUME NEW start \in BOOLEAN,
               hdlc'.buf = [hdlc.buf EXCEPT ![hdlc.in] = Longer(s, p, missing, start)],
               hdlc'.tx = IF start /\ main.same
                              THEN TxFrame(hdlc.tx, IF "PROCEED" \in s.flags THEN << p >>
                                                    ELSE Append(s.pieces, p))
                              ELSE hdlc.tx
        PROVE  OrderInv'
    <2> DEFINE c == Longer(s, p, missing, start)
    <2>1. /\ c.pieces = Append(s.pieces, p) /\ c.pieces # << >> /\ c.pieces \in Seq(Pieces)
          /\ Keys(c.pieces) = Keys(s.pieces) \union { t }
          /\ "PROCEED" \in c.flags <=> start \/ "PROCEED" \in s.flags
      <3>1. s \in BufTypes /\ missing \in BOOLEAN
        BY <1>4
      <3> HIDE DEF s, missing
      <3> QED BY <1>1, <1>8, <3>1, LongerIs
    <2> HIDE DEF c, missing
    <2>2. hdlc'.buf = [hdlc.buf EXCEPT ![hdlc.in] = c] /\ s = hdlc.buf[hdlc.in]
          /\ hdlc'.buf[hdlc.in] = c /\ \A b \in Bufs : b # hdlc.in => hdlc'.buf[b] = hdlc.buf[b]
      BY <1>4, <1>8 DEF c, missing
    <2>3. /\ \A b \in Bufs : Off(b, hdlc.out) > Off(hdlc.in, hdlc.out) => hdlc.buf[b].pieces = << >>
          /\ main.same = TRUE /\ hdlc.in # hdlc.out => hdlc.out = Nxt(hdlc.in) /\ AllClear
      <3>1. /\ \/ Clean
               \/ /\ hdlc.in = hdlc.out
                  /\ \A b \in Bufs : b # hdlc.in => hdlc.buf[b].pieces = << >>
            /\ main.same = TRUE /\ hdlc.in # hdlc.out => hdlc.out = Nxt(hdlc.in) /\ AllClear
        BY <1>1 DEF OrderInv, NothingBehind
      <3>2. \A b \in Bufs : Off(b, hdlc.out) > Off(hdlc.in, hdlc.out) => b # hdlc.in
        BY <1>4, OffIs
      <3> QED BY <3>1, <3>2 DEF Clean, Used, Cleared
    <2> HIDE DEF s
    <2>4. /\ InOrder(hdlc'.buf, hdlc.out, hdlc.tx.pieces, left)
          /\ Given(hdlc'.buf, hdlc.out, hdlc.tx.pieces, left)
      <3>1. /\ c.pieces = Append(hdlc.buf[hdlc.in].pieces, p)
            /\ "PROCEED" \in hdlc.buf[hdlc.in].flags => "PROCEED" \in c.flags
            /\ hdlc.buf[hdlc.in].pieces \in Seq(Pieces)
        BY <1>4, <2>1, <2>2
      <3>2. /\ InOrder([hdlc.buf EXCEPT ![hdlc.in] = c], hdlc.out, hdlc.tx.pieces, left)
            /\ Given([hdlc.buf EXCEPT ![hdlc.in] = c], hdlc.out, hdlc.tx.pieces, left)
        BY <1>1, <1>2, <1>4, <1>6, <2>3, <3>1, OrderAppend
      <3> QED BY <2>2, <3>2
    <2>5. ASSUME NEW ps \in Seq(Pieces), Keys(ps) \subseteq PastKeys', hdlc'.tx.pieces = ps
          PROVE  Recent'
      <3>1. \A b \in Bufs : Keys(hdlc'.buf[b].pieces) \subseteq PastKeys'
        BY <1>1, <1>4, <1>6, <2>1, <2>2 DEF Within
      <3>2. left' \in PastKeys'
        BY <1>1, <1>6 DEF Within
      <3> QED BY <2>5, <3>1, <3>2 DEF Recent, Within
    <2>6. Keys(hdlc.tx.pieces) \subseteq PastKeys' /\ Keys(s.pieces) \subseteq PastKeys'
      BY <1>1, <1>4, <1>6, <2>2 DEF Within
    <2>7. CASE hdlc'.tx.pieces = hdlc.tx.pieces
      <3>1. Order'
        BY <1>1, <1>5, <2>4, <2>7 DEF Order
      <3>2. Recent'
        BY <1>4, <2>5, <2>6, <2>7
      <3> QED BY <1>1, <3>1, <3>2 DEF OrderInv
    <2>8. CASE hdlc'.tx.pieces # hdlc.tx.pieces
      <3> DEFINE qs == IF "PROCEED" \in s.flags THEN << p >> ELSE Append(s.pieces, p)
      <3>1. s.pieces \in Seq(Pieces) /\ << p >> \in Seq(Pieces) /\ Keys(<< p >>) = { t }
            /\ (s.pieces = << >> => Append(s.pieces, p) = << p >>)
        <4>1. s.pieces \in Seq(Pieces)
          BY <1>4, <2>2
        <4>2. s.pieces = << >> => Append(s.pieces, p) = << p >>
          OBVIOUS
        <4> QED BY <1>1, <4>1, <4>2, OnePiece
      <3>2. qs \in Seq(Pieces) /\ Keys(qs) \subseteq PastKeys'
        BY <1>1, <2>1, <2>6, <3>1
      <3> HIDE DEF qs
      <3>3. start /\ main.same = TRUE /\ hdlc'.tx = TxFrame(hdlc.tx, qs)
        BY <1>1, <1>8, <2>8 DEF qs
      <3>4. hdlc'.tx.pieces = hdlc.tx.pieces \o qs
        <4>1. TxFrame(hdlc.tx, qs).pieces =
                IF qs = << >> \/ hdlc.tx.crc THEN hdlc.tx.pieces ELSE hdlc.tx.pieces \o qs
          BY <1>4, <3>2, TxFrameIs
        <4>2. hdlc'.tx.pieces = TxFrame(hdlc.tx, qs).pieces
          BY <3>3
        <4> QED BY <2>8, <4>1, <4>2, Zenon
      <3>5. Recent'
        <4>1. Keys(hdlc.tx.pieces \o qs) \subseteq PastKeys' /\ hdlc.tx.pieces \o qs \in Seq(Pieces)
          BY <1>4, <2>6, <3>2, KeysJoin
        <4> QED BY <2>5, <3>4, <4>1
      <3>6. ASSUME hdlc.in = hdlc.out PROVE \A b \in Bufs : b # hdlc.out => hdlc'.buf[b].pieces = << >>
        <4>1. \A b \in Bufs : b # hdlc.out => Off(b, hdlc.out) > Off(hdlc.out, hdlc.out)
          <5>1. \A b \in Bufs : Off(b, hdlc.out) \in 0 .. QLen - 1
                                /\ (Off(b, hdlc.out) = 0 <=> b = hdlc.out)
            BY <1>4, OffIs
          <5> QED BY <1>4, <5>1, QueueAssumption
        <4> QED BY <2>2, <2>3, <3>6, <4>1
      <3>7. CASE hdlc.in = hdlc.out /\ "PROCEED" \in s.flags
        <4>1. qs = << p >>
          BY <3>7 DEF qs
        <4>2. InOrder(hdlc'.buf, hdlc.out, hdlc.tx.pieces \o << p >>, left)
          BY <1>1, <1>2, <1>4, <2>4, OrderSend
        <4>3. Given(hdlc'.buf, hdlc.out, hdlc.tx.pieces \o << p >>, left)
          <5>1. "PROCEED" \in hdlc'.buf[hdlc.out].flags
            BY <2>1, <2>2, <3>7
          <5> QED BY <3>6, <3>7, <5>1, KeysNone DEF Given, Precedes
        <4>4. Order'
          BY <1>1, <1>5, <3>4, <4>1, <4>2, <4>3 DEF Order
        <4> QED BY <1>1, <3>5, <4>4 DEF OrderInv
      <3>8. CASE hdlc.in = hdlc.out /\ "PROCEED" \notin s.flags
        <4>1. qs = hdlc'.buf[hdlc.out].pieces /\ "PROCEED" \in hdlc'.buf[hdlc.out].flags
          BY <2>1, <2>2, <3>3, <3>8 DEF qs
        <4>2. Precedes({ left } \union Keys(hdlc.tx.pieces), Keys(s.pieces))
          BY <1>4, <1>6, <2>2, <3>8 DEF Given
        <4>3. \A b \in Bufs : Precedes({ left } \union Keys(hdlc.tx.pieces), Keys(hdlc'.buf[b].pieces))
          BY <1>2, <2>1, <2>2, <3>6, <3>8, <4>2, KeysNone DEF Precedes
        <4>4. /\ InOrder(hdlc'.buf, hdlc.out, hdlc.tx.pieces \o qs, left)
              /\ Given(hdlc'.buf, hdlc.out, hdlc.tx.pieces \o qs, left)
          BY <1>4, <2>4, <3>2, <4>1, <4>3, OrderTake
        <4>5. Order'
          BY <1>1, <1>5, <3>4, <4>4 DEF Order
        <4> QED BY <1>1, <3>5, <4>5 DEF OrderInv
      <3>9. CASE hdlc.in # hdlc.out
        <4>1. hdlc.out = Nxt(hdlc.in) /\ AllClear
          BY <2>3, <3>3, <3>9
        <4>2. s = Cleared
          BY <1>4, <2>2, <4>1 DEF AllClear
        <4>3. qs = << p >>
          BY <3>1, <4>2 DEF qs, Cleared
        <4>4. InOrder(hdlc'.buf, hdlc.out, hdlc.tx.pieces \o << p >>, left)
          BY <1>1, <1>2, <1>4, <2>4, OrderSend
        <4>5. Stuck'
          BY <1>1, <1>5, <2>2, <4>1 DEF Stuck, AllClear
        <4>6. Order'
          BY <1>1, <1>5, <3>4, <4>3, <4>4, <4>5 DEF Order
        <4> QED BY <1>1, <3>5, <4>6 DEF OrderInv
      <3> QED BY <3>7, <3>8, <3>9
    <2> QED BY <2>7, <2>8
  <1> QED BY <1>5, <1>7, <1>8

LEMMA StartedIs ==
  ASSUME NEW t \in TxTypes, NEW s \in BufTypes, t.pieces = << >>
  PROVE  /\ \/ Started(t, s).pieces = << >>
            \/ "PROCEED" \in s.flags /\ Started(t, s).pieces = s.pieces
         /\ ~t.crc /\ ~t.bad =>
              /\ ~Started(t, s).crc
              /\ IF IsData(s.contents) /\ "PROCEED" \in s.flags
                 THEN /\ Started(t, s).pieces = s.pieces
                      /\ Started(t, s).bad <=> "CORRUPT_CRC" \in s.flags /\ s.pieces # << >>
                 ELSE Started(t, s).pieces = << >> /\ ~Started(t, s).bad
         /\ Started(t, s) \in TxTypes
  <1>1. s.pieces \in Seq(Pieces) /\ << >> \in Seq(Pieces) /\ s.contents \in Contents
    BY DEF BufTypes
  <1>2. ~(IsInd(s.contents) /\ IsData(s.contents))
    BY DEF IsInd, IsData
  <1> DEFINE f == TxFrame(t, s.pieces)
             e == TxFrame(t, << >>)
  <1>3. /\ f \in TxTypes /\ e \in TxTypes /\ f.crc = t.crc /\ f.bad = t.bad
        /\ e.crc = t.crc /\ e.bad = t.bad /\ e.pieces = << >>
        /\ f.pieces = s.pieces \/ (f.pieces = << >> /\ t.crc)
    <2>1. /\ f \in TxTypes /\ f.crc = t.crc /\ f.bad = t.bad
          /\ f.pieces = IF s.pieces = << >> \/ t.crc THEN t.pieces ELSE t.pieces \o s.pieces
      BY <1>1, TxFrameIs
    <2>2. /\ e \in TxTypes /\ e.crc = t.crc /\ e.bad = t.bad /\ e.pieces = << >>
      BY <1>1, TxFrameIs
    <2>3. << >> \o s.pieces = s.pieces
      BY <1>1
    <2> HIDE DEF f, e
    <2> QED BY <2>1, <2>2, <2>3
  <1>4. /\ TxCorrupt(f).pieces = f.pieces /\ TxCorrupt(f).crc = f.crc /\ TxCorrupt(f) \in TxTypes
        /\ TxCorrupt(f).bad = IF f.pieces = << >> THEN f.bad ELSE ~f.bad
    BY <1>1, <1>3, TxFrameIs, TxTypesKept
  <1>5. Started(t, s) = IF IsInd(s.contents) THEN e
                        ELSE IF IsData(s.contents) /\ "PROCEED" \in s.flags
                             THEN IF "CORRUPT_CRC" \in s.flags THEN TxCorrupt(f) ELSE f
                             ELSE t
    <2>1. Started(t, s) = CASE IsInd(s.contents) -> e
                            [] IsData(s.contents) /\ "PROCEED" \in s.flags ->
                                 IF "CORRUPT_CRC" \in s.flags THEN TxCorrupt(f) ELSE f
                            [] OTHER -> t
      BY Zenon DEF Started
    <2> HIDE DEF e, f
    <2> QED BY <1>2, <2>1
  <1>6. t.crc \in BOOLEAN /\ t.bad \in BOOLEAN
    BY DEF TxTypes
  <1> HIDE DEF f, e
  <1>7. CASE IsInd(s.contents)
    BY <1>2, <1>3, <1>5, <1>7
  <1>8. CASE ~IsInd(s.contents) /\ IsData(s.contents) /\ "PROCEED" \in s.flags /\ "CORRUPT_CRC" \in s.flags
    BY <1>3, <1>4, <1>5, <1>6, <1>8
  <1>9. CASE ~IsInd(s.contents) /\ IsData(s.contents) /\ "PROCEED" \in s.flags /\ "CORRUPT_CRC" \notin s.flags
    BY <1>3, <1>5, <1>6, <1>9
  <1>10. CASE ~IsInd(s.contents) /\ ~(IsData(s.contents) /\ "PROCEED" \in s.flags)
    BY <1>5, <1>10
  <1> QED BY <1>7, <1>8, <1>9, <1>10

(* The pointers and the buffers stay, or out moves on.                     *)
LEMMA OrderStays ==
  ASSUME Types, OrderInv, UNCHANGED << far, main >>,
         hdlc'.buf = hdlc.buf, hdlc'.in = hdlc.in, hdlc'.out = hdlc.out
  PROVE  InHand' /\ NothingBehind' /\ SeenEmpty' /\ PastKeys' = PastKeys /\ Stuck' = Stuck
  <1>1. Open' = Open /\ ToDo("data")' = ToDo("data") /\ Op' = Op
    BY DEF Open, ToDo, Op
  <1>2. Used' = Used /\ Clean' = Clean /\ AllClear' = AllClear
    BY DEF Used, Clean, AllClear
  <1>3. InHand' /\ PastKeys' = PastKeys /\ Stuck' = Stuck
    BY <1>1 DEF OrderInv, InHand, PastKeys, Stuck
  <1>4. NothingBehind' /\ SeenEmpty'
    BY <1>1, <1>2 DEF OrderInv, NothingBehind, SeenEmpty
  <1> QED BY <1>3, <1>4

LEMMA OrderMoves ==
  ASSUME Types, OrderInv, UNCHANGED << far, main >>,
         hdlc'.in = hdlc.in, hdlc'.out = Nxt(hdlc.out),
         hdlc.buf[hdlc.out] # Cleared, hdlc'.buf[hdlc.out] = Cleared,
         hdlc.in = hdlc.out => "PROCEED" \in hdlc.buf[hdlc.out].flags,
         \A b \in Bufs : b # hdlc.in /\ b # hdlc.out => hdlc'.buf[b] = hdlc.buf[b],
         hdlc'.buf[hdlc.in].pieces = hdlc.buf[hdlc.in].pieces \/ hdlc'.buf[hdlc.in].pieces = << >>
  PROVE  InHand' /\ NothingBehind' /\ SeenEmpty' /\ PastKeys' = PastKeys
  <1>1. Open' = Open /\ ToDo("data")' = ToDo("data") /\ Op' = Op
    BY DEF Open, ToDo, Op
  <1>2. InHand' /\ PastKeys' = PastKeys
    BY <1>1 DEF OrderInv, InHand, PastKeys
  <1>3. hdlc.in \in Bufs /\ hdlc.out \in Bufs
    BY FieldsOf DEF Types
  <1>4. ~AllClear
    BY <1>3 DEF AllClear
  <1>5. Cleared.pieces = << >>
    BY DEF Cleared
  <1>6. CASE hdlc.in = hdlc.out
    <2>1. ToDo("data") => AllClear'
      <3> SUFFICES ASSUME ToDo("data"), NEW b \in Bufs PROVE hdlc'.buf[b] = Cleared
        BY DEF AllClear
      <3>1. Clean
        BY <1>6 DEF OrderInv, NothingBehind
      <3>2. CASE b = hdlc.out
        BY <3>2
      <3>3. CASE b # hdlc.out
        <4>1. Off(b, hdlc.out) > Off(hdlc.out, hdlc.out)
          <5>1. Off(b, hdlc.out) \in 0 .. QLen - 1 /\ Off(b, hdlc.out) # 0 /\ Off(hdlc.out, hdlc.out) = 0
            BY <1>3, <3>3, OffIs
          <5> QED BY <5>1, QueueAssumption
        <4>2. hdlc.buf[b] = Cleared
          BY <1>6, <3>1, <4>1 DEF Clean, Used
        <4> QED BY <1>6, <3>3, <4>2
      <3> QED BY <3>2, <3>3
    <2>2. ToDo("data") => Clean'
      BY <2>1 DEF AllClear, Clean
    <2>3. hdlc'.out = Nxt(hdlc'.in)
      BY <1>6
    <2>4. NothingBehind'
      BY <1>1, <1>6, <2>1, <2>2, <2>3 DEF OrderInv, NothingBehind
    <2>5. SeenEmpty'
      BY <1>5, <1>6 DEF SeenEmpty
    <2> QED BY <1>2, <2>4, <2>5
  <1>7. CASE hdlc.in # hdlc.out
    <2>1. ~(main.same = TRUE /\ ToDo("data"))
      BY <1>4, <1>7 DEF OrderInv, NothingBehind
    <2>2. Used \in Int /\ Used' = Used - 1
      BY <1>3, <1>7, OffOne, OffIs DEF Used
    <2>3. ToDo("data") => Clean'
      <3> SUFFICES ASSUME ToDo("data"), NEW b \in Bufs, Off(b, hdlc'.out) > Used'
                   PROVE  hdlc'.buf[b] = Cleared
        BY DEF Clean
      <3>1. Clean
        BY <1>7 DEF OrderInv, NothingBehind
      <3>2. CASE b = hdlc.out
        BY <3>2
      <3>3. CASE b # hdlc.out
        <4>1. Off(b, hdlc'.out) = Off(b, hdlc.out) - 1 /\ Off(b, hdlc.out) \in Int
          BY <1>3, <3>3, OffOne, OffIs
        <4>2. Off(b, hdlc.out) > Used
          BY <2>2, <4>1
        <4>3. b # hdlc.in
          BY <2>2, <4>2 DEF Used
        <4> QED BY <3>1, <3>3, <4>2, <4>3 DEF Clean
      <3> QED BY <3>2, <3>3
    <2>4. Used <= QLen - 3 => Used' <= QLen - 3
      BY <2>2, QueueAssumption
    <2>5. NothingBehind'
      BY <1>1, <1>4, <1>7, <2>1, <2>3, <2>4 DEF OrderInv, NothingBehind
    <2>6. SeenEmpty'
      BY <1>7 DEF OrderInv, SeenEmpty
    <2> QED BY <1>2, <2>5, <2>6
  <1> QED BY <1>6, <1>7

LEMMA OrderUnderflow ==
  ASSUME Types, OrderInv, UNCHANGED << far, main >>, NEW t \in TxTypes, t.pieces = << >>,
         hdlc' = Underflow([hdlc EXCEPT !.tx = t]),
         InOrder(hdlc.buf, hdlc.out, << >>, left'),
         Given(hdlc.buf, hdlc.out, << >>, left') \/ Stuck,
         left' \in PastKeys
  PROVE  OrderInv'
  <1>1. /\ hdlc.in \in Bufs /\ hdlc.out \in Bufs /\ hdlc.buf \in [Bufs -> BufTypes]
        /\ \A b \in Bufs : hdlc.buf[b] \in BufTypes
    BY FieldsOf DEF Types
  <1>2. Within(hdlc.buf, << >>, left', PastKeys)
    BY KeysNone DEF OrderInv, Recent, Within
  <1>3. \/ /\ hdlc'.buf = hdlc.buf /\ hdlc'.out = hdlc.out /\ hdlc'.tx = t /\ hdlc'.in = hdlc.in
        \/ /\ "PROCEED" \in hdlc.buf[hdlc.out].flags
           /\ hdlc'.buf = [hdlc.buf EXCEPT ![hdlc.out] = Cleared] /\ hdlc'.out = Nxt(hdlc.out)
           /\ hdlc'.in = hdlc.in
           /\ hdlc'.tx = Started(t, hdlc.buf[Nxt(hdlc.out)])
    <2>1. Ended(hdlc, t, hdlc')
      BY TxDoneIs DEF Types
    <2> QED BY <2>1, Zenon DEF Ended
  <1>4. CASE hdlc'.buf = hdlc.buf /\ hdlc'.out = hdlc.out /\ hdlc'.tx = t /\ hdlc'.in = hdlc.in
    <2>1. InHand' /\ NothingBehind' /\ SeenEmpty' /\ PastKeys' = PastKeys /\ Stuck' = Stuck
      BY <1>4, OrderStays
    <2>2. Order' /\ Recent'
      BY <1>2, <1>4, <2>1 DEF Order, Recent
    <2> QED BY <2>1, <2>2 DEF OrderInv
  <1>5. CASE /\ "PROCEED" \in hdlc.buf[hdlc.out].flags
             /\ hdlc'.buf = [hdlc.buf EXCEPT ![hdlc.out] = Cleared] /\ hdlc'.out = Nxt(hdlc.out)
             /\ hdlc'.in = hdlc.in
             /\ hdlc'.tx = Started(t, hdlc.buf[Nxt(hdlc.out)])
    <2> DEFINE C == hdlc'.buf
               n == Nxt(hdlc.out)
    <2>1. /\ C[hdlc.out] = Cleared /\ n \in Bufs /\ n # hdlc.out
          /\ \A b \in Bufs : b # hdlc.out => C[b] = hdlc.buf[b]
      BY <1>1, <1>5, NxtIs
    <2>2. hdlc.buf[hdlc.out] # Cleared /\ Cleared.pieces = << >>
      BY <1>5 DEF Cleared
    <2>3. InHand' /\ NothingBehind' /\ SeenEmpty' /\ PastKeys' = PastKeys
      <3>1. hdlc'.buf[hdlc.in].pieces = hdlc.buf[hdlc.in].pieces \/ hdlc'.buf[hdlc.in].pieces = << >>
        BY <1>1, <2>1, <2>2
      <3> QED BY <1>5, <2>1, <2>2, <3>1, OrderMoves
    <2>4. ~Stuck
      <3>1. Stuck => hdlc.out # hdlc.in
        BY <1>1, NxtIs DEF Stuck
      <3> QED BY <1>1, <2>2, <3>1 DEF Stuck
    <2>5. \A b \in Bufs : C[b].pieces = hdlc.buf[b].pieces \/ C[b].pieces = << >>
      BY <2>1, <2>2
    <2>6. InOrder(C, hdlc.out, << >>, left') /\ Given(C, hdlc.out, << >>, left')
      BY <2>1, <2>2, <2>4, <2>5, OrderShrinks
    <2> DEFINE qs == hdlc'.tx.pieces
    <2>7. qs = << >> \/ ("PROCEED" \in C[n].flags /\ qs = C[n].pieces)
      BY <1>1, <1>5, <2>1, StartedIs
    <2>8. Within(C, qs, left', PastKeys)
      <3>1. Within(C, << >>, left', PastKeys)
        BY <1>2, <2>5, WithinShrinks
      <3> QED BY <2>1, <2>7, <3>1 DEF Within
    <2> HIDE DEF C, qs
    <2>9. InOrder(C, n, << >>, left') /\ \A b \in Bufs : Precedes({ left' }, Keys(C[b].pieces))
      <3>1. /\ InOrder(C, n, << >>, left')
            /\ \A b \in Bufs : Precedes({ left' } \union Keys(<< >>), Keys(C[b].pieces))
        BY <1>1, <2>1, <2>2, <2>6, OrderOut
      <3> QED BY <3>1, KeysNone, PrecedesParts
    <2>10. InOrder(C, n, qs, left') /\ Given(C, n, qs, left')
      <3>1. CASE qs = << >>
        BY <2>9, <3>1, KeysNone DEF Given, Precedes
      <3>2. CASE "PROCEED" \in C[n].flags /\ qs = C[n].pieces
        BY <2>1, <2>9, <3>2, OrderStart
      <3> QED BY <2>7, <3>1, <3>2
    <2>11. Order' /\ Recent'
      BY <1>5, <2>3, <2>8, <2>10 DEF Order, Recent, C, qs
    <2> QED BY <2>3, <2>11 DEF OrderInv
  <1> QED BY <1>3, <1>4, <1>5

LEMMA OrderFrameEnd ==
  ASSUME Types, OrderInv, HdlcFrameEnd, hdlc.tx.pieces # << >>
  PROVE  OrderInv'
  <1> DEFINE ps == hdlc.tx.pieces
             t  == [TxInit EXCEPT !.tx_end = hdlc.tx.tx_end]
             p  == ps[Len(ps)]
  <1>1. /\ hdlc' = TxDone(hdlc) /\ left' = << p.f, p.k >> /\ UNCHANGED << far, main >>
    BY DEF HdlcFrameEnd
  <1>2. hdlc' = Underflow([hdlc EXCEPT !.tx = t])
    BY <1>1, Zenon DEF TxDone
  <1>3. t \in TxTypes /\ t.pieces = << >>
    <2>1. TxInit \in TxTypes /\ hdlc.tx.tx_end \in BOOLEAN
      <3>1. hdlc.tx \in TxTypes
        BY FieldsOf DEF Types
      <3> QED BY <3>1, TxTypesKept DEF TxTypes
    <2>2. TxInit.pieces = << >>
      BY DEF TxInit
    <2> QED BY <2>1, <2>2 DEF TxTypes
  <1>4. ps \in Seq(Pieces)
    BY FieldsOf DEF Types
  <1> HIDE DEF ps, t
  <1>5. InOrder(hdlc.buf, hdlc.out, ps, left)
    BY DEF OrderInv, Order, ps
  <1>6. /\ InOrder(hdlc.buf, hdlc.out, << >>, left')
        /\ Given(hdlc.buf, hdlc.out, ps, left) => Given(hdlc.buf, hdlc.out, << >>, left')
    <2>1. ps # << >>
      BY DEF ps
    <2> QED BY <1>1, <1>4, <1>5, <2>1, OrderLeft
  <1>7. Given(hdlc.buf, hdlc.out, << >>, left') \/ Stuck
    BY <1>6 DEF OrderInv, Order, ps
  <1>8. left' \in PastKeys
    <2>1. left' \in Keys(ps)
      <3>1. ps # << >>
        BY DEF ps
      <3> QED BY <1>1, <1>4, <3>1, KeysOf
    <2> QED BY <2>1 DEF OrderInv, Recent, Within, ps
  <1> QED BY <1>1, <1>2, <1>3, <1>6, <1>7, <1>8, OrderUnderflow

LEMMA OrderFlagsEnd ==
  ASSUME Types, OrderInv, HdlcFlagsEnd
  PROVE  OrderInv'
  <1> DEFINE t == [hdlc.tx EXCEPT !.preamble = FALSE]
  <1>1. /\ hdlc' = IF hdlc.tx.pieces = << >> THEN Underflow([hdlc EXCEPT !.tx = t])
                   ELSE [hdlc EXCEPT !.tx = t]
        /\ UNCHANGED << main, far, left >>
    BY Zenon DEF HdlcFlagsEnd, PreambleDone
  <1>2. t \in TxTypes /\ t.pieces = hdlc.tx.pieces
    <2>1. hdlc.tx \in TxTypes
      BY FieldsOf DEF Types
    <2> QED BY <2>1 DEF TxTypes
  <1> HIDE DEF t
  <1>3. CASE hdlc.tx.pieces = << >>
    <2>1. hdlc' = Underflow([hdlc EXCEPT !.tx = t])
      BY <1>1, <1>3
    <2>2. /\ InOrder(hdlc.buf, hdlc.out, << >>, left')
          /\ Given(hdlc.buf, hdlc.out, << >>, left') \/ Stuck
          /\ left' \in PastKeys
      BY <1>1, <1>3 DEF OrderInv, Order, Recent, Within
    <2> QED BY <1>1, <1>2, <1>3, <2>1, <2>2, OrderUnderflow
  <1>4. CASE hdlc.tx.pieces # << >>
    <2>1. hdlc' = [hdlc EXCEPT !.tx = t] /\ hdlc \in HdlcTypes
      BY <1>1, <1>4 DEF Types, Queue
    <2>2. hdlc'.buf = hdlc.buf /\ hdlc'.in = hdlc.in /\ hdlc'.out = hdlc.out /\ hdlc'.tx = t
      BY ONLY <2>1 DEF HdlcTypes
    <2>3. QueueKept
      BY <1>2, <2>2 DEF QueueKept
    <2>4. main'.todo = main.todo /\ (main'.same = main.same \/ main'.same = Same) /\ UNCHANGED << left, far >>
      BY <1>1
    <2> QED BY <2>3, <2>4, OrderIdle
  <1> QED BY <1>3, <1>4

LEMMA OrderQuiet ==
  ASSUME Types, OrderInv,
         Look \/ NextHandler \/ HdlcOctetsEnd \/ HdlcTxEnd \/ NonEcmBits \/ HearCfr \/ UNCHANGED gwVars
  PROVE  OrderInv'
  <1>1. UNCHANGED << left, far >>
    BY DEF Look, NextHandler, HdlcOctetsEnd, HdlcTxEnd, NonEcmBits, HearCfr, gwVars
  <1>2. main'.todo = main.todo /\ (main'.same = main.same \/ main'.same = Same)
    <2>1. CASE Look
      <3>1. main' = [main EXCEPT !.same = Same] /\ main \in MainTypes
        BY <2>1 DEF Look, Types
      <3> HIDE DEF Same
      <3> QED BY <3>1 DEF MainTypes
    <2>2. CASE UNCHANGED main
      BY <2>2
    <2> QED BY <2>1, <2>2 DEF NextHandler, HdlcOctetsEnd, HdlcTxEnd, NonEcmBits, HearCfr, gwVars
  <1>3. QueueKept
    <2>1. CASE UNCHANGED hdlc
      BY <2>1 DEF QueueKept
    <2>2. CASE \E u \in TxTypes : hdlc' = [hdlc EXCEPT !.tx = u] /\ u.pieces = hdlc.tx.pieces
      <3>1. PICK u \in TxTypes : hdlc' = [hdlc EXCEPT !.tx = u] /\ u.pieces = hdlc.tx.pieces
        BY <2>2
      <3>2. hdlc \in HdlcTypes
        BY DEF Types, Queue
      <3>3. hdlc'.buf = hdlc.buf /\ hdlc'.in = hdlc.in /\ hdlc'.out = hdlc.out /\ hdlc'.tx = u
        BY ONLY <3>1, <3>2 DEF HdlcTypes
      <3> QED BY <3>1, <3>3 DEF QueueKept
    <2>3. ASSUME HdlcOctetsEnd \/ HdlcTxEnd
          PROVE  \E u \in TxTypes : hdlc' = [hdlc EXCEPT !.tx = u] /\ u.pieces = hdlc.tx.pieces
      <3>1. hdlc.tx \in TxTypes
        BY FieldsOf DEF Types
      <3> DEFINE u == IF HdlcOctetsEnd THEN [hdlc.tx EXCEPT !.crc = TRUE]
                      ELSE [hdlc.tx EXCEPT !.tx_end = FALSE]
      <3>2. u \in TxTypes /\ u.pieces = hdlc.tx.pieces
        BY <3>1 DEF TxTypes
      <3>3. hdlc' = [hdlc EXCEPT !.tx = u]
        BY <2>3 DEF HdlcOctetsEnd, HdlcTxEnd
      <3> HIDE DEF u
      <3> QED BY <3>2, <3>3
    <2> QED BY <2>1, <2>2, <2>3 DEF Look, NextHandler, NonEcmBits, HearCfr, gwVars
  <1> QED BY <1>1, <1>2, <1>3, OrderIdle

LEMMA OrderNextTxType ==
  ASSUME Types, OrderInv, NextTxType
  PROVE  OrderInv'
  <1>1. PICK i \in Indicators :
           /\ hdlc.in # hdlc.out
           /\ hdlc.buf[hdlc.out].contents = Ind(i)
           /\ hdlc'.in = hdlc.in /\ hdlc'.out = Nxt(hdlc.out)
           /\ hdlc'.buf = IF i = "v21_preamble"
                          THEN Emptied([hdlc.buf EXCEPT ![hdlc.out] = Cleared], hdlc.in)
                          ELSE [hdlc.buf EXCEPT ![hdlc.out] = Cleared]
           /\ hdlc'.tx.pieces = << >> \/ hdlc'.tx.pieces = hdlc.tx.pieces
           /\ UNCHANGED << main, far, left >>
    BY NextTxTypeIs DEF Types
  <1>2. /\ hdlc.in \in Bufs /\ hdlc.out \in Bufs /\ hdlc.buf \in [Bufs -> BufTypes]
        /\ \A b \in Bufs : hdlc.buf[b] \in BufTypes
    BY FieldsOf DEF Types
  <1> DEFINE C == [hdlc.buf EXCEPT ![hdlc.out] = Cleared]
  <1>3. C \in [Bufs -> BufTypes] /\ C[hdlc.out] = Cleared
        /\ \A b \in Bufs : b # hdlc.out => C[b] = hdlc.buf[b]
    <2>1. Cleared \in BufTypes
      BY ClearedSized DEF Sized
    <2> QED BY <1>2, <2>1
  <1>4. /\ hdlc'.buf = C \/ hdlc'.buf = Emptied(C, hdlc.in)
    BY <1>1
  <1> HIDE DEF C
  <1>5. /\ Emptied(C, hdlc.in)[hdlc.out] = Cleared
        /\ \A b \in Bufs : b # hdlc.in => Emptied(C, hdlc.in)[b] = C[b]
        /\ Emptied(C, hdlc.in)[hdlc.in].pieces = << >>
        /\ \A b \in Bufs : Emptied(C, hdlc.in)[b].flags = C[b].flags
    BY <1>1, <1>2, <1>3 DEF Emptied, BufTypes
  <1>6. Cleared.pieces = << >> /\ hdlc.buf[hdlc.out] # Cleared
    <2>1. Ind(i) # NONE
      BY NoneIs
    <2> QED BY <1>1, <2>1 DEF Cleared
  <1>7. /\ hdlc'.buf[hdlc.out] = Cleared
        /\ \A b \in Bufs : b # hdlc.in /\ b # hdlc.out => hdlc'.buf[b] = hdlc.buf[b]
        /\ hdlc'.buf[hdlc.in].pieces = hdlc.buf[hdlc.in].pieces \/ hdlc'.buf[hdlc.in].pieces = << >>
        /\ \A b \in Bufs : hdlc'.buf[b].pieces = hdlc.buf[b].pieces \/ hdlc'.buf[b].pieces = << >>
    BY <1>1, <1>2, <1>3, <1>4, <1>5, <1>6
  <1>8. InHand' /\ NothingBehind' /\ SeenEmpty' /\ PastKeys' = PastKeys
    BY <1>1, <1>6, <1>7, OrderMoves
  <1>9. ~Stuck
    BY <1>1, <1>2, <1>6 DEF Stuck
  <1>10. /\ InOrder(hdlc'.buf, hdlc.out, hdlc'.tx.pieces, left)
         /\ Given(hdlc'.buf, hdlc.out, hdlc'.tx.pieces, left)
    <2>1. /\ InOrder(hdlc.buf, hdlc.out, hdlc.tx.pieces, left)
          /\ Given(hdlc.buf, hdlc.out, hdlc.tx.pieces, left)
      BY <1>9 DEF OrderInv, Order
    <2>2. hdlc'.buf[hdlc.out].pieces = << >>
      BY <1>6, <1>7
    <2>3. /\ hdlc'.tx.pieces = hdlc.tx.pieces \/ hdlc'.tx.pieces = << >>
          /\ \A b \in Bufs : hdlc'.buf[b].pieces = hdlc.buf[b].pieces \/ hdlc'.buf[b].pieces = << >>
      BY <1>1, <1>7
    <2> QED BY <2>1, <2>2, <2>3, OrderShrinks
  <1>11. /\ InOrder(hdlc'.buf, Nxt(hdlc.out), hdlc'.tx.pieces, left)
         /\ \A b \in Bufs : Precedes({ left } \union Keys(hdlc'.tx.pieces), Keys(hdlc'.buf[b].pieces))
    <2>1. hdlc'.buf[hdlc.out].pieces = << >>
      BY <1>6, <1>7
    <2> QED BY <1>2, <1>10, <2>1, OrderOut
  <1>12. Order'
    BY <1>1, <1>11 DEF Order, Given
  <1>13. Recent'
    <2>1. Within(hdlc'.buf, hdlc'.tx.pieces, left, PastKeys)
      <3>1. /\ hdlc'.tx.pieces = hdlc.tx.pieces \/ hdlc'.tx.pieces = << >>
            /\ \A b \in Bufs : hdlc'.buf[b].pieces = hdlc.buf[b].pieces \/ hdlc'.buf[b].pieces = << >>
        BY <1>1, <1>7
      <3> QED BY <3>1, WithinShrinks DEF OrderInv, Recent
    <2> QED BY <1>1, <1>8, <2>1 DEF Recent
  <1> QED BY <1>8, <1>12, <1>13 DEF OrderInv

-----------------------------------------------------------------------------
(* The packets of the far end.                                             *)

(* A packet comes and leaves the main thread with ops, or it is lost.      *)
Sends(ops, packet, class) ==
  /\ main.todo = << >> /\ RoomInRing /\ UNCHANGED << modem, mode, hit, left >>
  /\ \/ /\ ~far'.gap /\ far'.lost = far.lost
        /\ SeenAs(hdlc, hdlc', far.gap)
        /\ hdlc'.last = packet /\ hdlc'.field_class = class
        /\ main'.todo = ops /\ main'.same \in { NONE, Same }
     \/ /\ far'.gap /\ far'.lost = far.lost + 1
        /\ UNCHANGED << hdlc, main >>

\* What a packet changes at the far end.
Became(after) ==
  /\ far'.sig = after.sig /\ far'.f = after.f /\ far'.k = after.k /\ far'.dcs = after.dcs
  /\ far'.whole = after.whole /\ far'.over = after.over /\ far'.spoilt = after.spoilt
  /\ far'.n = after.n
  /\ far'.heard = (IF far'.gap THEN far.heard ELSE after.heard)
  /\ far'.headless = IF far'.gap THEN far.headless ELSE after.headless

\* A packet tells nothing more of the signal.
TellsNoMore == far'.n = far.n /\ far'.heard = far.heard /\ far'.headless = far.headless

(* The end of a frame, a signal, an octet.                                 *)
LEMMA BecameSame ==
  ASSUME NEW after, Became(after), after.n = far.n, after.heard = far.heard,
         after.headless = far.headless
  PROVE  TellsNoMore
  BY DEF Became, TellsNoMore

LEMMA SendsIs ==
  ASSUME Types, NEW after \in FarTypes, after.lost = far.lost, NEW handled,
         Packet(after, handled), NEW ops, NEW packet, NEW class,
         handled => /\ SeenAs(hdlc, hdlc', far.gap)
                    /\ hdlc'.last = packet /\ hdlc'.field_class = class
                    /\ \/ main'.todo = ops /\ main'.same \in { NONE, Same }
                       \/ UNCHANGED main /\ ops = << >>
  PROVE  Sends(ops, packet, class) /\ Became(after)
  <1> DEFINE k    == after.lost + 1
             come == [after EXCEPT !.gap = FALSE]
             gone == [after EXCEPT !.gap = TRUE, !.lost = k,
                                   !.heard = far.heard, !.headless = far.headless]
  <1>1. /\ main.todo = << >> /\ RoomInRing /\ UNCHANGED << modem, mode, hit, left >>
        /\ (far' = come /\ handled) \/ (far' = gone /\ UNCHANGED << hdlc, main >>)
    BY DEF Packet
  <1>2. k = far.lost + 1
    OBVIOUS
  <1>3. main.same = NONE
    <2>1. main \in MainTypes /\ (main.same # NONE => main.todo # << >>)
      BY DEF Types, Asked
    <2> QED BY <1>1, <2>1
  <1> HIDE DEF k
  <1>4. CASE far' = come /\ handled
    <2>1. ~far'.gap /\ far'.lost = far.lost /\ Became(after)
      BY <1>4 DEF FarTypes, Became
    <2> HIDE DEF come, gone
    <2>2. main'.todo = ops /\ main'.same \in { NONE, Same }
      BY <1>1, <1>3, <1>4
    <2> QED BY <1>1, <1>4, <2>1, <2>2 DEF Sends
  <1>5. CASE far' = gone /\ UNCHANGED << hdlc, main >>
    <2>1. far'.gap /\ far'.lost = far.lost + 1 /\ Became(after)
      BY <1>2, <1>5 DEF Types, FarTypes, Became
    <2> HIDE DEF come, gone
    <2> QED BY <1>1, <1>5, <2>1 DEF Sends
  <1> QED BY <1>1, <1>4, <1>5

LEMMA DoSame ==
  ASSUME NEW ops, Do(ops)
  PROVE  main'.todo = ops /\ main'.same \in { NONE, Same }
  BY DEF Do

LEMMA IndicatorSends ==
  ASSUME Types, NEW after \in FarTypes, after.lost = far.lost, NEW i, Indicator(after, i)
  PROVE  /\ Became(after)
         /\ Sends(IF hdlc.current_rx_indicator = i THEN << >> ELSE << << "ind", i >> >>,
                  NONE, hdlc.field_class)
  <1> DEFINE ops == IF hdlc.current_rx_indicator = i THEN << >> ELSE << << "ind", i >> >>
             handled == /\ hdlc' = Seen(NONE) /\ UNCHANGED nonEcm
                        /\ IF hdlc.current_rx_indicator = i THEN UNCHANGED main
                           ELSE Do(<< << "ind", i >> >>)
  <1>1. Packet(after, handled)
    BY Zenon DEF Indicator
  <1>2. ASSUME handled
        PROVE  /\ SeenAs(hdlc, hdlc', far.gap)
               /\ hdlc'.last = NONE /\ hdlc'.field_class = hdlc.field_class
               /\ \/ main'.todo = ops /\ main'.same \in { NONE, Same }
                  \/ UNCHANGED main /\ ops = << >>
    <2>1. hdlc' = Seen(NONE) /\ Queue(hdlc)
      BY <1>2 DEF Types
    <2>2. SeenAs(hdlc, Seen(NONE), far.gap) /\ Seen(NONE).last = NONE
          /\ Seen(NONE).field_class = hdlc.field_class
      BY <2>1, SeenIs
    <2>3. \/ main'.todo = ops /\ main'.same \in { NONE, Same }
          \/ UNCHANGED main /\ ops = << >>
      BY <1>2, DoSame
    <2> QED BY <2>1, <2>2, <2>3
  <1> HIDE DEF ops, handled
  <1>3. Sends(ops, NONE, hdlc.field_class) /\ Became(after)
    BY <1>1, <1>2, SendsIs
  <1> QED BY <1>3 DEF ops

LEMMA HdlcDataSends ==
  ASSUME Types, NEW after \in FarTypes, after.lost = far.lost, NEW p, HdlcData(after, p)
  PROVE  /\ Became(after)
         /\ Sends(Append(Missing(p.d), << "data", p >>), << p.d, "data" >>, "hdlc")
  <1> DEFINE ops == Append(Missing(p.d), << "data", p >>)
             field == << p.d, "data" >>
             handled == /\ hdlc' = [Seen(<< p.d, "data" >>) EXCEPT !.field_class = "hdlc"]
                        /\ Do(Append(Missing(p.d), << "data", p >>))
                        /\ UNCHANGED nonEcm
  <1>1. Packet(after, handled)
    BY Zenon DEF HdlcData
  <1>2. ASSUME handled
        PROVE  /\ SeenAs(hdlc, hdlc', far.gap)
               /\ hdlc'.last = field /\ hdlc'.field_class = "hdlc"
               /\ \/ main'.todo = ops /\ main'.same \in { NONE, Same }
                  \/ UNCHANGED main /\ ops = << >>
    <2>1. hdlc' = [Seen(field) EXCEPT !.field_class = "hdlc"] /\ Queue(hdlc) /\ Do(ops)
      BY <1>2 DEF Types
    <2> HIDE DEF field, ops, handled
    <2>2. /\ SeenAs(hdlc, [Seen(field) EXCEPT !.field_class = "hdlc"], far.gap)
          /\ [Seen(field) EXCEPT !.field_class = "hdlc"].last = field
          /\ [Seen(field) EXCEPT !.field_class = "hdlc"].field_class = "hdlc"
      BY <2>1, SeenIs
    <2>3. main'.todo = ops /\ main'.same \in { NONE, Same }
      BY <2>1, DoSame
    <2> QED BY <2>1, <2>2, <2>3
  <1> HIDE DEF ops, handled, field
  <1>3. Sends(ops, field, "hdlc") /\ Became(after)
    BY <1>1, <1>2, SendsIs
  <1> QED BY <1>3 DEF ops, field

\* What the main thread has to do for the end of a frame.
FcsOps(d, good, end, dcs) ==
  IF hdlc.last = << d, "fcs", good, end >> THEN << >>
  ELSE (IF ~good /\ ~end /\ hdlc.buf[hdlc.in].pieces = << >> THEN << >> ELSE Missing(d))
       \o << FcsOp(d, good, end, dcs) >> \o (IF end THEN << << "end" >> >> ELSE << >>)

LEMMA HdlcFcsSends ==
  ASSUME Types, NEW after \in FarTypes, after.lost = far.lost, NEW d, NEW good, NEW end, NEW dcs,
         HdlcFcs(after, d, good, end, dcs)
  PROVE  /\ Became(after)
         /\ Sends(FcsOps(d, good, end, dcs), << d, "fcs", good, end >>, "hdlc")
  <1> DEFINE field == << d, "fcs", good, end >>
             empty == ~good /\ ~end /\ hdlc.buf[hdlc.in].pieces = << >>
             todo == (IF empty THEN << >> ELSE Missing(d)) \o << FcsOp(d, good, end, dcs) >>
                       \o (IF end THEN << << "end" >> >> ELSE << >>)
             ops  == FcsOps(d, good, end, dcs)
             handled == /\ hdlc' = [Seen(field) EXCEPT !.field_class = "hdlc"]
                        /\ IF hdlc.last = field THEN UNCHANGED main ELSE Do(todo)
                        /\ UNCHANGED nonEcm
  <1>1. Packet(after, handled)
    BY Zenon DEF HdlcFcs
  <1>2. ops = IF hdlc.last = field THEN << >> ELSE todo
    BY DEF FcsOps
  <1> HIDE DEF todo, ops, field
  <1>3. ASSUME handled
        PROVE  /\ SeenAs(hdlc, hdlc', far.gap)
               /\ hdlc'.last = field /\ hdlc'.field_class = "hdlc"
               /\ \/ main'.todo = ops /\ main'.same \in { NONE, Same }
                  \/ UNCHANGED main /\ ops = << >>
    <2>1. hdlc' = [Seen(field) EXCEPT !.field_class = "hdlc"] /\ Queue(hdlc)
      BY <1>3 DEF Types
    <2>2. /\ SeenAs(hdlc, [Seen(field) EXCEPT !.field_class = "hdlc"], far.gap)
          /\ [Seen(field) EXCEPT !.field_class = "hdlc"].last = field
          /\ [Seen(field) EXCEPT !.field_class = "hdlc"].field_class = "hdlc"
      BY <2>1, SeenIs
    <2>3. \/ main'.todo = ops /\ main'.same \in { NONE, Same }
          \/ UNCHANGED main /\ ops = << >>
      BY <1>2, <1>3, DoSame
    <2> HIDE DEF handled
    <2> QED BY <2>1, <2>2, <2>3
  <1> HIDE DEF handled
  <1>4. Sends(ops, field, "hdlc") /\ Became(after)
    BY <1>1, <1>3, SendsIs
  <1> QED BY <1>4 DEF ops, field

LEMMA NonEcmDataSends ==
  ASSUME Types, NEW after \in FarTypes, after.lost = far.lost, NEW x, NonEcmData(after, x)
  PROVE  /\ Became(after)
         /\ Sends(Append(Missing("fast"), << "inject", x >>), << "fast", "t4" >>, "non_ecm")
  <1> DEFINE ops == Append(Missing("fast"), << "inject", x >>)
             field == << "fast", "t4" >>
             handled == /\ hdlc' = [Seen(<< "fast", "t4" >>) EXCEPT !.field_class = "non_ecm"]
                        /\ nonEcm' = Moded
                        /\ Do(Append(Missing("fast"), << "inject", x >>))
  <1>1. Packet(after, handled)
    BY Zenon DEF NonEcmData
  <1>2. ASSUME handled
        PROVE  /\ SeenAs(hdlc, hdlc', far.gap)
               /\ hdlc'.last = field /\ hdlc'.field_class = "non_ecm"
               /\ \/ main'.todo = ops /\ main'.same \in { NONE, Same }
                  \/ UNCHANGED main /\ ops = << >>
    <2>1. hdlc' = [Seen(field) EXCEPT !.field_class = "non_ecm"] /\ Queue(hdlc) /\ Do(ops)
      BY <1>2 DEF Types
    <2> HIDE DEF field, ops, handled
    <2>2. /\ SeenAs(hdlc, [Seen(field) EXCEPT !.field_class = "non_ecm"], far.gap)
          /\ [Seen(field) EXCEPT !.field_class = "non_ecm"].last = field
          /\ [Seen(field) EXCEPT !.field_class = "non_ecm"].field_class = "non_ecm"
      BY <2>1, SeenIs
    <2>3. main'.todo = ops /\ main'.same \in { NONE, Same }
      BY <2>1, DoSame
    <2> QED BY <2>1, <2>2, <2>3
  <1> HIDE DEF ops, handled, field
  <1>3. Sends(ops, field, "non_ecm") /\ Became(after)
    BY <1>1, <1>2, SendsIs
  <1> QED BY <1>3 DEF ops, field

LEMMA EndSends ==
  ASSUME Types, NEW after \in FarTypes, after.lost = far.lost, NEW d, NEW pushes, NEW field,
         NEW handled, Packet(after, handled),
         handled => /\ hdlc' = Seen(field)
                    /\ IF hdlc.last = field THEN UNCHANGED main ELSE Do(SignalEnd(d, pushes))
  PROVE  /\ Became(after)
         /\ Sends(IF hdlc.last = field THEN << >> ELSE SignalEnd(d, pushes), field,
                  hdlc.field_class)
  <1> DEFINE ops == IF hdlc.last = field THEN << >> ELSE SignalEnd(d, pushes)
  <1>1. ASSUME handled
        PROVE  /\ SeenAs(hdlc, hdlc', far.gap)
               /\ hdlc'.last = field /\ hdlc'.field_class = hdlc.field_class
               /\ \/ main'.todo = ops /\ main'.same \in { NONE, Same }
                  \/ UNCHANGED main /\ ops = << >>
    <2>1. hdlc' = Seen(field) /\ Queue(hdlc)
      BY <1>1 DEF Types
    <2>2. SeenAs(hdlc, Seen(field), far.gap) /\ Seen(field).last = field
          /\ Seen(field).field_class = hdlc.field_class
      BY <2>1, SeenIs
    <2>3. \/ main'.todo = ops /\ main'.same \in { NONE, Same }
          \/ UNCHANGED main /\ ops = << >>
      BY <1>1, DoSame
    <2> QED BY <2>1, <2>2, <2>3
  <1> HIDE DEF ops
  <1>2. Sends(ops, field, hdlc.field_class) /\ Became(after)
    BY <1>1, SendsIs
  <1> QED BY <1>2 DEF ops

LEMMA BeginIs ==
  ASSUME Types, Begin
  PROVE  \E sig \in Hdlcs \union NonEcms :
           /\ far.sig = NONE /\ hit = {} /\ MaySend(sig)
           /\ far'.sig = sig /\ far'.k = 0 /\ ~far'.whole /\ ~far'.over
           /\ far'.f = (IF sig \in Hdlcs THEN far.f + 1 ELSE far.f)
           /\ far'.spoilt = far.spoilt /\ far'.n = far.n + 1 /\ far'.headless = far.headless
           /\ far'.heard = (IF far'.gap THEN far.heard ELSE far'.n)
           /\ Sends(IF hdlc.current_rx_indicator = Expected(TypeOf(sig)) THEN << >>
                    ELSE << << "ind", Expected(TypeOf(sig)) >> >>, NONE, hdlc.field_class)
  <1>1. PICK sig \in Hdlcs \union NonEcms :
          /\ MaySend(sig)
          /\ Indicator([far EXCEPT !.sig = sig, !.n = @ + 1, !.data = @ + 2, !.k = 0,
                                   !.whole = FALSE, !.over = FALSE, !.heard = far.n + 1,
                                   !.f = IF sig \in Hdlcs THEN @ + 1 ELSE @],
                       Expected(TypeOf(sig)))
    BY DEF Begin
  <1> DEFINE n == far.n + 1
             data == far.data + 2
             f == IF sig \in Hdlcs THEN far.f + 1 ELSE far.f
             after == [far EXCEPT !.sig = sig, !.n = n, !.data = data, !.k = 0,
                                  !.whole = FALSE, !.over = FALSE, !.heard = n, !.f = f]
             i == Expected(TypeOf(sig))
  <1>2. Indicator(after, i) /\ far.sig = NONE /\ hit = {}
    BY <1>1 DEF Begin
  <1>3. far \in FarTypes
    BY DEF Types
  <1>4. n \in Nat /\ data \in Nat /\ f \in Nat
    BY <1>3 DEF FarTypes
  <1> HIDE DEF n, data, f, i
  <1>5. /\ after \in FarTypes /\ after.sig = sig /\ after.lost = far.lost /\ after.k = 0
        /\ ~after.whole /\ ~after.over /\ after.f = f /\ after.spoilt = far.spoilt
        /\ after.n = n /\ after.heard = n /\ after.headless = far.headless
    BY <1>3, <1>4 DEF FarTypes
  <1> HIDE DEF after
  <1>6. Became(after) /\ Sends(IF hdlc.current_rx_indicator = i THEN << >> ELSE << << "ind", i >> >>,
                               NONE, hdlc.field_class)
    BY <1>2, <1>5, IndicatorSends
  <1>7. f = (IF sig \in Hdlcs THEN far.f + 1 ELSE far.f) /\ n = far.n + 1
    BY DEF f, n
  <1> QED BY <1>1, <1>2, <1>5, <1>6, <1>7 DEF Became, i

LEMMA SendPieceIs ==
  ASSUME Types, SendPiece
  PROVE  \E p \in Pieces :
           /\ far.sig \in Hdlcs /\ ~far.over /\ ~far.whole /\ far.k < MaxPieces /\ hit = {}
           /\ far'.sig = far.sig /\ ~far'.over /\ far'.f = far.f /\ far'.k = far.k + 1
           /\ far'.whole = p.last /\ far'.spoilt = far.spoilt
           /\ p.f = far.f /\ p.k = far.k + 1 /\ p.d = TypeOf(far.sig) /\ (far.k = 0 => p.ff)
           /\ far'.n = far.n /\ far'.heard = (IF far'.gap THEN far.heard ELSE far.n)
           /\ far'.headless = (IF ~far'.gap /\ p.ff /\ far.k > 0 /\ far.heard # far.n
                               THEN far.headless \union { far.f } ELSE far.headless)
           /\ Sends(Append(Missing(p.d), << "data", p >>), << p.d, "data" >>, "hdlc")
  <1>1. PICK last \in BOOLEAN, ff \in BOOLEAN :
          /\ far.k = 0 => ff
          /\ HdlcData([far EXCEPT !.k = @ + 1, !.data = @ + 2, !.whole = last, !.heard = far.n,
                                  !.headless = IF ff /\ far.k > 0 /\ far.heard # far.n
                                               THEN @ \union { far.f } ELSE @],
                      [f |-> far.f, k |-> far.k + 1, last |-> last, d |-> TypeOf(far.sig),
                       ff |-> ff])
    BY DEF SendPiece
  <1> DEFINE k == far.k + 1
             data == far.data + 2
             d == TypeOf(far.sig)
             less == IF ff /\ far.k > 0 /\ far.heard # far.n
                     THEN far.headless \union { far.f } ELSE far.headless
             after == [far EXCEPT !.k = k, !.data = data, !.whole = last, !.heard = far.n,
                                  !.headless = less]
             p == [f |-> far.f, k |-> k, last |-> last, d |-> d, ff |-> ff]
  <1>2. HdlcData(after, p) /\ far.sig \in Hdlcs /\ ~far.over /\ ~far.whole /\ far.k < MaxPieces
        /\ hit = {}
    BY <1>1 DEF SendPiece
  <1>3. far \in FarTypes
    BY DEF Types
  <1>4. /\ k \in Nat /\ data \in Nat /\ far.f \in Nat /\ far.n \in Nat /\ d \in DataTypes
        /\ less \in SUBSET Nat
    BY <1>3 DEF FarTypes, TypeOf, DataTypes
  <1>5. /\ k = far.k + 1 /\ d = TypeOf(far.sig)
        /\ less = (IF ff /\ far.k > 0 /\ far.heard # far.n
                   THEN far.headless \union { far.f } ELSE far.headless)
    OBVIOUS
  <1> HIDE DEF k, data, d, less
  <1>6. p \in Pieces /\ p.f = far.f /\ p.k = k /\ p.d = d /\ p.last = last /\ p.ff = ff
    BY <1>4 DEF Pieces
  <1>7. /\ after \in FarTypes /\ after.sig = far.sig /\ after.lost = far.lost /\ after.k = k
        /\ after.whole = last /\ after.over = far.over /\ after.f = far.f /\ after.spoilt = far.spoilt
        /\ after.n = far.n /\ after.heard = far.n /\ after.headless = less
    BY <1>3, <1>4 DEF FarTypes
  <1> HIDE DEF after, p
  <1>8. Became(after) /\ Sends(Append(Missing(p.d), << "data", p >>), << p.d, "data" >>, "hdlc")
    BY <1>2, <1>7, HdlcDataSends
  <1>9. /\ far'.sig = far.sig /\ ~far'.over /\ far'.f = far.f /\ far'.k = far.k + 1
        /\ far'.whole = p.last /\ far'.spoilt = far.spoilt
        /\ p.f = far.f /\ p.k = far.k + 1 /\ p.d = TypeOf(far.sig)
        /\ far'.n = far.n /\ far'.heard = (IF far'.gap THEN far.heard ELSE far.n)
    BY <1>2, <1>5, <1>6, <1>7, <1>8 DEF Became
  <1>10. far'.headless = IF ~far'.gap /\ p.ff /\ far.k > 0 /\ far.heard # far.n
                         THEN far.headless \union { far.f } ELSE far.headless
    BY <1>5, <1>6, <1>7, <1>8 DEF Became
  <1>11. far.k = 0 => p.ff
    BY <1>1, <1>6
  <1> QED BY <1>2, <1>6, <1>8, <1>9, <1>10, <1>11

LEMMA SendFcsIs ==
  ASSUME Types, SendFcs
  PROVE  \E d \in DataTypes, good, end \in BOOLEAN, dcs \in BOOLEAN \union { NONE } :
           /\ far.sig \in Hdlcs /\ ~far.over /\ far.whole /\ d = TypeOf(far.sig)
           /\ far'.sig = far.sig /\ far'.k = 0 /\ ~far'.whole /\ far'.over = end
           /\ far'.f = (IF end THEN far.f ELSE far.f + 1)
           /\ far'.spoilt = (IF good THEN far.spoilt ELSE far.spoilt \union { far.f })
           /\ TellsNoMore
           /\ Sends(FcsOps(d, good, end, dcs), << d, "fcs", good, end >>, "hdlc")
  <1>1. PICK good, end \in BOOLEAN, dcs \in BOOLEAN \union { NONE } :
          HdlcFcs([far EXCEPT !.k = 0, !.whole = FALSE, !.over = end,
                              !.f = IF end THEN @ ELSE @ + 1,
                              !.spoilt = IF good THEN @ ELSE @ \union { far.f },
                              !.dcs = dcs # NONE],
                  TypeOf(far.sig), good, end, dcs)
    BY DEF SendFcs
  <1> DEFINE f == IF end THEN far.f ELSE far.f + 1
             spoilt == IF good THEN far.spoilt ELSE far.spoilt \union { far.f }
             has == dcs # NONE
             d == TypeOf(far.sig)
             after == [far EXCEPT !.k = 0, !.whole = FALSE, !.over = end, !.f = f,
                                  !.spoilt = spoilt, !.dcs = has]
  <1>2. HdlcFcs(after, d, good, end, dcs) /\ far.sig \in Hdlcs /\ ~far.over /\ far.whole
    BY <1>1 DEF SendFcs
  <1>3. far \in FarTypes
    BY DEF Types
  <1>4. f \in Nat /\ spoilt \in SUBSET Nat /\ has \in BOOLEAN /\ d \in DataTypes
    BY <1>3 DEF FarTypes, TypeOf, DataTypes
  <1>5. d = TypeOf(far.sig) /\ f = (IF end THEN far.f ELSE far.f + 1)
        /\ spoilt = IF good THEN far.spoilt ELSE far.spoilt \union { far.f }
    OBVIOUS
  <1> HIDE DEF f, spoilt, has, d
  <1>6. /\ after \in FarTypes /\ after.sig = far.sig /\ after.lost = far.lost /\ after.k = 0
        /\ ~after.whole /\ after.over = end /\ after.f = f /\ after.spoilt = spoilt
        /\ after.n = far.n /\ after.heard = far.heard /\ after.headless = far.headless
    BY <1>3, <1>4 DEF FarTypes
  <1> HIDE DEF after
  <1>7. Became(after) /\ Sends(FcsOps(d, good, end, dcs), << d, "fcs", good, end >>, "hdlc")
    BY <1>2, <1>6, HdlcFcsSends
  <1>8. /\ far'.sig = far.sig /\ far'.k = 0 /\ ~far'.whole /\ far'.over = end
        /\ far'.f = (IF end THEN far.f ELSE far.f + 1)
        /\ far'.spoilt = (IF good THEN far.spoilt ELSE far.spoilt \union { far.f })
    BY <1>5, <1>6, <1>7 DEF Became
  <1>9. TellsNoMore
    BY <1>6, <1>7, BecameSame
  <1> QED BY <1>2, <1>4, <1>5, <1>7, <1>8, <1>9

\* The carrier drops, and non-ECM data end.
LEMMA SendEndIs ==
  ASSUME Types, SendHdlcEnd \/ SendNonEcmEnd
  PROVE  \E d \in DataTypes, pushes \in BOOLEAN, field \in Packets :
           /\ far.sig # NONE /\ ~far.over /\ d = TypeOf(far.sig)
           /\ far'.sig = far.sig /\ far'.k = far.k /\ far'.whole = far.whole /\ far'.over
           /\ far'.f = far.f /\ far'.spoilt = far.spoilt /\ TellsNoMore
           /\ Sends(IF hdlc.last = field THEN << >> ELSE SignalEnd(d, pushes), field,
                    hdlc.field_class)
  <1> DEFINE after == [far EXCEPT !.over = TRUE]
             d     == TypeOf(far.sig)
  <1>1. far \in FarTypes
    BY DEF Types
  <1>2. /\ after \in FarTypes /\ after.sig = far.sig /\ after.lost = far.lost /\ after.k = far.k
        /\ after.whole = far.whole /\ after.over /\ after.f = far.f /\ after.spoilt = far.spoilt
        /\ after.n = far.n /\ after.heard = far.heard /\ after.headless = far.headless
    BY <1>1 DEF FarTypes
  <1>3. /\ far.sig \in Hdlcs \union NonEcms /\ far.sig # NONE /\ ~far.over /\ d \in DataTypes
        /\ far.sig \in NonEcms => d = "fast"
    BY NoneIs DEF SendHdlcEnd, SendNonEcmEnd, TypeOf, DataTypes, Hdlcs, NonEcms
  <1>4. HdlcEnd(after, d) \/ (NonEcmEnd(after) /\ d = "fast")
    BY <1>3 DEF SendHdlcEnd, SendNonEcmEnd
  <1>5. << d, "sig_end" >> \in Packets /\ << "fast", "t4_end" >> \in Packets
    BY <1>3 DEF Packets, DataTypes
  <1> HIDE DEF after, d
  <1>6. ASSUME NEW pushes \in BOOLEAN, NEW field \in Packets, NEW handled, Packet(after, handled),
               handled => /\ hdlc' = Seen(field)
                          /\ IF hdlc.last = field THEN UNCHANGED main
                             ELSE Do(SignalEnd(d, pushes))
        PROVE  /\ far'.sig = far.sig /\ far'.k = far.k /\ far'.whole = far.whole /\ far'.over
               /\ far'.f = far.f /\ far'.spoilt = far.spoilt /\ TellsNoMore
               /\ Sends(IF hdlc.last = field THEN << >> ELSE SignalEnd(d, pushes), field,
                        hdlc.field_class)
    <2>1. Became(after) /\ Sends(IF hdlc.last = field THEN << >> ELSE SignalEnd(d, pushes), field,
                                 hdlc.field_class)
      BY <1>2, <1>6, EndSends
    <2>2. TellsNoMore
      BY <1>2, <2>1, BecameSame
    <2> QED BY <1>2, <2>1, <2>2 DEF Became
  <1>7. CASE HdlcEnd(after, d)
    <2> DEFINE field == << d, "sig_end" >>
               pushes == Missing(d) = << >> /\ hdlc.field_class = "non_ecm"
               handled == /\ hdlc' = Seen(field) /\ UNCHANGED nonEcm
                          /\ IF hdlc.last = field THEN UNCHANGED main
                             ELSE Do(SignalEnd(d, Missing(d) = << >>
                                                  /\ hdlc.field_class = "non_ecm"))
    <2>1. Packet(after, handled)
      BY <1>7, Zenon DEF HdlcEnd
    <2>2. pushes \in BOOLEAN /\ field \in Packets
      BY <1>5
    <2>3. handled => /\ hdlc' = Seen(field)
                     /\ IF hdlc.last = field THEN UNCHANGED main ELSE Do(SignalEnd(d, pushes))
      OBVIOUS
    <2> HIDE DEF field, pushes, handled
    <2> QED BY <1>3, <1>6, <2>1, <2>2, <2>3 DEF d
  <1>8. CASE NonEcmEnd(after) /\ d = "fast"
    <2> DEFINE field == << "fast", "t4_end" >>
               pushes == hdlc.field_class = "non_ecm"
               handled == /\ hdlc' = Seen(field) /\ nonEcm' = Moded
                          /\ IF hdlc.last = field THEN UNCHANGED main
                             ELSE Do(SignalEnd("fast", hdlc.field_class = "non_ecm"))
    <2>1. Packet(after, handled)
      BY <1>8, Zenon DEF NonEcmEnd
    <2>2. pushes \in BOOLEAN /\ field \in Packets
      BY <1>5
    <2>3. handled => /\ hdlc' = Seen(field)
                     /\ IF hdlc.last = field THEN UNCHANGED main ELSE Do(SignalEnd(d, pushes))
      BY <1>8
    <2> HIDE DEF field, pushes, handled
    <2> QED BY <1>3, <1>6, <2>1, <2>2, <2>3 DEF d
  <1> QED BY <1>4, <1>7, <1>8

LEMMA SendOctetIs ==
  ASSUME Types, SendOctet
  PROVE  \E x \in Octets :
           /\ far.sig \in NonEcms /\ ~far.over
           /\ far'.sig = far.sig /\ far'.over = far.over /\ far'.f = far.f
           /\ far'.spoilt = far.spoilt /\ TellsNoMore
           /\ Sends(Append(Missing("fast"), << "inject", x >>), << "fast", "t4" >>, "non_ecm")
  <1> DEFINE k == far.k + 1
             data == far.data + 1
             after == [far EXCEPT !.k = k, !.data = data]
  <1>1. PICK x \in Octets : NonEcmData(after, x)
    BY DEF SendOctet
  <1>2. far \in FarTypes /\ far.sig \in NonEcms /\ ~far.over
    BY DEF Types, SendOctet
  <1>3. k \in Nat /\ data \in Nat
    BY <1>2 DEF FarTypes
  <1> HIDE DEF k, data
  <1>4. /\ after \in FarTypes /\ after.sig = far.sig /\ after.lost = far.lost
        /\ after.over = far.over /\ after.f = far.f /\ after.spoilt = far.spoilt
        /\ after.n = far.n /\ after.heard = far.heard /\ after.headless = far.headless
    BY <1>2, <1>3 DEF FarTypes
  <1> HIDE DEF after
  <1>5. Became(after) /\ Sends(Append(Missing("fast"), << "inject", x >>), << "fast", "t4" >>, "non_ecm")
    BY <1>1, <1>4, NonEcmDataSends
  <1>6. TellsNoMore
    BY <1>4, <1>5, BecameSame
  <1> QED BY <1>2, <1>4, <1>5, <1>6 DEF Became

LEMMA SendNoSignalIs ==
  ASSUME Types, SendNoSignal
  PROVE  /\ far.sig # NONE /\ far.over
         /\ far'.sig = NONE /\ far'.f = far.f /\ far'.over /\ far'.spoilt = far.spoilt
         /\ TellsNoMore
         /\ Sends(IF hdlc.current_rx_indicator = "no_signal" THEN << >>
                  ELSE << << "ind", "no_signal" >> >>, NONE, hdlc.field_class)
  <1> DEFINE after == [far EXCEPT !.sig = NONE]
  <1>1. far \in FarTypes /\ far.sig # NONE /\ far.over /\ Indicator(after, "no_signal")
    BY DEF Types, SendNoSignal
  <1>2. /\ after \in FarTypes /\ after.sig = NONE /\ after.lost = far.lost
        /\ after.over /\ after.f = far.f /\ after.spoilt = far.spoilt
        /\ after.n = far.n /\ after.heard = far.heard /\ after.headless = far.headless
    BY <1>1 DEF FarTypes
  <1> HIDE DEF after
  <1>3. Became(after) /\ Sends(IF hdlc.current_rx_indicator = "no_signal" THEN << >>
                               ELSE << << "ind", "no_signal" >> >>, NONE, hdlc.field_class)
    BY <1>1, <1>2, IndicatorSends
  <1>4. TellsNoMore
    BY <1>2, <1>3, BecameSame
  <1> QED BY <1>1, <1>2, <1>3, <1>4 DEF Became

(* What the main thread has to do, spelt out.                              *)
IndOp(d) == << "ind", Expected(d) >>

LEMMA MissingIs ==
  ASSUME NEW d
  PROVE  \/ /\ Missing(d) = << >>
            /\ hdlc.buf[hdlc.in].contents = Data(d) \/ hdlc.current_rx_indicator = Expected(d)
         \/ /\ Missing(d) = << IndOp(d) >>
            /\ hdlc.buf[hdlc.in].contents # Data(d) /\ hdlc.current_rx_indicator # Expected(d)
  BY DEF Missing, IndOp

LEMMA JoinFour ==
  ASSUME NEW a, NEW b, NEW c, NEW e
  PROVE  << a, b, c >> \o << e >> = << a, b, c, e >>
  <1> DEFINE S == { a, b, c, e }
             s == << a, b, c >> \o << e >>
             t == << a, b, c, e >>
  <1>1. s \in Seq(S) /\ t \in Seq(S) /\ Len(s) = 4 /\ Len(t) = 4
    OBVIOUS
  <1>2. \A i \in 1 .. 4 : s[i] = t[i]
    OBVIOUS
  <1> HIDE DEF s, t, S
  <1>3. s = t
    BY <1>1, <1>2, SeqEqual
  <1> QED BY <1>3 DEF s, t

LEMMA Joins ==
  ASSUME NEW a, NEW b, NEW c
  PROVE  /\ << >> \o << a >> = << a >> /\ << a >> \o << b >> = << a, b >>
         /\ << >> \o << a, b >> = << a, b >> /\ << a >> \o << b, c >> = << a, b, c >>
         /\ << a, b >> \o << c >> = << a, b, c >>
         /\ << a >> \o << >> = << a >> /\ << a, b >> \o << >> = << a, b >>
         /\ Append(<< >>, a) = << a >> /\ Append(<< a >>, b) = << a, b >>
  <1> DEFINE S == { a, b, c }
  <1>1. ASSUME NEW s \in Seq(S), NEW t \in Seq(S), Len(s) = Len(t), \A i \in 1 .. Len(s) : s[i] = t[i]
        PROVE  s = t
    BY <1>1, SeqEqual
  <1>2. /\ << a >> \in Seq(S) /\ << b >> \in Seq(S) /\ << c >> \in Seq(S)
        /\ << a, b >> \in Seq(S) /\ << b, c >> \in Seq(S) /\ << a, b, c >> \in Seq(S)
    OBVIOUS
  <1>3. << a >> \o << b >> = << a, b >>
    <2>1. /\ << a >> \o << b >> \in Seq(S) /\ Len(<< a >> \o << b >>) = 2
          /\ \A i \in 1 .. 2 : (<< a >> \o << b >>)[i] = << a, b >>[i]
      OBVIOUS
    <2> QED BY <1>1, <1>2, <2>1
  <1>4. << a >> \o << b, c >> = << a, b, c >>
    <2>1. /\ << a >> \o << b, c >> \in Seq(S) /\ Len(<< a >> \o << b, c >>) = 3
          /\ \A i \in 1 .. 3 : (<< a >> \o << b, c >>)[i] = << a, b, c >>[i]
      OBVIOUS
    <2> QED BY <1>1, <1>2, <2>1
  <1>5. << a, b >> \o << c >> = << a, b, c >>
    <2>1. /\ << a, b >> \o << c >> \in Seq(S) /\ Len(<< a, b >> \o << c >>) = 3
          /\ \A i \in 1 .. 3 : (<< a, b >> \o << c >>)[i] = << a, b, c >>[i]
      OBVIOUS
    <2> QED BY <1>1, <1>2, <2>1
  <1>7. Append(<< a >>, b) = << a, b >>
    <2>1. /\ Append(<< a >>, b) \in Seq(S) /\ Len(Append(<< a >>, b)) = 2
          /\ \A i \in 1 .. 2 : Append(<< a >>, b)[i] = << a, b >>[i]
      OBVIOUS
    <2> QED BY <1>1, <1>2, <2>1
  <1>8. /\ << >> \o << a >> = << a >> /\ << >> \o << a, b >> = << a, b >>
        /\ << a >> \o << >> = << a >> /\ << a, b >> \o << >> = << a, b >>
        /\ Append(<< >>, a) = << a >>
    OBVIOUS
  <1> QED BY <1>3, <1>4, <1>5, <1>7, <1>8

LEMMA DataOpsIs ==
  ASSUME NEW d, NEW x
  PROVE  \/ /\ Append(Missing(d), x) = << x >>
            /\ hdlc.buf[hdlc.in].contents = Data(d) \/ hdlc.current_rx_indicator = Expected(d)
         \/ /\ Append(Missing(d), x) = << IndOp(d), x >>
            /\ hdlc.buf[hdlc.in].contents # Data(d) /\ hdlc.current_rx_indicator # Expected(d)
  <1>1. CASE Missing(d) = << >>
    <2>1. Append(Missing(d), x) = << x >>
      BY <1>1, Joins
    <2>2. Missing(d) # << IndOp(d) >>
      BY <1>1
    <2> QED BY <2>1, <2>2, MissingIs
  <1>2. CASE Missing(d) = << IndOp(d) >>
    <2>1. Append(Missing(d), x) = << IndOp(d), x >>
      BY <1>2, Joins
    <2>2. Missing(d) # << >>
      BY <1>2
    <2> QED BY <2>1, <2>2, MissingIs
  <1> QED BY <1>1, <1>2, MissingIs

PlanOf(d, good, end, x, q) ==
  \/ q = << >> /\ hdlc.last = << d, "fcs", good, end >>
  \/ /\ q = IF end THEN << x, << "end" >> >> ELSE << x >>
     /\ \/ hdlc.buf[hdlc.in].contents = Data(d)
        \/ hdlc.current_rx_indicator = Expected(d)
        \/ ~good /\ ~end /\ hdlc.buf[hdlc.in].pieces = << >>
  \/ /\ q = IF end THEN << IndOp(d), x, << "end" >> >> ELSE << IndOp(d), x >>
     /\ hdlc.buf[hdlc.in].contents # Data(d) /\ hdlc.current_rx_indicator # Expected(d)
     /\ good \/ end \/ hdlc.buf[hdlc.in].pieces # << >>

LEMMA FcsOpsIs ==
  ASSUME NEW d, NEW good \in BOOLEAN, NEW end \in BOOLEAN, NEW dcs
  PROVE  PlanOf(d, good, end, FcsOp(d, good, end, dcs), FcsOps(d, good, end, dcs))
  <1> DEFINE x == FcsOp(d, good, end, dcs)
             q == FcsOps(d, good, end, dcs)
  <1> DEFINE e == << "end" >>
             m == IF ~good /\ ~end /\ hdlc.buf[hdlc.in].pieces = << >> THEN << >> ELSE Missing(d)
             n == IF end THEN << e >> ELSE << >>
  <1>1. hdlc.last # << d, "fcs", good, end >> => q = m \o << x >> \o n
    BY DEF FcsOps
  <1>2. hdlc.last = << d, "fcs", good, end >> => q = << >>
    BY DEF FcsOps
  <1>3. \/ /\ m = << >>
           /\ \/ hdlc.buf[hdlc.in].contents = Data(d)
              \/ hdlc.current_rx_indicator = Expected(d)
              \/ ~good /\ ~end /\ hdlc.buf[hdlc.in].pieces = << >>
        \/ /\ m = << IndOp(d) >>
           /\ hdlc.buf[hdlc.in].contents # Data(d) /\ hdlc.current_rx_indicator # Expected(d)
           /\ good \/ end \/ hdlc.buf[hdlc.in].pieces # << >>
    BY MissingIs
  <1> HIDE DEF e, m, x, q
  <1>4. m = << >> => m \o << x >> \o n = IF end THEN << x, e >> ELSE << x >>
    BY Joins
  <1>5. m = << IndOp(d) >> => m \o << x >> \o n = IF end THEN << IndOp(d), x, e >> ELSE << IndOp(d), x >>
    <2>1. << IndOp(d) >> \o << x >> = << IndOp(d), x >>
      BY Joins
    <2>2. << IndOp(d), x >> \o << e >> = << IndOp(d), x, e >> /\ << IndOp(d), x >> \o << >> = << IndOp(d), x >>
      BY Joins
    <2> QED BY <2>1, <2>2, Zenon
  <1> HIDE DEF n
  <1>6. PlanOf(d, good, end, x, q)
    BY <1>1, <1>2, <1>3, <1>4, <1>5 DEF e, PlanOf
  <1> QED BY <1>6 DEF x, q

LEMMA SignalEndOpsIs ==
  ASSUME NEW d, NEW pushes \in BOOLEAN, NEW q, q = SignalEnd(d, pushes)
  PROVE  \/ q = IF pushes THEN << << "push" >>, << "pushed" >>, << "end" >> >>
                ELSE << << "throw" >>, << "end" >> >>
         \/ /\ q = IF pushes THEN << IndOp(d), << "push" >>, << "pushed" >>, << "end" >> >>
                   ELSE << IndOp(d), << "throw" >>, << "end" >> >>
            /\ hdlc.current_rx_indicator # Expected(d)
  <1> DEFINE e == << "end" >>
             u == << "push" >>
             v == << "pushed" >>
             t == << "throw" >>
             m == Missing(d)
             n == IF pushes THEN << u, v >> ELSE << t >>
  <1>1. q = m \o n \o << e >>
    BY DEF SignalEnd
  <1>2. m = << >> \/ (m = << IndOp(d) >> /\ hdlc.current_rx_indicator # Expected(d))
    BY MissingIs
  <1> HIDE DEF e, m, u, v, t
  <1>3. m = << >> => m \o n \o << e >> = IF pushes THEN << u, v, e >> ELSE << t, e >>
    <2>1. << >> \o << u, v >> = << u, v >> /\ << u, v >> \o << e >> = << u, v, e >>
      BY Joins
    <2>2. << >> \o << t >> = << t >> /\ << t >> \o << e >> = << t, e >>
      BY Joins
    <2> QED BY <2>1, <2>2, Zenon
  <1>4. m = << IndOp(d) >> => m \o n \o << e >> = IF pushes THEN << IndOp(d), u, v, e >> ELSE << IndOp(d), t, e >>
    <2>1. << IndOp(d) >> \o << u, v >> = << IndOp(d), u, v >>
      BY Joins
    <2>3. << IndOp(d), u, v >> \o << e >> = << IndOp(d), u, v, e >>
      BY JoinFour
    <2>2. << IndOp(d) >> \o << t >> = << IndOp(d), t >> /\ << IndOp(d), t >> \o << e >> = << IndOp(d), t, e >>
      BY Joins
    <2> QED BY <2>1, <2>2, <2>3, Zenon
  <1> HIDE DEF n
  <1> QED BY <1>1, <1>2, <1>3, <1>4 DEF e, u, v, t

(* What is to do holds no piece.                                           *)
NoPiece(ops) == \A i \in DOMAIN ops : ops[i][1] # "data"

LEMMA NoPieces ==
  /\ NoPiece(<< >>)
  /\ \A d : NoPiece(<< IndOp(d) >>) /\ NoPiece(<< << "ind", "no_signal" >> >>)
            /\ NoPiece(<< << "ind", Expected(d) >> >>)
  /\ \A x : NoPiece(Append(Missing("fast"), << "inject", x >>))
  /\ \A d, good, dcs : \A end \in BOOLEAN : good \in BOOLEAN => NoPiece(FcsOps(d, good, end, dcs))
  /\ \A d, pushes : pushes \in BOOLEAN => NoPiece(SignalEnd(d, pushes))
  <1>1. ASSUME NEW a, NEW b, NEW c, NEW e, a[1] # "data", b[1] # "data", c[1] # "data", e[1] # "data"
        PROVE  /\ NoPiece(<< a >>) /\ NoPiece(<< a, b >>) /\ NoPiece(<< a, b, c >>)
               /\ NoPiece(<< a, b, c, e >>)
    BY <1>1 DEF NoPiece
  <1>2. \A d : IndOp(d)[1] # "data"
    BY DEF IndOp
  <1>3. << "end" >>[1] # "data" /\ << "push" >>[1] # "data" /\ << "pushed" >>[1] # "data"
        /\ << "throw" >>[1] # "data"
    OBVIOUS
  <1>4. NoPiece(<< >>)
    BY DEF NoPiece
  <1>5. \A d : NoPiece(<< IndOp(d) >>) /\ NoPiece(<< << "ind", "no_signal" >> >>)
            /\ NoPiece(<< << "ind", Expected(d) >> >>)
    BY DEF NoPiece, IndOp
  <1>6. ASSUME NEW x PROVE NoPiece(Append(Missing("fast"), << "inject", x >>))
    <2> DEFINE op == << "inject", x >>
    <2>1. op[1] # "data"
      OBVIOUS
    <2> HIDE DEF op
    <2>2. Append(Missing("fast"), op) = << op >> \/ Append(Missing("fast"), op) = << IndOp("fast"), op >>
      BY DataOpsIs
    <2> QED BY <1>1, <1>2, <2>1, <2>2 DEF op
  <1>7. ASSUME NEW d, NEW good \in BOOLEAN, NEW end \in BOOLEAN, NEW dcs
        PROVE  NoPiece(FcsOps(d, good, end, dcs))
    <2> DEFINE x == FcsOp(d, good, end, dcs)
               e == << "end" >>
    <2>1. x[1] # "data" /\ e[1] # "data"
      BY DEF FcsOp
    <2> DEFINE q == FcsOps(d, good, end, dcs)
    <2>2. q \in { << >>, << x >>, << x, e >>, << IndOp(d), x >>, << IndOp(d), x, e >> }
      <3>1. PlanOf(d, good, end, x, q)
        BY FcsOpsIs
      <3> HIDE DEF q, x
      <3>2. \/ q = << >>
            \/ q = IF end THEN << x, << "end" >> >> ELSE << x >>
            \/ q = IF end THEN << IndOp(d), x, << "end" >> >> ELSE << IndOp(d), x >>
        BY <3>1 DEF PlanOf
      <3> QED BY <3>2
    <2> HIDE DEF q, x, e
    <2>3. NoPiece(q)
      BY <1>1, <1>2, <1>4, <2>1, <2>2
    <2> QED BY <2>3 DEF q
  <1>8. ASSUME NEW d, NEW pushes \in BOOLEAN PROVE NoPiece(SignalEnd(d, pushes))
    <2> DEFINE e == << "end" >>
               u == << "push" >>
               v == << "pushed" >>
               t == << "throw" >>
               q == SignalEnd(d, pushes)
    <2>1. q \in { << u, v, e >>, << t, e >>, << IndOp(d), u, v, e >>, << IndOp(d), t, e >> }
      BY SignalEndOpsIs
    <2>2. u[1] # "data" /\ v[1] # "data" /\ t[1] # "data" /\ e[1] # "data"
      OBVIOUS
    <2> HIDE DEF e, u, v, t, q
    <2>3. NoPiece(q)
      BY <1>1, <1>2, <2>1, <2>2
    <2> QED BY <2>3 DEF q
  <1> QED BY <1>4, <1>5, <1>6, <1>7, <1>8

-----------------------------------------------------------------------------
(* A packet keeps the order.                                               *)

LEMMA SeenKeeps ==
  ASSUME Queue(hdlc), NEW missing \in BOOLEAN, SeenAs(hdlc, hdlc', missing)
  PROVE  /\ \A b \in Bufs : /\ hdlc'.buf[b].pieces = hdlc.buf[b].pieces
                            /\ hdlc'.buf[b].contents = hdlc.buf[b].contents
                            /\ \A x \in Flags : x # "MISSING_DATA" =>
                                 (x \in hdlc'.buf[b].flags <=> x \in hdlc.buf[b].flags)
                            /\ hdlc'.buf[b].flags \subseteq hdlc.buf[b].flags \union { "MISSING_DATA" }
                            /\ hdlc.buf[b].flags \subseteq hdlc'.buf[b].flags
                            /\ ~missing \/ b # hdlc.in => hdlc'.buf[b] = hdlc.buf[b]
                            /\ missing /\ b = hdlc.in => "MISSING_DATA" \in hdlc'.buf[b].flags
         /\ hdlc'.in = hdlc.in /\ hdlc'.out = hdlc.out /\ hdlc'.tx = hdlc.tx
         /\ hdlc'.current_rx_indicator = hdlc.current_rx_indicator
  <1>1. /\ hdlc'.in = hdlc.in /\ hdlc'.out = hdlc.out /\ hdlc'.tx = hdlc.tx
        /\ hdlc'.current_rx_indicator = hdlc.current_rx_indicator
        /\ hdlc'.buf = IF missing THEN [hdlc.buf EXCEPT ![hdlc.in] = Noted(hdlc.buf[hdlc.in])] ELSE hdlc.buf
    BY DEF SeenAs
  <1>2. hdlc.in \in Bufs /\ hdlc.buf \in [Bufs -> BufTypes] /\ \A b \in Bufs : hdlc.buf[b] \in BufTypes
    BY FieldsOf
  <1>3. ASSUME NEW s \in BufTypes
        PROVE  /\ Noted(s).pieces = s.pieces /\ Noted(s).contents = s.contents
               /\ Noted(s).flags = s.flags \union { "MISSING_DATA" }
    BY DEF Noted, BufTypes
  <1>4. CASE missing
    <2> SUFFICES ASSUME NEW b \in Bufs
                 PROVE  /\ hdlc'.buf[b].pieces = hdlc.buf[b].pieces
                        /\ hdlc'.buf[b].contents = hdlc.buf[b].contents
                        /\ \A x \in Flags : x # "MISSING_DATA" =>
                                 (x \in hdlc'.buf[b].flags <=> x \in hdlc.buf[b].flags)
                        /\ hdlc'.buf[b].flags \subseteq hdlc.buf[b].flags \union { "MISSING_DATA" }
                        /\ hdlc.buf[b].flags \subseteq hdlc'.buf[b].flags
                        /\ ~missing \/ b # hdlc.in => hdlc'.buf[b] = hdlc.buf[b]
                        /\ missing /\ b = hdlc.in => "MISSING_DATA" \in hdlc'.buf[b].flags
      BY <1>1
    <2>1. CASE b = hdlc.in
      <3>1. hdlc'.buf[b] = Noted(hdlc.buf[b]) /\ hdlc.buf[b] \in BufTypes
        BY <1>1, <1>2, <1>4, <2>1
      <3> QED BY <1>3, <1>4, <2>1, <3>1
    <2>2. CASE b # hdlc.in
      <3>1. hdlc'.buf[b] = hdlc.buf[b]
        BY <1>1, <1>2, <1>4, <2>2
      <3> QED BY <2>2, <3>1
    <2> QED BY <2>1, <2>2
  <1>5. CASE ~missing
    BY <1>1, <1>5
  <1> QED BY <1>4, <1>5

LEMMA SendsKeeps ==
  ASSUME Types, NEW ops, NEW packet, NEW class, Sends(ops, packet, class)
  PROVE  /\ \E missing \in BOOLEAN : SeenAs(hdlc, hdlc', missing)
         /\ main'.todo = ops \/ main'.todo = << >>
         /\ main.todo = << >> /\ main.same = NONE
         /\ main'.same = TRUE => hdlc.in = hdlc.out
         /\ Used < QLen - 6 /\ Used \in Nat /\ Used = Off(hdlc.in, hdlc.out)
         /\ UNCHANGED << modem, mode, hit, left >>
  <1>1. /\ main.todo = << >> /\ UNCHANGED << modem, mode, hit, left >>
    BY DEF Sends
  <1>2. main.same = NONE
    BY <1>1 DEF Types, Asked
  <1>3. Used < QLen - 6 /\ Used \in Nat /\ Used = Off(hdlc.in, hdlc.out)
    <2>1. hdlc.in \in Bufs /\ hdlc.out \in Bufs
      BY FieldsOf DEF Types
    <2>2. Off(hdlc.in, hdlc.out) \in 0 .. QLen - 1 /\ QLen \in Nat
      BY <2>1, OffIs
    <2> QED BY <2>2 DEF Sends, RoomInRing, Used, Off
  <1>4. far.gap \in BOOLEAN
    BY DEF Types, FarTypes
  <1>5. CASE ~far'.gap
    <2>1. SeenAs(hdlc, hdlc', far.gap) /\ main'.todo = ops /\ main'.same \in { NONE, Same }
      BY <1>5 DEF Sends
    <2>2. main'.same = TRUE => hdlc.in = hdlc.out
      BY <2>1, NoneIs DEF Same
    <2> QED BY <1>1, <1>2, <1>3, <1>4, <2>1, <2>2
  <1>6. CASE far'.gap
    <2>1. UNCHANGED << hdlc, main >>
      BY <1>6 DEF Sends
    <2>2. SeenAs(hdlc, hdlc', FALSE)
      BY <2>1 DEF SeenAs
    <2> QED BY <1>1, <1>2, <1>3, <2>1, <2>2, NoneIs
  <1> QED BY <1>5, <1>6

LEMMA OrderSends ==
  ASSUME Types, OrderInv, NEW ops, NEW packet, NEW class, Sends(ops, packet, class),
         PastKeys \subseteq PastKeys', InHand', NothingBehind'
  PROVE  OrderInv'
  <1>1. PICK missing \in BOOLEAN : SeenAs(hdlc, hdlc', missing)
    BY SendsKeeps
  <1>2. /\ \A b \in Bufs : /\ hdlc'.buf[b].pieces = hdlc.buf[b].pieces
                           /\ "PROCEED" \in hdlc'.buf[b].flags <=> "PROCEED" \in hdlc.buf[b].flags
        /\ hdlc'.in = hdlc.in /\ hdlc'.out = hdlc.out /\ hdlc'.tx = hdlc.tx
    BY <1>1, SeenKeeps DEF Types, Flags
  <1>3. /\ hdlc.in \in Bufs /\ hdlc.out \in Bufs /\ Used < QLen - 6 /\ Used = Off(hdlc.in, hdlc.out)
        /\ main'.same = TRUE => hdlc.in = hdlc.out
        /\ UNCHANGED left
    BY FieldsOf, SendsKeeps DEF Types
  <1>4. ~Stuck
    <2>1. hdlc.out = Nxt(hdlc.in) => Off(hdlc.in, hdlc.out) = QLen - 1
      BY <1>3, OffOne
    <2>2. QLen \in Nat
      BY QueueAssumption
    <2> QED BY <1>3, <2>1, <2>2 DEF Stuck
  <1>5. Order'
    <2>1. /\ InOrder(hdlc.buf, hdlc.out, hdlc.tx.pieces, left)
          /\ Given(hdlc.buf, hdlc.out, hdlc.tx.pieces, left)
          /\ "PROCEED" \in hdlc'.buf[hdlc.out].flags \/ "PROCEED" \notin hdlc.buf[hdlc.out].flags
      BY <1>2, <1>3, <1>4 DEF OrderInv, Order
    <2>2. /\ InOrder(hdlc'.buf, hdlc.out, hdlc.tx.pieces, left)
          /\ Given(hdlc'.buf, hdlc.out, hdlc.tx.pieces, left)
      <3> DEFINE C == hdlc'.buf
      <3>1. \A b \in Bufs : C[b].pieces = hdlc.buf[b].pieces \/ C[b].pieces = << >>
        BY <1>2
      <3>2. "PROCEED" \in C[hdlc.out].flags \/ C[hdlc.out].pieces = << >>
            \/ "PROCEED" \notin hdlc.buf[hdlc.out].flags
        BY <2>1
      <3> HIDE DEF C
      <3>3. InOrder(C, hdlc.out, hdlc.tx.pieces, left) /\ Given(C, hdlc.out, hdlc.tx.pieces, left)
        BY <2>1, <3>1, <3>2, OrderShrinks
      <3> QED BY <3>3 DEF C
    <2> QED BY <1>2, <1>3, <2>2 DEF Order
  <1>6. Recent'
    BY <1>2, <1>3 DEF OrderInv, Recent, Within
  <1>7. SeenEmpty'
    BY <1>2, <1>3 DEF SeenEmpty
  <1> QED BY <1>5, <1>6, <1>7 DEF OrderInv

\* A packet that holds no piece.
LEMMA OrderPlain ==
  ASSUME Types, OrderInv, NEW ops, NEW packet, NEW class, Sends(ops, packet, class), NoPiece(ops),
         PastKeys \subseteq PastKeys'
  PROVE  OrderInv'
  <1>1. ~ToDo("data")'
    <2>1. main'.todo = ops \/ main'.todo = << >>
      BY SendsKeeps
    <2> QED BY <2>1 DEF ToDo, NoPiece
  <1>2. InHand' /\ NothingBehind'
    BY <1>1 DEF InHand, NothingBehind, ToDo
  <1> QED BY <1>2, OrderSends

LEMMA PastGrows ==
  ASSUME Types, far'.f \in Nat,
         \/ far'.f > far.f
         \/ far'.f = far.f /\ ~Open'
         \/ far'.f = far.f /\ Open /\ far'.k = far.k + 1
  PROVE  PastKeys \subseteq PastKeys'
  <1>1. far.f \in Nat /\ far.k \in Nat
    BY DEF Types, FarTypes
  <1>2. SUFFICES ASSUME NEW t \in PastKeys PROVE t \in PastKeys'
    OBVIOUS
  <1>3. /\ t \in Nat \X Nat /\ t[1] \in Nat /\ t[2] \in Nat
        /\ t[1] < far.f \/ (t[1] = far.f /\ (Open => t[2] < far.k \/ (t[2] = far.k /\ ~ToDo("data"))))
    BY <1>2 DEF PastKeys
  <1>4. t[1] < far'.f \/ (t[1] = far'.f /\ (Open' => t[2] < far'.k))
    BY <1>1, <1>3
  <1> QED BY <1>3, <1>4 DEF PastKeys

LEMMA OrderBegin ==
  ASSUME Types, OrderInv, Begin
  PROVE  OrderInv'
  <1>1. PICK sig \in Hdlcs \union NonEcms :
          /\ far'.sig = sig
          /\ far'.f = (IF sig \in Hdlcs THEN far.f + 1 ELSE far.f)
          /\ Sends(IF hdlc.current_rx_indicator = Expected(TypeOf(sig)) THEN << >>
                   ELSE << << "ind", Expected(TypeOf(sig)) >> >>, NONE, hdlc.field_class)
    BY BeginIs
  <1>2. far.f \in Nat
    BY DEF Types, FarTypes
  <1>3. PastKeys \subseteq PastKeys'
    BY <1>1, <1>2, PastGrows DEF Open, Hdlcs, NonEcms
  <1>4. NoPiece(IF hdlc.current_rx_indicator = Expected(TypeOf(sig)) THEN << >>
                ELSE << << "ind", Expected(TypeOf(sig)) >> >>)
    BY NoPieces
  <1> QED BY <1>1, <1>3, <1>4, OrderPlain

LEMMA OrderFcs ==
  ASSUME Types, OrderInv, SendFcs
  PROVE  OrderInv'
  <1>1. PICK d \in DataTypes, good \in BOOLEAN, end \in BOOLEAN, dcs \in BOOLEAN \union { NONE } :
          /\ far'.over = end
          /\ far'.f = (IF end THEN far.f ELSE far.f + 1)
          /\ Sends(FcsOps(d, good, end, dcs), << d, "fcs", good, end >>, "hdlc")
    BY SendFcsIs
  <1>2. far.f \in Nat
    BY DEF Types, FarTypes
  <1>3. PastKeys \subseteq PastKeys'
    BY <1>1, <1>2, PastGrows DEF Open
  <1>4. NoPiece(FcsOps(d, good, end, dcs))
    BY NoPieces
  <1> QED BY <1>1, <1>3, <1>4, OrderPlain

LEMMA OrderSendEnd ==
  ASSUME Types, OrderInv, SendHdlcEnd \/ SendNonEcmEnd
  PROVE  OrderInv'
  <1>1. PICK d \in DataTypes, pushes \in BOOLEAN, field \in Packets :
          /\ far'.over /\ far'.f = far.f
          /\ Sends(IF hdlc.last = field THEN << >> ELSE SignalEnd(d, pushes), field,
                   hdlc.field_class)
    BY SendEndIs
  <1>2. far.f \in Nat
    BY DEF Types, FarTypes
  <1>3. PastKeys \subseteq PastKeys'
    BY <1>1, <1>2, PastGrows DEF Open
  <1>4. NoPiece(IF hdlc.last = field THEN << >> ELSE SignalEnd(d, pushes))
    BY NoPieces
  <1> QED BY <1>1, <1>3, <1>4, OrderPlain

LEMMA OrderOctet ==
  ASSUME Types, OrderInv, SendOctet
  PROVE  OrderInv'
  <1>1. PICK x \in Octets :
          /\ far.sig \in NonEcms /\ far'.sig = far.sig /\ far'.f = far.f
          /\ Sends(Append(Missing("fast"), << "inject", x >>), << "fast", "t4" >>, "non_ecm")
    BY SendOctetIs
  <1>2. far.f \in Nat
    BY DEF Types, FarTypes
  <1>3. PastKeys \subseteq PastKeys'
    BY <1>1, <1>2, PastGrows DEF Open, Hdlcs, NonEcms
  <1>4. NoPiece(Append(Missing("fast"), << "inject", x >>))
    BY NoPieces
  <1> QED BY <1>1, <1>3, <1>4, OrderPlain

LEMMA OrderNoSignal ==
  ASSUME Types, OrderInv, SendNoSignal
  PROVE  OrderInv'
  <1>1. /\ far'.over /\ far'.f = far.f
        /\ Sends(IF hdlc.current_rx_indicator = "no_signal" THEN << >>
                 ELSE << << "ind", "no_signal" >> >>, NONE, hdlc.field_class)
    BY SendNoSignalIs
  <1>2. far.f \in Nat
    BY DEF Types, FarTypes
  <1>3. PastKeys \subseteq PastKeys'
    BY <1>1, <1>2, PastGrows DEF Open
  <1>4. NoPiece(IF hdlc.current_rx_indicator = "no_signal" THEN << >>
                ELSE << << "ind", "no_signal" >> >>)
    BY NoPieces
  <1> QED BY <1>1, <1>3, <1>4, OrderPlain

(* A piece is sent while the threads have not crossed, so there is nothing *)
(* behind in.                                                              *)
LEMMA OrderPiece ==
  ASSUME Types, OrderInv, SendPiece, hit = {} => Clean
  PROVE  OrderInv'
  <1>1. PICK p \in Pieces :
          /\ far.sig \in Hdlcs /\ ~far.over /\ hit = {}
          /\ far'.sig = far.sig /\ ~far'.over /\ far'.f = far.f /\ far'.k = far.k + 1
          /\ p.f = far.f /\ p.k = far.k + 1
          /\ Sends(Append(Missing(p.d), << "data", p >>), << p.d, "data" >>, "hdlc")
    BY SendPieceIs
  <1> DEFINE x   == << "data", p >>
             ops == Append(Missing(p.d), x)
  <1>2. far.f \in Nat /\ far.k \in Nat /\ Open /\ Open' /\ Clean
    BY <1>1 DEF Types, FarTypes, Open
  <1>3. PastKeys \subseteq PastKeys'
    BY <1>1, <1>2, PastGrows
  <1>4. /\ \E missing \in BOOLEAN : SeenAs(hdlc, hdlc', missing)
        /\ main'.todo = ops \/ main'.todo = << >>
        /\ main'.same = TRUE => hdlc.in = hdlc.out
        /\ Used < QLen - 6 /\ Used \in Nat /\ Used = Off(hdlc.in, hdlc.out)
    BY <1>1, SendsKeeps
  <1>5. x[1] = "data" /\ x[2] = p
    OBVIOUS
  <1> HIDE DEF x
  <1>6. ops = << x >> \/ ops = << IndOp(p.d), x >>
    BY DataOpsIs
  <1> HIDE DEF ops
  <1>7. IndOp(p.d)[1] = "ind"
    BY DEF IndOp
  <1>8. InHand'
    <2>1. \A i \in DOMAIN main'.todo : main'.todo[i][1] = "data" =>
            i = Len(main'.todo) /\ main'.todo[i][2] = p
      <3>1. main'.todo \in { << >>, << x >>, << IndOp(p.d), x >> }
        BY <1>4, <1>6
      <3>2. \A i \in DOMAIN << x >> : i = Len(<< x >>) /\ << x >>[i] = x
        OBVIOUS
      <3>3. \A i \in DOMAIN << IndOp(p.d), x >> : 
              \/ i = Len(<< IndOp(p.d), x >>) /\ << IndOp(p.d), x >>[i] = x
              \/ << IndOp(p.d), x >>[i] = IndOp(p.d)
        OBVIOUS
      <3> DEFINE q == main'.todo
      <3> HIDE DEF q
      <3>4. ASSUME q \in { << >>, << x >>, << IndOp(p.d), x >> }
            PROVE  \A i \in DOMAIN q : q[i][1] = "data" => i = Len(q) /\ q[i][2] = p
        <4>1. CASE q = << >>
          BY <4>1
        <4>2. CASE q = << x >>
          BY <1>5, <3>2, <4>2
        <4>3. CASE q = << IndOp(p.d), x >>
          BY <1>5, <1>7, <3>3, <4>3
        <4> QED BY <3>4, <4>1, <4>2, <4>3
      <3> QED BY <3>1, <3>4 DEF q
    <2> QED BY <1>1, <1>2, <2>1 DEF InHand
  <1>9. hdlc'.in = hdlc.in /\ hdlc'.out = hdlc.out /\ Clean' /\ Used' = Used
    <2>1. PICK missing \in BOOLEAN : SeenAs(hdlc, hdlc', missing)
      BY <1>4
    <2>2. /\ \A b \in Bufs : b # hdlc.in => hdlc'.buf[b] = hdlc.buf[b]
          /\ hdlc'.in = hdlc.in /\ hdlc'.out = hdlc.out
      BY <2>1, SeenKeeps DEF Types
    <2>3. Off(hdlc.in, hdlc.out) \in Int
      BY <1>4
    <2> QED BY <1>2, <1>4, <2>2, <2>3 DEF Clean, Used
  <1>10. NothingBehind'
    <2>1. main'.todo = << >> => ~ToDo("data")'
      BY DEF ToDo
    <2>2. main'.todo # << >> =>
            Len(main'.todo) = 1 \/ (Len(main'.todo) = 2 /\ main'.todo[1][1] = "ind" /\ Op' = "ind")
      <3>1. ops = << x >> => Len(ops) = 1
        OBVIOUS
      <3>2. ops = << IndOp(p.d), x >> => Len(ops) = 2 /\ ops[1] = IndOp(p.d) /\ Head(ops) = IndOp(p.d)
        OBVIOUS
      <3> QED BY <1>4, <1>6, <1>7, <3>1, <3>2 DEF Op
    <2>3. QLen \in Nat /\ Used' <= QLen - 3
      BY <1>4, <1>9, QueueAssumption
    <2>4. main'.same = TRUE => hdlc'.in = hdlc'.out
      BY <1>4, <1>9
    <2> QED BY <1>9, <2>1, <2>2, <2>3, <2>4 DEF NothingBehind
  <1> QED BY <1>1, <1>3, <1>8, <1>10, OrderSends

-----------------------------------------------------------------------------
(* The order is kept.                                                      *)

LEMMA OrderInitially ==
  ASSUME GwInit
  PROVE  OrderInv
  <1>1. /\ hdlc.buf = [b \in Bufs |-> Cleared] /\ hdlc.in = 0 /\ hdlc.out = 0
        /\ hdlc.tx = TxInit /\ main = Idle /\ far.f = 0 /\ far.sig = NONE /\ left = << 0, 0 >>
    BY DEF GwInit, HdlcInit
  <1>2. \A b \in Bufs : hdlc.buf[b].pieces = << >>
    BY <1>1 DEF Cleared
  <1>3. hdlc.tx.pieces = << >> /\ main.todo = << >> /\ main.same = NONE
    BY <1>1 DEF TxInit, Idle
  <1>4. ~Open
    BY <1>1, NoneIs DEF Open, Hdlcs
  <1>5. Keys(<< >>) = {} /\ Sorted(<< >>)
    BY KeysNone
  <1>6. Order
    BY <1>1, <1>2, <1>3, <1>5 DEF Order, InOrder, Given, Precedes
  <1>7. Recent
    <2>1. << 0, 0 >> \in PastKeys
      BY <1>1, <1>4 DEF PastKeys
    <2> QED BY <1>1, <1>2, <1>3, <1>5, <2>1 DEF Recent, Within
  <1>8. InHand /\ NothingBehind
    BY <1>3 DEF InHand, NothingBehind, ToDo
  <1>9. SeenEmpty
    BY <1>3, NoneIs DEF SeenEmpty
  <1> QED BY <1>6, <1>7, <1>8, <1>9 DEF OrderInv

LEMMA OrderNext ==
  ASSUME Types, OrderInv, [GwNext]_gwVars,
         hit = {} => Clean, hdlc.tx.crc => hdlc.tx.pieces # << >>
  PROVE  OrderInv'
  <1>1. CASE Queued
    <2>1. CASE Op = "data"
      BY <1>1, <2>1, OrderQueuedData
    <2>2. CASE Op = "ind"
      <3>1. main.todo[1][2] \in Indicators /\ hdlc' = RxIndicator(hdlc, main.todo[1][2], main.same)
        BY <1>1, <2>2, QueuedIs
      <3> QED BY <1>1, <2>2, <3>1, OrderQueuedEnd
    <2>3. CASE Op = "end"
      <3>1. hdlc' = [RxIndicator(hdlc, "no_signal", main.same) EXCEPT !.field_class = "none"]
        BY <1>1, <2>3, QueuedIs
      <3> QED BY <1>1, <2>3, <3>1, OrderQueuedEnd DEF Indicators
    <2>4. CASE Op = "fcs"
      <3>1. /\ main.todo[1][2] \in DataTypes /\ main.todo[1][3] \in BOOLEAN
            /\ \/ hdlc' = Reused(hdlc)
               \/ hdlc' = Finalise(hdlc, main.todo[1][2], main.todo[1][3], main.same)
        BY <1>1, <2>4, QueuedIs
      <3> QED BY <1>1, <2>4, <3>1, OrderQueuedFcs
    <2> QED BY <1>1, <2>1, <2>2, <2>3, <2>4, QueuedIs
  <1>2. CASE HdlcFrameEnd
    <2>1. hdlc.tx.crc
      BY <1>2 DEF HdlcFrameEnd
    <2> QED BY <1>2, <2>1, OrderFrameEnd
  <1>3. CASE Begin \/ Continue
    BY <1>3, OrderBegin, OrderPiece, OrderFcs, OrderSendEnd, OrderOctet, OrderNoSignal DEF Continue
  <1> QED
    BY <1>1, <1>2, <1>3, OrderQuiet, OrderInjectedOrPushed, OrderThrow, OrderFlagsEnd,
       OrderNextTxType
    DEF GwNext, Main, Fax

LEMMA OrderIsInOrder ==
  ASSUME Types, OrderInv
  PROVE  FramesInOrder
  <1> DEFINE ps == hdlc.tx.pieces
  <1>1. Sorted(ps) /\ Precedes({ left }, Keys(ps))
    BY DEF OrderInv, Order, InOrder
  <1>2. ps \in Seq(Pieces) /\ DOMAIN ps = 1 .. Len(ps)
    BY FieldsOf DEF Types
  <1>3. SUFFICES ASSUME NEW i \in DOMAIN ps
                 PROVE  Before(IF i = 1 THEN left ELSE << ps[i - 1].f, ps[i - 1].k >>,
                               << ps[i].f, ps[i].k >>)
    BY DEF FramesInOrder
  <1>4. CASE i = 1
    <2>1. << ps[i].f, ps[i].k >> \in Keys(ps)
      BY DEF Keys
    <2> QED BY <1>1, <1>4, <2>1 DEF Precedes
  <1>5. CASE i # 1
    <2>1. i - 1 \in DOMAIN ps /\ i - 1 < i
      BY <1>2, <1>3, <1>5
    <2> QED BY <1>1, <1>5, <2>1 DEF Sorted
  <1> QED BY <1>4, <1>5

-----------------------------------------------------------------------------
(* What the queue holds while the two threads have not crossed and no modem *)
(* was started too late or through too soon.                               *)

Well == hit \subseteq { "empty" }

(* Contents that say that data of the type of indicator i come.            *)
Says(c, i) == c = Ind(i) \/ \E d \in DataTypes : c = Data(d) /\ Expected(d) = i

Of(d, ps) == \A j \in DOMAIN ps : ps[j].d = d

(* A buffer that in has left behind, and the one at in: a frame of which   *)
(* hdlc_tx has what has come was meant for V.21.                           *)
IsIndicator(s) ==
  /\ \E i \in Indicators : s.contents = Ind(i)
  /\ s.pieces = << >> /\ s.flags \subseteq { "MISSING_DATA" }

IsFrame(s) ==
  \E d \in DataTypes :
    /\ s.contents = Data(d) /\ Of(d, s.pieces)
    /\ "FINISHED" \in s.flags => "PROCEED" \in s.flags
    /\ "FINISHED" \notin s.flags =>
         /\ "CORRUPT_CRC" \notin s.flags
         /\ "PROCEED" \in s.flags => s.pieces # << >>

IsComing(s, cur) ==
  /\ s.flags \subseteq { "MISSING_DATA", "PROCEED" }
  /\ \/ s.contents = NONE /\ s.pieces = << >> /\ "PROCEED" \notin s.flags
     \/ \E d \in DataTypes :
          /\ s.contents = Data(d) /\ Of(d, s.pieces) /\ cur = Expected(d)
          /\ "PROCEED" \in s.flags => d = "v21" /\ Len(s.pieces) >= StartLevel

(* The ring B between o and i: indicators and frames, each frame behind     *)
(* its indicator or another frame of its type, and nothing after i.        *)
Laid(B, i, o, cur) ==
  /\ Off(i, o) <= QLen - 2
  /\ \A b \in Bufs : Off(b, o) > Off(i, o) => B[b] = Cleared
  /\ \A b \in Bufs : Off(b, o) < Off(i, o) => IsIndicator(B[b]) \/ IsFrame(B[b])
  /\ IsComing(B[i], cur)
  /\ \A b \in Bufs : Off(b, o) < Off(i, o) =>
       IF Nxt(b) = i THEN Says(B[b].contents, cur)
       ELSE \A d \in DataTypes : B[Nxt(b)].contents = Data(d) => Says(B[b].contents, Expected(d))

LaidOut == Laid(hdlc.buf, hdlc.in, hdlc.out, hdlc.current_rx_indicator)

(* The modem that plays, or is to play, and the indicator it was started by. *)
Player    == IF modem.next # NONE THEN modem.next ELSE modem.handler
Signal(p) == IF p = "fsk" THEN "v21_preamble" ELSE "training"

Meant(B, i, o, cur, ps, p) ==
  /\ p # "silence"
  /\ \A j \in DOMAIN ps : Expected(ps[j].d) = Signal(p)
  /\ \A d \in DataTypes : B[o].contents = Data(d) => Expected(d) = Signal(p)
  /\ i = o => cur = Signal(p)

(* hdlc_tx has the frame at out from when it is to proceed, and nothing      *)
(* before; alone, the pieces of a frame that was thrown away.              *)
Plays(s, t, alone) ==
  IF "PROCEED" \in s.flags
  THEN /\ t.pieces = s.pieces
       /\ IF "FINISHED" \in s.flags
          THEN t.bad <=> "CORRUPT_CRC" \in s.flags /\ s.pieces # << >>
          ELSE ~t.bad /\ ~t.crc
  ELSE /\ ~t.crc /\ ~t.bad
       /\ t.pieces = << >> \/ s.contents = Ind("no_signal") \/ alone

Alone == hdlc.in = hdlc.out /\ hdlc.buf[hdlc.out].contents = NONE /\ main.todo = << << "end" >> >>

InModem ==
  modem.src = "hdlc" =>
    /\ Meant(hdlc.buf, hdlc.in, hdlc.out, hdlc.current_rx_indicator, hdlc.tx.pieces, Player)
    /\ Plays(hdlc.buf[hdlc.out], hdlc.tx, Alone)

(* What the main thread has still to do: there is room for it, data follow  *)
(* their indicator, and the end comes last.                                *)
Need ==
  (IF ToDo("ind") THEN 2 ELSE 0) + (IF ToDo("fcs") THEN 1 ELSE 0) + (IF ToDo("end") THEN 2 ELSE 0)

Follows(d) ==
  IF Op = "ind" THEN main.todo[1] = IndOp(d) ELSE hdlc.current_rx_indicator = Expected(d)

Planned ==
  /\ main.same = TRUE => hdlc.in = hdlc.out
  /\ main.todo # << >> => Used + Need <= QLen - 2
  /\ \A i, j \in DOMAIN main.todo : main.todo[i][1] = main.todo[j][1] => i = j
  /\ \A i \in DOMAIN main.todo :
       /\ main.todo[i][1] = "ind"   => i = 1 /\ hdlc.current_rx_indicator # main.todo[i][2]
       /\ main.todo[i][1] = "end"   => i = Len(main.todo)
       /\ main.todo[i][1] = "throw" => i + 1 = Len(main.todo) /\ main.todo[i + 1] = << "end" >>
       /\ main.todo[i][1] = "data"  => Follows(main.todo[i][2].d)
       /\ main.todo[i][1] = "fcs"   =>
            \/ Follows(main.todo[i][2])
            \/ i = 1 /\ ~main.todo[i][3] /\ main.todo[i][5] /\ hdlc.buf[hdlc.in].pieces = << >>

(* And, whatever has happened: only a modem that runs is at the end of a   *)
(* frame, and one that is to follow is not running yet.                    *)
AtWork ==
  /\ hdlc.tx.crc => hdlc.tx.pieces # << >> /\ Running("hdlc")
  /\ hdlc.tx.pieces = << >> => ~hdlc.tx.bad
  /\ modem.next # NONE => modem.handler = "silence" /\ ~modem.ended

Uncrossed == LaidOut /\ InModem /\ Planned
QueueInv  == AtWork /\ (Well => Uncrossed)

LEMMA WellBefore ==
  ASSUME [GwNext]_gwVars, Well'
  PROVE  Well
  <1>1. hit \subseteq hit'
    BY Zenon DEF GwNext, Main, Look, Queued, Injected, Pushed, Throw, Fax, NextHandler, NextTxType,
           HdlcFlagsEnd, HdlcOctetsEnd, HdlcFrameEnd, HdlcTxEnd, NonEcmBits, HearCfr, Begin,
           Continue, SendPiece, SendFcs, SendHdlcEnd, SendOctet, SendNonEcmEnd, SendNoSignal,
           Indicator, HdlcData, HdlcFcs, NonEcmData, NonEcmEnd, HdlcEnd, Packet, gwVars
  <1> QED BY <1>1 DEF Well

LEMMA ExpectedIs ==
  /\ \A d \in DataTypes : Expected(d) \in Indicators /\ Expected(d) # "no_signal"
  /\ \A d, e \in DataTypes : Expected(d) = Expected(e) => d = e
  /\ \A d, e \in DataTypes : Data(d) = Data(e) => d = e
  /\ \A i, j \in Indicators : Ind(i) = Ind(j) => i = j
  /\ \A i \in Indicators, d \in DataTypes : Ind(i) # Data(d) /\ Ind(i) # NONE /\ Data(d) # NONE
  BY NoneIs DEF Expected, DataTypes, Indicators, Ind, Data, IsInd, IsData

-----------------------------------------------------------------------------
(* The buffer at in changes.                                               *)
LEMMA LaidHere ==
  ASSUME NEW B, NEW i \in Bufs, NEW o \in Bufs, NEW cur, Laid(B, i, o, cur),
         NEW C, \A b \in Bufs : b # i => C[b] = B[b], IsComing(C[i], cur)
  PROVE  Laid(C, i, o, cur)
  <1>1. \A b \in Bufs : Off(b, o) > Off(i, o) \/ Off(b, o) < Off(i, o) => b # i
    <2>1. Off(i, o) \in Int
      BY OffIs
    <2> QED BY <2>1
  <1>2. \A b \in Bufs : Nxt(b) \in Bufs
    BY NxtIs
  <1> QED BY <1>1, <1>2 DEF Laid

(* In moves on, and leaves an indicator or a frame behind.                 *)
LEMMA LaidOn ==
  ASSUME NEW B, NEW i \in Bufs, NEW o \in Bufs, NEW cur, Laid(B, i, o, cur), Off(i, o) <= QLen - 3,
         NEW C, \A b \in Bufs : b # i => C[b] = B[b],
         IsIndicator(C[i]) \/ IsFrame(C[i]), NEW new, Says(C[i].contents, new),
         \A d \in DataTypes : C[i].contents = Data(d) => cur = Expected(d)
  PROVE  Laid(C, Nxt(i), o, new) /\ B[Nxt(i)] = Cleared /\ Off(Nxt(i), o) = Off(i, o) + 1
  <1>1. /\ Nxt(i) \in Bufs /\ Off(i, o) \in Int /\ QLen \in Nat
        /\ Off(Nxt(i), o) = Off(i, o) + 1 /\ Nxt(i) # i
    BY OffIs, OffOne, NxtIs
  <1>2. B[Nxt(i)] = Cleared /\ C[Nxt(i)] = Cleared
    BY <1>1 DEF Laid
  <1>3. IsComing(C[Nxt(i)], new)
    BY <1>2 DEF IsComing, Cleared
  <1>4. ASSUME NEW b \in Bufs, Off(b, o) > Off(Nxt(i), o) PROVE C[b] = Cleared
    <2>1. Off(b, o) \in Int
      BY OffIs
    <2>2. b # i /\ Off(b, o) > Off(i, o)
      BY <1>1, <1>4, <2>1
    <2> QED BY <2>2 DEF Laid
  <1>5. ASSUME NEW b \in Bufs, Off(b, o) < Off(Nxt(i), o)
        PROVE  (b # i /\ Off(b, o) < Off(i, o)) \/ b = i
    <2>1. Off(b, o) \in Int /\ (Off(b, o) = Off(i, o) => b = i)
      BY OffIs, OffOne
    <2> QED BY <1>1, <1>5, <2>1
  <1>6. ASSUME NEW b \in Bufs, Off(b, o) < Off(Nxt(i), o)
        PROVE  IsIndicator(C[b]) \/ IsFrame(C[b])
    BY <1>5, <1>6 DEF Laid
  <1>7. ASSUME NEW b \in Bufs, Off(b, o) < Off(Nxt(i), o)
        PROVE  IF Nxt(b) = Nxt(i) THEN Says(C[b].contents, new)
               ELSE \A d \in DataTypes : C[Nxt(b)].contents = Data(d) => Says(C[b].contents, Expected(d))
    <2>1. Nxt(b) \in Bufs /\ (Nxt(b) = Nxt(i) => b = i)
      BY NxtIs, QueueAssumption DEF Bufs
    <2>2. CASE b = i
      BY <2>2
    <2>3. CASE b # i
      <3>1. Off(b, o) < Off(i, o) /\ C[b] = B[b]
        BY <1>5, <1>7, <2>3
      <3>2. CASE Nxt(b) = i
        BY <2>1, <2>3, <3>1, <3>2 DEF Laid
      <3>3. CASE Nxt(b) # i
        BY <2>1, <2>3, <3>1, <3>3 DEF Laid
      <3> QED BY <3>2, <3>3
    <2> QED BY <2>2, <2>3
  <1>8. Off(Nxt(i), o) <= QLen - 2
    BY <1>1
  <1> QED BY <1>1, <1>2, <1>3, <1>4, <1>6, <1>7, <1>8 DEF Laid

(* Out moves on.                                                           *)
LEMMA LaidOff ==
  ASSUME NEW B, NEW i \in Bufs, NEW o \in Bufs, NEW cur, Laid(B, i, o, cur), i # o,
         NEW C, \A b \in Bufs : b # o => C[b] = B[b], C[o] = Cleared
  PROVE  Laid(C, i, Nxt(o), cur) /\ Off(i, Nxt(o)) = Off(i, o) - 1
  <1>1. /\ Nxt(o) \in Bufs /\ Off(i, o) \in Int /\ QLen \in Nat
        /\ Off(i, Nxt(o)) = Off(i, o) - 1 /\ Off(i, o) > 0
    BY OffIs, OffOne, NxtIs
  <1>2. \A b \in Bufs : b # o => Off(b, Nxt(o)) = Off(b, o) - 1 /\ Off(b, o) \in Int /\ Off(b, o) > 0
    BY OffIs, OffOne
  <1>3. Off(o, Nxt(o)) = QLen - 1 /\ Off(i, o) <= QLen - 2
    BY OffOne DEF Laid
  <1>4. ASSUME NEW b \in Bufs, Off(b, Nxt(o)) > Off(i, Nxt(o)) PROVE C[b] = Cleared
    <2>1. CASE b = o
      BY <2>1
    <2>2. CASE b # o
      <3>1. Off(b, o) > Off(i, o)
        BY <1>1, <1>2, <1>4, <2>2
      <3> QED BY <2>2, <3>1 DEF Laid
    <2> QED BY <2>1, <2>2
  <1>5. ASSUME NEW b \in Bufs, Off(b, Nxt(o)) < Off(i, Nxt(o))
        PROVE  b # o /\ Off(b, o) < Off(i, o) /\ C[b] = B[b] /\ Nxt(b) \in Bufs /\ Nxt(b) # o
    <2>1. b # o
      BY <1>1, <1>3, <1>5
    <2>2. Off(b, o) < Off(i, o)
      BY <1>1, <1>2, <1>5, <2>1
    <2>3. Nxt(b) \in Bufs /\ Nxt(b) # o
      <3>1. Off(Nxt(b), o) = Off(b, o) + 1
        BY <1>1, <1>2, <1>3, <2>1, <2>2, OffOne
      <3>2. Off(o, o) = 0
        BY OffIs
      <3> QED BY <1>2, <2>1, <3>1, <3>2, NxtIs
    <2> QED BY <2>1, <2>2, <2>3
  <1>6. IsComing(C[i], cur)
    BY DEF Laid
  <1>7. ASSUME NEW b \in Bufs, Off(b, Nxt(o)) < Off(i, Nxt(o))
        PROVE  /\ IsIndicator(C[b]) \/ IsFrame(C[b])
               /\ IF Nxt(b) = i THEN Says(C[b].contents, cur)
                  ELSE \A d \in DataTypes : C[Nxt(b)].contents = Data(d) => Says(C[b].contents, Expected(d))
    <2>1. b # o /\ Off(b, o) < Off(i, o) /\ C[b] = B[b] /\ Nxt(b) \in Bufs /\ Nxt(b) # o
      BY <1>5, <1>7
    <2>2. C[Nxt(b)] = B[Nxt(b)]
      BY <2>1
    <2> QED BY <2>1, <2>2 DEF Laid
  <1>8. Off(i, Nxt(o)) <= QLen - 2
    BY <1>1, <1>3
  <1> QED BY <1>1, <1>4, <1>6, <1>7, <1>8 DEF Laid

(* The frame behind a frame is for the modem of the one before.            *)
LEMMA LaidBehind ==
  ASSUME NEW B, NEW i \in Bufs, NEW o \in Bufs, NEW cur, Laid(B, i, o, cur), i # o,
         NEW d \in DataTypes, B[o].contents = Data(d)
  PROVE  /\ \A e \in DataTypes : B[Nxt(o)].contents = Data(e) => Expected(e) = Expected(d)
         /\ i = Nxt(o) => cur = Expected(d)
  <1>1. Off(o, o) < Off(i, o) /\ Nxt(o) \in Bufs
    BY OffIs, NxtIs
  <1>2. \A j \in Indicators : Says(B[o].contents, j) => j = Expected(d)
    BY ExpectedIs DEF Says
  <1>3. \A e \in DataTypes : Expected(e) \in Indicators
    BY ExpectedIs
  <1>4. CASE Nxt(o) = i
    <2>1. Says(B[o].contents, cur)
      BY <1>1, <1>4 DEF Laid
    <2>2. cur = Expected(d)
      <3>1. CASE B[o].contents = Ind(cur)
        <4>1. Ind(cur) # Data(d)
          BY DEF Ind, Data
        <4> QED BY <3>1, <4>1
      <3>2. CASE \E e \in DataTypes : B[o].contents = Data(e) /\ Expected(e) = cur
        BY <3>2, ExpectedIs
      <3> QED BY <2>1, <3>1, <3>2 DEF Says
    <2>3. \A e \in DataTypes : B[i].contents = Data(e) => cur = Expected(e)
      BY ExpectedIs DEF Laid, IsComing
    <2> QED BY <1>4, <2>2, <2>3
  <1>5. CASE Nxt(o) # i
    BY <1>1, <1>2, <1>3, <1>5 DEF Laid
  <1> QED BY <1>4, <1>5

-----------------------------------------------------------------------------
(* What the steps change of the frame in progress.                         *)

Kept(t, u) == u.pieces = t.pieces /\ u.crc = t.crc /\ u.bad = t.bad

RingKept ==
  /\ hdlc'.buf = hdlc.buf /\ hdlc'.in = hdlc.in /\ hdlc'.out = hdlc.out
  /\ hdlc'.current_rx_indicator = hdlc.current_rx_indicator

LEMMA WithTxIs ==
  ASSUME Types, NEW u \in TxTypes, hdlc' = [hdlc EXCEPT !.tx = u]
  PROVE  RingKept /\ hdlc'.tx = u
  <1>1. hdlc \in HdlcTypes
    BY DEF Types, Queue
  <1>2. /\ hdlc'.buf = hdlc.buf /\ hdlc'.in = hdlc.in /\ hdlc'.out = hdlc.out /\ hdlc'.tx = u
        /\ hdlc'.current_rx_indicator = hdlc.current_rx_indicator
    BY ONLY <1>1, hdlc' = [hdlc EXCEPT !.tx = u] DEF HdlcTypes
  <1> QED BY <1>2 DEF RingKept

Quiet == Look \/ NextHandler \/ HdlcTxEnd \/ NonEcmBits \/ HearCfr \/ UNCHANGED gwVars

LEMMA QuietIs ==
  ASSUME Types, Quiet
  PROVE  /\ RingKept /\ Kept(hdlc.tx, hdlc'.tx) /\ UNCHANGED << far, hit >>
         /\ main'.todo = main.todo /\ (main'.same = main.same \/ main'.same = Same)
         /\ \/ UNCHANGED modem
            \/ /\ Ready /\ modem.next # NONE /\ modem'.handler = modem.next
               /\ modem'.next = NONE /\ ~modem'.ended /\ modem'.src = modem.src
            \/ /\ Running("non_ecm") \/ (Running("hdlc") /\ hdlc.tx.pieces = << >>)
               /\ modem'.handler = modem.handler /\ modem'.next = modem.next
               /\ modem'.src = modem.src /\ modem'.ended
  <1>1. UNCHANGED << far, hit >>
    BY DEF Quiet, Look, NextHandler, HdlcTxEnd, NonEcmBits, HearCfr, gwVars
  <1>2. main'.todo = main.todo /\ (main'.same = main.same \/ main'.same = Same)
    <2>1. CASE Look
      <3>1. main' = [main EXCEPT !.same = Same] /\ main \in MainTypes
        BY <2>1 DEF Look, Types
      <3> HIDE DEF Same
      <3> QED BY <3>1 DEF MainTypes
    <2>2. CASE UNCHANGED main
      BY <2>2
    <2> QED BY <2>1, <2>2 DEF Quiet, NextHandler, HdlcTxEnd, NonEcmBits, HearCfr, gwVars
  <1>3. RingKept /\ Kept(hdlc.tx, hdlc'.tx)
    <2>1. CASE UNCHANGED hdlc
      BY <2>1 DEF RingKept, Kept
    <2>2. CASE HdlcTxEnd
      <3> DEFINE u == [hdlc.tx EXCEPT !.tx_end = FALSE]
      <3>1. hdlc.tx \in TxTypes
        BY FieldsOf DEF Types
      <3>2. u \in TxTypes /\ Kept(hdlc.tx, u)
        BY <3>1 DEF TxTypes, Kept
      <3>3. hdlc' = [hdlc EXCEPT !.tx = u]
        BY <2>2 DEF HdlcTxEnd
      <3> HIDE DEF u
      <3> QED BY <3>2, <3>3, WithTxIs
    <2> QED BY <2>1, <2>2 DEF Quiet, Look, NextHandler, NonEcmBits, HearCfr, gwVars
  <1>4. modem \in ModemTypes
    BY DEF Types
  <1>5. \/ UNCHANGED modem
        \/ /\ Ready /\ modem.next # NONE /\ modem'.handler = modem.next
           /\ modem'.next = NONE /\ ~modem'.ended /\ modem'.src = modem.src
        \/ /\ Running("non_ecm") \/ (Running("hdlc") /\ hdlc.tx.pieces = << >>)
           /\ modem'.handler = modem.handler /\ modem'.next = modem.next
           /\ modem'.src = modem.src /\ modem'.ended
    <2>1. CASE NextHandler
      <3>1. /\ Ready /\ modem.next # NONE
            /\ modem' = [modem EXCEPT !.handler = modem.next, !.next = NONE, !.ended = FALSE]
        BY <2>1 DEF NextHandler
      <3> HIDE DEF Ready
      <3> QED BY <1>4, <3>1 DEF ModemTypes
    <2>2. CASE HdlcTxEnd
      <3>1. Running("hdlc") /\ hdlc.tx.pieces = << >> /\ modem' = [modem EXCEPT !.ended = TRUE]
        BY <2>2 DEF HdlcTxEnd
      <3> QED BY <1>4, <3>1 DEF ModemTypes
    <2>3. CASE NonEcmBits
      <3>1. Running("non_ecm") /\ (UNCHANGED modem \/ modem' = [modem EXCEPT !.ended = TRUE])
        BY <2>3 DEF NonEcmBits
      <3> QED BY <1>4, <3>1 DEF ModemTypes
    <2>4. CASE UNCHANGED modem
      BY <2>4
    <2> QED BY <2>1, <2>2, <2>3, <2>4 DEF Quiet, Look, HearCfr, gwVars
  <1> QED BY <1>1, <1>2, <1>3, <1>5

LEMMA OctetsEndIs ==
  ASSUME Types, HdlcOctetsEnd
  PROVE  /\ RingKept /\ UNCHANGED << far, main, modem >>
         /\ hdlc'.tx.pieces = hdlc.tx.pieces /\ hdlc'.tx.bad = hdlc.tx.bad
         /\ Running("hdlc") /\ hdlc.tx.pieces # << >>
         /\ hit' = IF "FINISHED" \notin hdlc.buf[hdlc.out].flags
                   THEN hit \union { "starved" } ELSE hit
  <1> DEFINE u == [hdlc.tx EXCEPT !.crc = TRUE]
  <1>1. hdlc.tx \in TxTypes
    BY FieldsOf DEF Types
  <1>2. u \in TxTypes /\ u.pieces = hdlc.tx.pieces /\ u.bad = hdlc.tx.bad
    BY <1>1 DEF TxTypes
  <1>3. hdlc' = [hdlc EXCEPT !.tx = u]
    BY DEF HdlcOctetsEnd
  <1> HIDE DEF u
  <1>4. RingKept /\ hdlc'.tx = u
    BY <1>2, <1>3, WithTxIs
  <1> QED BY <1>2, <1>4 DEF HdlcOctetsEnd

LEMMA FrameEndIs ==
  ASSUME Types, HdlcFrameEnd
  PROVE  /\ Running("hdlc") /\ hdlc.tx.crc /\ UNCHANGED << far, main, modem, hit >>
         /\ \E t \in TxTypes : t.pieces = << >> /\ ~t.crc /\ ~t.bad /\ Ended(hdlc, t, hdlc')
  <1> DEFINE t == [TxInit EXCEPT !.tx_end = hdlc.tx.tx_end]
  <1>1. hdlc' = Underflow([hdlc EXCEPT !.tx = t])
    BY Zenon DEF TxDone, HdlcFrameEnd
  <1>2. t \in TxTypes /\ t.pieces = << >> /\ ~t.crc /\ ~t.bad
    <2>1. TxInit \in TxTypes /\ hdlc.tx.tx_end \in BOOLEAN
      <3>1. hdlc.tx \in TxTypes
        BY FieldsOf DEF Types
      <3> QED BY <3>1, TxTypesKept DEF TxTypes
    <2>2. TxInit.pieces = << >> /\ ~TxInit.crc /\ ~TxInit.bad
      BY DEF TxInit
    <2> QED BY <2>1, <2>2 DEF TxTypes
  <1> HIDE DEF t
  <1>3. Ended(hdlc, t, hdlc')
    BY <1>1, <1>2, TxDoneIs DEF Types
  <1> QED BY <1>2, <1>3 DEF HdlcFrameEnd

LEMMA FlagsEndIs ==
  ASSUME Types, HdlcFlagsEnd
  PROVE  /\ Running("hdlc") /\ UNCHANGED << far, main, modem, hit >>
         /\ \/ hdlc.tx.pieces # << >> /\ RingKept /\ Kept(hdlc.tx, hdlc'.tx)
            \/ /\ hdlc.tx.pieces = << >>
               /\ \E t \in TxTypes : Kept(hdlc.tx, t) /\ Ended(hdlc, t, hdlc')
  <1> DEFINE t == [hdlc.tx EXCEPT !.preamble = FALSE]
  <1>1. hdlc.tx \in TxTypes
    BY FieldsOf DEF Types
  <1>2. t \in TxTypes /\ Kept(hdlc.tx, t)
    BY <1>1 DEF TxTypes, Kept
  <1>3. hdlc' = IF hdlc.tx.pieces = << >> THEN Underflow([hdlc EXCEPT !.tx = t])
                ELSE [hdlc EXCEPT !.tx = t]
    BY DEF HdlcFlagsEnd, PreambleDone
  <1> HIDE DEF t
  <1>4. CASE hdlc.tx.pieces = << >>
    <2>1. Ended(hdlc, t, hdlc')
      BY <1>2, <1>3, <1>4, TxDoneIs DEF Types
    <2> QED BY <1>2, <1>4, <2>1 DEF HdlcFlagsEnd
  <1>5. CASE hdlc.tx.pieces # << >>
    <2>1. RingKept /\ hdlc'.tx = t
      BY <1>2, <1>3, <1>5, WithTxIs
    <2> QED BY <1>2, <1>5, <2>1 DEF HdlcFlagsEnd
  <1> QED BY <1>4, <1>5

\* What the main thread gives hdlc_tx takes nothing from it.
Gets(t, u) ==
  /\ u.crc = t.crc
  /\ t.pieces # << >> => u.pieces # << >>
  /\ u.pieces = << >> => u.bad = t.bad

LEMMA GetsFrame ==
  ASSUME NEW t \in TxTypes, NEW ps \in Seq(Pieces)
  PROVE  /\ Gets(t, t) /\ Gets(t, TxFrame(t, ps)) /\ Gets(t, TxCorrupt(t))
         /\ Gets(t, TxCorrupt(TxFrame(t, ps)))
  <1> DEFINE u == TxFrame(t, ps)
  <1>1. u \in TxTypes /\ u.crc = t.crc /\ u.bad = t.bad /\ t.pieces \in Seq(Pieces)
        /\ u.pieces = IF ps = << >> \/ t.crc THEN t.pieces ELSE t.pieces \o ps
    BY TxFrameIs
  <1>2. t.pieces # << >> => u.pieces # << >>
    <2> DEFINE a == t.pieces
               b == u.pieces
    <2>1. a \in Seq(Pieces) /\ (b = a \/ b = a \o ps)
      BY <1>1
    <2> HIDE DEF a, b
    <2>2. a # << >> => b # << >>
      BY <2>1
    <2> QED BY <2>2 DEF a, b
  <1>3. \A w \in TxTypes : /\ TxCorrupt(w).pieces = w.pieces /\ TxCorrupt(w).crc = w.crc
                           /\ w.pieces = << >> => TxCorrupt(w).bad = w.bad
    BY TxFrameIs
  <1> HIDE DEF u
  <1>4. Gets(t, u)
    BY <1>1, <1>2 DEF Gets
  <1>5. Gets(t, TxCorrupt(t))
    BY <1>3 DEF Gets
  <1>6. Gets(t, TxCorrupt(u))
    BY <1>1, <1>2, <1>3 DEF Gets
  <1> QED BY <1>4, <1>5, <1>6 DEF u, Gets

LEMMA QueuedGets ==
  ASSUME Types, Queued
  PROVE  Gets(hdlc.tx, hdlc'.tx) /\ UNCHANGED << far, modem >>
  <1>1. /\ Queue(hdlc) /\ hdlc.tx \in TxTypes /\ hdlc.in \in Bufs
        /\ \A b \in Bufs : hdlc.buf[b].pieces \in Seq(Pieces)
    BY FieldsOf DEF Types
  <1>2. UNCHANGED << far, modem >>
    BY DEF Queued, Done
  <1>3. << >> \in Seq(Pieces)
    OBVIOUS
  <1>4. Gets(hdlc.tx, hdlc.tx)
    BY <1>1, <1>3, GetsFrame
  <1>5. ASSUME NEW i \in Indicators,
               \/ hdlc' = RxIndicator(hdlc, i, main.same)
               \/ hdlc' = [RxIndicator(hdlc, i, main.same) EXCEPT !.field_class = "none"]
        PROVE  Gets(hdlc.tx, hdlc'.tx)
    <2>1. CASE hdlc.current_rx_indicator = i
      <3>1. RxIndicator(hdlc, i, main.same) = hdlc
        BY <2>1 DEF RxIndicator
      <3>2. hdlc \in HdlcTypes
        BY <1>1 DEF Queue
      <3>3. hdlc'.tx = hdlc.tx
        BY ONLY <1>5, <3>1, <3>2 DEF HdlcTypes
      <3> QED BY <1>4, <3>3
    <2>2. CASE hdlc.current_rx_indicator # i
      <3> DEFINE g == hdlc'
      <3>4. \/ g = RxIndicator(hdlc, i, main.same)
            \/ g = [RxIndicator(hdlc, i, main.same) EXCEPT !.field_class = "none"]
        BY <1>5
      <3> HIDE DEF g
      <3>5. /\ g.buf = [hdlc.buf EXCEPT ![Landing(hdlc)] =
                         [hdlc.buf[Landing(hdlc)] EXCEPT !.contents = Ind(i)]]
            /\ Landing(hdlc) \in Bufs
            /\ g.in = Nxt(Landing(hdlc)) /\ g.out = hdlc.out /\ g.last = hdlc.last
            /\ g.tx = hdlc.tx \/ g.tx = [hdlc.tx EXCEPT !.tx_end = TRUE]
        BY <1>1, <2>2, <3>4, RxIndicatorIs
      <3>1. hdlc'.tx = hdlc.tx \/ hdlc'.tx = [hdlc.tx EXCEPT !.tx_end = TRUE]
        BY <3>5 DEF g
      <3>2. Gets(hdlc.tx, [hdlc.tx EXCEPT !.tx_end = TRUE])
        BY <1>1 DEF Gets, TxTypes
      <3> QED BY <1>4, <3>1, <3>2
    <2> QED BY <2>1, <2>2
  <1>6. CASE Op \in { "ind", "end" }
    BY <1>2, <1>5, <1>6, QueuedIs DEF Indicators
  <1>7. CASE Op = "data"
    <2> DEFINE p == main.todo[1][2]
               s == hdlc.buf[hdlc.in]
    <2>1. p \in Pieces /\ hdlc' = RxData(hdlc, p, main.same)
      BY <1>7, QueuedIs
    <2> HIDE DEF p
    <2>2. PutIn(hdlc, hdlc', p, main.same)
      BY <1>1, <2>1, RxDataIs
    <2>3. \/ hdlc'.tx = hdlc.tx
          \/ hdlc'.tx = TxFrame(hdlc.tx, << p >>)
          \/ hdlc'.tx = TxFrame(hdlc.tx, Append(s.pieces, p))
      <3>1. \/ hdlc'.tx = hdlc.tx
            \/ \E start \in BOOLEAN :
                 hdlc'.tx = IF start /\ main.same
                            THEN TxFrame(hdlc.tx, IF "PROCEED" \in s.flags THEN << p >>
                                                  ELSE Append(s.pieces, p))
                            ELSE hdlc.tx
        BY <2>2, Zenon DEF PutIn
      <3> QED BY <3>1
    <2>4. << p >> \in Seq(Pieces) /\ Append(s.pieces, p) \in Seq(Pieces)
      BY <1>1, <2>1, OnePiece
    <2> QED BY <1>1, <1>2, <1>4, <2>3, <2>4, GetsFrame
  <1>8. CASE Op = "fcs"
    <2>1. PICK d \in DataTypes, good \in BOOLEAN :
            hdlc' = Reused(hdlc) \/ hdlc' = Finalise(hdlc, d, good, main.same)
      BY <1>8, QueuedIs
    <2> DEFINE s == hdlc.buf[hdlc.in]
    <2>2. CASE hdlc' = Reused(hdlc)
      <3>1. hdlc'.tx = hdlc.tx
        BY <1>1, <2>2, ReusedIs
      <3> QED BY <1>2, <1>4, <3>1
    <2>3. CASE hdlc' = Finalise(hdlc, d, good, main.same)
      <3> DEFINE tx1 == IF "PROCEED" \in s.flags THEN hdlc.tx ELSE TxFrame(hdlc.tx, s.pieces)
                 bad == Spoilt(s, good)
      <3> DEFINE g == Finalise(hdlc, d, good, main.same)
      <3>4. /\ g.in = Nxt(hdlc.in) /\ g.out = hdlc.out /\ g.last = hdlc.last
            /\ g.current_rx_indicator = hdlc.current_rx_indicator
            /\ g.buf = [[hdlc.buf EXCEPT ![hdlc.in] = Complete(s, d, bad)] EXCEPT ![Nxt(hdlc.in)] = Cleared]
            /\ g.tx = IF ~main.same THEN hdlc.tx ELSE IF bad THEN TxCorrupt(tx1) ELSE tx1
        BY <1>1, <2>1, FinaliseIs
      <3>1. hdlc'.tx = IF ~main.same THEN hdlc.tx ELSE IF bad THEN TxCorrupt(tx1) ELSE tx1
        BY <2>3, <3>4
      <3>2. s.pieces \in Seq(Pieces)
        BY <1>1
      <3>3. Gets(hdlc.tx, tx1) /\ Gets(hdlc.tx, TxCorrupt(tx1))
        BY <1>1, <3>2, GetsFrame
      <3> HIDE DEF tx1, bad
      <3> QED BY <1>2, <1>4, <3>1, <3>3
    <2> QED BY <2>1, <2>2, <2>3
  <1> QED BY <1>2, <1>6, <1>7, <1>8, QueuedIs

LEMMA AtWorkKept ==
  ASSUME Types, AtWork, Gets(hdlc.tx, hdlc'.tx), UNCHANGED modem
  PROVE  AtWork'
  BY DEF AtWork, Gets, Running

LEMMA AtWorkNext ==
  ASSUME Types, AtWork, [GwNext]_gwVars
  PROVE  AtWork'
  <1>1. hdlc.tx \in TxTypes /\ modem \in ModemTypes
    BY FieldsOf DEF Types
  <1>2. Gets(hdlc.tx, hdlc.tx) /\ (Kept(hdlc.tx, hdlc'.tx) => Gets(hdlc.tx, hdlc'.tx))
    BY DEF Gets, Kept
  <1>3. CASE Quiet
    <2>1. Kept(hdlc.tx, hdlc'.tx)
      BY <1>3, QuietIs
    <2>2. CASE UNCHANGED modem
      BY <1>2, <2>1, <2>2, AtWorkKept
    <2>3. CASE /\ Ready /\ modem.next # NONE /\ modem'.handler = modem.next
               /\ modem'.next = NONE /\ ~modem'.ended /\ modem'.src = modem.src
      <3>1. ~Running("hdlc")
        BY <2>3 DEF Ready, Running
      <3> QED BY <2>1, <2>3, <3>1 DEF AtWork, Kept
    <2>4. CASE /\ Running("non_ecm") \/ (Running("hdlc") /\ hdlc.tx.pieces = << >>)
               /\ modem'.handler = modem.handler /\ modem'.next = modem.next
               /\ modem'.src = modem.src /\ modem'.ended
      <3>1. ~hdlc.tx.crc
        BY <2>4 DEF AtWork, Running
      <3>2. modem.next = NONE
        BY <2>4 DEF AtWork, Running
      <3> QED BY <2>1, <2>4, <3>1, <3>2 DEF AtWork, Kept
    <2> QED BY <1>3, <2>2, <2>3, <2>4, QuietIs
  <1>4. CASE HdlcOctetsEnd
    BY <1>4, OctetsEndIs DEF AtWork, Running
  <1>5. ASSUME NEW t \in TxTypes, t.pieces = << >>, ~t.crc, ~t.bad, Ended(hdlc, t, hdlc'),
               UNCHANGED modem
        PROVE  AtWork'
    <2>1. hdlc'.tx = t \/ \E b \in Bufs : hdlc'.tx = Started(t, hdlc.buf[b])
      <3>1. Nxt(hdlc.out) \in Bufs
        BY FieldsOf, NxtIs DEF Types
      <3> QED BY <1>5, <3>1 DEF Ended
    <2>2. ~hdlc'.tx.crc /\ (hdlc'.tx.pieces = << >> => ~hdlc'.tx.bad)
      <3>1. CASE hdlc'.tx = t
        BY <1>5, <3>1
      <3>2. CASE \E b \in Bufs : hdlc'.tx = Started(t, hdlc.buf[b])
        <4>1. PICK b \in Bufs : hdlc'.tx = Started(t, hdlc.buf[b])
          BY <3>2
        <4>2. hdlc.buf[b] \in BufTypes
          BY FieldsOf DEF Types
        <4> QED BY <1>5, <4>1, <4>2, StartedIs
      <3> QED BY <2>1, <3>1, <3>2
    <2> QED BY <1>5, <2>2 DEF AtWork
  <1>6. CASE HdlcFrameEnd
    BY <1>5, <1>6, FrameEndIs
  <1>7. CASE HdlcFlagsEnd
    <2>1. CASE hdlc.tx.pieces # << >>
      BY <1>2, <1>7, <2>1, FlagsEndIs, AtWorkKept
    <2>2. CASE hdlc.tx.pieces = << >>
      <3>1. ~hdlc.tx.crc /\ ~hdlc.tx.bad
        BY <2>2 DEF AtWork
      <3> QED BY <1>5, <1>7, <2>2, <3>1, FlagsEndIs DEF Kept
    <2> QED BY <2>1, <2>2
  <1>8. CASE NextTxType
    <2>1. /\ Ready /\ modem'.handler = "silence" /\ ~modem'.ended
          /\ \/ hdlc'.tx.pieces = << >> /\ ~hdlc'.tx.crc /\ ~hdlc'.tx.bad
             \/ hdlc'.tx.pieces = hdlc.tx.pieces
                /\ hdlc'.tx.crc = hdlc.tx.crc /\ hdlc'.tx.bad = hdlc.tx.bad
      BY <1>8, NextTxTypeIs DEF Types
    <2>2. ~hdlc.tx.crc
      BY <2>1 DEF AtWork, Ready, Running
    <2> QED BY <2>1, <2>2 DEF AtWork
  <1>9. CASE Queued
    BY <1>9, QueuedGets, AtWorkKept
  <1>10. CASE Injected \/ Pushed
    BY <1>2, <1>10, AtWorkKept DEF Injected, Pushed, Done
  <1>11. CASE Throw
    <2>1. hdlc'.tx = hdlc.tx
      BY <1>11, ReusedIs DEF Throw, Types
    <2> QED BY <1>2, <1>11, <2>1, AtWorkKept DEF Throw, Done
  <1>12. ASSUME NEW ops, NEW packet, NEW class, Sends(ops, packet, class)
         PROVE  AtWork'
    <2>1. hdlc'.tx = hdlc.tx /\ UNCHANGED modem
      BY <1>12 DEF Sends, SeenAs
    <2> QED BY <1>2, <2>1, AtWorkKept
  <1>13. CASE Begin \/ Continue
    BY <1>12, <1>13, BeginIs, SendPieceIs, SendFcsIs, SendEndIs, SendOctetIs, SendNoSignalIs
    DEF Continue
  <1> QED
    BY <1>3, <1>4, <1>6, <1>7, <1>8, <1>9, <1>10, <1>11, <1>13 DEF Quiet, GwNext, Main, Fax

-----------------------------------------------------------------------------
(* Nothing crosses: when the ring and the frame in progress are left alone, *)

LEMMA InModemKept ==
  ASSUME InModem, RingKept, Kept(hdlc.tx, hdlc'.tx), modem'.src = modem.src, Player' = Player,
         Alone => main'.todo = main.todo
  PROVE  InModem'
  <1>1. CASE modem.src = "hdlc"
    <2>1. Alone => Alone'
      BY DEF RingKept, Alone
    <2>2. Meant(hdlc.buf, hdlc.in, hdlc.out, hdlc.current_rx_indicator, hdlc.tx.pieces, Player)'
      BY <1>1 DEF InModem, RingKept, Kept, Meant
    <2>3. Plays(hdlc.buf[hdlc.out], hdlc.tx, Alone)'
      <3>1. Plays(hdlc.buf[hdlc.out], hdlc.tx, Alone)
        BY <1>1 DEF InModem
      <3>2. hdlc'.buf[hdlc'.out] = hdlc.buf[hdlc.out]
        BY DEF RingKept
      <3> QED BY <2>1, <3>1, <3>2 DEF Kept, Plays
    <2> QED BY <2>2, <2>3 DEF InModem
  <1>2. CASE modem.src # "hdlc"
    BY <1>2 DEF InModem
  <1> QED BY <1>1, <1>2

LEMMA PlannedKept ==
  ASSUME Planned, main'.todo = main.todo, main'.same = main.same \/ main'.same = Same',
         hdlc'.in = hdlc.in, hdlc'.current_rx_indicator = hdlc.current_rx_indicator,
         hdlc'.buf[hdlc.in] = hdlc.buf[hdlc.in],
         hdlc'.out = hdlc.out \/ (hdlc.in # hdlc.out /\ Used' <= Used /\ Used \in Int /\ Used' \in Int
                                  /\ main'.same = main.same)
  PROVE  Planned'
  <1>1. Need' = Need
    BY DEF Need, ToDo
  <1>2. main'.same = TRUE => hdlc'.in = hdlc'.out
    BY DEF Planned, Same
  <1>3. main'.todo # << >> => (Used + Need <= QLen - 2)'
    <2>1. Need \in Int /\ QLen \in Int
      BY QueueAssumption DEF Need
    <2>2. Used' = Used \/ (Used' <= Used /\ Used \in Int /\ Used' \in Int)
      BY DEF Used
    <2>3. main'.todo # << >> => Used + Need <= QLen - 2
      BY DEF Planned
    <2> QED BY <1>1, <2>1, <2>2, <2>3
  <1>4. \A d : Follows(d)' = Follows(d)
    BY DEF Follows, Op
  <1> QED BY <1>2, <1>3, <1>4 DEF Planned

LEMMA LaidKept ==
  ASSUME LaidOut, RingKept
  PROVE  LaidOut'
  BY DEF LaidOut, RingKept

LEMMA UncrossedQuiet ==
  ASSUME Types, Uncrossed, Quiet
  PROVE  Uncrossed'
  <1>1. /\ RingKept /\ Kept(hdlc.tx, hdlc'.tx)
        /\ main'.todo = main.todo /\ (main'.same = main.same \/ main'.same = Same)
    BY QuietIs
  <1>2. modem'.src = modem.src /\ Player' = Player
    BY QuietIs DEF Player
  <1>3. main'.same = main.same \/ main'.same = Same'
    BY <1>1 DEF RingKept, Same
  <1>4. InModem'
    BY <1>1, <1>2, InModemKept DEF Uncrossed
  <1>5. Planned'
    BY <1>1, <1>3, PlannedKept DEF Uncrossed, RingKept
  <1> QED BY <1>1, <1>4, <1>5, LaidKept DEF Uncrossed

(* or a modem comes to the end of a frame that has all come,               *)
LEMMA AtOut ==
  ASSUME Types, LaidOut
  PROVE  /\ hdlc.in = hdlc.out => "FINISHED" \notin hdlc.buf[hdlc.out].flags
         /\ "FINISHED" \in hdlc.buf[hdlc.out].flags => "PROCEED" \in hdlc.buf[hdlc.out].flags
         /\ hdlc.in = hdlc.out /\ "PROCEED" \in hdlc.buf[hdlc.out].flags =>
              hdlc.buf[hdlc.out].pieces # << >>
         /\ hdlc.in # hdlc.out /\ "PROCEED" \in hdlc.buf[hdlc.out].flags =>
              \E d \in DataTypes : hdlc.buf[hdlc.out].contents = Data(d)
                                   /\ Of(d, hdlc.buf[hdlc.out].pieces)
  <1> DEFINE s == hdlc.buf[hdlc.out]
  <1>1. hdlc.in \in Bufs /\ hdlc.out \in Bufs /\ s.pieces \in Seq(Pieces)
    BY FieldsOf DEF Types
  <1>2. CASE hdlc.in = hdlc.out
    <2>1. IsComing(s, hdlc.current_rx_indicator)
      BY <1>2 DEF LaidOut, Laid
    <2>2. "FINISHED" \notin s.flags
      BY <2>1 DEF IsComing
    <2>3. "PROCEED" \in s.flags => s.pieces # << >>
      <3>1. "PROCEED" \in s.flags => Len(s.pieces) >= StartLevel
        BY <2>1 DEF IsComing
      <3>2. StartLevel \in Nat /\ StartLevel >= 1 /\ Len(<< >>) = 0
        BY QueueAssumption
      <3> QED BY <3>1, <3>2
    <2> QED BY <1>2, <2>2, <2>3
  <1>3. CASE hdlc.in # hdlc.out
    <2>1. Off(hdlc.out, hdlc.out) < Off(hdlc.in, hdlc.out)
      BY <1>1, <1>3, OffIs
    <2>2. IsIndicator(s) \/ IsFrame(s)
      BY <1>1, <2>1 DEF LaidOut, Laid
    <2> QED BY <1>3, <2>2 DEF IsIndicator, IsFrame
  <1> QED BY <1>2, <1>3

LEMMA UncrossedOctetsEnd ==
  ASSUME Types, Uncrossed, HdlcOctetsEnd, Well'
  PROVE  Uncrossed'
  <1>1. /\ RingKept /\ UNCHANGED << main, modem >>
        /\ hdlc'.tx.pieces = hdlc.tx.pieces /\ hdlc'.tx.bad = hdlc.tx.bad
        /\ Running("hdlc")
        /\ hit' = IF "FINISHED" \notin hdlc.buf[hdlc.out].flags
                  THEN hit \union { "starved" } ELSE hit
    BY OctetsEndIs
  <1>2. "FINISHED" \in hdlc.buf[hdlc.out].flags /\ "PROCEED" \in hdlc.buf[hdlc.out].flags
    <2>1. "FINISHED" \in hdlc.buf[hdlc.out].flags
      BY <1>1 DEF Well
    <2> QED BY <2>1, AtOut DEF Uncrossed
  <1>3. LaidOut' /\ Planned'
    BY <1>1, LaidKept, PlannedKept DEF Uncrossed, RingKept
  <1>4. modem.src = "hdlc" /\ Player' = Player
    BY <1>1 DEF Running, Player
  <1>5. Meant(hdlc.buf, hdlc.in, hdlc.out, hdlc.current_rx_indicator, hdlc.tx.pieces, Player)'
    BY <1>1, <1>4 DEF Uncrossed, InModem, RingKept, Meant
  <1>6. Plays(hdlc.buf[hdlc.out], hdlc.tx, Alone)'
    <2>1. Plays(hdlc.buf[hdlc.out], hdlc.tx, Alone)
      BY <1>4 DEF Uncrossed, InModem
    <2>2. hdlc'.buf[hdlc'.out] = hdlc.buf[hdlc.out]
      BY <1>1 DEF RingKept
    <2> QED BY <1>1, <1>2, <2>1, <2>2 DEF Plays
  <1> QED BY <1>3, <1>5, <1>6 DEF Uncrossed, InModem

(* or out moves on behind a frame,                                         *)
LEMMA UncrossedMoves ==
  ASSUME Types, Uncrossed, hdlc.in # hdlc.out, "PROCEED" \in hdlc.buf[hdlc.out].flags,
         modem.src = "hdlc", UNCHANGED << main, modem >>,
         NEW t \in TxTypes, t.pieces = << >>, ~t.crc, ~t.bad, Ended(hdlc, t, hdlc')
  PROVE  Uncrossed'
  <1> DEFINE n == Nxt(hdlc.out)
             s == hdlc.buf[n]
  <1>1. /\ hdlc'.buf = [hdlc.buf EXCEPT ![hdlc.out] = Cleared] /\ hdlc'.out = n
        /\ hdlc'.in = hdlc.in /\ hdlc'.current_rx_indicator = hdlc.current_rx_indicator
        /\ hdlc'.tx = Started(t, s)
    BY DEF Ended
  <1>2. /\ hdlc.in \in Bufs /\ hdlc.out \in Bufs /\ n \in Bufs /\ n # hdlc.out
        /\ hdlc.buf \in [Bufs -> BufTypes] /\ s \in BufTypes /\ s.pieces \in Seq(Pieces)
    BY FieldsOf, NxtIs DEF Types
  <1> HIDE DEF n
  <1>3. /\ \A b \in Bufs : b # hdlc.out => hdlc'.buf[b] = hdlc.buf[b]
        /\ hdlc'.buf[hdlc.out] = Cleared /\ hdlc'.buf[n] = s
    BY <1>1, <1>2
  <1>4. /\ LaidOut' /\ Off(hdlc.in, n) = Off(hdlc.in, hdlc.out) - 1
    <2>1. Laid(hdlc.buf, hdlc.in, hdlc.out, hdlc.current_rx_indicator)
      BY DEF Uncrossed, LaidOut
    <2> DEFINE C == hdlc'.buf
    <2>2. \A b \in Bufs : b # hdlc.out => C[b] = hdlc.buf[b]
      BY <1>3
    <2>3. C[hdlc.out] = Cleared
      BY <1>3
    <2> HIDE DEF C
    <2>4. Laid(C, hdlc.in, Nxt(hdlc.out), hdlc.current_rx_indicator)
          /\ Off(hdlc.in, Nxt(hdlc.out)) = Off(hdlc.in, hdlc.out) - 1
      BY <1>2, <2>1, <2>2, <2>3, LaidOff
    <2> QED BY <1>1, <2>4 DEF LaidOut, C, n
  <1>5. Planned'
    <2>1. Used \in Int /\ Used' = Used - 1
      BY <1>1, <1>2, <1>4, OffIs DEF Used
    <2>2. Used' <= Used /\ Used' \in Int
      BY <2>1
    <2>3. main'.todo = main.todo /\ main'.same = main.same
      OBVIOUS
    <2>4. hdlc'.buf[hdlc.in] = hdlc.buf[hdlc.in]
      BY <1>2, <1>3
    <2> QED BY <1>1, <2>1, <2>2, <2>3, <2>4, PlannedKept DEF Uncrossed
  <1>6. /\ \A e \in DataTypes : s.contents = Data(e) => Expected(e) = Signal(Player)
        /\ hdlc.in = n => hdlc.current_rx_indicator = Signal(Player)
        /\ Player # "silence"
    <2>1. PICK d \in DataTypes : hdlc.buf[hdlc.out].contents = Data(d)
      BY AtOut DEF Uncrossed
    <2>2. Expected(d) = Signal(Player) /\ Player # "silence"
      BY <2>1 DEF Uncrossed, InModem, Meant
    <2>3. Laid(hdlc.buf, hdlc.in, hdlc.out, hdlc.current_rx_indicator)
      BY DEF Uncrossed, LaidOut
    <2>4. /\ \A e \in DataTypes : hdlc.buf[Nxt(hdlc.out)].contents = Data(e) => Expected(e) = Expected(d)
          /\ hdlc.in = Nxt(hdlc.out) => hdlc.current_rx_indicator = Expected(d)
      BY <1>2, <2>1, <2>3, LaidBehind
    <2> QED BY <2>2, <2>4 DEF n
  <1>7. /\ "PROCEED" \in s.flags => \E d \in DataTypes : s.contents = Data(d) /\ Of(d, s.pieces)
        /\ "PROCEED" \in s.flags /\ "FINISHED" \notin s.flags => "CORRUPT_CRC" \notin s.flags
    <2>1. Off(n, n) = 0 /\ Off(hdlc.in, n) \in Int /\ (n # hdlc.in => Off(hdlc.in, n) > 0)
      BY <1>2, OffIs
    <2>2. CASE n = hdlc.in
      <3>1. IsComing(s, hdlc.current_rx_indicator)
        BY <1>1, <1>3, <1>4, <2>2 DEF LaidOut, Laid
      <3> QED BY <3>1 DEF IsComing
    <2>3. CASE n # hdlc.in
      <3>1. Off(n, n) < Off(hdlc.in, n)
        BY <2>1, <2>3
      <3>2. IsIndicator(s) \/ IsFrame(s)
        BY <1>1, <1>2, <1>3, <1>4, <3>1 DEF LaidOut, Laid
      <3> QED BY <3>2 DEF IsIndicator, IsFrame
    <2> QED BY <2>2, <2>3
  <1>8. /\ ~hdlc'.tx.crc
        /\ IF "PROCEED" \in s.flags
           THEN /\ hdlc'.tx.pieces = s.pieces
                /\ hdlc'.tx.bad <=> "CORRUPT_CRC" \in s.flags /\ s.pieces # << >>
           ELSE hdlc'.tx.pieces = << >> /\ ~hdlc'.tx.bad
    <2>1. /\ ~Started(t, s).crc
          /\ IF IsData(s.contents) /\ "PROCEED" \in s.flags
             THEN /\ Started(t, s).pieces = s.pieces
                  /\ Started(t, s).bad <=> "CORRUPT_CRC" \in s.flags /\ s.pieces # << >>
             ELSE Started(t, s).pieces = << >> /\ ~Started(t, s).bad
      BY <1>2, StartedIs
    <2>2. "PROCEED" \in s.flags => IsData(s.contents)
      BY <1>7, NoneIs
    <2> QED BY <1>1, <2>1, <2>2
  <1>9. Player' = Player /\ hdlc'.buf[hdlc'.out] = s
    BY <1>1, <1>3 DEF Player
  <1>10. \A j \in DOMAIN hdlc'.tx.pieces : Expected(hdlc'.tx.pieces[j].d) = Signal(Player)
    <2>1. CASE "PROCEED" \in s.flags
      BY <1>6, <1>7, <1>8, <2>1 DEF Of
    <2>2. CASE "PROCEED" \notin s.flags
      <3>1. hdlc'.tx.pieces = << >>
        BY <1>8, <2>2
      <3> QED BY <3>1
    <2> QED BY <2>1, <2>2
  <1>11. Meant(hdlc.buf, hdlc.in, hdlc.out, hdlc.current_rx_indicator, hdlc.tx.pieces, Player)'
    BY <1>1, <1>6, <1>9, <1>10 DEF Meant
  <1>12. Plays(hdlc.buf[hdlc.out], hdlc.tx, Alone)'
    BY <1>7, <1>8, <1>9 DEF Plays
  <1> QED BY <1>4, <1>5, <1>11, <1>12 DEF Uncrossed, InModem

LEMMA FrameEndAhead ==
  ASSUME Types, Uncrossed, HdlcFrameEnd
  PROVE  "PROCEED" \in hdlc.buf[hdlc.out].flags /\ hdlc.in # hdlc.out
  <1>1. /\ Running("hdlc") /\ hdlc.tx.crc /\ UNCHANGED << main, modem >>
        /\ \E t \in TxTypes : t.pieces = << >> /\ ~t.crc /\ ~t.bad /\ Ended(hdlc, t, hdlc')
    BY FrameEndIs
  <1>2. modem.src = "hdlc"
    BY <1>1 DEF Running
  <1>3. Plays(hdlc.buf[hdlc.out], hdlc.tx, Alone)
    BY <1>2 DEF Uncrossed, InModem
  <1>4. "PROCEED" \in hdlc.buf[hdlc.out].flags /\ "FINISHED" \in hdlc.buf[hdlc.out].flags
    BY <1>1, <1>3 DEF Plays
  <1>5. hdlc.in # hdlc.out
    BY <1>4, AtOut DEF Uncrossed
  <1> QED BY <1>4, <1>5

LEMMA UncrossedFrameEnd ==
  ASSUME Types, Uncrossed, HdlcFrameEnd
  PROVE  Uncrossed'
  <1>1. /\ Running("hdlc") /\ UNCHANGED << main, modem >>
        /\ \E t \in TxTypes : t.pieces = << >> /\ ~t.crc /\ ~t.bad /\ Ended(hdlc, t, hdlc')
    BY FrameEndIs
  <1>2. modem.src = "hdlc"
    BY <1>1 DEF Running
  <1> QED BY <1>1, <1>2, FrameEndAhead, UncrossedMoves

LEMMA FlagsEndAhead ==
  ASSUME Types, Uncrossed, HdlcFlagsEnd, hdlc.tx.pieces = << >>,
         "PROCEED" \in hdlc.buf[hdlc.out].flags
  PROVE  hdlc.in # hdlc.out
  <1>1. modem.src = "hdlc"
    BY FlagsEndIs DEF Running
  <1>2. Plays(hdlc.buf[hdlc.out], hdlc.tx, Alone)
    BY <1>1 DEF Uncrossed, InModem
  <1>3. hdlc.buf[hdlc.out].pieces = << >>
    BY <1>2 DEF Plays
  <1> QED BY <1>3, AtOut DEF Uncrossed

LEMMA UncrossedFlagsEnd ==
  ASSUME Types, AtWork, Uncrossed, HdlcFlagsEnd
  PROVE  Uncrossed'
  <1>1. /\ Running("hdlc") /\ UNCHANGED << main, modem >>
        /\ \/ hdlc.tx.pieces # << >> /\ RingKept /\ Kept(hdlc.tx, hdlc'.tx)
           \/ /\ hdlc.tx.pieces = << >>
              /\ \E t \in TxTypes : Kept(hdlc.tx, t) /\ Ended(hdlc, t, hdlc')
    BY FlagsEndIs
  <1>2. modem.src = "hdlc" /\ Player' = Player
    BY <1>1 DEF Running, Player
  <1>3. ASSUME RingKept, Kept(hdlc.tx, hdlc'.tx) PROVE Uncrossed'
    BY <1>1, <1>2, <1>3, LaidKept, InModemKept, PlannedKept DEF Uncrossed, RingKept
  <1>4. CASE hdlc.tx.pieces = << >>
    <2>1. PICK t \in TxTypes : Kept(hdlc.tx, t) /\ Ended(hdlc, t, hdlc')
      BY <1>1, <1>4
    <2>2. CASE "PROCEED" \notin hdlc.buf[hdlc.out].flags
      <3>1. RingKept /\ Kept(hdlc.tx, hdlc'.tx)
        BY <2>1, <2>2 DEF Ended, RingKept
      <3> QED BY <1>3, <3>1
    <2>3. CASE "PROCEED" \in hdlc.buf[hdlc.out].flags
      <3>1. hdlc.in # hdlc.out
        BY <1>4, <2>3, FlagsEndAhead
      <3>2. t.pieces = << >> /\ ~t.crc /\ ~t.bad
        BY <1>4, <2>1 DEF Kept, AtWork
      <3> QED BY <1>1, <1>2, <2>1, <2>3, <3>1, <3>2, UncrossedMoves
    <2> QED BY <2>2, <2>3
  <1> QED BY <1>1, <1>3, <1>4

(* or a modem is started when its frames have yet to come:                 *)
Starts(i) ==
  /\ hdlc.in # hdlc.out
  /\ hdlc.buf[hdlc.out].contents = Ind(i)
  /\ hdlc'.in = hdlc.in /\ hdlc'.out = Nxt(hdlc.out)
  /\ hdlc'.current_rx_indicator = hdlc.current_rx_indicator
  /\ hdlc'.buf = [hdlc.buf EXCEPT ![hdlc.out] = Cleared]
  /\ i # "no_signal" =>
       /\ hdlc.in = Nxt(hdlc.out) /\ hdlc.current_rx_indicator = i
       /\ hdlc.buf[hdlc.in].contents = NONE /\ hdlc.buf[hdlc.in].pieces = << >>
       /\ "PROCEED" \notin hdlc.buf[hdlc.in].flags
  /\ modem'.handler = "silence" /\ ~modem'.ended
  /\ modem'.src = "hdlc" =>
       (i = "v21_preamble" /\ modem'.next = "fsk") \/ (i = "training" /\ modem'.next = "fast")
  /\ \/ hdlc'.tx.pieces = << >> /\ ~hdlc'.tx.crc /\ ~hdlc'.tx.bad
     \/ modem'.src # "hdlc"
  /\ UNCHANGED main

LEMMA NextTxTypeStarts ==
  ASSUME Types, Uncrossed, NextTxType, Well'
  PROVE  \E i \in Indicators : Starts(i)
  <1> DEFINE n == Nxt(hdlc.out)
             s == hdlc.buf[hdlc.in]
             C == hdlc'.buf
  <1>1. PICK i \in Indicators :
          /\ hdlc.in # hdlc.out
          /\ hdlc.buf[hdlc.out].contents = Ind(i)
          /\ hdlc'.in = hdlc.in /\ hdlc'.out = n
          /\ hdlc'.current_rx_indicator = hdlc.current_rx_indicator
          /\ hdlc'.buf = IF i = "v21_preamble"
                         THEN Emptied([hdlc.buf EXCEPT ![hdlc.out] = Cleared], hdlc.in)
                         ELSE [hdlc.buf EXCEPT ![hdlc.out] = Cleared]
          /\ modem'.handler = "silence" /\ ~modem'.ended
          /\ modem'.src = "hdlc" =>
               (i = "v21_preamble" /\ modem'.next = "fsk") \/ (i = "training" /\ modem'.next = "fast")
          /\ \/ hdlc'.tx.pieces = << >> /\ ~hdlc'.tx.crc /\ ~hdlc'.tx.bad
             \/ modem'.src # "hdlc"
          /\ hit' = IF i # "no_signal" /\ hdlc.buf[n].contents # NONE
                    THEN hit \union { "behind" } ELSE hit
          /\ UNCHANGED main
    BY NextTxTypeIs DEF Types
  <1>2. /\ hdlc.in \in Bufs /\ hdlc.out \in Bufs /\ n \in Bufs /\ n # hdlc.out
        /\ hdlc.buf \in [Bufs -> BufTypes] /\ s \in BufTypes
    BY FieldsOf, NxtIs DEF Types
  <1>3. Laid(hdlc.buf, hdlc.in, hdlc.out, hdlc.current_rx_indicator)
    BY DEF Uncrossed, LaidOut
  <1>4. /\ Off(hdlc.out, hdlc.out) = 0 /\ Off(hdlc.in, hdlc.out) > 0
        /\ Off(hdlc.in, hdlc.out) \in Int /\ Off(hdlc.in, hdlc.out) <= QLen - 2
        /\ QLen \in Nat /\ Off(n, hdlc.out) \in Int /\ Off(n, hdlc.out) = 1
    <2>1. Off(hdlc.out, hdlc.out) = 0 /\ QLen \in Nat /\ QLen > 2
      BY <1>2, OffIs
    <2>2. Off(n, hdlc.out) = 1
      BY <1>2, <2>1, OffOne
    <2>3. Off(hdlc.in, hdlc.out) \in 0 .. QLen - 1 /\ Off(hdlc.in, hdlc.out) # 0
      BY <1>1, <1>2, OffIs
    <2>4. Off(hdlc.in, hdlc.out) <= QLen - 2
      BY <1>3 DEF Laid
    <2> QED BY <2>1, <2>2, <2>3, <2>4
  <1>5. i # "no_signal" =>
          /\ hdlc.in = n /\ s.contents = NONE /\ s.pieces = << >> /\ "PROCEED" \notin s.flags
          /\ hdlc.current_rx_indicator = i
    <2> SUFFICES ASSUME i # "no_signal"
                 PROVE  /\ hdlc.in = n /\ s.contents = NONE /\ s.pieces = << >>
                        /\ "PROCEED" \notin s.flags /\ hdlc.current_rx_indicator = i
      OBVIOUS
    <2>1. hdlc.buf[n].contents = NONE
      BY <1>1 DEF Well
    <2>2. hdlc.in = n
      <3> SUFFICES ASSUME hdlc.in # n PROVE FALSE
        OBVIOUS
      <3>1. Off(n, hdlc.out) # Off(hdlc.in, hdlc.out)
        BY <1>2, OffOne
      <3>2. Off(n, hdlc.out) < Off(hdlc.in, hdlc.out)
        BY <1>4, <3>1
      <3>3. IsIndicator(hdlc.buf[n]) \/ IsFrame(hdlc.buf[n])
        BY <1>2, <1>3, <3>2 DEF Laid
      <3>4. hdlc.buf[n].contents = NONE /\ NONE \notin { Ind(j) : j \in Indicators }
            /\ NONE \notin { Data(d) : d \in DataTypes }
        BY <2>1, NoneIs
      <3>5. CASE IsIndicator(hdlc.buf[n])
        BY <3>4, <3>5 DEF IsIndicator
      <3>6. CASE IsFrame(hdlc.buf[n])
        BY <3>4, <3>6 DEF IsFrame
      <3> QED BY <3>3, <3>5, <3>6
    <2>3. IsComing(s, hdlc.current_rx_indicator)
      BY <1>3 DEF Laid
    <2>4. s.contents = NONE
      BY <2>1, <2>2
    <2>5. s.pieces = << >> /\ "PROCEED" \notin s.flags
      BY <2>3, <2>4, ExpectedIs DEF IsComing
    <2>6. Says(Ind(i), hdlc.current_rx_indicator)
      BY <1>1, <1>2, <1>3, <1>4, <2>2 DEF Laid
    <2>7. hdlc.current_rx_indicator = i
      <3>1. \A d \in DataTypes : Ind(i) # Data(d)
        BY ExpectedIs
      <3>2. Ind(i) = Ind(hdlc.current_rx_indicator)
        BY <2>6, <3>1 DEF Says
      <3> QED BY <3>2 DEF Ind
    <2> QED BY <2>2, <2>4, <2>5, <2>7
  <1>6. C = [hdlc.buf EXCEPT ![hdlc.out] = Cleared]
    <2> DEFINE D == [hdlc.buf EXCEPT ![hdlc.out] = Cleared]
    <2>1. CASE i = "v21_preamble"
      <3>1. D[hdlc.in] = s /\ D \in [Bufs -> BufTypes]
        <4>1. Cleared \in BufTypes
          BY ClearedSized DEF Sized
        <4> QED BY <1>1, <1>2, <4>1
      <3>2. [s EXCEPT !.pieces = << >>] = s
        BY <1>2, <1>5, <2>1 DEF BufTypes
      <3> HIDE DEF D, s
      <3>3. Emptied(D, hdlc.in) = D
        BY <1>2, <3>1, <3>2 DEF Emptied
      <3> QED BY <1>1, <2>1, <3>3 DEF D
    <2>2. CASE i # "v21_preamble"
      BY <1>1, <2>2
    <2> QED BY <2>1, <2>2
  <1>7. Starts(i)
    BY <1>1, <1>5, <1>6 DEF Starts
  <1> QED BY <1>7

LEMMA UncrossedNextTxType ==
  ASSUME Types, Uncrossed, NextTxType, Well'
  PROVE  Uncrossed'
  <1> DEFINE n == Nxt(hdlc.out)
             s == hdlc.buf[hdlc.in]
             C == hdlc'.buf
  <1>1. PICK i \in Indicators : Starts(i)
    BY NextTxTypeStarts
  <1>2. /\ hdlc.in \in Bufs /\ hdlc.out \in Bufs /\ n \in Bufs /\ n # hdlc.out
        /\ hdlc.buf \in [Bufs -> BufTypes] /\ s \in BufTypes
    BY FieldsOf, NxtIs DEF Types
  <1>3. Laid(hdlc.buf, hdlc.in, hdlc.out, hdlc.current_rx_indicator)
    BY DEF Uncrossed, LaidOut
  <1>4. /\ Off(hdlc.out, hdlc.out) = 0 /\ Off(hdlc.in, hdlc.out) > 0
        /\ Off(hdlc.in, hdlc.out) \in Int /\ Off(hdlc.in, hdlc.out) <= QLen - 2
        /\ QLen \in Nat /\ Off(n, hdlc.out) \in Int /\ Off(n, hdlc.out) = 1
    <2>1. Off(hdlc.out, hdlc.out) = 0 /\ QLen \in Nat /\ QLen > 2
      BY <1>2, OffIs
    <2>2. Off(n, hdlc.out) = 1
      BY <1>2, <2>1, OffOne
    <2>3. Off(hdlc.in, hdlc.out) \in 0 .. QLen - 1 /\ Off(hdlc.in, hdlc.out) # 0
      BY <1>1, <1>2, OffIs DEF Starts
    <2>4. Off(hdlc.in, hdlc.out) <= QLen - 2
      BY <1>3 DEF Laid
    <2> QED BY <2>1, <2>2, <2>3, <2>4
  <1>5. i # "no_signal" =>
          /\ hdlc.in = n /\ s.contents = NONE /\ s.pieces = << >> /\ "PROCEED" \notin s.flags
          /\ hdlc.current_rx_indicator = i
    BY <1>1 DEF Starts
  <1>6. C = [hdlc.buf EXCEPT ![hdlc.out] = Cleared]
    BY <1>1 DEF Starts
  <1> HIDE DEF n
  <1>7. /\ \A b \in Bufs : b # hdlc.out => C[b] = hdlc.buf[b]
        /\ C[hdlc.out] = Cleared /\ C[hdlc.in] = s
    BY <1>1, <1>2, <1>6 DEF Starts
  <1> HIDE DEF C
  <1>8. LaidOut' /\ Off(hdlc.in, n) = Off(hdlc.in, hdlc.out) - 1
    <2>1. Laid(C, hdlc.in, Nxt(hdlc.out), hdlc.current_rx_indicator)
          /\ Off(hdlc.in, Nxt(hdlc.out)) = Off(hdlc.in, hdlc.out) - 1
      BY <1>1, <1>2, <1>3, <1>7, LaidOff DEF Starts
    <2> QED BY <1>1, <2>1 DEF LaidOut, C, n, Starts
  <1>9. Planned'
    <2>1. Used \in Int /\ Used' = Used - 1
      BY <1>1, <1>4, <1>8 DEF Used, Starts, n
    <2>2. Used' <= Used /\ Used' \in Int
      BY <2>1
    <2>3. hdlc'.buf[hdlc.in] = hdlc.buf[hdlc.in]
      BY <1>7 DEF C
    <2> QED BY <1>1, <2>1, <2>2, <2>3, PlannedKept DEF Uncrossed, Starts
  <1>10. InModem'
    <2> SUFFICES ASSUME modem'.src = "hdlc"
                 PROVE  /\ Meant(hdlc.buf, hdlc.in, hdlc.out, hdlc.current_rx_indicator,
                                 hdlc.tx.pieces, Player)'
                        /\ Plays(hdlc.buf[hdlc.out], hdlc.tx, Alone)'
      BY DEF InModem
    <2>1. /\ (i = "v21_preamble" /\ modem'.next = "fsk") \/ (i = "training" /\ modem'.next = "fast")
          /\ hdlc'.tx.pieces = << >> /\ ~hdlc'.tx.crc /\ ~hdlc'.tx.bad
      BY <1>1 DEF Starts
    <2>2. /\ hdlc.in = n /\ s.contents = NONE /\ "PROCEED" \notin s.flags
          /\ hdlc.current_rx_indicator = i
      BY <1>5, <2>1
    <2>3. hdlc'.buf[hdlc'.out] = s
      BY <1>1, <1>7, <2>2 DEF C, Starts
    <2>4. Player' \in { "fsk", "fast" } /\ Signal(Player') = i
      BY <2>1, NoneIs DEF Player, Signal
    <2>5. Meant(hdlc.buf, hdlc.in, hdlc.out, hdlc.current_rx_indicator, hdlc.tx.pieces, Player)'
      <3>1. \A d \in DataTypes : hdlc'.buf[hdlc'.out].contents # Data(d)
        BY <2>2, <2>3, ExpectedIs
      <3>2. \A j \in DOMAIN hdlc'.tx.pieces : FALSE
        BY <2>1
      <3> QED BY <1>1, <2>2, <2>4, <3>1, <3>2 DEF Meant, Signal, Starts
    <2>6. Plays(hdlc.buf[hdlc.out], hdlc.tx, Alone)'
      BY <2>1, <2>2, <2>3 DEF Plays
    <2> QED BY <2>5, <2>6
  <1> QED BY <1>8, <1>9, <1>10 DEF Uncrossed

(* The main thread: what an operation takes it had room for, and what is   *)
(* left to do still follows.                                               *)
Cost == CASE Op = "ind" -> 2 [] Op = "fcs" -> 1 [] Op = "end" -> 2 [] OTHER -> 0

LEMMA NeedLess ==
  ASSUME Types, Planned, main.todo # << >>, Done(<< >>)
  PROVE  /\ Need' + Cost <= Need /\ Need' \in Nat /\ Need \in Nat /\ Cost \in Nat
         /\ Used + Need <= QLen - 2
  <1> DEFINE todo == main.todo
             rest == main'.todo
  <1>1. todo \in Seq(Ops) /\ todo # << >> /\ Op = todo[1][1] /\ rest = << >> \o Tail(todo)
    <2>1. main.todo \in Seq(Ops)
      BY DEF Types, MainTypes
    <2>2. main'.todo = << >> \o Tail(main.todo)
      BY DEF Done
    <2> QED BY <2>1, <2>2, TailIs DEF Op
  <1>2. /\ 1 \in DOMAIN todo
        /\ \A i \in DOMAIN rest : i \in Nat /\ i > 0 /\ i + 1 \in DOMAIN todo /\ rest[i] = todo[i + 1]
    <2> HIDE DEF todo, rest
    <2> QED BY <1>1, TailIs
  <1>3. \A i, j \in DOMAIN todo : todo[i][1] = todo[j][1] => i = j
    BY DEF Planned
  <1>4. Used + Need <= QLen - 2
    BY DEF Planned
  <1>5. \A x : (ToDo(x)' => ToDo(x)) /\ ~(ToDo(x)' /\ x = Op)
    <2> TAKE x
    <2>1. ToDo(x) <=> \E i \in DOMAIN todo : todo[i][1] = x
      BY DEF ToDo
    <2>2. ToDo(x)' <=> \E i \in DOMAIN rest : rest[i][1] = x
      BY DEF ToDo
    <2> HIDE DEF todo, rest
    <2>3. ASSUME NEW i \in DOMAIN rest, rest[i][1] = x
          PROVE  ToDo(x) /\ x # Op
      <3>1. i + 1 \in DOMAIN todo /\ todo[i + 1][1] = x /\ i + 1 # 1
        BY <1>2, <2>3
      <3> QED BY <1>1, <1>2, <1>3, <2>1, <3>1
    <2> QED BY <2>2, <2>3
  <1>6. (Op = "ind" => ToDo("ind")) /\ (Op = "fcs" => ToDo("fcs")) /\ (Op = "end" => ToDo("end"))
    BY <1>1, <1>2 DEF ToDo
  <1>7. Need' = (IF ToDo("ind")' THEN 2 ELSE 0) + (IF ToDo("fcs")' THEN 1 ELSE 0)
                  + (IF ToDo("end")' THEN 2 ELSE 0)
    BY DEF Need
  <1>8. /\ ToDo("ind")' => ToDo("ind") /\ Op # "ind"
        /\ ToDo("fcs")' => ToDo("fcs") /\ Op # "fcs"
        /\ ToDo("end")' => ToDo("end") /\ Op # "end"
    BY <1>5
  <1> HIDE DEF todo, rest
  <1> DEFINE a == ToDo("ind")
             b == ToDo("fcs")
             c == ToDo("end")
             e == ToDo("ind")'
             f == ToDo("fcs")'
             g == ToDo("end")'
             o == Op
  <1>9. Need = (IF a THEN 2 ELSE 0) + (IF b THEN 1 ELSE 0) + (IF c THEN 2 ELSE 0)
    BY DEF Need
  <1>10. Need' = (IF e THEN 2 ELSE 0) + (IF f THEN 1 ELSE 0) + (IF g THEN 2 ELSE 0)
    BY <1>7
  <1>11. Cost = CASE o = "ind" -> 2 [] o = "fcs" -> 1 [] o = "end" -> 2 [] OTHER -> 0
    BY DEF Cost
  <1>12. /\ (o = "ind" => a) /\ (o = "fcs" => b) /\ (o = "end" => c)
         /\ (e => a /\ o # "ind") /\ (f => b /\ o # "fcs") /\ (g => c /\ o # "end")
    BY <1>6, <1>8
  <1> HIDE DEF a, b, c, e, f, g, o
  <1>13. Need' + Cost <= Need /\ Need' \in Nat /\ Need \in Nat /\ Cost \in Nat
    <2>1. (o = "ind" \/ o = "fcs" \/ o = "end") \/ Cost = 0
      BY <1>11
    <2>2. /\ o = "ind" => Cost = 2
          /\ o = "fcs" => Cost = 1
          /\ o = "end" => Cost = 2
      BY <1>11
    <2> DEFINE A == IF a THEN 2 ELSE 0
               B == IF b THEN 1 ELSE 0
               C == IF c THEN 2 ELSE 0
               E == IF e THEN 2 ELSE 0
               F == IF f THEN 1 ELSE 0
               G == IF g THEN 2 ELSE 0
    <2>3. /\ A \in {0, 2} /\ B \in {0, 1} /\ C \in {0, 2}
          /\ E \in {0, 2} /\ F \in {0, 1} /\ G \in {0, 2}
          /\ E <= A /\ F <= B /\ G <= C
          /\ (o = "ind" => A = 2 /\ E = 0)
          /\ (o = "fcs" => B = 1 /\ F = 0)
          /\ (o = "end" => C = 2 /\ G = 0)
      BY <1>12
    <2>4. Need = A + B + C /\ Need' = E + F + G
      BY <1>9, <1>10
    <2> HIDE DEF A, B, C, E, F, G
    <2>5. CASE Cost = 0
      BY <2>3, <2>4, <2>5
    <2>6. CASE o = "ind"
      BY <2>2, <2>3, <2>4, <2>6
    <2>7. CASE o = "fcs"
      BY <2>2, <2>3, <2>4, <2>7
    <2>8. CASE o = "end"
      BY <2>2, <2>3, <2>4, <2>8
    <2> QED BY <2>1, <2>5, <2>6, <2>7, <2>8
  <1> QED BY <1>4, <1>13

LEMMA PlannedDone ==
  ASSUME Types, Planned, main.todo # << >>, Done(<< >>),
         Used \in Int, Used' \in Int, Used' <= Used + Cost,
         Op = "ind" => hdlc'.current_rx_indicator = main.todo[1][2],
         Op # "ind" /\ Op # "end" => hdlc'.current_rx_indicator = hdlc.current_rx_indicator
  PROVE  Planned' /\ Used' <= QLen - 2
  <1> DEFINE todo == main.todo
             rest == main'.todo
             cur  == hdlc'.current_rx_indicator
  <1>1. todo \in Seq(Ops) /\ todo # << >> /\ Op = todo[1][1] /\ rest = << >> \o Tail(todo)
        /\ main'.same = NONE
    <2>1. main.todo \in Seq(Ops)
      BY DEF Types, MainTypes
    <2>2. main'.todo = << >> \o Tail(main.todo) /\ main'.same = NONE
      BY DEF Done
    <2> QED BY <2>1, <2>2, TailIs DEF Op
  <1>2. /\ 1 \in DOMAIN todo /\ Len(todo) \in Nat /\ Len(rest) = Len(todo) - 1
        /\ \A i \in DOMAIN rest : i \in Nat /\ i > 0 /\ i + 1 \in DOMAIN todo /\ rest[i] = todo[i + 1]
        /\ DOMAIN todo = 1 .. Len(todo) /\ rest \in Seq(Ops)
    <2> HIDE DEF todo, rest
    <2> QED BY <1>1, TailIs
  <1>3. /\ \A i, j \in DOMAIN todo : todo[i][1] = todo[j][1] => i = j
        /\ \A i \in DOMAIN todo :
             /\ todo[i][1] = "ind"   => i = 1
             /\ todo[i][1] = "end"   => i = Len(todo)
             /\ todo[i][1] = "throw" => i + 1 = Len(todo) /\ todo[i + 1] = << "end" >>
             /\ todo[i][1] = "data"  => Follows(todo[i][2].d)
             /\ todo[i][1] = "fcs"   => Follows(todo[i][2]) \/ i = 1
    BY DEF Planned
  <1>4. /\ Need' + Cost <= Need /\ Need' \in Nat /\ Need \in Nat /\ Cost \in Nat
        /\ Used + Need <= QLen - 2 /\ QLen \in Nat
    BY NeedLess, QueueAssumption
  <1>5. Used' + Need' <= QLen - 2 /\ Used' <= QLen - 2
    <2> DEFINE u == Used
               v == Used'
               n == Need
               m == Need'
               c == Cost
    <2>1. u \in Int /\ v \in Int /\ v <= u + c /\ m + c <= n /\ m \in Nat /\ n \in Nat /\ c \in Nat
          /\ u + n <= QLen - 2 /\ QLen \in Nat
      BY <1>4
    <2> HIDE DEF u, v, n, m, c
    <2>2. v + m <= QLen - 2 /\ v <= QLen - 2
      BY <2>1
    <2> QED BY <2>2 DEF v, m
  <1>6. main'.same # TRUE
    BY <1>1, NoneIs
  <1>7. \A i \in DOMAIN rest : rest[i][1] # "ind"
    <2> HIDE DEF todo, rest
    <2> TAKE i \in DOMAIN rest
    <2>1. i + 1 \in DOMAIN todo /\ rest[i] = todo[i + 1] /\ i + 1 # 1
      BY <1>2
    <2> QED BY <1>3, <2>1
  <1>8. Op' # "ind" \/ rest = << >>
    <2>1. rest # << >> => 1 \in DOMAIN rest /\ Head(rest) = rest[1]
      <3> HIDE DEF rest, todo
      <3> QED BY <1>2
    <2>2. Op' = Head(rest)[1]
      BY DEF Op
    <2> HIDE DEF rest
    <2> QED BY <1>7, <2>1, <2>2
  <1>9. \A d : Follows(d) /\ rest # << >> => cur = Expected(d)
    <2> SUFFICES ASSUME NEW d, Follows(d), rest # << >>
                 PROVE  cur = Expected(d)
      OBVIOUS
    <2>1. Op # "end"
      <3> SUFFICES ASSUME Op = "end" PROVE FALSE
        OBVIOUS
      <3> HIDE DEF rest, todo
      <3>1. Len(todo) = 1
        BY <1>1, <1>2, <1>3
      <3>2. Len(rest) = 0
        BY <1>2, <3>1
      <3> QED BY <1>2, <3>2
    <2>2. CASE Op = "ind"
      <3>1. todo[1] = IndOp(d) /\ cur = todo[1][2]
        BY <2>2 DEF Follows
      <3> QED BY <3>1 DEF IndOp
    <2>3. CASE Op # "ind"
      BY <2>1, <2>3 DEF Follows
    <2> QED BY <2>2, <2>3
  <1>10. \A i, j \in DOMAIN rest : rest[i][1] = rest[j][1] => i = j
    <2> HIDE DEF todo, rest
    <2> TAKE i, j \in DOMAIN rest
    <2>1. /\ i + 1 \in DOMAIN todo /\ rest[i] = todo[i + 1] /\ i \in Nat
          /\ j + 1 \in DOMAIN todo /\ rest[j] = todo[j + 1] /\ j \in Nat
      BY <1>2
    <2>2. rest[i][1] = rest[j][1] => i + 1 = j + 1
      BY <1>3, <2>1
    <2> QED BY <2>1, <2>2
  <1>11. \A i \in DOMAIN rest :
           /\ rest[i][1] = "end"   => i = Len(rest)
           /\ rest[i][1] = "throw" => i + 1 = Len(rest) /\ rest[i + 1] = << "end" >>
           /\ rest[i][1] = "data"  => cur = Expected(rest[i][2].d)
           /\ rest[i][1] = "fcs"   => cur = Expected(rest[i][2])
    <2> HIDE DEF todo, rest, cur
    <2> TAKE i \in DOMAIN rest
    <2>1. /\ i + 1 \in DOMAIN todo /\ rest[i] = todo[i + 1] /\ i \in Nat /\ i + 1 # 1
          /\ rest # << >>
      BY <1>2
    <2>2. rest[i][1] = "end" => i = Len(rest)
      BY <1>2, <1>3, <2>1
    <2>3. ASSUME rest[i][1] = "throw" PROVE i + 1 = Len(rest) /\ rest[i + 1] = << "end" >>
      <3>1. i + 2 = Len(todo) /\ todo[(i + 1) + 1] = << "end" >>
        BY <1>3, <2>1, <2>3
      <3>2. i + 1 = Len(rest) /\ i + 1 \in DOMAIN rest
        BY <1>2, <2>1, <3>1
      <3> QED BY <1>2, <3>1, <3>2
    <2>4. rest[i][1] = "data" => Follows(rest[i][2].d)
      BY <1>3, <2>1
    <2>5. rest[i][1] = "fcs" => Follows(rest[i][2])
      BY <1>3, <2>1
    <2> QED BY <1>9, <2>1, <2>2, <2>3, <2>4, <2>5
  <1>12. \A i \in DOMAIN rest : rest # << >>
    <2> HIDE DEF rest
    <2> QED BY <1>2
  <1>13. /\ main'.todo # << >> => Used' + Need' <= QLen - 2
         /\ \A i, j \in DOMAIN main'.todo : main'.todo[i][1] = main'.todo[j][1] => i = j
         /\ main'.same # TRUE
    BY <1>5, <1>6, <1>10
  <1>14. \A i \in DOMAIN main'.todo :
           /\ main'.todo[i][1] # "ind"
           /\ main'.todo[i][1] = "end"   => i = Len(main'.todo)
           /\ main'.todo[i][1] = "throw" => i + 1 = Len(main'.todo) /\ main'.todo[i + 1] = << "end" >>
           /\ main'.todo[i][1] = "data"  => Follows(main.todo[i][2].d)'
           /\ main'.todo[i][1] = "fcs"   => Follows(main.todo[i][2])'
    BY <1>7, <1>8, <1>11, <1>12 DEF Follows
  <1> QED BY <1>5, <1>13, <1>14 DEF Planned

(* The main thread has seen what is so: in and out have not met since.     *)
LEMMA QueuedSame ==
  ASSUME Types, Uncrossed, Queued, Well'
  PROVE  \/ main.same = TRUE /\ hdlc.in = hdlc.out
         \/ main.same = FALSE /\ hdlc.in # hdlc.out
  <1>1. main.same \in BOOLEAN /\ \E op : hit' = hit \union Hits(op)
    BY QueuedIs
  <1>2. main.same = TRUE => hdlc.in = hdlc.out
    BY DEF Uncrossed, Planned
  <1>3. main.same = FALSE /\ hdlc.in = hdlc.out => "missed" \in hit'
    BY <1>1 DEF Hits, Same
  <1> QED BY <1>1, <1>2, <1>3 DEF Well

(* An indicator comes behind what there is.                                *)
PutBehind(B, i, x, l, C) ==
  /\ l = (IF B[i].contents # NONE THEN Nxt(i) ELSE i)
  /\ C = [B EXCEPT ![l] = [B[l] EXCEPT !.contents = Ind(x)]]

LEMMA LaidInd ==
  ASSUME NEW B \in [Bufs -> BufTypes], NEW i \in Bufs, NEW o \in Bufs, NEW cur,
         Laid(B, i, o, cur), Off(i, o) <= QLen - 4, NEW x \in Indicators,
         NEW l, NEW C, PutBehind(B, i, x, l, C)
  PROVE  /\ Laid(C, Nxt(l), o, x) /\ B[l].contents = NONE
         /\ Off(Nxt(l), o) \in { Off(i, o) + 1, Off(i, o) + 2 }
         /\ l # o \/ (l = i /\ i = o)
  <1>1. IsComing(B[i], cur) /\ B[i] \in BufTypes
    BY DEF Laid
  <1>2. QLen \in Nat /\ Off(i, o) \in Int /\ Off(i, o) >= 0
    BY OffIs, QueueAssumption
  <1>3. Off(i, o) <= QLen - 3
    BY <1>2
  <1>0. /\ l = (IF B[i].contents # NONE THEN Nxt(i) ELSE i)
        /\ C = [B EXCEPT ![l] = [B[l] EXCEPT !.contents = Ind(x)]]
    BY DEF PutBehind
  <1>4. CASE B[i].contents = NONE
    <2>1. l = i
      BY <1>4, <1>0
    <2>2. B[i].pieces = << >> /\ B[i].flags \subseteq { "MISSING_DATA" }
      BY <1>1, <1>4, ExpectedIs DEF IsComing
    <2>3. /\ C[i].contents = Ind(x) /\ C[i].pieces = << >> /\ C[i].flags \subseteq { "MISSING_DATA" }
          /\ \A b \in Bufs : b # i => C[b] = B[b]
      <3> DEFINE s == [B[i] EXCEPT !.contents = Ind(x)]
      <3>1. s.contents = Ind(x) /\ s.pieces = << >> /\ s.flags \subseteq { "MISSING_DATA" }
        BY <1>1, <2>2 DEF BufTypes
      <3>2. C = [B EXCEPT ![i] = s]
        BY <1>0, <2>1
      <3> HIDE DEF s
      <3>3. C[i] = s /\ \A b \in Bufs : b # i => C[b] = B[b]
        BY <3>2
      <3> QED BY <3>1, <3>3
    <2>4. (IsIndicator(C[i]) \/ IsFrame(C[i])) /\ Says(C[i].contents, x)
      BY <2>3 DEF IsIndicator, Says
    <2>5. \A d \in DataTypes : C[i].contents = Data(d) => cur = Expected(d)
      BY <2>3, ExpectedIs
    <2>6. Laid(C, Nxt(i), o, x) /\ B[Nxt(i)] = Cleared /\ Off(Nxt(i), o) = Off(i, o) + 1
      <3>1. \A b \in Bufs : b # i => C[b] = B[b]
        BY <2>3
      <3> QED BY ONLY Laid(B, i, o, cur), i \in Bufs, o \in Bufs, <1>3, <2>4, <2>5, <3>1, LaidOn
    <2> QED BY <1>4, <2>1, <2>6
  <1>5. CASE B[i].contents # NONE
    <2>1. l = Nxt(i) /\ l \in Bufs /\ l # i
      BY <1>0, <1>5, NxtIs
    <2>2. PICK d \in DataTypes :
            /\ B[i].contents = Data(d) /\ Of(d, B[i].pieces) /\ cur = Expected(d)
            /\ "PROCEED" \in B[i].flags => Len(B[i].pieces) >= StartLevel
            /\ B[i].flags \subseteq { "MISSING_DATA", "PROCEED" }
      BY <1>1, <1>5 DEF IsComing
    <2>3. IsFrame(B[i])
      <3>1. Len(B[i].pieces) >= StartLevel => B[i].pieces # << >>
        BY <1>1, QueueAssumption DEF BufTypes
      <3> QED BY <2>2, <3>1 DEF IsFrame
    <2>4. Says(B[i].contents, cur)
      BY <2>2 DEF Says
    <2>5. \A e \in DataTypes : B[i].contents = Data(e) => cur = Expected(e)
      BY <2>2, ExpectedIs
    <2>6. Laid(B, l, o, cur) /\ B[l] = Cleared /\ Off(l, o) = Off(i, o) + 1
      BY <1>3, <2>1, <2>3, <2>4, <2>5, LaidOn
    <2>7. Off(l, o) <= QLen - 3
      BY <1>2, <2>6
    <2>8. /\ C[l].contents = Ind(x) /\ C[l].pieces = << >> /\ C[l].flags = {}
          /\ \A b \in Bufs : b # l => C[b] = B[b]
      <3> DEFINE s == [B[l] EXCEPT !.contents = Ind(x)]
      <3>1. s.contents = Ind(x) /\ s.pieces = << >> /\ s.flags = {}
        BY <2>6 DEF Cleared
      <3> HIDE DEF s
      <3>2. C[l] = s /\ \A b \in Bufs : b # l => C[b] = B[b]
        BY <1>0, <2>1 DEF s
      <3> QED BY <3>1, <3>2
    <2>9. (IsIndicator(C[l]) \/ IsFrame(C[l])) /\ Says(C[l].contents, x)
      BY <2>8 DEF IsIndicator, Says
    <2>10. \A e \in DataTypes : C[l].contents = Data(e) => cur = Expected(e)
      BY <2>8, ExpectedIs
    <2>11. Laid(C, Nxt(l), o, x) /\ B[Nxt(l)] = Cleared /\ Off(Nxt(l), o) = Off(l, o) + 1
      <3>1. \A b \in Bufs : b # l => C[b] = B[b]
        BY <2>8
      <3>2. Laid(B, l, o, cur) /\ l \in Bufs
        BY <2>1, <2>6
      <3> QED BY ONLY o \in Bufs, <2>7, <2>9, <2>10, <3>1, <3>2, LaidOn, SMTT(60)
    <2>12. l # o
      <3>1. Off(l, o) # 0
        BY <1>2, <2>6
      <3> QED BY <2>1, <3>1, OffIs
    <2>13. Off(Nxt(l), o) = Off(i, o) + 2 /\ B[l].contents = NONE
      BY <1>2, <2>6, <2>11 DEF Cleared
    <2> QED BY <2>11, <2>12, <2>13
  <1> QED BY <1>4, <1>5

LEMMA RoomFor ==
  ASSUME Types, Uncrossed, main.todo # << >>, Done(<< >>)
  PROVE  /\ Used = Off(hdlc.in, hdlc.out) /\ Used \in Nat /\ QLen \in Nat
         /\ Op \in { "ind", "end" } => Used <= QLen - 4
         /\ Op = "fcs" => Used <= QLen - 3
  <1>1. /\ Need' + Cost <= Need /\ Need' \in Nat /\ Need \in Nat /\ Cost \in Nat
        /\ Used + Need <= QLen - 2
    BY NeedLess DEF Uncrossed
  <1>2. Used = Off(hdlc.in, hdlc.out) /\ Used \in Nat /\ QLen \in Nat
    <2>1. hdlc.in \in Bufs /\ hdlc.out \in Bufs
      BY FieldsOf DEF Types
    <2> QED BY <2>1, OffIs, QueueAssumption DEF Used
  <1>3. (Op \in { "ind", "end" } => Cost = 2) /\ (Op = "fcs" => Cost = 1)
    BY DEF Cost
  <1> DEFINE u == Used
             n == Need
             m == Need'
             c == Cost
  <1>4. u \in Nat /\ m + c <= n /\ m \in Nat /\ n \in Nat /\ c \in Nat /\ u + n <= QLen - 2
    BY <1>1, <1>2
  <1> HIDE DEF u, n, m, c
  <1>5. (c = 2 => u <= QLen - 4) /\ (c = 1 => u <= QLen - 3)
    BY <1>2, <1>4
  <1> QED BY <1>2, <1>3, <1>5 DEF u, c

(* An indicator.                                                           *)
LEMMA UncrossedInd ==
  ASSUME Types, Uncrossed, Queued, Op \in { "ind", "end" }, NEW i \in Indicators,
         Op = "ind" => i = main.todo[1][2], Op = "end" => i = "no_signal",
         \/ hdlc' = RxIndicator(hdlc, i, main.same)
         \/ hdlc' = [RxIndicator(hdlc, i, main.same) EXCEPT !.field_class = "none"]
  PROVE  Uncrossed'
  <1> DEFINE B == hdlc.buf
             l == Landing(hdlc)
             cur == hdlc.current_rx_indicator
             C == hdlc'.buf
  <1>1. main.todo # << >> /\ Done(<< >>) /\ Queue(hdlc) /\ UNCHANGED modem
    BY DEF Queued, Types, Done
  <1>2. /\ hdlc.in \in Bufs /\ hdlc.out \in Bufs /\ B \in [Bufs -> BufTypes]
        /\ \A b \in Bufs : B[b] \in BufTypes
    BY <1>1, FieldsOf
  <1>3. /\ Used = Off(hdlc.in, hdlc.out) /\ Used \in Nat /\ QLen \in Nat /\ Used <= QLen - 4
    BY <1>1, RoomFor
  <1>4. Laid(B, hdlc.in, hdlc.out, cur)
    BY DEF Uncrossed, LaidOut
  <1>5. modem.src = "hdlc" /\ Alone => cur # "no_signal"
    <2>1. modem.src = "hdlc" /\ Alone => cur = Signal(Player)
      BY DEF Uncrossed, InModem, Meant, Alone
    <2> QED BY <2>1 DEF Signal
  <1>6. CASE cur = i
    <2>1. RxIndicator(hdlc, i, main.same) = hdlc
      BY <1>6 DEF RxIndicator
    <2>2. RingKept /\ hdlc'.tx = hdlc.tx
      <3>1. hdlc \in HdlcTypes
        BY <1>1 DEF Queue
      <3>2. hdlc' = hdlc \/ hdlc' = [hdlc EXCEPT !.field_class = "none"]
        BY <2>1
      <3> QED BY ONLY <3>1, <3>2 DEF HdlcTypes, RingKept
    <2>3. InModem'
      <3>1. CASE modem.src = "hdlc"
        <4>1. ~Alone
          <5>1. Alone => Op = "end"
            BY DEF Alone, Op
          <5> QED BY <1>5, <1>6, <3>1, <5>1
        <4> QED BY <1>1, <2>2, <4>1, InModemKept DEF Uncrossed, Kept, Player
      <3>2. CASE modem.src # "hdlc"
        BY <1>1, <3>2 DEF InModem
      <3> QED BY <3>1, <3>2
    <2>4. Planned'
      <3>1. Used' = Used
        BY <2>2 DEF Used, RingKept
      <3>2. Cost \in Nat
        BY <1>1, NeedLess DEF Uncrossed
      <3>3. Used' <= Used + Cost /\ Used' \in Int /\ Used \in Int
        BY <1>3, <3>1, <3>2
      <3>4. Op = "ind" => hdlc'.current_rx_indicator = main.todo[1][2]
        BY <1>6, <2>2 DEF RingKept
      <3> QED BY <1>1, <3>3, <3>4, PlannedDone DEF Uncrossed
    <2> QED BY <2>2, <2>3, <2>4, LaidKept DEF Uncrossed
  <1>7. CASE cur # i
    <2>1. /\ C = [B EXCEPT ![l] = [B[l] EXCEPT !.contents = Ind(i)]] /\ l \in Bufs
          /\ hdlc'.in = Nxt(l) /\ hdlc'.out = hdlc.out
          /\ hdlc'.tx = hdlc.tx \/ hdlc'.tx = [hdlc.tx EXCEPT !.tx_end = TRUE]
          /\ hdlc'.current_rx_indicator = i
      <3> DEFINE g == hdlc'
      <3>1. \/ g = RxIndicator(hdlc, i, main.same)
            \/ g = [RxIndicator(hdlc, i, main.same) EXCEPT !.field_class = "none"]
        OBVIOUS
      <3> HIDE DEF g
      <3>2. /\ g.buf = [hdlc.buf EXCEPT ![Landing(hdlc)] = [hdlc.buf[Landing(hdlc)] EXCEPT !.contents = Ind(i)]]
            /\ Landing(hdlc) \in Bufs
            /\ g.in = Nxt(Landing(hdlc)) /\ g.out = hdlc.out /\ g.last = hdlc.last
            /\ g.tx = hdlc.tx \/ g.tx = [hdlc.tx EXCEPT !.tx_end = TRUE]
            /\ g.current_rx_indicator = i
        BY <1>1, <1>7, <3>1, RxIndicatorIs
      <3> QED BY <3>2 DEF g
    <2>2. /\ Laid(C, Nxt(l), hdlc.out, i) /\ B[l].contents = NONE
          /\ Off(Nxt(l), hdlc.out) \in { Off(hdlc.in, hdlc.out) + 1, Off(hdlc.in, hdlc.out) + 2 }
          /\ l # hdlc.out \/ (l = hdlc.in /\ hdlc.in = hdlc.out)
      <3>1. l = IF B[hdlc.in].contents # NONE THEN Nxt(hdlc.in) ELSE hdlc.in
        BY DEF Landing
      <3>2. Off(hdlc.in, hdlc.out) <= QLen - 4
        BY <1>3
      <3> HIDE DEF B, C, l, cur
      <3>3. C = [B EXCEPT ![l] = [B[l] EXCEPT !.contents = Ind(i)]]
        BY <2>1
      <3>4. hdlc.in \in Bufs /\ hdlc.out \in Bufs /\ B \in [Bufs -> BufTypes]
        BY <1>2
      <3>5. PutBehind(B, hdlc.in, i, l, C)
        BY <3>1, <3>3 DEF PutBehind
      <3> QED BY ONLY i \in Indicators, <1>4, <3>2, <3>4, <3>5, LaidInd
    <2>3. Used' \in { Used + 1, Used + 2 } /\ Used' \in Nat /\ LaidOut'
      <3>1. Used' = Off(Nxt(l), hdlc.out)
        BY <2>1 DEF Used
      <3>2. LaidOut'
        BY <2>1, <2>2 DEF LaidOut
      <3> HIDE DEF l
      <3> QED BY <1>3, <2>2, <3>1, <3>2
    <2>4. Planned'
      <3>1. Cost = 2
        BY DEF Cost
      <3>2. Used' <= Used + Cost /\ Used' \in Int /\ Used \in Int
        BY <1>3, <2>3, <3>1
      <3>3. Op = "ind" => hdlc'.current_rx_indicator = main.todo[1][2]
        BY <2>1
      <3> QED BY <1>1, <3>2, <3>3, PlannedDone DEF Uncrossed
    <2>5. Kept(hdlc.tx, hdlc'.tx)
      <3>1. hdlc.tx \in TxTypes
        BY <1>1, FieldsOf
      <3> QED BY <2>1, <3>1 DEF Kept, TxTypes
    <2>6. hdlc'.in # hdlc'.out
      <3>1. Off(Nxt(l), hdlc.out) # 0
        <4> HIDE DEF l
        <4> QED BY <1>3, <2>2
      <3>2. Nxt(l) \in Bufs
        BY <2>1, NxtIs
      <3> QED BY <1>2, <2>1, <3>1, <3>2, OffIs
    <2>7. /\ C[hdlc.out].flags = B[hdlc.out].flags /\ C[hdlc.out].pieces = B[hdlc.out].pieces
          /\ \/ C[hdlc.out].contents = B[hdlc.out].contents
             \/ C[hdlc.out].contents = Ind(i) /\ B[hdlc.out].contents = NONE
          /\ hdlc.in = hdlc.out /\ B[hdlc.out].contents = NONE => C[hdlc.out].contents = Ind(i)
      <3> DEFINE s == [B[l] EXCEPT !.contents = Ind(i)]
      <3>1. B[l] \in BufTypes /\ C = [B EXCEPT ![l] = s]
        BY <1>2, <2>1
      <3>2. s.contents = Ind(i) /\ s.pieces = B[l].pieces /\ s.flags = B[l].flags
        BY <3>1 DEF BufTypes
      <3>3. hdlc.in = hdlc.out /\ B[hdlc.out].contents = NONE => l = hdlc.out
        BY DEF Landing
      <3>4. B[l].contents = NONE
        BY <2>2
      <3> HIDE DEF s, B, C, l
      <3>5. C[l] = s /\ \A b \in Bufs : b # l => C[b] = B[b]
        BY <1>2, <2>1, <3>1
      <3> QED BY <1>2, <3>2, <3>3, <3>4, <3>5
    <2>8. InModem'
      <3> SUFFICES ASSUME modem.src = "hdlc"
                   PROVE  /\ Meant(hdlc.buf, hdlc.in, hdlc.out, hdlc.current_rx_indicator,
                                   hdlc.tx.pieces, Player)'
                          /\ Plays(hdlc.buf[hdlc.out], hdlc.tx, Alone)'
        BY <1>1 DEF InModem
      <3>1. /\ Meant(B, hdlc.in, hdlc.out, cur, hdlc.tx.pieces, Player)
            /\ Plays(B[hdlc.out], hdlc.tx, Alone)
        BY DEF Uncrossed, InModem
      <3>2. Player' = Player /\ hdlc'.tx.pieces = hdlc.tx.pieces
        BY <1>1, <2>5 DEF Player, Kept
      <3>3. \A d \in DataTypes : C[hdlc.out].contents = Data(d) => B[hdlc.out].contents = Data(d)
        BY <2>7, ExpectedIs
      <3>4. Meant(C, hdlc'.in, hdlc.out, i, hdlc'.tx.pieces, Player)
        <4> HIDE DEF C, B, cur
        <4> QED BY <2>1, <2>6, <3>1, <3>2, <3>3 DEF Meant
      <3>5. Meant(hdlc.buf, hdlc.in, hdlc.out, hdlc.current_rx_indicator, hdlc.tx.pieces, Player)'
        BY <2>1, <3>2, <3>4
      <3>6. Alone => C[hdlc.out].contents = Ind("no_signal")
        <4>1. Alone => Op = "end"
          BY DEF Alone, Op
        <4> QED BY <2>7, <4>1 DEF Alone
      <3>7. B[hdlc.out].contents = Ind("no_signal") => C[hdlc.out].contents = Ind("no_signal")
        <4>1. "no_signal" \in Indicators /\ "v21" \in DataTypes
          BY DEF Indicators, DataTypes
        <4> QED BY <2>7, <4>1, NoneIs
      <3>8. Plays(C[hdlc.out], hdlc'.tx, Alone')
        <4> HIDE DEF C, B, cur
        <4> QED BY <2>5, <2>7, <3>1, <3>6, <3>7 DEF Plays, Kept
      <3> QED BY <2>1, <3>5, <3>8
    <2> QED BY <2>3, <2>4, <2>8 DEF Uncrossed
  <1> QED BY <1>6, <1>7

(* Operations on the buffer of NonEcmBuffer.                               *)
LEMMA UncrossedPlain ==
  ASSUME Types, Uncrossed, Injected \/ Pushed
  PROVE  Uncrossed'
  <1>1. /\ main.todo # << >> /\ Done(<< >>) /\ UNCHANGED << hdlc, modem >>
        /\ Op \in { "inject", "push", "pushed" }
    BY DEF Injected, Pushed, Done
  <1>2. RingKept /\ Kept(hdlc.tx, hdlc'.tx) /\ Player' = Player
    BY <1>1 DEF RingKept, Kept, Player
  <1>3. ~Alone
    BY <1>1 DEF Alone, Op
  <1>4. InModem'
    BY <1>1, <1>2, <1>3, InModemKept DEF Uncrossed
  <1>5. Planned'
    <2>1. Used' = Used /\ Used \in Nat /\ Cost = 0
      BY <1>1, RoomFor DEF Used, Cost
    <2>2. Used' <= Used + Cost /\ Used' \in Int /\ Used \in Int
      BY <2>1
    <2>3. Op = "ind" => hdlc'.current_rx_indicator = main.todo[1][2]
      BY <1>1
    <2> QED BY <1>1, <2>2, <2>3, PlannedDone DEF Uncrossed
  <1> QED BY <1>2, <1>4, <1>5, LaidKept DEF Uncrossed

(* A frame is thrown away.                                                 *)
LEMMA UncrossedThrow ==
  ASSUME Types, Uncrossed, Throw
  PROVE  Uncrossed'
  <1> DEFINE B == hdlc.buf
             C == hdlc'.buf
             s == hdlc.buf[hdlc.out]
  <1>1. main.todo # << >> /\ Done(<< >>) /\ UNCHANGED modem /\ Op = "throw" /\ Queue(hdlc)
    BY DEF Throw, Done, Types
  <1>2. hdlc.in \in Bufs /\ hdlc.out \in Bufs /\ B \in [Bufs -> BufTypes]
    BY <1>1, FieldsOf
  <1>3. /\ hdlc'.in = hdlc.in /\ hdlc'.out = hdlc.out /\ hdlc'.tx = hdlc.tx
        /\ hdlc'.current_rx_indicator = hdlc.current_rx_indicator
        /\ C = [B EXCEPT ![hdlc.in] = Cleared]
    <2>1. hdlc' = ThrownOut(hdlc)
      BY DEF Throw
    <2> DEFINE g == hdlc'
    <2> HIDE DEF g
    <2>2. g = ThrownOut(hdlc)
      BY <2>1 DEF g
    <2>3. /\ g.in = hdlc.in /\ g.out = hdlc.out /\ g.last = hdlc.last /\ g.tx = hdlc.tx
          /\ g.current_rx_indicator = hdlc.current_rx_indicator
          /\ g.buf = [hdlc.buf EXCEPT ![hdlc.in] = Cleared]
      BY <1>1, <2>2, ReusedIs
    <2> QED BY <2>3 DEF g
  <1>4. C[hdlc.in] = Cleared /\ \A b \in Bufs : b # hdlc.in => C[b] = B[b]
    BY <1>2, <1>3
  <1>5. Laid(B, hdlc.in, hdlc.out, hdlc.current_rx_indicator)
    BY DEF Uncrossed, LaidOut
  <1>6. LaidOut'
    <2>1. IsComing(C[hdlc.in], hdlc.current_rx_indicator)
      BY <1>4 DEF IsComing, Cleared
    <2> HIDE DEF B, C
    <2>2. Laid(C, hdlc.in, hdlc.out, hdlc.current_rx_indicator)
      BY <1>2, <1>4, <1>5, <2>1, LaidHere
    <2> QED BY <1>3, <2>2 DEF LaidOut, C
  <1>7. Planned'
    <2>1. Used' = Used /\ Used \in Nat /\ Cost = 0
      BY <1>1, <1>3, RoomFor DEF Used, Cost
    <2>2. Used' <= Used + Cost /\ Used' \in Int /\ Used \in Int
      BY <2>1
    <2> QED BY <1>1, <1>3, <2>2, PlannedDone DEF Uncrossed
  <1>8. main'.todo = << << "end" >> >>
    <2> DEFINE todo == main.todo
    <2>1. todo \in Seq(Ops) /\ todo # << >>
      BY <1>1 DEF Types, MainTypes
    <2>2. todo[1][1] = "throw" /\ 1 \in DOMAIN todo
      BY <1>1, <2>1, TailIs DEF Op
    <2>3. Len(todo) = 2 /\ todo[2] = << "end" >>
      <3>1. \A i \in DOMAIN todo :
              todo[i][1] = "throw" => i + 1 = Len(todo) /\ todo[i + 1] = << "end" >>
        BY DEF Uncrossed, Planned
      <3> HIDE DEF todo
      <3>2. 1 + 1 = Len(todo) /\ todo[1 + 1] = << "end" >>
        BY <2>2, <3>1
      <3> QED BY <3>2
    <2>4. main'.todo = << >> \o Tail(todo)
      BY <1>1 DEF Done
    <2> HIDE DEF todo
    <2>5. << >> \o Tail(todo) = << todo[2] >>
      <3> DEFINE rest == << >> \o Tail(todo)
                 one  == << todo[2] >>
      <3>1. /\ rest \in Seq(Ops) /\ Len(rest) = 1 /\ todo[2] \in Ops
            /\ \A i \in DOMAIN rest : rest[i] = todo[i + 1]
        BY <2>1, <2>3, TailIs
      <3>2. one \in Seq(Ops) /\ Len(one) = 1 /\ one[1] = todo[2]
        BY <3>1
      <3> HIDE DEF rest, one
      <3>3. \A i \in 1 .. 1 : rest[i] = one[i]
        BY <3>1, <3>2
      <3>4. rest = one
        BY <3>1, <3>2, <3>3, SeqEqual
      <3> QED BY <3>4 DEF rest, one
    <2> QED BY <2>3, <2>4, <2>5
  <1>9. InModem'
    <2> SUFFICES ASSUME modem.src = "hdlc"
                 PROVE  /\ Meant(hdlc.buf, hdlc.in, hdlc.out, hdlc.current_rx_indicator,
                                 hdlc.tx.pieces, Player)'
                        /\ Plays(hdlc.buf[hdlc.out], hdlc.tx, Alone)'
      BY <1>1 DEF InModem
    <2>1. /\ Meant(B, hdlc.in, hdlc.out, hdlc.current_rx_indicator, hdlc.tx.pieces, Player)
          /\ Plays(s, hdlc.tx, Alone)
      BY DEF Uncrossed, InModem
    <2>2. ~Alone
      BY <1>1 DEF Alone, Op
    <2>3. C[hdlc.out] = s \/ (C[hdlc.out] = Cleared /\ hdlc.in = hdlc.out)
      BY <1>2, <1>4
    <2>4. Player' = Player
      BY <1>1 DEF Player
    <2>5. Meant(C, hdlc.in, hdlc.out, hdlc.current_rx_indicator, hdlc.tx.pieces, Player)
      <3>1. \A d \in DataTypes : C[hdlc.out].contents = Data(d) => B[hdlc.out].contents = Data(d)
        BY <2>3, ExpectedIs DEF Cleared
      <3> HIDE DEF C, B
      <3> QED BY <2>1, <3>1 DEF Meant
    <2>6. Plays(C[hdlc.out], hdlc.tx, Alone')
      <3>1. CASE C[hdlc.out] = s
        BY <2>1, <2>2, <3>1 DEF Plays
      <3>2. CASE C[hdlc.out] = Cleared /\ hdlc.in = hdlc.out
        <4>1. Alone'
          BY <1>3, <1>8, <3>2 DEF Alone, Cleared
        <4>2. "FINISHED" \notin s.flags
          BY <3>2, AtOut DEF Uncrossed
        <4>3. ~hdlc.tx.crc /\ ~hdlc.tx.bad
          BY <2>1, <4>2 DEF Plays
        <4> QED BY <3>2, <4>1, <4>3 DEF Plays, Cleared
      <3> QED BY <2>3, <3>1, <3>2
    <2> QED BY <1>3, <2>4, <2>5, <2>6
  <1> QED BY <1>6, <1>7, <1>9 DEF Uncrossed

(* A piece.                                                                *)
LEMMA LongerComing ==
  ASSUME NEW s \in BufTypes, NEW cur, IsComing(s, cur), NEW p \in Pieces, cur = Expected(p.d),
         NEW missing \in BOOLEAN, NEW start \in BOOLEAN,
         start <=> p.d = "v21" /\ Len(s.pieces) + 1 >= StartLevel,
         NEW c, c = Longer(s, p, missing, start)
  PROVE  /\ IsComing(c, cur) /\ Of(p.d, c.pieces) /\ c.contents = Data(p.d)
         /\ "PROCEED" \in c.flags <=> start
         /\ "PROCEED" \in s.flags => start
         /\ "FINISHED" \notin c.flags
  <1>1. /\ c.pieces = Append(s.pieces, p) /\ c.contents = Data(p.d)
        /\ "PROCEED" \in c.flags <=> start \/ "PROCEED" \in s.flags
    BY LongerIs
  <1>2. c.flags \subseteq s.flags \union { "MISSING_DATA", "PROCEED" }
    BY DEF Longer
  <1>3. s.flags \subseteq { "MISSING_DATA", "PROCEED" }
    BY DEF IsComing
  <1>4. p.d \in DataTypes /\ s.pieces \in Seq(Pieces) /\ Len(s.pieces) \in Nat /\ StartLevel \in Nat
    BY QueueAssumption DEF Pieces, BufTypes
  <1>5. Of(p.d, s.pieces)
    <2>1. CASE s.contents = NONE
      <3>1. s.pieces = << >>
        BY <2>1, ExpectedIs DEF IsComing
      <3> QED BY <3>1 DEF Of
    <2>2. CASE s.contents # NONE
      <3>1. PICK d \in DataTypes : s.contents = Data(d) /\ Of(d, s.pieces) /\ cur = Expected(d)
        BY <2>2 DEF IsComing
      <3>2. d = p.d
        BY <1>4, <3>1, ExpectedIs
      <3> QED BY <3>1, <3>2
    <2> QED BY <2>1, <2>2
  <1>6. "PROCEED" \in s.flags => start
    <2> SUFFICES ASSUME "PROCEED" \in s.flags PROVE start
      OBVIOUS
    <2>1. PICK d \in DataTypes : cur = Expected(d) /\ d = "v21" /\ Len(s.pieces) >= StartLevel
      BY DEF IsComing
    <2>2. d = p.d
      BY <1>4, <2>1, ExpectedIs
    <2>3. Len(s.pieces) + 1 >= StartLevel
      BY <1>4, <2>1
    <2> QED BY <2>1, <2>2, <2>3
  <1>7. Of(p.d, c.pieces)
    BY <1>1, <1>4, <1>5 DEF Of
  <1>8. start => Len(c.pieces) >= StartLevel /\ p.d = "v21"
    <2>1. Len(c.pieces) = Len(s.pieces) + 1
      BY <1>1, <1>4
    <2> QED BY <2>1
  <1>9. c.flags \subseteq { "MISSING_DATA", "PROCEED" }
    BY <1>2, <1>3
  <1>10. IsComing(c, cur)
    BY <1>1, <1>4, <1>6, <1>7, <1>8, <1>9 DEF IsComing
  <1> QED BY <1>1, <1>6, <1>7, <1>9, <1>10

LEMMA NotedComing ==
  ASSUME NEW s \in BufTypes, NEW cur
  PROVE  /\ IsComing(s, cur) => IsComing(Noted(s), cur)
         /\ Noted(s).contents = s.contents /\ Noted(s).pieces = s.pieces
         /\ \A t, alone : Plays(s, t, alone) => Plays(Noted(s), t, alone)
  <1>1. /\ Noted(s).contents = s.contents /\ Noted(s).pieces = s.pieces
        /\ Noted(s).flags = s.flags \union { "MISSING_DATA" }
    BY DEF Noted, BufTypes
  <1> DEFINE c == Noted(s)
  <1> HIDE DEF c
  <1>2. c.contents = s.contents /\ c.pieces = s.pieces /\ c.flags = s.flags \union { "MISSING_DATA" }
    BY <1>1 DEF c
  <1>3. IsComing(s, cur) => IsComing(c, cur)
    BY <1>2 DEF IsComing
  <1>4. \A t, alone : Plays(s, t, alone) => Plays(c, t, alone)
    BY <1>2 DEF Plays
  <1> QED BY <1>2, <1>3, <1>4 DEF c

LEMMA UncrossedData ==
  ASSUME Types, Uncrossed, Queued, Op = "data", Well'
  PROVE  Uncrossed'
  <1> DEFINE B   == hdlc.buf
             C   == hdlc'.buf
             s   == hdlc.buf[hdlc.in]
             c   == hdlc'.buf[hdlc.in]
             cur == hdlc.current_rx_indicator
             p   == main.todo[1][2]
  <1>1. main.todo # << >> /\ Done(<< >>) /\ Queue(hdlc) /\ UNCHANGED modem
    BY DEF Queued, Types, Done
  <1>2. /\ hdlc.in \in Bufs /\ hdlc.out \in Bufs /\ B \in [Bufs -> BufTypes] /\ s \in BufTypes
        /\ hdlc.tx \in TxTypes /\ s.pieces \in Seq(Pieces)
    BY <1>1, FieldsOf
  <1>3. p \in Pieces /\ hdlc' = RxData(hdlc, p, main.same)
    BY QueuedIs
  <1>4. cur = Expected(p.d)
    <2>1. 1 \in DOMAIN main.todo /\ main.todo[1][1] = "data"
      BY <1>1, TailIs DEF Op, Types, MainTypes
    <2>2. Follows(p.d)
      BY <2>1 DEF Uncrossed, Planned
    <2> QED BY <2>2 DEF Follows
  <1>5. /\ Laid(B, hdlc.in, hdlc.out, cur) /\ IsComing(s, cur)
    BY DEF Uncrossed, LaidOut, Laid
  <1>6. \/ main.same = TRUE /\ hdlc.in = hdlc.out
        \/ main.same = FALSE /\ hdlc.in # hdlc.out
    BY QueuedSame
  <1>7. PutIn(hdlc, hdlc', p, main.same)
    <2> DEFINE g == hdlc'
    <2> HIDE DEF g, p
    <2>1. PutIn(hdlc, RxData(hdlc, p, main.same), p, main.same)
      BY <1>1, <1>3, RxDataIs
    <2>2. g = RxData(hdlc, p, main.same)
      BY <1>3 DEF g
    <2> QED BY <2>1, <2>2 DEF g
  <1> HIDE DEF p
  <1>8. hdlc'.in = hdlc.in /\ hdlc'.out = hdlc.out /\ hdlc'.current_rx_indicator = cur
    BY <1>7 DEF PutIn
  <1>9. Planned'
    <2>1. Used' = Used /\ Used \in Nat /\ Cost = 0
      BY <1>1, <1>8, RoomFor DEF Used, Cost
    <2>2. Used' <= Used + Cost /\ Used' \in Int /\ Used \in Int
      BY <2>1
    <2> QED BY <1>1, <1>8, <2>2, PlannedDone DEF Uncrossed
  <1>10. /\ \A b \in Bufs : b # hdlc.in => C[b] = B[b]
         /\ \/ c = Noted(s) /\ hdlc'.tx = hdlc.tx
            \/ \E missing, start \in BOOLEAN :
                 /\ start <=> p.d = "v21" /\ Len(s.pieces) + 1 >= StartLevel
                 /\ c = Longer(s, p, missing, start)
                 /\ hdlc'.tx = IF start /\ main.same
                               THEN TxFrame(hdlc.tx, IF "PROCEED" \in s.flags THEN << p >>
                                                     ELSE Append(s.pieces, p))
                               ELSE hdlc.tx
    <2> DEFINE miss == ~Headed(s, p)
    <2>1. CASE C = [B EXCEPT ![hdlc.in] = Noted(s)] /\ hdlc'.tx = hdlc.tx
      <3>1. c = Noted(s) /\ \A b \in Bufs : b # hdlc.in => C[b] = B[b]
        BY <1>2, <2>1
      <3> QED BY <2>1, <3>1
    <2>2. ASSUME NEW start \in BOOLEAN,
                 start <=> p.d = "v21" /\ Len(s.pieces) + 1 >= StartLevel,
                 C = [B EXCEPT ![hdlc.in] = Longer(s, p, miss, start)],
                 hdlc'.tx = IF start /\ main.same
                            THEN TxFrame(hdlc.tx, IF "PROCEED" \in s.flags THEN << p >>
                                                  ELSE Append(s.pieces, p))
                            ELSE hdlc.tx
          PROVE  <1>10!2
      <3>1. c = Longer(s, p, miss, start) /\ \A b \in Bufs : b # hdlc.in => C[b] = B[b]
        BY <1>2, <2>2
      <3>2. miss \in BOOLEAN
        OBVIOUS
      <3> HIDE DEF miss, c, s
      <3> QED BY <2>2, <3>1, <3>2
    <2>3. \A b \in Bufs : b # hdlc.in => C[b] = B[b]
      BY <1>2, <1>7 DEF PutIn
    <2> QED BY <1>7, <2>1, <2>2, <2>3, Zenon DEF PutIn
  <1>11. IsComing(c, cur)
    <2>1. CASE c = Noted(s)
      BY <1>2, <1>5, <2>1, NotedComing
    <2>2. ASSUME NEW missing \in BOOLEAN, NEW start \in BOOLEAN,
                 start <=> p.d = "v21" /\ Len(s.pieces) + 1 >= StartLevel,
                 c = Longer(s, p, missing, start)
          PROVE  IsComing(c, cur)
      <3> HIDE DEF c, s, cur
      <3> QED BY <1>2, <1>3, <1>4, <1>5, <2>2, LongerComing
    <2> QED BY <1>10, <2>1, <2>2
  <1>12. LaidOut'
    <2> HIDE DEF B, C, cur
    <2>1. IsComing(C[hdlc.in], cur)
      BY <1>11 DEF C
    <2>2. Laid(C, hdlc.in, hdlc.out, cur)
      BY <1>2, <1>5, <1>10, <2>1, LaidHere
    <2> QED BY <1>8, <2>2 DEF LaidOut, C
  <1>13. InModem'
    <2> SUFFICES ASSUME modem.src = "hdlc"
                 PROVE  /\ Meant(hdlc.buf, hdlc.in, hdlc.out, hdlc.current_rx_indicator,
                                 hdlc.tx.pieces, Player)'
                        /\ Plays(hdlc.buf[hdlc.out], hdlc.tx, Alone)'
      BY <1>1 DEF InModem
    <2>1. /\ Meant(B, hdlc.in, hdlc.out, cur, hdlc.tx.pieces, Player)
          /\ Plays(B[hdlc.out], hdlc.tx, FALSE)
      <3>1. ~Alone
        BY DEF Alone, Op
      <3>2. /\ Meant(B, hdlc.in, hdlc.out, cur, hdlc.tx.pieces, Player)
            /\ Plays(B[hdlc.out], hdlc.tx, Alone)
        BY DEF Uncrossed, InModem
      <3> QED BY <3>1, <3>2 DEF Plays
    <2>2. Player' = Player
      BY <1>1 DEF Player
    <2>3. ASSUME Meant(C, hdlc.in, hdlc.out, cur, hdlc'.tx.pieces, Player),
                 Plays(C[hdlc.out], hdlc'.tx, FALSE)
          PROVE  /\ Meant(hdlc.buf, hdlc.in, hdlc.out, hdlc.current_rx_indicator,
                          hdlc.tx.pieces, Player)'
                 /\ Plays(hdlc.buf[hdlc.out], hdlc.tx, Alone)'
      <3>1. Plays(C[hdlc.out], hdlc'.tx, Alone')
        BY <2>3 DEF Plays
      <3> QED BY <1>8, <2>2, <2>3, <3>1
    <2>4. CASE hdlc.in # hdlc.out
      <3>1. C[hdlc.out] = B[hdlc.out] /\ hdlc'.tx = hdlc.tx
        BY <1>2, <1>6, <1>10, <2>4
      <3>2. Meant(C, hdlc.in, hdlc.out, cur, hdlc'.tx.pieces, Player)
        <4> HIDE DEF B, C
        <4> QED BY <2>1, <3>1 DEF Meant
      <3> QED BY <2>1, <2>3, <3>1, <3>2
    <2>5. CASE hdlc.in = hdlc.out /\ c = Noted(s) /\ hdlc'.tx = hdlc.tx
      <3>1. C[hdlc.out].contents = B[hdlc.out].contents
        BY <1>2, <2>5, NotedComing
      <3>2. Meant(C, hdlc.in, hdlc.out, cur, hdlc'.tx.pieces, Player)
        <4> HIDE DEF B, C
        <4> QED BY <2>1, <2>5, <3>1 DEF Meant
      <3>3. Plays(C[hdlc.out], hdlc'.tx, FALSE)
        BY <1>2, <2>1, <2>5, NotedComing
      <3> QED BY <2>3, <3>2, <3>3
    <2>6. ASSUME hdlc.in = hdlc.out, NEW missing \in BOOLEAN, NEW start \in BOOLEAN,
                 start <=> p.d = "v21" /\ Len(s.pieces) + 1 >= StartLevel,
                 c = Longer(s, p, missing, start),
                 hdlc'.tx = IF start /\ main.same
                            THEN TxFrame(hdlc.tx, IF "PROCEED" \in s.flags THEN << p >>
                                                  ELSE Append(s.pieces, p))
                            ELSE hdlc.tx
          PROVE  /\ Meant(hdlc.buf, hdlc.in, hdlc.out, hdlc.current_rx_indicator,
                          hdlc.tx.pieces, Player)'
                 /\ Plays(hdlc.buf[hdlc.out], hdlc.tx, Alone)'
      <3> DEFINE t  == hdlc.tx
                 u  == hdlc'.tx
                 ps == Append(s.pieces, p)
      <3>1. /\ Of(p.d, c.pieces) /\ c.contents = Data(p.d)
            /\ "PROCEED" \in c.flags <=> start
            /\ "PROCEED" \in s.flags => start
            /\ "FINISHED" \notin c.flags
        <4> HIDE DEF c, s, cur
        <4> QED BY <1>2, <1>3, <1>4, <1>5, <2>6, LongerComing
      <3>2. c.pieces = ps
        BY <1>2, <1>3, <2>6, LongerIs
      <3>3. ps \in Seq(Pieces) /\ ps # << >> /\ ps = s.pieces \o << p >> /\ << p >> \in Seq(Pieces)
            /\ << p >> # << >> /\ << >> \o ps = ps
        <4>1. s.pieces \in Seq(Pieces) /\ p \in Pieces
          BY <1>2, <1>3
        <4> HIDE DEF s
        <4>2. /\ ps \in Seq(Pieces) /\ ps # << >> /\ ps = s.pieces \o << p >>
              /\ << p >> \in Seq(Pieces) /\ << p >> # << >>
          BY <4>1, OnePiece
        <4> HIDE DEF ps
        <4>3. << >> \o ps = ps
          BY <4>2
        <4> QED BY <4>2, <4>3
      <3>4. /\ "FINISHED" \notin s.flags
            /\ s.contents # Ind("no_signal")
        <4>1. "FINISHED" \notin s.flags
          BY <1>5 DEF IsComing
        <4>2. "no_signal" \in Indicators
          BY DEF Indicators
        <4> QED BY <1>5, <4>1, <4>2, ExpectedIs, NoneIs DEF IsComing
      <3>5. Plays(s, t, FALSE)
        BY <2>1, <2>6
      <3>6. ~t.crc /\ ~t.bad /\ t.pieces = IF "PROCEED" \in s.flags THEN s.pieces ELSE << >>
        <4> HIDE DEF s, t
        <4> QED BY <3>4, <3>5 DEF Plays
      <3>7. ~u.crc /\ ~u.bad /\ u.pieces = IF start THEN ps ELSE << >>
        <4>1. CASE ~start
          <5>1. u = t
            BY <2>6, <4>1
          <5> HIDE DEF u, t, s, ps
          <5> QED BY <3>1, <3>6, <4>1, <5>1
        <4>2. CASE start
          <5>1. main.same = TRUE
            BY <1>6, <2>6
          <5> DEFINE qs == IF "PROCEED" \in s.flags THEN << p >> ELSE ps
          <5>2. u = TxFrame(t, qs)
            BY <2>6, <4>2, <5>1
          <5>3. qs \in Seq(Pieces) /\ qs # << >> /\ t.pieces \o qs = ps
            <6> HIDE DEF s, t, ps
            <6> QED BY <3>3, <3>6
          <5>4. t \in TxTypes
            BY <1>2
          <5> HIDE DEF u, t, s, ps, qs
          <5>5. /\ TxFrame(t, qs).crc = t.crc /\ TxFrame(t, qs).bad = t.bad
                /\ TxFrame(t, qs).pieces = IF qs = << >> \/ t.crc THEN t.pieces ELSE t.pieces \o qs
            BY <5>3, <5>4, TxFrameIs
          <5> QED BY <3>6, <4>2, <5>2, <5>3, <5>5
        <4> QED BY <4>1, <4>2
      <3>8. C[hdlc.out] = c
        BY <2>6
      <3>9. Plays(c, u, FALSE)
        <4> HIDE DEF c, u, s, ps, t
        <4> QED BY <3>1, <3>2, <3>7 DEF Plays
      <3>10. Meant(C, hdlc.in, hdlc.out, cur, u.pieces, Player)
        <4>1. cur = Signal(Player) /\ Player # "silence"
          BY <2>1, <2>6 DEF Meant
        <4>2. \A d \in DataTypes : c.contents = Data(d) => Expected(d) = Signal(Player)
          <5>1. p.d \in DataTypes
            BY <1>3 DEF Pieces
          <5> HIDE DEF c, cur
          <5> QED BY <1>4, <3>1, <4>1, <5>1, ExpectedIs
        <4>3. \A j \in DOMAIN u.pieces : Expected(u.pieces[j].d) = Signal(Player)
          <5> HIDE DEF u, ps, c, cur, s
          <5>1. u.pieces = c.pieces \/ u.pieces = << >>
            BY <3>2, <3>7
          <5>2. \A j \in DOMAIN c.pieces : Expected(c.pieces[j].d) = Signal(Player)
            BY <1>4, <3>1, <4>1 DEF Of
          <5> QED BY <5>1, <5>2
        <4> HIDE DEF C, c, u, cur
        <4> QED BY <3>8, <4>1, <4>2, <4>3 DEF Meant
      <3> QED BY <2>3, <3>8, <3>9, <3>10
    <2> QED BY <1>6, <1>10, <2>4, <2>5, <2>6
  <1> QED BY <1>9, <1>12, <1>13 DEF Uncrossed

(* The end of a frame.                                                     *)
LEMMA CompleteIs ==
  ASSUME NEW s \in BufTypes, NEW d \in DataTypes, NEW bad \in BOOLEAN, NEW cur,
         IsComing(s, cur), cur = Expected(d), NEW c, c = Complete(s, d, bad)
  PROVE  /\ c.contents = Data(d) /\ c.pieces = s.pieces /\ Of(d, s.pieces)
         /\ { "PROCEED", "FINISHED" } \subseteq c.flags
         /\ "CORRUPT_CRC" \in c.flags <=> bad
         /\ IsFrame(c)
  <1>1. /\ c.contents = Data(d) /\ c.pieces = s.pieces
        /\ c.flags = s.flags \union { "PROCEED", "FINISHED" }
                       \union (IF bad THEN { "CORRUPT_CRC" } ELSE {})
    BY DEF Complete, BufTypes
  <1>2. s.flags \subseteq { "MISSING_DATA", "PROCEED" }
    BY DEF IsComing
  <1>3. { "PROCEED", "FINISHED" } \subseteq c.flags /\ ("CORRUPT_CRC" \in c.flags <=> bad)
    BY <1>1, <1>2
  <1>4. Of(d, s.pieces)
    <2>1. CASE s.contents = NONE
      <3>1. s.pieces = << >>
        BY <2>1, ExpectedIs DEF IsComing
      <3> QED BY <3>1 DEF Of
    <2>2. CASE s.contents # NONE
      <3>1. PICK e \in DataTypes : s.contents = Data(e) /\ Of(e, s.pieces) /\ cur = Expected(e)
        BY <2>2 DEF IsComing
      <3>2. e = d
        BY <3>1, ExpectedIs
      <3> QED BY <3>1, <3>2
    <2> QED BY <2>1, <2>2
  <1>5. IsFrame(c)
    BY <1>1, <1>3, <1>4 DEF IsFrame
  <1> QED BY <1>1, <1>3, <1>4, <1>5

LEMMA UncrossedReused ==
  ASSUME Types, Uncrossed, Queued, Op = "fcs", hdlc.buf[hdlc.in].pieces = << >>,
         hdlc' = Reused(hdlc)
  PROVE  Uncrossed'
  <1> DEFINE B   == hdlc.buf
             C   == hdlc'.buf
             s   == hdlc.buf[hdlc.in]
             c   == [hdlc.buf[hdlc.in] EXCEPT !.contents = NONE]
             cur == hdlc.current_rx_indicator
  <1>1. main.todo # << >> /\ Done(<< >>) /\ Queue(hdlc) /\ UNCHANGED modem
    BY DEF Queued, Types, Done
  <1>2. /\ hdlc.in \in Bufs /\ hdlc.out \in Bufs /\ B \in [Bufs -> BufTypes] /\ s \in BufTypes
    BY <1>1, FieldsOf
  <1>3. /\ hdlc'.in = hdlc.in /\ hdlc'.out = hdlc.out /\ hdlc'.tx = hdlc.tx
        /\ hdlc'.current_rx_indicator = hdlc.current_rx_indicator
        /\ C = [B EXCEPT ![hdlc.in] = c]
    <2> DEFINE g == hdlc'
    <2> HIDE DEF g
    <2>1. g = Reused(hdlc)
      BY DEF g
    <2>2. /\ g.in = hdlc.in /\ g.out = hdlc.out /\ g.last = hdlc.last /\ g.tx = hdlc.tx
          /\ g.current_rx_indicator = hdlc.current_rx_indicator
          /\ g.buf = [hdlc.buf EXCEPT ![hdlc.in] = c]
      BY <1>1, <2>1, ReusedIs
    <2> QED BY <2>2 DEF g
  <1>4. c.contents = NONE /\ c.pieces = << >> /\ c.flags = s.flags /\ s.pieces = << >>
    BY <1>2 DEF BufTypes
  <1> HIDE DEF c
  <1>5. C[hdlc.in] = c /\ \A b \in Bufs : b # hdlc.in => C[b] = B[b]
    BY <1>2, <1>3
  <1>6. Laid(B, hdlc.in, hdlc.out, cur) /\ IsComing(s, cur)
    BY DEF Uncrossed, LaidOut, Laid
  <1>7. "PROCEED" \notin s.flags /\ s.flags \subseteq { "MISSING_DATA", "PROCEED" }
        /\ s.contents # Ind("no_signal")
    <2>1. ~(Len(s.pieces) >= StartLevel)
      <3>1. Len(s.pieces) = 0
        BY <1>4
      <3> QED BY <3>1, QueueAssumption
    <2>2. "no_signal" \in Indicators
      BY DEF Indicators
    <2> HIDE DEF s
    <2> QED BY <1>6, <2>1, <2>2, ExpectedIs, NoneIs DEF IsComing
  <1>8. LaidOut'
    <2>1. IsComing(C[hdlc.in], cur)
      BY <1>4, <1>5, <1>7 DEF IsComing
    <2> HIDE DEF B, C
    <2>2. Laid(C, hdlc.in, hdlc.out, cur)
      BY <1>2, <1>5, <1>6, <2>1, LaidHere
    <2> QED BY <1>3, <2>2 DEF LaidOut, C
  <1>9. Planned'
    <2>1. Used' = Used /\ Used \in Nat /\ Cost = 1
      BY <1>1, <1>3, RoomFor DEF Used, Cost
    <2>2. Used' <= Used + Cost /\ Used' \in Int /\ Used \in Int
      BY <2>1
    <2> QED BY <1>1, <1>3, <2>2, PlannedDone DEF Uncrossed
  <1>10. InModem'
    <2> SUFFICES ASSUME modem.src = "hdlc"
                 PROVE  /\ Meant(hdlc.buf, hdlc.in, hdlc.out, hdlc.current_rx_indicator,
                                 hdlc.tx.pieces, Player)'
                        /\ Plays(hdlc.buf[hdlc.out], hdlc.tx, Alone)'
      BY <1>1 DEF InModem
    <2>1. /\ Meant(B, hdlc.in, hdlc.out, cur, hdlc.tx.pieces, Player)
          /\ Plays(B[hdlc.out], hdlc.tx, Alone)
      BY DEF Uncrossed, InModem
    <2>2. ~Alone
      BY DEF Alone, Op
    <2>3. C[hdlc.out] = B[hdlc.out] \/ (C[hdlc.out] = c /\ B[hdlc.out] = s)
      BY <1>2, <1>5
    <2>4. Player' = Player
      BY <1>1 DEF Player
    <2>5. Meant(C, hdlc.in, hdlc.out, cur, hdlc.tx.pieces, Player)
      <3>1. \A d \in DataTypes : C[hdlc.out].contents = Data(d) => B[hdlc.out].contents = Data(d)
        BY <1>4, <2>3, ExpectedIs
      <3> HIDE DEF C, B
      <3> QED BY <2>1, <3>1 DEF Meant
    <2>6. Plays(C[hdlc.out], hdlc.tx, Alone')
      <3>1. CASE C[hdlc.out] = B[hdlc.out]
        BY <2>1, <2>2, <3>1 DEF Plays
      <3>2. CASE C[hdlc.out] = c /\ B[hdlc.out] = s
        <4> HIDE DEF s, B, C
        <4> QED BY <1>4, <1>7, <2>1, <2>2, <3>2 DEF Plays
      <3> QED BY <2>3, <3>1, <3>2
    <2> QED BY <1>3, <2>4, <2>5, <2>6
  <1> QED BY <1>8, <1>9, <1>10 DEF Uncrossed

LEMMA UncrossedFinalise ==
  ASSUME Types, Uncrossed, Queued, Op = "fcs", Well', NEW d \in DataTypes, NEW good \in BOOLEAN,
         hdlc.current_rx_indicator = Expected(d), hdlc' = Finalise(hdlc, d, good, main.same)
  PROVE  Uncrossed'
  <1> DEFINE B   == hdlc.buf
             C   == hdlc'.buf
             s   == hdlc.buf[hdlc.in]
             bad == Spoilt(hdlc.buf[hdlc.in], good)
             c   == Complete(hdlc.buf[hdlc.in], d, Spoilt(hdlc.buf[hdlc.in], good))
             n   == Nxt(hdlc.in)
             cur == hdlc.current_rx_indicator
             t   == hdlc.tx
             t1  == IF "PROCEED" \in s.flags THEN t ELSE TxFrame(t, s.pieces)
             u   == hdlc'.tx
  <1>1. main.todo # << >> /\ Done(<< >>) /\ Queue(hdlc) /\ UNCHANGED modem
    BY DEF Queued, Types, Done
  <1>2. /\ hdlc.in \in Bufs /\ hdlc.out \in Bufs /\ B \in [Bufs -> BufTypes] /\ s \in BufTypes
        /\ t \in TxTypes /\ s.pieces \in Seq(Pieces) /\ n \in Bufs /\ n # hdlc.in
    BY <1>1, FieldsOf, NxtIs
  <1>3. /\ hdlc'.in = n /\ hdlc'.out = hdlc.out
        /\ hdlc'.current_rx_indicator = cur
        /\ C = [[B EXCEPT ![hdlc.in] = c] EXCEPT ![n] = Cleared]
        /\ u = IF ~main.same THEN t ELSE IF bad THEN TxCorrupt(t1) ELSE t1
    <2> DEFINE g == Finalise(hdlc, d, good, main.same)
    <2>1. /\ g.in = Nxt(hdlc.in) /\ g.out = hdlc.out /\ g.last = hdlc.last
          /\ g.current_rx_indicator = hdlc.current_rx_indicator
          /\ g.buf = [[hdlc.buf EXCEPT ![hdlc.in] = c] EXCEPT ![Nxt(hdlc.in)] = Cleared]
          /\ g.tx = IF ~main.same THEN hdlc.tx ELSE IF bad THEN TxCorrupt(t1) ELSE t1
      BY <1>1, FinaliseIs
    <2> QED BY <2>1
  <1>4. \/ main.same = TRUE /\ hdlc.in = hdlc.out
        \/ main.same = FALSE /\ hdlc.in # hdlc.out
    BY QueuedSame
  <1>5. Laid(B, hdlc.in, hdlc.out, cur) /\ IsComing(s, cur)
    BY DEF Uncrossed, LaidOut, Laid
  <1>6. bad \in BOOLEAN
    BY DEF Spoilt
  <1>7. /\ c.contents = Data(d) /\ c.pieces = s.pieces /\ Of(d, s.pieces)
        /\ { "PROCEED", "FINISHED" } \subseteq c.flags
        /\ "CORRUPT_CRC" \in c.flags <=> bad
        /\ IsFrame(c)
    <2>1. c = Complete(s, d, bad)
      OBVIOUS
    <2> HIDE DEF c, s, bad
    <2> QED BY <1>2, <1>5, <1>6, <2>1, CompleteIs
  <1> HIDE DEF c, bad
  <1>8. Used = Off(hdlc.in, hdlc.out) /\ Used \in Nat /\ QLen \in Nat /\ Used <= QLen - 3
    BY <1>1, RoomFor
  <1>9. Off(n, hdlc.out) = Used + 1 /\ n # hdlc.out
    <2>1. Off(n, hdlc.out) = Off(hdlc.in, hdlc.out) + 1
      <3>1. Off(hdlc.in, hdlc.out) # QLen - 1
        BY <1>8
      <3> QED BY <1>2, <3>1, OffOne
    <2>2. Off(n, hdlc.out) # 0
      BY <1>8, <2>1
    <2> QED BY <1>2, <1>8, <2>1, <2>2, OffIs
  <1>10. B[n] = Cleared
    <2>1. Off(n, hdlc.out) > Off(hdlc.in, hdlc.out)
      BY <1>8, <1>9
    <2> QED BY <1>2, <1>5, <2>1 DEF Laid
  <1>11. C[hdlc.in] = c /\ \A b \in Bufs : b # hdlc.in => C[b] = B[b]
    <2> HIDE DEF n
    <2> QED BY <1>2, <1>3, <1>10
  <1>12. Laid(C, n, hdlc.out, cur)
    <2>1. Off(hdlc.in, hdlc.out) <= QLen - 3
      BY <1>8
    <2>2. (IsIndicator(C[hdlc.in]) \/ IsFrame(C[hdlc.in])) /\ Says(C[hdlc.in].contents, cur)
      BY <1>7, <1>11 DEF Says
    <2>3. \A e \in DataTypes : C[hdlc.in].contents = Data(e) => cur = Expected(e)
      BY <1>7, <1>11, ExpectedIs
    <2>4. \A b \in Bufs : b # hdlc.in => C[b] = B[b]
      BY <1>11
    <2> HIDE DEF B, C, cur
    <2>5. Laid(C, Nxt(hdlc.in), hdlc.out, cur) /\ B[Nxt(hdlc.in)] = Cleared
          /\ Off(Nxt(hdlc.in), hdlc.out) = Off(hdlc.in, hdlc.out) + 1
      BY ONLY <1>2, <1>5, <2>1, <2>2, <2>3, <2>4, LaidOn
    <2> QED BY <2>5
  <1>13. Planned'
    <2>1. Used' = Used + 1 /\ Cost = 1
      BY <1>3, <1>9 DEF Used, Cost
    <2>2. Used' <= Used + Cost /\ Used' \in Int /\ Used \in Int
      BY <1>8, <2>1
    <2> QED BY <1>1, <1>3, <2>2, PlannedDone DEF Uncrossed
  <1>14. InModem'
    <2> SUFFICES ASSUME modem.src = "hdlc"
                 PROVE  /\ Meant(hdlc.buf, hdlc.in, hdlc.out, hdlc.current_rx_indicator,
                                 hdlc.tx.pieces, Player)'
                        /\ Plays(hdlc.buf[hdlc.out], hdlc.tx, Alone)'
      BY <1>1 DEF InModem
    <2>1. /\ Meant(B, hdlc.in, hdlc.out, cur, t.pieces, Player)
          /\ Plays(B[hdlc.out], t, FALSE)
      <3>1. ~Alone
        BY DEF Alone, Op
      <3>2. /\ Meant(B, hdlc.in, hdlc.out, cur, t.pieces, Player)
            /\ Plays(B[hdlc.out], t, Alone)
        BY DEF Uncrossed, InModem
      <3> QED BY <3>1, <3>2 DEF Plays
    <2>2. Player' = Player
      BY <1>1 DEF Player
    <2>3. ASSUME Meant(C, n, hdlc.out, cur, u.pieces, Player), Plays(C[hdlc.out], u, FALSE)
          PROVE  /\ Meant(hdlc.buf, hdlc.in, hdlc.out, hdlc.current_rx_indicator,
                          hdlc.tx.pieces, Player)'
                 /\ Plays(hdlc.buf[hdlc.out], hdlc.tx, Alone)'
      <3>1. Plays(C[hdlc.out], u, Alone')
        BY <2>3 DEF Plays
      <3> QED BY <1>3, <2>2, <2>3, <3>1
    <2>4. CASE hdlc.in # hdlc.out
      <3>1. C[hdlc.out] = B[hdlc.out] /\ u = t
        BY <1>2, <1>3, <1>4, <1>11, <2>4
      <3>2. Meant(C, n, hdlc.out, cur, u.pieces, Player)
        <4> HIDE DEF B, C, u, t, n, cur
        <4> QED BY <1>9, <2>1, <3>1 DEF Meant
      <3> QED BY <2>1, <2>3, <3>1, <3>2
    <2>5. CASE hdlc.in = hdlc.out
      <3>1. u = IF bad THEN TxCorrupt(t1) ELSE t1
        BY <1>3, <1>4, <2>5
      <3>2. "FINISHED" \notin s.flags /\ s.contents # Ind("no_signal")
        <4>1. "FINISHED" \notin s.flags
          BY <1>5 DEF IsComing
        <4>2. "no_signal" \in Indicators
          BY DEF Indicators
        <4> QED BY <1>5, <4>1, <4>2, ExpectedIs, NoneIs DEF IsComing
      <3>3. ~t.crc /\ ~t.bad /\ t.pieces = IF "PROCEED" \in s.flags THEN s.pieces ELSE << >>
        <4>1. Plays(s, t, FALSE)
          BY <2>1, <2>5
        <4> HIDE DEF s, t
        <4> QED BY <3>2, <4>1 DEF Plays
      <3>4. t1 \in TxTypes /\ t1.pieces = s.pieces /\ ~t1.bad
        <4> DEFINE v  == TxFrame(t, s.pieces)
                   ps == s.pieces
        <4>1. /\ v \in TxTypes /\ v.bad = t.bad
              /\ v.pieces = IF ps = << >> \/ t.crc THEN t.pieces ELSE t.pieces \o ps
          BY <1>2, TxFrameIs
        <4>2. ps \in Seq(Pieces) /\ << >> \o ps = ps
          BY <1>2
        <4> HIDE DEF v, ps
        <4>3. "PROCEED" \notin s.flags => v.pieces = ps
          BY <3>3, <4>1, <4>2
        <4>4. t1 = IF "PROCEED" \in s.flags THEN t ELSE v
          BY DEF v
        <4>5. s.pieces = ps
          BY DEF ps
        <4> HIDE DEF t1, t, s
        <4> QED BY <1>2, <3>3, <4>1, <4>3, <4>4, <4>5
      <3>5. u.pieces = s.pieces /\ (u.bad <=> bad /\ s.pieces # << >>)
        <4> DEFINE w == TxCorrupt(t1)
        <4>1. w.pieces = t1.pieces /\ w.bad = IF t1.pieces = << >> THEN t1.bad ELSE ~t1.bad
          <5> HIDE DEF t1
          <5>1. << >> \in Seq(Pieces)
            OBVIOUS
          <5> QED BY <3>4, <5>1, TxFrameIs
        <4>2. u = IF bad THEN w ELSE t1
          BY <3>1
        <4> HIDE DEF w, t1, u, s
        <4>3. CASE bad
          <5>1. u = w
            BY <4>2, <4>3
          <5>2. CASE s.pieces = << >>
            BY <3>4, <4>1, <5>1, <5>2
          <5>3. CASE s.pieces # << >>
            BY <3>4, <4>1, <4>3, <5>1, <5>3
          <5> QED BY <5>2, <5>3
        <4>4. CASE ~bad
          BY <3>4, <4>2, <4>4
        <4> QED BY <4>3, <4>4
      <3>6. C[hdlc.out] = c
        BY <1>11, <2>5
      <3>7. Plays(c, u, FALSE)
        <4> HIDE DEF u, s
        <4>1. "PROCEED" \in c.flags /\ "FINISHED" \in c.flags
          BY <1>7
        <4> QED BY <1>7, <3>5, <4>1 DEF Plays
      <3>8. Meant(C, n, hdlc.out, cur, u.pieces, Player)
        <4>1. cur = Signal(Player) /\ Player # "silence"
          BY <2>1, <2>5 DEF Meant
        <4>2. \A e \in DataTypes : c.contents = Data(e) => Expected(e) = Signal(Player)
          BY <1>7, <4>1, ExpectedIs
        <4>3. \A j \in DOMAIN u.pieces : Expected(u.pieces[j].d) = Signal(Player)
          <5>1. \A j \in DOMAIN s.pieces : s.pieces[j].d = d
            BY <1>7 DEF Of
          <5> HIDE DEF u, s
          <5> QED BY <3>5, <4>1, <5>1
        <4> HIDE DEF C, u, n, cur
        <4> QED BY <1>9, <3>6, <4>1, <4>2, <4>3 DEF Meant
      <3> QED BY <2>3, <3>6, <3>7, <3>8
    <2> QED BY <2>4, <2>5
  <1>15. LaidOut'
    BY <1>3, <1>12 DEF LaidOut
  <1> QED BY <1>13, <1>14, <1>15 DEF Uncrossed

LEMMA UncrossedQueued ==
  ASSUME Types, Uncrossed, Queued, Well'
  PROVE  Uncrossed'
  <1> DEFINE op == main.todo[1]
  <1>1. /\ main.todo # << >> /\ Op = op[1]
        /\ \/ /\ Op = "ind" /\ op[2] \in Indicators
              /\ hdlc' = RxIndicator(hdlc, op[2], main.same)
           \/ /\ Op = "end" /\ op = << "end" >>
              /\ hdlc' = [RxIndicator(hdlc, "no_signal", main.same) EXCEPT !.field_class = "none"]
           \/ /\ Op = "data" /\ op[2] \in Pieces
              /\ hdlc' = RxData(hdlc, op[2], main.same)
           \/ /\ Op = "fcs" /\ op[2] \in DataTypes /\ op[3] \in BOOLEAN
              /\ hdlc' = IF ~op[3] /\ op[5] /\ hdlc.buf[hdlc.in].pieces = << >>
                         THEN Reused(hdlc)
                         ELSE Finalise(hdlc, op[2], op[3], main.same)
    BY QueuedIs, Zenon
  <1>2. CASE /\ Op = "ind" /\ op[2] \in Indicators
             /\ hdlc' = RxIndicator(hdlc, op[2], main.same)
    <2> DEFINE i == main.todo[1][2]
    <2>1. /\ i \in Indicators /\ Op \in { "ind", "end" } /\ (Op = "ind" => i = main.todo[1][2])
          /\ (Op = "end" => i = "no_signal") /\ hdlc' = RxIndicator(hdlc, i, main.same)
      BY <1>2
    <2> HIDE DEF i
    <2> QED BY <2>1, UncrossedInd
  <1>3. CASE /\ Op = "end" /\ op = << "end" >>
             /\ hdlc' = [RxIndicator(hdlc, "no_signal", main.same) EXCEPT !.field_class = "none"]
    <2>1. "no_signal" \in Indicators
      BY DEF Indicators
    <2>2. Op \in { "ind", "end" } /\ Op # "ind"
      BY <1>3
    <2> QED BY <1>3, <2>1, <2>2, UncrossedInd
  <1>4. CASE Op = "data"
    BY <1>4, UncrossedData
  <1>5. CASE /\ Op = "fcs" /\ op[2] \in DataTypes /\ op[3] \in BOOLEAN
             /\ hdlc' = IF ~op[3] /\ op[5] /\ hdlc.buf[hdlc.in].pieces = << >>
                        THEN Reused(hdlc)
                        ELSE Finalise(hdlc, op[2], op[3], main.same)
    <2> DEFINE d    == op[2]
               good == op[3]
    <2>1. CASE ~good /\ op[5] /\ hdlc.buf[hdlc.in].pieces = << >>
      <3>1. hdlc' = Reused(hdlc) /\ Op = "fcs" /\ hdlc.buf[hdlc.in].pieces = << >>
        BY <1>5, <2>1
      <3> QED BY <3>1, UncrossedReused
    <2>2. CASE good \/ ~op[5] \/ hdlc.buf[hdlc.in].pieces # << >>
      <3>1. hdlc' = Finalise(hdlc, d, good, main.same) /\ d \in DataTypes /\ good \in BOOLEAN
        BY <1>5, <2>2
      <3>2. hdlc.current_rx_indicator = Expected(d)
        <4>1. 1 \in DOMAIN main.todo /\ main.todo[1][1] = "fcs"
          BY <1>1, <1>5, TailIs DEF Types, MainTypes
        <4>2. Follows(d)
          BY <2>2, <4>1 DEF Uncrossed, Planned
        <4> QED BY <1>5, <4>2 DEF Follows
      <3>3. Op = "fcs"
        BY <1>5
      <3> HIDE DEF d, good, op
      <3> QED BY <3>1, <3>2, <3>3, UncrossedFinalise
    <2> QED BY <2>1, <2>2
  <1> QED BY <1>1, <1>2, <1>3, <1>4, <1>5, Zenon

(* A packet: what it asks for has room and follows.                        *)
Leads(ops, cur, d) == IF ops[1][1] = "ind" THEN ops[1] = IndOp(d) ELSE cur = Expected(d)

Plans(ops, cur, ps) ==
  /\ \A i, j \in DOMAIN ops : ops[i][1] = ops[j][1] => i = j
  /\ \A i \in DOMAIN ops :
       /\ ops[i][1] = "ind"   => i = 1 /\ cur # ops[i][2]
       /\ ops[i][1] = "end"   => i = Len(ops)
       /\ ops[i][1] = "throw" => i + 1 = Len(ops) /\ ops[i + 1] = << "end" >>
       /\ ops[i][1] = "data"  => Leads(ops, cur, ops[i][2].d)
       /\ ops[i][1] = "fcs"   => 
            Leads(ops, cur, ops[i][2]) \/ (i = 1 /\ ~ops[i][3] /\ ops[i][5] /\ ps = << >>)

LEMMA PlansOne ==
  ASSUME NEW cur, NEW ps, NEW x
  PROVE  /\ Plans(<< >>, cur, ps)
         /\ x[1] = "ind" /\ cur # x[2] => Plans(<< x >>, cur, ps)
         /\ x[1] = "data" /\ cur = Expected(x[2].d) => Plans(<< x >>, cur, ps)
         /\ x[1] = "inject" => Plans(<< x >>, cur, ps)
         /\ x[1] = "fcs" /\ (cur = Expected(x[2]) \/ (~x[3] /\ x[5] /\ ps = << >>))
              => Plans(<< x >>, cur, ps)
  BY DEF Plans, Leads

LEMMA PlansTwo ==
  ASSUME NEW cur, NEW ps, NEW d, NEW a, a = IndOp(d), NEW x, NEW e, e = << "end" >>
  PROVE  /\ cur # Expected(d) /\ x[1] = "data" /\ x[2].d = d => Plans(<< a, x >>, cur, ps)
         /\ cur # Expected(d) /\ x[1] = "inject" => Plans(<< a, x >>, cur, ps)
         /\ cur # Expected(d) /\ x[1] = "fcs" /\ x[2] = d => Plans(<< a, x >>, cur, ps)
         /\ cur # Expected(d) /\ x[1] = "fcs" /\ x[2] = d => Plans(<< a, x, e >>, cur, ps)
         /\ x[1] = "fcs" /\ cur = Expected(x[2]) => Plans(<< x, e >>, cur, ps)
  <1>1. a[1] = "ind" /\ a[2] = Expected(d) /\ e[1] = "end"
    BY DEF IndOp
  <1>2. cur # Expected(d) /\ x[1] = "data" /\ x[2].d = d => Plans(<< a, x >>, cur, ps)
    BY <1>1 DEF Plans, Leads
  <1>3. cur # Expected(d) /\ x[1] = "inject" => Plans(<< a, x >>, cur, ps)
    BY <1>1 DEF Plans, Leads
  <1>4. cur # Expected(d) /\ x[1] = "fcs" /\ x[2] = d => Plans(<< a, x >>, cur, ps)
    BY <1>1 DEF Plans, Leads
  <1>5. cur # Expected(d) /\ x[1] = "fcs" /\ x[2] = d => Plans(<< a, x, e >>, cur, ps)
    BY <1>1 DEF Plans, Leads
  <1>6. x[1] = "fcs" /\ cur = Expected(x[2]) => Plans(<< x, e >>, cur, ps)
    BY <1>1 DEF Plans, Leads
  <1> QED BY <1>2, <1>3, <1>4, <1>5, <1>6

LEMMA PlansEnd ==
  ASSUME NEW cur, NEW ps, NEW d, NEW a, a = IndOp(d), NEW e, e = << "end" >>,
         NEW u, NEW v, NEW t, u[1] = "push", v[1] = "pushed", t[1] = "throw"
  PROVE  /\ Plans(<< u, v, e >>, cur, ps) /\ Plans(<< t, e >>, cur, ps)
         /\ cur # Expected(d) => Plans(<< a, u, v, e >>, cur, ps) /\ Plans(<< a, t, e >>, cur, ps)
  <1>1. a[1] = "ind" /\ a[2] = Expected(d) /\ e[1] = "end"
    BY DEF IndOp
  <1>2. Plans(<< u, v, e >>, cur, ps)
    BY <1>1 DEF Plans
  <1>3. Plans(<< t, e >>, cur, ps)
    BY <1>1 DEF Plans
  <1>4. cur # Expected(d) => Plans(<< a, u, v, e >>, cur, ps)
    BY <1>1 DEF Plans
  <1>5. cur # Expected(d) => Plans(<< a, t, e >>, cur, ps)
    BY <1>1 DEF Plans
  <1> QED BY <1>2, <1>3, <1>4, <1>5

LEMMA UncrossedSends ==
  ASSUME Types, Types', Uncrossed, NEW ops, NEW packet, NEW class, Sends(ops, packet, class),
         Plans(ops, hdlc.current_rx_indicator, hdlc.buf[hdlc.in].pieces)
  PROVE  Uncrossed'
  <1> DEFINE B   == hdlc.buf
             C   == hdlc'.buf
             s   == hdlc.buf[hdlc.in]
             cur == hdlc.current_rx_indicator
  <1>1. PICK missing \in BOOLEAN : SeenAs(hdlc, hdlc', missing)
    BY SendsKeeps
  <1>2. /\ main'.todo = ops \/ main'.todo = << >>
        /\ main.todo = << >>
        /\ main'.same = TRUE => hdlc.in = hdlc.out
        /\ Used < QLen - 6 /\ Used \in Nat /\ UNCHANGED << modem, hit >>
    BY SendsKeeps
  <1>3. /\ Queue(hdlc) /\ hdlc.in \in Bufs /\ hdlc.out \in Bufs /\ B \in [Bufs -> BufTypes]
        /\ s \in BufTypes
    BY FieldsOf DEF Types
  <1>4. /\ hdlc'.in = hdlc.in /\ hdlc'.out = hdlc.out /\ hdlc'.tx = hdlc.tx
        /\ hdlc'.current_rx_indicator = cur
        /\ \A b \in Bufs : b # hdlc.in => C[b] = B[b]
        /\ C[hdlc.in] = s \/ C[hdlc.in] = Noted(s)
    <2>1. C = IF missing THEN [B EXCEPT ![hdlc.in] = Noted(s)] ELSE B
      BY <1>1 DEF SeenAs
    <2>2. \/ C = B
          \/ C[hdlc.in] = Noted(s) /\ \A b \in Bufs : b # hdlc.in => C[b] = B[b]
      BY <1>3, <2>1
    <2> QED BY <1>1, <2>2 DEF SeenAs
  <1>5. Laid(B, hdlc.in, hdlc.out, cur) /\ IsComing(s, cur)
    BY DEF Uncrossed, LaidOut, Laid
  <1>6. LaidOut'
    <2>1. IsComing(C[hdlc.in], cur)
      BY <1>3, <1>4, <1>5, NotedComing
    <2> HIDE DEF B, C, cur, s
    <2>2. Laid(C, hdlc.in, hdlc.out, cur)
      BY <1>3, <1>4, <1>5, <2>1, LaidHere
    <2> QED BY <1>4, <2>2 DEF LaidOut, C, cur
  <1>7. Planned'
    <2> DEFINE todo == main'.todo
    <2>1. Plans(todo, cur, s.pieces)
      BY <1>2, PlansOne
    <2>2. C[hdlc.in].pieces = s.pieces
      BY <1>3, <1>4, NotedComing
    <2>3. Used' = Used /\ Need' \in Nat /\ Need' <= 5 /\ QLen \in Nat
      BY <1>4, QueueAssumption DEF Used, Need
    <2>4. Used' + Need' <= QLen - 2
      <3> DEFINE u == Used
                 m == Need'
      <3>1. u < QLen - 6 /\ u \in Nat /\ m \in Nat /\ m <= 5 /\ QLen \in Nat /\ Used' = u
        BY <1>2, <2>3
      <3> HIDE DEF u, m
      <3>2. u + m <= QLen - 2
        BY <3>1
      <3>3. Used' + m <= QLen - 2
        BY ONLY <3>1, <3>2
      <3> QED BY <3>3 DEF m
    <2>5. \A i \in DOMAIN todo : Op' = todo[1][1]
      <3>1. Op' = Head(todo)[1]
        BY DEF Op
      <3>2. todo # << >> /\ todo \in Seq(Ops) => Head(todo) = todo[1]
        <4> HIDE DEF todo
        <4> QED BY TailIs
      <3>3. todo \in Seq(Ops)
        BY DEF Types, MainTypes
      <3> HIDE DEF todo
      <3> QED BY <3>1, <3>2, <3>3
    <2>6. \A i \in DOMAIN todo :
            /\ Leads(todo, cur, todo[i][2].d) => Follows(main.todo[i][2].d)'
            /\ Leads(todo, cur, todo[i][2]) => Follows(main.todo[i][2])'
      BY <1>4, <2>5 DEF Leads, Follows
    <2>7. /\ \A i, j \in DOMAIN todo : todo[i][1] = todo[j][1] => i = j
          /\ \A i \in DOMAIN todo :
               /\ todo[i][1] = "ind"   => i = 1 /\ cur # todo[i][2]
               /\ todo[i][1] = "end"   => i = Len(todo)
               /\ todo[i][1] = "throw" => i + 1 = Len(todo) /\ todo[i + 1] = << "end" >>
               /\ todo[i][1] = "data"  => Leads(todo, cur, todo[i][2].d)
               /\ todo[i][1] = "fcs"   =>
                    \/ Leads(todo, cur, todo[i][2])
                    \/ i = 1 /\ ~todo[i][3] /\ todo[i][5] /\ s.pieces = << >>
      <3> HIDE DEF todo, cur, s
      <3> QED BY <2>1 DEF Plans
    <2>8. \A i \in DOMAIN main'.todo :
            /\ main'.todo[i][1] = "data" => Follows(main.todo[i][2].d)'
            /\ main'.todo[i][1] = "fcs"  =>
                 \/ Follows(main.todo[i][2])'
                 \/ /\ i = 1 /\ ~main'.todo[i][3] /\ main'.todo[i][5]
                    /\ hdlc'.buf[hdlc'.in].pieces = << >>
      BY <1>4, <2>2, <2>6, <2>7
    <2>9. \A i \in DOMAIN main'.todo :
            /\ main'.todo[i][1] = "ind"   => i = 1 /\ hdlc'.current_rx_indicator # main'.todo[i][2]
            /\ main'.todo[i][1] = "end"   => i = Len(main'.todo)
            /\ main'.todo[i][1] = "throw" => i + 1 = Len(main'.todo) /\ main'.todo[i + 1] = << "end" >>
      BY <1>4, <2>7
    <2>10. main'.same = TRUE => hdlc'.in = hdlc'.out
      BY <1>2, <1>4
    <2>11. \A i, j \in DOMAIN main'.todo : main'.todo[i][1] = main'.todo[j][1] => i = j
      BY <2>7
    <2> HIDE DEF todo
    <2> QED BY <2>4, <2>8, <2>9, <2>10, <2>11 DEF Planned
  <1>8. InModem'
    <2> SUFFICES ASSUME modem.src = "hdlc"
                 PROVE  /\ Meant(hdlc.buf, hdlc.in, hdlc.out, hdlc.current_rx_indicator,
                                 hdlc.tx.pieces, Player)'
                        /\ Plays(hdlc.buf[hdlc.out], hdlc.tx, Alone)'
      BY <1>2 DEF InModem
    <2>1. /\ Meant(B, hdlc.in, hdlc.out, cur, hdlc.tx.pieces, Player)
          /\ Plays(B[hdlc.out], hdlc.tx, Alone)
      BY DEF Uncrossed, InModem
    <2>2. ~Alone
      BY <1>2 DEF Alone
    <2>3. C[hdlc.out] = B[hdlc.out] \/ C[hdlc.out] = Noted(B[hdlc.out])
      BY <1>3, <1>4
    <2>4. Player' = Player
      BY <1>2 DEF Player
    <2>5. B[hdlc.out] \in BufTypes
      BY <1>3
    <2>6. Meant(C, hdlc.in, hdlc.out, cur, hdlc.tx.pieces, Player)
      <3>1. C[hdlc.out].contents = B[hdlc.out].contents
        BY <2>3, <2>5, NotedComing
      <3> HIDE DEF C, B
      <3> QED BY <2>1, <3>1 DEF Meant
    <2>7. Plays(C[hdlc.out], hdlc.tx, Alone')
      <3>1. Plays(B[hdlc.out], hdlc.tx, Alone')
        BY <2>1, <2>2 DEF Plays
      <3> HIDE DEF C, B
      <3> QED BY <2>3, <2>5, <3>1, NotedComing
    <2> QED BY <1>4, <2>4, <2>6, <2>7
  <1> QED BY <1>6, <1>7, <1>8 DEF Uncrossed

LEMMA ComesAfter ==
  ASSUME Uncrossed, NEW d \in DataTypes, hdlc.buf[hdlc.in].contents = Data(d)
  PROVE  hdlc.current_rx_indicator = Expected(d)
  <1> DEFINE s   == hdlc.buf[hdlc.in]
             cur == hdlc.current_rx_indicator
  <1>1. IsComing(s, cur) /\ s.contents = Data(d)
    BY DEF Uncrossed, LaidOut, Laid
  <1> HIDE DEF s, cur
  <1>2. s.contents # NONE
    BY <1>1, NoneIs
  <1>3. PICK e \in DataTypes : s.contents = Data(e) /\ cur = Expected(e)
    BY <1>1, <1>2 DEF IsComing
  <1>4. e = d
    BY <1>1, <1>3, ExpectedIs
  <1> QED BY <1>3, <1>4 DEF cur

LEMMA UncrossedPackets ==
  ASSUME Types, Types', Uncrossed, Begin \/ Continue
  PROVE  Uncrossed'
  <1> DEFINE cur == hdlc.current_rx_indicator
             ps  == hdlc.buf[hdlc.in].pieces
  <1>1. ASSUME NEW i, NEW packet, NEW class,
               Sends(IF cur = i THEN << >> ELSE << << "ind", i >> >>, packet, class)
        PROVE  Uncrossed'
    <2> DEFINE x == << "ind", i >>
    <2>1. x[1] = "ind" /\ x[2] = i
      OBVIOUS
    <2> HIDE DEF x
    <2>2. Plans(IF cur = i THEN << >> ELSE << x >>, cur, ps)
      BY <2>1, PlansOne
    <2> QED BY <1>1, <2>2, UncrossedSends DEF x
  <1>2. CASE Begin
    BY <1>1, <1>2, BeginIs
  <1>3. CASE SendNoSignal
    BY <1>1, <1>3, SendNoSignalIs
  <1>4. CASE SendPiece
    <2>1. PICK p \in Pieces : Sends(Append(Missing(p.d), << "data", p >>), << p.d, "data" >>, "hdlc")
      BY <1>4, SendPieceIs
    <2> DEFINE d == p.d
               x == << "data", p >>
               a == IndOp(d)
    <2>2. d \in DataTypes /\ x[1] = "data" /\ x[2].d = d
      BY DEF Pieces
    <2>3. \/ /\ Append(Missing(d), x) = << x >>
             /\ hdlc.buf[hdlc.in].contents = Data(d) \/ cur = Expected(d)
          \/ /\ Append(Missing(d), x) = << a, x >>
             /\ cur # Expected(d)
      BY DataOpsIs
    <2> DEFINE q == Append(Missing(d), x)
    <2>4. (q = << x >> /\ cur = Expected(d)) \/ (q = << a, x >> /\ cur # Expected(d))
      BY <2>2, <2>3, ComesAfter
    <2>5. Sends(q, << d, "data" >>, "hdlc")
      BY <2>1
    <2> HIDE DEF d, x, a, q
    <2>6. Plans(q, cur, ps)
      BY <2>2, <2>4, PlansOne, PlansTwo DEF a
    <2> QED BY <2>5, <2>6, UncrossedSends
  <1>5. CASE SendOctet
    <2>1. PICK y \in Octets : Sends(Append(Missing("fast"), << "inject", y >>), << "fast", "t4" >>, "non_ecm")
      BY <1>5, SendOctetIs
    <2> DEFINE x == << "inject", y >>
               a == IndOp("fast")
               q == Append(Missing("fast"), x)
    <2>2. x[1] = "inject" /\ (q = << x >> \/ (q = << a, x >> /\ cur # Expected("fast")))
      BY DataOpsIs
    <2>3. Sends(q, << "fast", "t4" >>, "non_ecm")
      BY <2>1
    <2> HIDE DEF x, a, q
    <2>4. Plans(q, cur, ps)
      BY <2>2, PlansOne, PlansTwo DEF a
    <2> QED BY <2>3, <2>4, UncrossedSends
  <1>6. CASE SendFcs
    <2>1. PICK d \in DataTypes, good \in BOOLEAN, end \in BOOLEAN, dcs \in BOOLEAN \union { NONE } :
            Sends(FcsOps(d, good, end, dcs), << d, "fcs", good, end >>, "hdlc")
      BY <1>6, SendFcsIs
    <2> DEFINE x == FcsOp(d, good, end, dcs)
               e == << "end" >>
               a == IndOp(d)
               q == FcsOps(d, good, end, dcs)
    <2>2. /\ x[1] = "fcs" /\ x[2] = d /\ x[3] = good
          /\ ps = << >> => x[5]
      BY DEF FcsOp
    <2>3. \/ q = << >>
          \/ /\ q = IF end THEN << x, << "end" >> >> ELSE << x >>
             /\ \/ hdlc.buf[hdlc.in].contents = Data(d)
                \/ hdlc.current_rx_indicator = Expected(d)
                \/ ~good /\ ~end /\ hdlc.buf[hdlc.in].pieces = << >>
          \/ /\ q = IF end THEN << IndOp(d), x, << "end" >> >> ELSE << IndOp(d), x >>
             /\ hdlc.current_rx_indicator # Expected(d)
      <3>1. PlanOf(d, good, end, x, q)
        BY FcsOpsIs
      <3> HIDE DEF q, x
      <3> QED BY <3>1 DEF PlanOf
    <2>4. \/ q = << >>
          \/ q = << x, e >> /\ cur = Expected(d)
          \/ q = << x >> /\ (cur = Expected(d) \/ (~good /\ ps = << >>))
          \/ (q = << a, x, e >> \/ q = << a, x >>) /\ cur # Expected(d)
      <3> HIDE DEF q, x
      <3> QED BY <2>3, ComesAfter
    <2>5. Sends(q, << d, "fcs", good, end >>, "hdlc")
      BY <2>1
    <2>6. e = << "end" >> /\ a = IndOp(d)
      OBVIOUS
    <2> HIDE DEF x, a, q, e, cur, ps
    <2>7. Plans(q, cur, ps)
      <3>1. CASE q = << >>
        BY <3>1, PlansOne
      <3>2. CASE q = << x, e >> /\ cur = Expected(d)
        BY <2>2, <2>6, <3>2, PlansTwo
      <3>3. CASE q = << x >> /\ (cur = Expected(d) \/ (~good /\ ps = << >>))
        BY <2>2, <3>3, PlansOne
      <3>4. CASE (q = << a, x, e >> \/ q = << a, x >>) /\ cur # Expected(d)
        BY <2>2, <2>6, <3>4, PlansTwo
      <3> QED BY <2>4, <3>1, <3>2, <3>3, <3>4
    <2> QED BY <2>5, <2>7, UncrossedSends DEF cur, ps
  <1>7. CASE SendHdlcEnd \/ SendNonEcmEnd
    <2>1. PICK d \in DataTypes, pushes \in BOOLEAN, field \in Packets :
            Sends(IF hdlc.last = field THEN << >> ELSE SignalEnd(d, pushes), field, hdlc.field_class)
      BY <1>7, SendEndIs
    <2> DEFINE a == IndOp(d)
               e == << "end" >>
               u == << "push" >>
               v == << "pushed" >>
               t == << "throw" >>
               r == SignalEnd(d, pushes)
               q == IF hdlc.last = field THEN << >> ELSE r
    <2>2. \/ r = << u, v, e >> \/ r = << t, e >>
          \/ (r = << a, u, v, e >> \/ r = << a, t, e >>) /\ cur # Expected(d)
      BY SignalEndOpsIs
    <2>3. u[1] = "push" /\ v[1] = "pushed" /\ t[1] = "throw" /\ e = << "end" >> /\ a = IndOp(d)
      OBVIOUS
    <2>4. Sends(q, field, hdlc.field_class)
      BY <2>1
    <2> HIDE DEF u, v, t, e, a, r, cur, ps
    <2>5. Plans(r, cur, ps)
      BY <2>2, <2>3, PlansEnd
    <2>6. Plans(q, cur, ps)
      BY <2>5, PlansOne
    <2> HIDE DEF q
    <2> QED BY <2>4, <2>6, UncrossedSends DEF cur, ps
  <1> QED BY <1>2, <1>3, <1>4, <1>5, <1>6, <1>7 DEF Continue

-----------------------------------------------------------------------------
(* The invariant of the queue is kept, and what follows from it.           *)

LEMMA QueueInitially ==
  ASSUME GwInit
  PROVE  QueueInv
  <1>1. /\ hdlc.buf = [i \in Bufs |-> Cleared] /\ hdlc.in = 0 /\ hdlc.out = 0 /\ hdlc.tx = TxInit
        /\ hdlc.current_rx_indicator = NONE
        /\ main.todo = << >> /\ main.same = NONE
        /\ modem.handler = "silence" /\ modem.next = NONE /\ modem.src = NONE
    BY DEF GwInit, HdlcInit, Idle
  <1>2. 0 \in Bufs /\ QLen \in Nat /\ QLen > 2
    BY QueueAssumption DEF Bufs
  <1>3. AtWork
    BY <1>1 DEF AtWork, TxInit
  <1>4. Laid(hdlc.buf, 0, 0, NONE)
    <2>1. Off(0, 0) = 0 /\ \A b \in Bufs : Off(b, 0) \in 0 .. QLen - 1
      BY <1>2, OffIs
    <2>2. \A b \in Bufs : hdlc.buf[b] = Cleared
      BY <1>1
    <2>3. \A b \in Bufs : ~(Off(b, 0) < Off(0, 0))
      BY <2>1
    <2>4. IsComing(hdlc.buf[0], NONE)
      <3> DEFINE s == hdlc.buf[0]
      <3>1. s = Cleared
        BY <1>2, <2>2
      <3> HIDE DEF s
      <3>2. s.contents = NONE /\ s.pieces = << >> /\ s.flags = {}
        BY <3>1 DEF Cleared
      <3>3. IsComing(s, NONE)
        BY <3>2 DEF IsComing
      <3> QED BY <3>3 DEF s
    <2>5. Off(0, 0) <= QLen - 2
      BY <1>2, <2>1
    <2> QED BY <2>2, <2>3, <2>4, <2>5 DEF Laid
  <1>5. LaidOut
    BY <1>1, <1>4 DEF LaidOut
  <1>6. InModem
    BY <1>1, NoneIs DEF InModem
  <1>7. Planned
    BY <1>1, NoneIs DEF Planned
  <1> QED BY <1>3, <1>5, <1>6, <1>7 DEF QueueInv, Uncrossed

LEMMA QueueNext ==
  ASSUME Types, Types', QueueInv, [GwNext]_gwVars
  PROVE  QueueInv'
  <1>1. AtWork'
    BY AtWorkNext DEF QueueInv
  <1>2. ASSUME Well' PROVE Uncrossed'
    <2>1. Uncrossed /\ AtWork
      BY <1>2, WellBefore DEF QueueInv
    <2>2. CASE Quiet
      BY <2>1, <2>2, UncrossedQuiet
    <2>3. CASE Queued
      BY <1>2, <2>1, <2>3, UncrossedQueued
    <2>4. CASE Injected \/ Pushed
      BY <2>1, <2>4, UncrossedPlain
    <2>5. CASE Throw
      BY <2>1, <2>5, UncrossedThrow
    <2>6. CASE NextTxType
      BY <1>2, <2>1, <2>6, UncrossedNextTxType
    <2>7. CASE HdlcFlagsEnd
      BY <2>1, <2>7, UncrossedFlagsEnd
    <2>8. CASE HdlcOctetsEnd
      BY <1>2, <2>1, <2>8, UncrossedOctetsEnd
    <2>9. CASE HdlcFrameEnd
      BY <2>1, <2>9, UncrossedFrameEnd
    <2>10. CASE Begin \/ Continue
      BY <2>1, <2>10, UncrossedPackets
    <2> QED
      BY <2>2, <2>3, <2>4, <2>5, <2>6, <2>7, <2>8, <2>9, <2>10 DEF GwNext, Main, Fax, Quiet
  <1> QED BY <1>1, <1>2 DEF QueueInv

LEMMA QueueSays ==
  ASSUME Types, QueueInv
  PROVE  /\ hit = {} => Clean
         /\ hdlc.tx.crc => hdlc.tx.pieces # << >>
         /\ OwnModem
  <1>1. hit = {} => Clean
    BY DEF QueueInv, Well, Uncrossed, LaidOut, Laid, Clean, Used
  <1>2. hdlc.tx.crc => hdlc.tx.pieces # << >>
    BY DEF QueueInv, AtWork
  <1>3. OwnModem
    <2> DEFINE ps == hdlc.tx.pieces
    <2> SUFFICES ASSUME Well, ps # << >>, Running("hdlc")
                 PROVE  modem.handler = IF ps[1].d = "v21" THEN "fsk" ELSE "fast"
      BY DEF OwnModem, Matching, Well
    <2>1. modem \in ModemTypes /\ ps \in Seq(Pieces)
      BY FieldsOf DEF Types
    <2>2. /\ modem.handler # "silence" /\ modem.src = "hdlc" /\ modem.next = NONE
          /\ Player = modem.handler
      BY DEF Running, QueueInv, AtWork, Player
    <2>3. \A j \in DOMAIN ps : Expected(ps[j].d) = Signal(modem.handler)
      BY <2>2 DEF QueueInv, Uncrossed, InModem, Meant
    <2>4. 1 \in DOMAIN ps /\ ps[1].d \in DataTypes
      <3> HIDE DEF ps
      <3>1. 1 \in DOMAIN ps /\ ps[1] \in Pieces
        BY <2>1
      <3> QED BY <3>1 DEF Pieces
    <2>5. modem.handler \in { "fsk", "fast" }
      BY <2>1, <2>2 DEF ModemTypes
    <2> HIDE DEF ps
    <2> QED BY <2>3, <2>4, <2>5 DEF Expected, Signal, DataTypes
  <1> QED BY <1>1, <1>2, <1>3

-----------------------------------------------------------------------------
(* The FCS.  The far end is through with a frame, and what hdlc_tx is to    *)
(* make of its FCS is what the far end and the link did to it.             *)
Goes(w)    == w.sig \in Hdlcs /\ ~w.over
Shut(w, f) == f < w.f \/ (f = w.f /\ ~Goes(w))

Deserved(w, ps, bad) ==
  /\ Shut(w, ps[1].f)
  /\ ~bad => /\ ps[1].f \notin w.spoilt /\ Unbroken(ps)
             /\ ps[1].k = 1 \/ ps[1].f \in w.headless
  /\ bad  => w.lost > 0 \/ ps[1].f \in w.spoilt

(* A buffer tells what was lost, and a frame that is finished its FCS.      *)
Fair(w, s) ==
  /\ "MISSING_DATA" \in s.flags => w.lost > 0
  /\ "FINISHED" \in s.flags /\ s.pieces # << >> =>
       Deserved(w, s.pieces, "CORRUPT_CRC" \in s.flags)

Judged(w, B) == \A b \in Bufs : Fair(w, B[b])

(* The buffer s holds the first n pieces of the frame that is being sent,  *)
(* or the last of them when it is headless, unless it tells that something *)
(* was lost.                                                               *)
Begun(w, s, n, done) ==
  "MISSING_DATA" \notin s.flags =>
    LET l == Len(s.pieces)
    IN  /\ l = n \/ (l < n /\ w.f \in w.headless)
        /\ \A j \in 1 .. l : s.pieces[j].f = w.f /\ s.pieces[j].k = n - l + j
        /\ l > 0 => s.contents = Data(TypeOf(w.sig)) /\ s.pieces[l].last = done

(* The buffer at in, when ops are still to do: it has what was sent, or    *)
(* what was sent before the piece in hand; and its FCS is deserved.        *)
AtIn(w, s, ops) ==
  /\ Goes(w) /\ ops = << >> /\ ~w.gap => Begun(w, s, w.k, w.whole)
  /\ \A i \in DOMAIN ops :
       /\ ops[i][1] = "data" =>
            /\ i = 1 /\ Headed(s, ops[i][2]) => Begun(w, s, w.k - 1, FALSE)
            /\ i # 1 /\ ops[i][2].ff => ops[i][2].k = 1 \/ w.f \in w.headless
            /\ w.lost = 0 => ops[i][2].ff \/ (i = 1 /\ s.contents = Data(ops[i][2].d))
       /\ ops[i][1] = "fcs" /\ i = 1 /\ s.pieces # << >> =>
            Deserved(w, s.pieces, Spoilt(s, ops[i][3]))

(* The far end, what the main thread has to do for it, and what t38_core   *)
(* remembers of it.                                                        *)
FarEnd(w) ==
  /\ w.spoilt \subseteq 0 .. w.f
  /\ w.gap => w.lost > 0
  /\ Goes(w) => w.f \notin w.spoilt /\ w.k <= MaxPieces /\ (w.k = 0 => ~w.whole)
  /\ w.heard <= w.n /\ (w.headless # {} => w.lost > 0)
  /\ Goes(w) /\ w.k > 0 /\ w.heard # w.n => w.gap

Asks(w, ops) ==
  /\ \A i \in DOMAIN ops :
       /\ ops[i][1] = "data" =>
            ops[i][2].last = w.whole /\ ops[i][2].d = TypeOf(w.sig) /\ w.k > 0
       /\ Goes(w) => ops[i][1] \in { "ind", "data", "fcs" }
       /\ Goes(w) /\ ops[i][1] = "ind" => ops[i] = IndOp(TypeOf(w.sig))
       /\ ops[i][1] = "fcs" => i = 1 \/ (i = 2 /\ ops[1][1] = "ind")
  /\ Goes(w) /\ ops # << >> => w.k = 0 \/ \E i \in DOMAIN ops : ops[i][1] = "data"
  /\ w.sig = NONE => ops = << >> \/ ops = << << "ind", "no_signal" >> >>

Heard(w, ops, last, cur) ==
  /\ Goes(w) /\ ~w.gap /\ w.k > 0 => last = << TypeOf(w.sig), "data" >>
  /\ w.sig = NONE /\ ~w.gap /\ ops = << >> => cur \in { NONE, "no_signal" }

Sending ==
  /\ FarEnd(far) /\ Asks(far, main.todo)
  /\ Heard(far, main.todo, hdlc.last, hdlc.current_rx_indicator)

Faithful == Judged(far, hdlc.buf) /\ AtIn(far, hdlc.buf[hdlc.in], main.todo)

(* Once anything of a signal has been heard its indicator is the last, or  *)
(* is to be queued.                                                        *)
Tuned(w, ops, cur) ==
  Goes(w) /\ w.heard = w.n =>
    cur = Expected(TypeOf(w.sig)) \/ (ops # << >> /\ ops[1][1] = "ind")

FcsInv == Well => Faithful /\ Tuned(far, main.todo, hdlc.current_rx_indicator)

\* The far end goes on, and is through with no frame that it was through with.
Grows(w, v) ==
  /\ v.lost >= w.lost /\ w.headless \subseteq v.headless
  /\ \A f \in Nat : Shut(w, f) => Shut(v, f) /\ (f \in v.spoilt <=> f \in w.spoilt)

LEMMA FairGrows ==
  ASSUME NEW w \in FarTypes, NEW v \in FarTypes, Grows(w, v), NEW s \in BufTypes, Fair(w, s)
  PROVE  Fair(v, s)
  <1>1. w.lost \in Nat /\ v.lost \in Nat /\ v.lost >= w.lost
    BY DEF FarTypes, Grows
  <1>2. ASSUME s.pieces # << >>, NEW bad, Deserved(w, s.pieces, bad) PROVE Deserved(v, s.pieces, bad)
    <2> DEFINE ps == s.pieces
    <2>1. ps \in Seq(Pieces) /\ ps # << >>
      BY <1>2 DEF BufTypes
    <2> HIDE DEF ps
    <2>2. ps[1] \in Pieces
      BY <2>1
    <2>3. ps[1].f \in Nat
      BY <2>2 DEF Pieces
    <2>4. Deserved(w, ps, bad)
      BY <1>2 DEF ps
    <2>5. Deserved(v, ps, bad)
      BY <1>1, <2>3, <2>4 DEF Deserved, Grows
    <2> QED BY <2>5 DEF ps
  <1> QED BY <1>1, <1>2 DEF Fair

\* What a packet does to the frame that is being sent: it goes on, ends, or the next begins.
Turns(w, v) ==
  \/ v.f = w.f /\ v.spoilt = w.spoilt /\ (Goes(v) => Goes(w))
  \/ v.f = w.f + 1 /\ v.spoilt = w.spoilt
  \/ /\ Goes(w)
     /\ v.f = w.f + 1 \/ (v.f = w.f /\ ~Goes(v))
     /\ w.spoilt \subseteq v.spoilt /\ v.spoilt \subseteq w.spoilt \union { w.f }

LEMMA GrowsIs ==
  ASSUME NEW w \in FarTypes, NEW v \in FarTypes, v.lost >= w.lost, Turns(w, v),
         w.headless \subseteq v.headless
  PROVE  Grows(w, v)
  <1>1. w.f \in Nat /\ v.f \in Nat
    BY DEF FarTypes
  <1> QED BY <1>1 DEF Grows, Shut, Turns

LEMMA FarGrows ==
  ASSUME Types, Types', FarEnd(far), Begin \/ Continue
  PROVE  Grows(far, far') /\ FarEnd(far')
  <1>1. far \in FarTypes /\ far' \in FarTypes
    BY DEF Types
  <1>2. /\ far.f \in Nat /\ far'.f \in Nat /\ far.lost \in Nat /\ far'.lost \in Nat
        /\ far.k \in Nat /\ far'.k \in Nat /\ far.spoilt \subseteq 0 .. far.f /\ MaxPieces \in Nat
        /\ far.n \in Nat /\ far.heard \in Nat /\ far.heard <= far.n
        /\ far.headless # {} => far.lost > 0
    BY <1>1, BoundAssumption DEF FarTypes, FarEnd
  <1>3. ASSUME NEW ops, NEW packet, NEW class, Sends(ops, packet, class)
        PROVE  far'.lost >= far.lost /\ (far'.gap => far'.lost > 0)
    BY <1>2, <1>3 DEF Sends
  <1>4. Hdlcs \intersect NonEcms = {} /\ NONE \notin Hdlcs
    BY NoneIs DEF Hdlcs, NonEcms
  <1>5. CASE Begin
    <2>1. PICK sig \in Hdlcs \union NonEcms :
           /\ far.sig = NONE
           /\ far'.sig = sig /\ far'.k = 0 /\ ~far'.whole /\ ~far'.over
           /\ far'.f = (IF sig \in Hdlcs THEN far.f + 1 ELSE far.f)
           /\ far'.spoilt = far.spoilt /\ far'.n = far.n + 1 /\ far'.headless = far.headless
           /\ far'.heard = (IF far'.gap THEN far.heard ELSE far'.n)
           /\ Sends(IF hdlc.current_rx_indicator = Expected(TypeOf(sig)) THEN << >>
                    ELSE << << "ind", Expected(TypeOf(sig)) >> >>, NONE, hdlc.field_class)
      BY <1>5, BeginIs
    <2>2. far'.lost >= far.lost /\ (far'.gap => far'.lost > 0)
      BY <1>3, <2>1
    <2>3. Goes(far') <=> sig \in Hdlcs
      BY <2>1 DEF Goes
    <2>4. far'.f = far.f + 1 \/ (far'.f = far.f /\ ~Goes(far'))
      BY <2>1, <2>3
    <2>5. Grows(far, far')
      <3>1. Turns(far, far')
        BY <2>1, <2>4 DEF Turns
      <3>2. far.headless \subseteq far'.headless
        BY <2>1
      <3> QED BY <1>1, <2>2, <3>1, <3>2, GrowsIs
    <2>6. FarEnd(far')
      <3>1. far'.heard <= far'.n /\ (far'.headless # {} => far'.lost > 0)
        BY <1>2, <2>1, <2>2
      <3> QED BY <1>2, <2>1, <2>2, <2>3, <3>1 DEF FarEnd
    <2> QED BY <2>5, <2>6
  <1>6. CASE SendPiece
    <2>1. PICK p \in Pieces :
           /\ far.sig \in Hdlcs /\ ~far.over /\ ~far.whole /\ far.k < MaxPieces
           /\ far'.sig = far.sig /\ ~far'.over /\ far'.f = far.f /\ far'.k = far.k + 1
           /\ far'.spoilt = far.spoilt
           /\ far'.n = far.n /\ far'.heard = (IF far'.gap THEN far.heard ELSE far.n)
           /\ far'.headless = (IF ~far'.gap /\ p.ff /\ far.k > 0 /\ far.heard # far.n
                               THEN far.headless \union { far.f } ELSE far.headless)
           /\ Sends(Append(Missing(p.d), << "data", p >>), << p.d, "data" >>, "hdlc")
      BY <1>6, SendPieceIs
    <2>2. far'.lost >= far.lost /\ (far'.gap => far'.lost > 0)
      BY <1>3, <2>1
    <2>3. Goes(far') /\ Goes(far)
      BY <2>1 DEF Goes
    <2>4. Grows(far, far')
      <3>1. Turns(far, far')
        BY <2>1, <2>3 DEF Turns
      <3>2. far.headless \subseteq far'.headless
        BY <2>1
      <3> QED BY <1>1, <2>2, <3>1, <3>2, GrowsIs
    <2>5. FarEnd(far')
      <3>1. far'.heard <= far'.n /\ (far'.heard # far'.n => far'.gap)
        BY <1>2, <2>1
      <3>2. far'.headless # {} => far'.lost > 0
        <4>1. far.lost > 0 => far'.lost > 0
          BY <1>2, <2>2
        <4>2. far.k > 0 /\ far.heard # far.n => far.lost > 0
          BY <2>3 DEF FarEnd
        <4> QED BY <1>2, <2>1, <4>1, <4>2
      <3> QED BY <1>2, <2>1, <2>2, <2>3, <3>1, <3>2 DEF FarEnd
    <2> QED BY <2>4, <2>5
  <1>7. CASE SendFcs
    <2>1. PICK d \in DataTypes, good \in BOOLEAN, end \in BOOLEAN, dcs \in BOOLEAN \union { NONE } :
           /\ far.sig \in Hdlcs /\ ~far.over
           /\ far'.sig = far.sig /\ far'.k = 0 /\ ~far'.whole /\ far'.over = end
           /\ far'.f = (IF end THEN far.f ELSE far.f + 1)
           /\ far'.spoilt = (IF good THEN far.spoilt ELSE far.spoilt \union { far.f })
           /\ TellsNoMore
           /\ Sends(FcsOps(d, good, end, dcs), << d, "fcs", good, end >>, "hdlc")
      BY <1>7, SendFcsIs
    <2>2. far'.lost >= far.lost /\ (far'.gap => far'.lost > 0)
      BY <1>3, <2>1
    <2>3. Goes(far) /\ (Goes(far') <=> ~end)
      BY <2>1 DEF Goes
    <2>4. far'.spoilt \subseteq far.spoilt \union { far.f } /\ far.spoilt \subseteq far'.spoilt
      BY <2>1
    <2>5. Grows(far, far')
      <3>1. Turns(far, far')
        BY <2>1, <2>3, <2>4 DEF Turns
      <3>2. far.headless \subseteq far'.headless
        BY <2>1 DEF TellsNoMore
      <3> QED BY <1>1, <2>2, <3>1, <3>2, GrowsIs
    <2>6. FarEnd(far')
      <3>1. /\ far'.spoilt \subseteq 0 .. far.f
            /\ far'.heard <= far'.n /\ (far'.headless # {} => far'.lost > 0)
        BY <1>2, <2>1, <2>2, <2>4 DEF TellsNoMore
      <3>2. CASE end
        BY <2>1, <2>2, <2>3, <3>1, <3>2 DEF FarEnd
      <3>3. CASE ~end
        BY <1>2, <2>1, <2>2, <2>3, <3>1, <3>3 DEF FarEnd
      <3> QED BY <3>2, <3>3
    <2> QED BY <2>5, <2>6
  <1>8. ASSUME ~Goes(far'), far'.f = far.f, far'.spoilt = far.spoilt, TellsNoMore,
               NEW ops, NEW packet, NEW class, Sends(ops, packet, class)
        PROVE  Grows(far, far') /\ FarEnd(far')
    <2>1. far'.lost >= far.lost /\ (far'.gap => far'.lost > 0)
      BY <1>3, <1>8
    <2>2. Grows(far, far')
      <3>1. Turns(far, far')
        BY <1>8 DEF Turns
      <3>2. far.headless \subseteq far'.headless
        BY <1>8 DEF TellsNoMore
      <3> QED BY <1>1, <2>1, <3>1, <3>2, GrowsIs
    <2>3. far'.heard <= far'.n /\ (far'.headless # {} => far'.lost > 0)
      BY <1>2, <1>8, <2>1 DEF TellsNoMore
    <2> QED BY <1>2, <1>8, <2>1, <2>2, <2>3 DEF FarEnd
  <1>9. CASE SendHdlcEnd \/ SendNonEcmEnd
    <2>1. PICK d \in DataTypes, pushes \in BOOLEAN, field \in Packets :
           /\ far'.over /\ far'.f = far.f /\ far'.spoilt = far.spoilt /\ TellsNoMore
           /\ Sends(IF hdlc.last = field THEN << >> ELSE SignalEnd(d, pushes), field,
                    hdlc.field_class)
      BY <1>9, SendEndIs
    <2>2. ~Goes(far')
      BY <2>1 DEF Goes
    <2> QED BY <1>8, <2>1, <2>2
  <1>10. CASE SendOctet
    <2>1. PICK x \in Octets :
           /\ far.sig \in NonEcms /\ far'.sig = far.sig
           /\ far'.f = far.f /\ far'.spoilt = far.spoilt /\ TellsNoMore
           /\ Sends(Append(Missing("fast"), << "inject", x >>), << "fast", "t4" >>, "non_ecm")
      BY <1>10, SendOctetIs
    <2>2. ~Goes(far')
      BY <1>4, <2>1 DEF Goes
    <2> QED BY <1>8, <2>1, <2>2
  <1>11. CASE SendNoSignal
    <2>1. /\ far'.over /\ far'.f = far.f /\ far'.spoilt = far.spoilt /\ TellsNoMore
          /\ Sends(IF hdlc.current_rx_indicator = "no_signal" THEN << >>
                   ELSE << << "ind", "no_signal" >> >>, NONE, hdlc.field_class)
      BY <1>11, SendNoSignalIs
    <2>2. ~Goes(far')
      BY <2>1 DEF Goes
    <2> QED BY <1>8, <2>1, <2>2
  <1> QED BY <1>5, <1>6, <1>7, <1>9, <1>10, <1>11 DEF Continue

(* What is to do for a packet.                                             *)
LEMMA AsksOps ==
  ASSUME NEW w, w.sig # NONE, NEW a, a[1] = "ind", Goes(w) => a = IndOp(TypeOf(w.sig)),
         NEW e, e[1] = "end", NEW x
  PROVE  /\ Asks(w, << >>)
         /\ (Goes(w) => w.k = 0) => Asks(w, << a >>)
         /\ x[1] = "fcs" /\ (Goes(w) => w.k = 0) => Asks(w, << x >>) /\ Asks(w, << a, x >>)
         /\ x[1] = "fcs" /\ ~Goes(w) => Asks(w, << x, e >>) /\ Asks(w, << a, x, e >>)
         /\ x[1] = "data" /\ x[2].last = w.whole /\ x[2].d = TypeOf(w.sig) /\ w.k > 0 =>
              Asks(w, << x >>) /\ Asks(w, << a, x >>)
         /\ x[1] = "inject" /\ ~Goes(w) => Asks(w, << x >>) /\ Asks(w, << a, x >>)
  <1>1. Asks(w, << >>)
    BY DEF Asks
  <1>2. (Goes(w) => w.k = 0) => Asks(w, << a >>)
    BY DEF Asks
  <1>3. ASSUME x[1] = "fcs"
        PROVE  /\ (Goes(w) => w.k = 0) => Asks(w, << x >>) /\ Asks(w, << a, x >>)
               /\ ~Goes(w) => Asks(w, << x, e >>) /\ Asks(w, << a, x, e >>)
    <2>1. (Goes(w) => w.k = 0) => Asks(w, << x >>)
      BY <1>3 DEF Asks
    <2>2. (Goes(w) => w.k = 0) => Asks(w, << a, x >>)
      BY <1>3 DEF Asks
    <2>3. ~Goes(w) => Asks(w, << x, e >>)
      BY <1>3 DEF Asks
    <2>4. ~Goes(w) => Asks(w, << a, x, e >>)
      BY <1>3 DEF Asks
    <2> QED BY <2>1, <2>2, <2>3, <2>4
  <1>4. ASSUME x[1] = "data", x[2].last = w.whole, x[2].d = TypeOf(w.sig), w.k > 0
        PROVE  Asks(w, << x >>) /\ Asks(w, << a, x >>)
    <2> DEFINE p == x[2]
    <2>1. p.last = w.whole /\ p.d = TypeOf(w.sig)
      BY <1>4
    <2> HIDE DEF p
    <2>2. Asks(w, << x >>)
      <3>1. \E i \in DOMAIN << x >> : << x >>[i][1] = "data"
        BY <1>4
      <3> QED BY <1>4, <2>1, <3>1 DEF Asks, p
    <2>3. Asks(w, << a, x >>)
      <3>1. << a, x >>[2][1] = "data" /\ 2 \in DOMAIN << a, x >>
        BY <1>4
      <3>2. \E i \in DOMAIN << a, x >> : << a, x >>[i][1] = "data"
        BY <3>1
      <3> QED BY <1>4, <2>1, <3>2 DEF Asks, p
    <2> QED BY <2>2, <2>3
  <1>5. x[1] = "inject" /\ ~Goes(w) => Asks(w, << x >>) /\ Asks(w, << a, x >>)
    BY DEF Asks
  <1> QED BY <1>1, <1>2, <1>3, <1>4, <1>5

LEMMA AsksEnd ==
  ASSUME NEW w, w.sig # NONE, ~Goes(w), NEW a, a[1] = "ind", NEW e, e[1] = "end",
         NEW u, NEW v, NEW t, u[1] = "push", v[1] = "pushed", t[1] = "throw"
  PROVE  /\ Asks(w, << u, v, e >>) /\ Asks(w, << t, e >>)
         /\ Asks(w, << a, u, v, e >>) /\ Asks(w, << a, t, e >>)
  <1>1. Asks(w, << u, v, e >>)
    BY DEF Asks
  <1>2. Asks(w, << t, e >>)
    BY DEF Asks
  <1>3. Asks(w, << a, u, v, e >>)
    BY DEF Asks
  <1>4. Asks(w, << a, t, e >>)
    BY DEF Asks
  <1> QED BY <1>1, <1>2, <1>3, <1>4

LEMMA SendingSends ==
  ASSUME Types, Types', FarEnd(far'), Sending, NEW ops, NEW packet, NEW class, Sends(ops, packet, class),
         Asks(far', ops), Asks(far', << >>),
         Goes(far') /\ far'.k > 0 => packet = << TypeOf(far'.sig), "data" >>,
         far'.sig = NONE /\ ops = << >> => hdlc.current_rx_indicator \in { NONE, "no_signal" }
  PROVE  Sending'
  <1>1. Asks(far', main'.todo)
    BY SendsKeeps
  <1>2. Heard(far', main'.todo, hdlc'.last, hdlc'.current_rx_indicator)
    BY DEF Sends, SeenAs, Heard
  <1> QED BY <1>1, <1>2 DEF Sending

LEMMA SendingPackets ==
  ASSUME Types, Types', Sending, Begin \/ Continue
  PROVE  Sending'
  <1> DEFINE cur == hdlc.current_rx_indicator
  <1>1. FarEnd(far')
    BY FarGrows DEF Sending
  <1>2. NONE \notin Hdlcs \union NonEcms /\ Hdlcs \intersect NonEcms = {}
    BY NoneIs DEF Hdlcs, NonEcms
  <1>3. << "end" >>[1] = "end" /\ (\A d : IndOp(d)[1] = "ind") /\ \A i : << "ind", i >>[1] = "ind"
    BY DEF IndOp
  <1>4. CASE Begin
    <2>1. PICK sig \in Hdlcs \union NonEcms :
           /\ far'.sig = sig /\ far'.k = 0
           /\ Sends(IF cur = Expected(TypeOf(sig)) THEN << >>
                    ELSE << << "ind", Expected(TypeOf(sig)) >> >>, NONE, hdlc.field_class)
      BY <1>4, BeginIs
    <2> DEFINE a == << "ind", Expected(TypeOf(sig)) >>
               e == << "end" >>
               q == IF cur = Expected(TypeOf(sig)) THEN << >> ELSE << a >>
    <2>2. /\ a[1] = "ind" /\ e[1] = "end" /\ Sends(q, NONE, hdlc.field_class)
          /\ a = IndOp(TypeOf(far'.sig))
      BY <1>3, <2>1 DEF IndOp
    <2>3. far'.sig # NONE
      BY <1>2, <2>1
    <2>4. q = << >> \/ q = << a >>
      OBVIOUS
    <2> HIDE DEF a, e, q
    <2>5. Asks(far', q) /\ Asks(far', << >>)
      BY <2>1, <2>2, <2>3, <2>4, AsksOps
    <2> QED BY <1>1, <2>1, <2>2, <2>3, <2>5, SendingSends
  <1>5. CASE SendPiece
    <2>1. PICK p \in Pieces :
           /\ far.sig \in Hdlcs /\ far'.sig = far.sig /\ far'.k = far.k + 1
           /\ far'.whole = p.last /\ p.d = TypeOf(far.sig)
           /\ Sends(Append(Missing(p.d), << "data", p >>), << p.d, "data" >>, "hdlc")
      BY <1>5, SendPieceIs
    <2> DEFINE a == IndOp(p.d)
               e == << "end" >>
               x == << "data", p >>
               q == Append(Missing(p.d), x)
    <2>2. /\ a[1] = "ind" /\ e[1] = "end" /\ x[1] = "data" /\ x[2] = p
          /\ a = IndOp(TypeOf(far'.sig)) /\ Sends(q, << p.d, "data" >>, "hdlc")
      BY <1>3, <2>1
    <2>3. far'.sig # NONE /\ far'.k > 0
      BY <1>2, <2>1 DEF Types, FarTypes
    <2>4. q = << x >> \/ q = << a, x >>
      BY DataOpsIs
    <2> HIDE DEF a, e, x, q
    <2>5. Asks(far', q) /\ Asks(far', << >>)
      BY <2>1, <2>2, <2>3, <2>4, AsksOps
    <2> QED BY <1>1, <2>1, <2>2, <2>3, <2>5, SendingSends
  <1>6. CASE SendFcs
    <2>1. PICK d \in DataTypes, good \in BOOLEAN, end \in BOOLEAN, dcs \in BOOLEAN \union { NONE } :
           /\ far.sig \in Hdlcs /\ far'.sig = far.sig /\ far'.k = 0 /\ far'.over = end
           /\ d = TypeOf(far.sig)
           /\ Sends(FcsOps(d, good, end, dcs), << d, "fcs", good, end >>, "hdlc")
      BY <1>6, SendFcsIs
    <2> DEFINE a == IndOp(d)
               e == << "end" >>
               x == FcsOp(d, good, end, dcs)
               q == FcsOps(d, good, end, dcs)
    <2>2. /\ a[1] = "ind" /\ e[1] = "end" /\ x[1] = "fcs" /\ a = IndOp(TypeOf(far'.sig))
          /\ Sends(q, << d, "fcs", good, end >>, "hdlc")
      BY <1>3, <2>1 DEF FcsOp
    <2>3. far'.sig # NONE
      BY <1>2, <2>1
    <2>4. \/ q \in { << >>, << x >>, << a, x >> }
          \/ end /\ q \in { << x, e >>, << a, x, e >> }
      <3>1. PlanOf(d, good, end, x, q)
        BY FcsOpsIs
      <3> HIDE DEF q, x
      <3>2. \/ q = << >>
            \/ q = IF end THEN << x, << "end" >> >> ELSE << x >>
            \/ q = IF end THEN << IndOp(d), x, << "end" >> >> ELSE << IndOp(d), x >>
        BY <3>1 DEF PlanOf
      <3> QED BY <3>2
    <2> HIDE DEF a, e, x, q
    <2>5. Asks(far', q) /\ Asks(far', << >>)
      <3>1. end => ~Goes(far')
        BY <2>1 DEF Goes
      <3> QED BY <2>1, <2>2, <2>3, <2>4, <3>1, AsksOps
    <2> QED BY <1>1, <2>1, <2>2, <2>3, <2>5, SendingSends
  <1>7. CASE SendHdlcEnd \/ SendNonEcmEnd
    <2>1. PICK d \in DataTypes, pushes \in BOOLEAN, field \in Packets :
           /\ far.sig # NONE /\ far'.sig = far.sig /\ far'.over
           /\ Sends(IF hdlc.last = field THEN << >> ELSE SignalEnd(d, pushes), field,
                    hdlc.field_class)
      BY <1>7, SendEndIs
    <2> DEFINE a == IndOp(d)
               e == << "end" >>
               u == << "push" >>
               v == << "pushed" >>
               t == << "throw" >>
               r == SignalEnd(d, pushes)
               q == IF hdlc.last = field THEN << >> ELSE r
    <2>2. r \in { << u, v, e >>, << t, e >>, << a, u, v, e >>, << a, t, e >> }
      BY SignalEndOpsIs
    <2>3. /\ u[1] = "push" /\ v[1] = "pushed" /\ t[1] = "throw" /\ a[1] = "ind" /\ e[1] = "end"
          /\ Sends(q, field, hdlc.field_class)
      BY <1>3, <2>1
    <2>4. far'.sig # NONE /\ ~Goes(far')
      BY <2>1 DEF Goes
    <2> HIDE DEF u, v, t, e, a, r
    <2>5. Asks(far', r)
      BY <2>2, <2>3, <2>4, AsksEnd
    <2>6. Asks(far', << >>)
      BY <2>3, <2>4, AsksOps
    <2>7. Asks(far', q)
      BY <2>5, <2>6
    <2> HIDE DEF q
    <2> QED BY <1>1, <2>3, <2>4, <2>6, <2>7, SendingSends
  <1>8. CASE SendOctet
    <2>1. PICK y \in Octets :
           /\ far.sig \in NonEcms /\ far'.sig = far.sig
           /\ Sends(Append(Missing("fast"), << "inject", y >>), << "fast", "t4" >>, "non_ecm")
      BY <1>8, SendOctetIs
    <2> DEFINE a == IndOp("fast")
               e == << "end" >>
               x == << "inject", y >>
               q == Append(Missing("fast"), x)
    <2>2. a[1] = "ind" /\ e[1] = "end" /\ x[1] = "inject" /\ Sends(q, << "fast", "t4" >>, "non_ecm")
      BY <1>3, <2>1
    <2>3. far'.sig # NONE /\ ~Goes(far')
      BY <1>2, <2>1 DEF Goes
    <2>4. q = << x >> \/ q = << a, x >>
      BY DataOpsIs
    <2> HIDE DEF a, e, x, q
    <2>5. Asks(far', q) /\ Asks(far', << >>)
      BY <2>1, <2>2, <2>3, <2>4, AsksOps
    <2> QED BY <1>1, <2>1, <2>2, <2>3, <2>5, SendingSends
  <1>9. CASE SendNoSignal
    <2>1. /\ far'.sig = NONE
          /\ Sends(IF cur = "no_signal" THEN << >> ELSE << << "ind", "no_signal" >> >>, NONE,
                   hdlc.field_class)
      BY <1>9, SendNoSignalIs
    <2>2. ~Goes(far')
      BY <1>2, <2>1 DEF Goes
    <2> DEFINE a == << "ind", "no_signal" >>
               q == IF cur = "no_signal" THEN << >> ELSE << a >>
    <2>3. Asks(far', << >>) /\ Asks(far', << a >>)
      BY <2>2 DEF Asks
    <2>4. Asks(far', q)
      BY <2>3
    <2>5. q = << >> => cur = "no_signal"
      OBVIOUS
    <2>6. Sends(q, NONE, hdlc.field_class)
      BY <2>1
    <2> HIDE DEF q
    <2> QED BY <1>1, <2>2, <2>3, <2>4, <2>5, <2>6, SendingSends
  <1> QED BY <1>4, <1>5, <1>6, <1>7, <1>8, <1>9 DEF Continue

(* The fax thread leaves the far end alone, and so does a look.             *)
LEMMA FaxLeaves ==
  ASSUME Types, Quiet \/ HdlcOctetsEnd \/ HdlcFlagsEnd \/ HdlcFrameEnd \/ NextTxType
  PROVE  /\ UNCHANGED far /\ main'.todo = main.todo
         /\ hdlc'.last = hdlc.last /\ hdlc'.current_rx_indicator = hdlc.current_rx_indicator
  <1>1. ASSUME NEW u, hdlc' = [hdlc EXCEPT !.tx = u]
        PROVE  hdlc'.last = hdlc.last /\ hdlc'.current_rx_indicator = hdlc.current_rx_indicator
    BY <1>1 DEF Types, Queue, HdlcTypes
  <1>2. CASE Quiet
    <2>1. UNCHANGED far /\ main'.todo = main.todo
      BY <1>2, QuietIs
    <2>2. CASE HdlcTxEnd
      <3>1. hdlc' = [hdlc EXCEPT !.tx = [hdlc.tx EXCEPT !.tx_end = FALSE]]
        BY <2>2 DEF HdlcTxEnd
      <3> QED BY <1>1, <2>1, <3>1
    <2>3. CASE Look \/ NextHandler \/ NonEcmBits \/ HearCfr \/ UNCHANGED gwVars
      <3>1. UNCHANGED hdlc
        BY <2>3 DEF Look, NextHandler, NonEcmBits, HearCfr, gwVars
      <3> QED BY <2>1, <3>1
    <2> QED BY <1>2, <2>2, <2>3 DEF Quiet
  <1>3. CASE HdlcOctetsEnd
    <2>1. hdlc' = [hdlc EXCEPT !.tx = [hdlc.tx EXCEPT !.crc = TRUE]]
      BY <1>3 DEF HdlcOctetsEnd
    <2>2. UNCHANGED << far, main >>
      BY <1>3, OctetsEndIs
    <2> QED BY <1>1, <2>1, <2>2
  <1>4. CASE HdlcFlagsEnd
    <2>1. CASE hdlc.tx.pieces # << >>
      <3>1. hdlc' = [hdlc EXCEPT !.tx = [hdlc.tx EXCEPT !.preamble = FALSE]]
        BY <1>4, <2>1 DEF HdlcFlagsEnd, PreambleDone
      <3>2. UNCHANGED << far, main >>
        BY <1>4, FlagsEndIs
      <3> QED BY <1>1, <3>1, <3>2
    <2>2. CASE hdlc.tx.pieces = << >>
      <3>1. UNCHANGED << far, main >> /\ \E t \in TxTypes : Ended(hdlc, t, hdlc')
        BY <1>4, <2>2, FlagsEndIs
      <3> QED BY <3>1 DEF Ended
    <2> QED BY <2>1, <2>2
  <1>5. CASE HdlcFrameEnd
    <2>1. UNCHANGED << far, main >> /\ \E t \in TxTypes : Ended(hdlc, t, hdlc')
      BY <1>5, FrameEndIs
    <2> QED BY <2>1 DEF Ended
  <1>6. CASE NextTxType
    BY <1>6, NextTxTypeIs DEF Types
  <1> QED BY <1>2, <1>3, <1>4, <1>5, <1>6

LEMMA SendingFax ==
  ASSUME Types, Sending, Quiet \/ HdlcOctetsEnd \/ HdlcFlagsEnd \/ HdlcFrameEnd \/ NextTxType
  PROVE  Sending'
  <1>1. /\ UNCHANGED far /\ main'.todo = main.todo
        /\ hdlc'.last = hdlc.last /\ hdlc'.current_rx_indicator = hdlc.current_rx_indicator
    BY FaxLeaves
  <1> QED BY <1>1 DEF Sending

(* What is left to do when the main thread is done with an operation.       *)
LEMMA AsksLess ==
  ASSUME NEW w, NEW s \in Seq(Ops), s # << >>, Asks(w, s),
         \A i \in DOMAIN s : s[i][1] = "data" => i = Len(s),
         NEW r, r = << >> \o Tail(s)
  PROVE  Asks(w, r) /\ (w.sig = NONE => s = << << "ind", "no_signal" >> >> /\ r = << >>)
  <1>1. /\ r \in Seq(Ops) /\ Len(r) = Len(s) - 1 /\ Len(s) \in Nat
        /\ \A i \in DOMAIN r : i \in Nat /\ i > 0 /\ i + 1 \in DOMAIN s /\ r[i] = s[i + 1]
        /\ \A i \in DOMAIN s : i > 1 => i - 1 \in DOMAIN r
    BY TailIs
  <1>2. DOMAIN s = 1 .. Len(s) /\ DOMAIN r = 1 .. Len(r)
    BY <1>1
  <1>3. w.sig = NONE => s = << << "ind", "no_signal" >> >> /\ r = << >>
    <2>1. w.sig = NONE => s = << << "ind", "no_signal" >> >>
      BY DEF Asks
    <2>2. s = << << "ind", "no_signal" >> >> => Len(s) = 1
      OBVIOUS
    <2>3. Len(s) = 1 => r = << >>
      BY <1>1
    <2> QED BY <2>1, <2>2, <2>3
  <1>4. ASSUME NEW i \in DOMAIN r
        PROVE  /\ r[i][1] = "data" =>
                    r[i][2].last = w.whole /\ r[i][2].d = TypeOf(w.sig) /\ w.k > 0
               /\ Goes(w) => r[i][1] \in { "ind", "data", "fcs" }
               /\ Goes(w) /\ r[i][1] = "ind" => r[i] = IndOp(TypeOf(w.sig))
               /\ r[i][1] = "fcs" => i = 1 \/ (i = 2 /\ r[1][1] = "ind")
    <2> DEFINE j == i + 1
    <2>1. j \in DOMAIN s /\ r[i] = s[j] /\ i \in Nat /\ i > 0 /\ j = i + 1
      BY <1>1
    <2> HIDE DEF j
    <2>2. /\ s[j][1] = "data" => s[j][2].last = w.whole /\ s[j][2].d = TypeOf(w.sig) /\ w.k > 0
          /\ Goes(w) => s[j][1] \in { "ind", "data", "fcs" }
          /\ Goes(w) /\ s[j][1] = "ind" => s[j] = IndOp(TypeOf(w.sig))
          /\ s[j][1] = "fcs" => j = 1 \/ (j = 2 /\ s[1][1] = "ind")
      BY <2>1 DEF Asks
    <2> QED BY <2>1, <2>2
  <1>5. ASSUME Goes(w), r # << >>
        PROVE  w.k = 0 \/ \E i \in DOMAIN r : r[i][1] = "data"
    <2>1. w.k = 0 \/ \E i \in DOMAIN s : s[i][1] = "data"
      BY <1>5 DEF Asks
    <2>2. ASSUME NEW i \in DOMAIN s, s[i][1] = "data" PROVE \E j \in DOMAIN r : r[j][1] = "data"
      <3>1. i = Len(s) /\ Len(r) > 0
        BY <1>1, <1>5, <2>2
      <3>2. i - 1 \in DOMAIN r
        BY <1>1, <1>2, <3>1
      <3>3. r[i - 1] = s[i]
        BY <1>1, <1>2, <3>1, <3>2
      <3> QED BY <2>2, <3>2, <3>3
    <2> QED BY <2>1, <2>2
  <1> QED BY <1>3, <1>4, <1>5 DEF Asks

(* What the main thread leaves of what t38_core remembers.                  *)
LEMMA MainLeaves ==
  ASSUME Types, Queued \/ Injected \/ Pushed \/ Throw
  PROVE  /\ main.todo # << >> /\ Done(<< >>) /\ UNCHANGED far /\ hdlc'.last = hdlc.last
         /\ main'.todo = << >> \o Tail(main.todo) /\ main.todo \in Seq(Ops)
         /\ main.todo = << << "ind", "no_signal" >> >> => hdlc'.current_rx_indicator = "no_signal"
         /\ Op = "ind" => hdlc'.current_rx_indicator = main.todo[1][2]
         /\ Op \in { "data", "fcs" } => hdlc'.current_rx_indicator = hdlc.current_rx_indicator
  <1>1. main.todo # << >> /\ Done(<< >>) /\ UNCHANGED far
    BY DEF Queued, Injected, Pushed, Throw, Done
  <1>2. main'.todo = << >> \o Tail(main.todo) /\ main.todo \in Seq(Ops) /\ Queue(hdlc)
    BY <1>1, DoneTypes DEF Types, MainTypes
  <1>3. CASE Injected \/ Pushed \/ Throw
    <2>1. Op \notin { "ind", "data", "fcs" }
      BY <1>3 DEF Injected, Pushed, Throw
    <2>2. main.todo # << << "ind", "no_signal" >> >>
      BY <2>1 DEF Op
    <2>3. hdlc'.last = hdlc.last
      <3>1. CASE Injected \/ Pushed
        BY <3>1 DEF Injected, Pushed
      <3>2. CASE Throw
        <4> DEFINE g == hdlc'
        <4>1. g = ThrownOut(hdlc)
          BY <3>2 DEF Throw
        <4> HIDE DEF g
        <4>2. g.last = hdlc.last
          BY <1>2, <4>1, ReusedIs
        <4> QED BY <4>2 DEF g
      <3> QED BY <1>3, <3>1, <3>2
    <2> QED BY <1>1, <1>2, <2>1, <2>2, <2>3
  <1>4. CASE Queued
    <2> DEFINE op == main.todo[1]
               g  == hdlc'
    <2>1. /\ Op = op[1]
          /\ \/ /\ Op = "ind" /\ op[2] \in Indicators /\ g = RxIndicator(hdlc, op[2], main.same)
             \/ /\ Op = "end" /\ op = << "end" >>
                /\ g = [RxIndicator(hdlc, "no_signal", main.same) EXCEPT !.field_class = "none"]
             \/ /\ Op = "data" /\ op[2] \in Pieces /\ g = RxData(hdlc, op[2], main.same)
             \/ /\ Op = "fcs" /\ op[2] \in DataTypes /\ op[3] \in BOOLEAN
                /\ g = IF ~op[3] /\ op[5] /\ hdlc.buf[hdlc.in].pieces = << >>
                       THEN Reused(hdlc) ELSE Finalise(hdlc, op[2], op[3], main.same)
      BY <1>4, QueuedIs
    <2> HIDE DEF g
    <2>2. ASSUME NEW i \in Indicators,
                 \/ g = RxIndicator(hdlc, i, main.same)
                 \/ g = [RxIndicator(hdlc, i, main.same) EXCEPT !.field_class = "none"]
          PROVE  g.last = hdlc.last /\ g.current_rx_indicator = i
      <3>1. CASE hdlc.current_rx_indicator # i
        <4>1. /\ g.buf = [hdlc.buf EXCEPT ![Landing(hdlc)] =
                           [hdlc.buf[Landing(hdlc)] EXCEPT !.contents = Ind(i)]]
              /\ Landing(hdlc) \in Bufs
              /\ g.in = Nxt(Landing(hdlc)) /\ g.out = hdlc.out /\ g.last = hdlc.last
              /\ g.tx = hdlc.tx \/ g.tx = [hdlc.tx EXCEPT !.tx_end = TRUE]
              /\ g.current_rx_indicator = i
          BY <1>2, <2>2, <3>1, RxIndicatorIs
        <4> QED BY <4>1
      <3>2. CASE hdlc.current_rx_indicator = i
        <4>1. g = hdlc \/ g = [hdlc EXCEPT !.field_class = "none"]
          BY <2>2, <3>2 DEF RxIndicator
        <4> QED BY <1>2, <3>2, <4>1 DEF Queue, HdlcTypes
      <3> QED BY <3>1, <3>2
    <2>3. CASE Op = "ind"
      <3>1. op[2] \in Indicators /\ g = RxIndicator(hdlc, op[2], main.same)
        BY <2>1, <2>3
      <3>2. g.last = hdlc.last /\ g.current_rx_indicator = op[2]
        BY <2>2, <3>1
      <3>3. main.todo = << << "ind", "no_signal" >> >> => op[2] = "no_signal"
        OBVIOUS
      <3>4. op[2] = main.todo[1][2]
        OBVIOUS
      <3> HIDE DEF op
      <3> QED BY <1>1, <1>2, <2>3, <3>2, <3>3, <3>4 DEF g
    <2>4. main.todo = << << "ind", "no_signal" >> >> => Op = "ind"
      BY DEF Op
    <2>5. CASE Op # "ind"
      <3>1. CASE Op = "end"
        <4>1. "no_signal" \in Indicators
          BY DEF Indicators
        <4>2. g = [RxIndicator(hdlc, "no_signal", main.same) EXCEPT !.field_class = "none"]
          BY <2>1, <3>1
        <4>3. g.last = hdlc.last
          BY <2>2, <4>1, <4>2
        <4> QED BY <1>1, <1>2, <2>4, <2>5, <3>1, <4>3 DEF g
      <3>2. CASE Op = "data"
        <4>1. PutIn(hdlc, g, op[2], main.same)
          BY <1>2, <2>1, <3>2, RxDataIs
        <4>2. g.last = hdlc.last /\ g.current_rx_indicator = hdlc.current_rx_indicator
          BY <4>1 DEF PutIn
        <4> QED BY <1>1, <1>2, <2>4, <2>5, <4>2 DEF g
      <3>3. CASE Op = "fcs"
        <4>1. CASE g = Reused(hdlc)
          BY <1>1, <1>2, <2>4, <2>5, <4>1, ReusedIs DEF g
        <4>2. CASE g = Finalise(hdlc, op[2], op[3], main.same)
          <5>1. op[2] \in DataTypes /\ op[3] \in BOOLEAN
            BY <2>1, <3>3
          <5>2. g.last = hdlc.last /\ g.current_rx_indicator = hdlc.current_rx_indicator
            <6> DEFINE f   == Finalise(hdlc, op[2], op[3], main.same)
                       b   == hdlc.buf[hdlc.in]
                       bad == Spoilt(b, op[3])
                       tx1 == IF "PROCEED" \in b.flags THEN hdlc.tx ELSE TxFrame(hdlc.tx, b.pieces)
            <6>1. /\ f.in = Nxt(hdlc.in) /\ f.out = hdlc.out /\ f.last = hdlc.last
                  /\ f.current_rx_indicator = hdlc.current_rx_indicator
                  /\ f.buf = [[hdlc.buf EXCEPT ![hdlc.in] = Complete(b, op[2], bad)]
                               EXCEPT ![Nxt(hdlc.in)] = Cleared]
                  /\ f.tx = IF ~main.same THEN hdlc.tx ELSE IF bad THEN TxCorrupt(tx1) ELSE tx1
              BY <1>2, <5>1, FinaliseIs
            <6> QED BY <4>2, <6>1
          <5> QED BY <1>1, <1>2, <2>4, <2>5, <5>2 DEF g
        <4> QED BY <2>1, <3>3, <4>1, <4>2
      <3> QED BY <2>1, <2>5, <3>1, <3>2, <3>3
    <2> QED BY <2>3, <2>5
  <1> QED BY <1>3, <1>4

LEMMA SendingMain ==
  ASSUME Types, OrderInv, Sending, Queued \/ Injected \/ Pushed \/ Throw
  PROVE  Sending' /\ Asks(far, main'.todo)
  <1> DEFINE s == main.todo
             r == main'.todo
  <1>1. /\ s # << >> /\ s \in Seq(Ops) /\ r = << >> \o Tail(s) /\ UNCHANGED far
        /\ hdlc'.last = hdlc.last
        /\ s = << << "ind", "no_signal" >> >> => hdlc'.current_rx_indicator = "no_signal"
    BY MainLeaves
  <1>2. \A i \in DOMAIN s : s[i][1] = "data" => i = Len(s)
    BY DEF OrderInv, InHand
  <1>3. Asks(far, s)
    BY DEF Sending
  <1> HIDE DEF s, r
  <1>4. Asks(far, r) /\ (far.sig = NONE => s = << << "ind", "no_signal" >> >> /\ r = << >>)
    BY <1>1, <1>2, <1>3, AsksLess
  <1>5. Heard(far, r, hdlc'.last, hdlc'.current_rx_indicator)
    BY <1>1, <1>4 DEF Heard, Sending
  <1> QED BY <1>1, <1>4, <1>5 DEF Sending, r

LEMMA SendingNext ==
  ASSUME Types, Types', OrderInv, Sending, [GwNext]_gwVars
  PROVE  Sending'
  BY SendingPackets, SendingFax, SendingMain DEF GwNext, Main, Fax, Quiet

(* The fax thread empties buffers, and leaves the one at in alone.          *)
LEMMA FairCleared ==
  ASSUME NEW w
  PROVE  Fair(w, Cleared)
  BY DEF Fair, Cleared

LEMMA FaithfulLess ==
  ASSUME Faithful, UNCHANGED far, main'.todo = main.todo, hdlc'.in = hdlc.in,
         hdlc'.buf[hdlc.in] = hdlc.buf[hdlc.in],
         \A b \in Bufs : hdlc'.buf[b] = hdlc.buf[b] \/ hdlc'.buf[b] = Cleared
  PROVE  Faithful'
  <1>1. Judged(far, hdlc.buf) /\ AtIn(far, hdlc.buf[hdlc.in], main.todo)
    BY DEF Faithful
  <1>2. Judged(far, hdlc'.buf)
    BY <1>1, FairCleared DEF Judged
  <1>3. AtIn(far, hdlc'.buf[hdlc'.in], main'.todo)
    BY <1>1
  <1> QED BY <1>2, <1>3 DEF Faithful

LEMMA FaithfulOut ==
  ASSUME Types, Faithful, UNCHANGED far, main'.todo = main.todo, hdlc'.in = hdlc.in,
         hdlc.in # hdlc.out, hdlc'.buf = [hdlc.buf EXCEPT ![hdlc.out] = Cleared]
  PROVE  Faithful'
  <1>1. hdlc.in \in Bufs /\ hdlc.out \in Bufs /\ hdlc.buf \in [Bufs -> BufTypes]
    BY FieldsOf DEF Types
  <1>2. /\ hdlc'.buf[hdlc.in] = hdlc.buf[hdlc.in]
        /\ \A b \in Bufs : hdlc'.buf[b] = hdlc.buf[b] \/ hdlc'.buf[b] = Cleared
    BY <1>1
  <1> QED BY <1>2, FaithfulLess

LEMMA FaithfulFax ==
  ASSUME Types, Uncrossed, Faithful, Well',
         Quiet \/ HdlcOctetsEnd \/ HdlcFlagsEnd \/ HdlcFrameEnd \/ NextTxType
  PROVE  Faithful'
  <1>1. UNCHANGED far /\ main'.todo = main.todo
    BY FaxLeaves
  <1>2. ASSUME RingKept PROVE Faithful'
    BY <1>1, <1>2, FaithfulLess DEF RingKept
  <1>3. CASE Quiet
    BY <1>2, <1>3, QuietIs
  <1>4. CASE HdlcOctetsEnd
    BY <1>2, <1>4, OctetsEndIs
  <1>5. ASSUME NEW t, Ended(hdlc, t, hdlc'),
               "PROCEED" \in hdlc.buf[hdlc.out].flags => hdlc.in # hdlc.out
        PROVE  Faithful'
    <2>1. CASE "PROCEED" \notin hdlc.buf[hdlc.out].flags
      <3>1. RingKept
        BY <1>5, <2>1 DEF Ended, RingKept
      <3> QED BY <1>2, <3>1
    <2>2. CASE "PROCEED" \in hdlc.buf[hdlc.out].flags
      <3>1. hdlc'.in = hdlc.in /\ hdlc'.buf = [hdlc.buf EXCEPT ![hdlc.out] = Cleared]
        BY <1>5, <2>2 DEF Ended
      <3> QED BY <1>1, <1>5, <2>2, <3>1, FaithfulOut
    <2> QED BY <2>1, <2>2
  <1>6. CASE HdlcFlagsEnd
    <2>1. \/ RingKept
          \/ hdlc.tx.pieces = << >> /\ \E t \in TxTypes : Ended(hdlc, t, hdlc')
      BY <1>6, FlagsEndIs
    <2>2. hdlc.tx.pieces = << >> =>
            ("PROCEED" \in hdlc.buf[hdlc.out].flags => hdlc.in # hdlc.out)
      BY <1>6, FlagsEndAhead
    <2> QED BY <1>2, <1>5, <2>1, <2>2
  <1>7. CASE HdlcFrameEnd
    BY <1>5, <1>7, FrameEndIs, FrameEndAhead
  <1>8. CASE NextTxType
    <2>1. PICK i \in Indicators : Starts(i)
      BY <1>8, NextTxTypeStarts
    <2> QED BY <1>1, <2>1, FaithfulOut DEF Starts
  <1> QED BY <1>3, <1>4, <1>6, <1>7, <1>8

(* Where nothing has come yet.                                             *)
LEMMA AtInFresh ==
  ASSUME NEW w, NEW s, s.contents = NONE, s.pieces = << >>, NEW ops,
         Goes(w) /\ ops = << >> => w.k = 0,
         \A i \in DOMAIN ops : ops[i][1] = "data" =>
           /\ ops[i][2].k = w.k /\ ops[i][2].d \in DataTypes /\ w.k \in Nat /\ w.k > 0
           /\ w.lost = 0 => ops[i][2].ff
           /\ ops[i][2].ff => ops[i][2].k = 1 \/ w.f \in w.headless
  PROVE  AtIn(w, s, ops)
  <1>1. ASSUME NEW done PROVE Begun(w, s, 0, done)
    BY DEF Begun
  <1>2. \A d \in DataTypes : s.contents # Data(d)
    BY ExpectedIs
  <1>3. Goes(w) /\ ops = << >> /\ ~w.gap => Begun(w, s, w.k, w.whole)
    BY <1>1
  <1>4. ASSUME NEW i \in DOMAIN ops, ops[i][1] = "data"
        PROVE  /\ Headed(s, ops[i][2]) => Begun(w, s, w.k - 1, FALSE)
               /\ ops[i][2].ff => ops[i][2].k = 1 \/ w.f \in w.headless
               /\ w.lost = 0 => ops[i][2].ff
    <2> DEFINE p == ops[i][2]
    <2>1. /\ p.k = w.k /\ p.d \in DataTypes /\ w.k \in Nat /\ w.k > 0
          /\ w.lost = 0 => p.ff
          /\ p.ff => p.k = 1 \/ w.f \in w.headless
      BY <1>4
    <2> HIDE DEF p
    <2>2. Headed(s, p) => p.ff
      BY <1>2, <2>1 DEF Headed
    <2>3. p.ff => Begun(w, s, w.k - 1, FALSE)
      <3>1. Len(s.pieces) = 0
        OBVIOUS
      <3>2. p.ff => 0 = w.k - 1 \/ (0 < w.k - 1 /\ w.f \in w.headless)
        BY <2>1
      <3> QED BY <3>1, <3>2 DEF Begun
    <2> QED BY <2>1, <2>2, <2>3 DEF p
  <1> QED BY <1>3, <1>4 DEF AtIn

(* The main thread is done with an operation that is none of a piece, and  *)
(* in is at a buffer to which nothing has come.                            *)
LEMMA AtInNext ==
  ASSUME Types, OrderInv, Sending, Faithful, main.todo # << >>, Done(<< >>), Op # "data",
         NEW s, s.contents = NONE, s.pieces = << >>
  PROVE  AtIn(far, s, main'.todo)
  <1> DEFINE t == main.todo
             r == main'.todo
  <1>1. /\ r = << >> \o Tail(t) /\ t \in Seq(Ops)
        /\ ToDo("data") => Len(r) = 1
    BY OrderDone DEF Types, MainTypes
  <1>2. /\ \A i \in DOMAIN t : t[i][1] = "data" =>
             /\ i = Len(t) /\ t[i][2].k = far.k /\ t[i][2] \in Pieces
             /\ far.k \in Nat /\ far.k > 0
    BY HandIs DEF OrderInv, InHand, ToDo, Sending, Asks, Types, FarTypes
  <1>3. Goes(far) => far.k = 0 \/ ToDo("data")
    BY DEF Sending, Asks, ToDo
  <1>4. \A i \in DOMAIN t : t[i][1] = "data" /\ i # 1 =>
          /\ far.lost = 0 => t[i][2].ff
          /\ t[i][2].ff => t[i][2].k = 1 \/ far.f \in far.headless
    BY DEF Faithful, AtIn
  <1>5. t # << >>
    OBVIOUS
  <1> HIDE DEF t, r
  <1>6. \A i \in DOMAIN r : i \in Nat /\ i > 0 /\ i + 1 \in DOMAIN t /\ r[i] = t[i + 1]
    BY <1>1, <1>5, TailIs
  <1>7. Goes(far) /\ r = << >> => far.k = 0
    BY <1>1, <1>3
  <1>8. ASSUME NEW i \in DOMAIN r, r[i][1] = "data"
        PROVE  /\ r[i][2].k = far.k /\ r[i][2].d \in DataTypes /\ far.k \in Nat /\ far.k > 0
               /\ far.lost = 0 => r[i][2].ff
               /\ r[i][2].ff => r[i][2].k = 1 \/ far.f \in far.headless
    <2>1. i + 1 \in DOMAIN t /\ r[i] = t[i + 1] /\ i + 1 # 1
      BY <1>6
    <2>2. /\ r[i][2] \in Pieces /\ r[i][2].k = far.k /\ far.k \in Nat /\ far.k > 0
          /\ far.lost = 0 => r[i][2].ff
          /\ r[i][2].ff => r[i][2].k = 1 \/ far.f \in far.headless
      BY <1>2, <1>4, <1>8, <2>1
    <2> QED BY <2>2 DEF Pieces
  <1>9. AtIn(far, s, r)
    BY <1>7, <1>8, AtInFresh
  <1> QED BY <1>9 DEF r

(* No frame is being sent while the main thread is at the end of a signal.  *)
LEMMA AtInOver ==
  ASSUME Types, OrderInv, Sending, main.todo # << >>, Done(<< >>), Op \notin { "ind", "data", "fcs" }
  PROVE  ~Goes(far) /\ \A s : AtIn(far, s, main'.todo)
  <1> DEFINE t == main.todo
             r == main'.todo
  <1>1. r = << >> \o Tail(t) /\ t \in Seq(Ops) /\ t # << >>
    BY DEF Types, MainTypes, Done
  <1>2. Op = Head(t)[1]
    BY DEF Op
  <1>3. \A i \in DOMAIN t : t[i][1] = "data" => Goes(far)
    BY DEF OrderInv, InHand, Open, Goes
  <1>4. \A i \in DOMAIN t : /\ Goes(far) => t[i][1] \in { "ind", "data", "fcs" }
                            /\ t[i][1] = "fcs" => i = 1 \/ (i = 2 /\ t[1][1] = "ind")
    BY DEF Sending, Asks
  <1> HIDE DEF t, r
  <1>5. /\ Head(t) = t[1] /\ 1 \in DOMAIN t
        /\ \A i \in DOMAIN r : i \in Nat /\ i > 0 /\ i + 1 \in DOMAIN t /\ r[i] = t[i + 1]
    BY <1>1, TailIs
  <1>6. ~Goes(far)
    BY <1>2, <1>4, <1>5
  <1>7. \A i \in DOMAIN r : r[i][1] # "data" /\ r[i][1] # "fcs"
    <2> TAKE i \in DOMAIN r
    <2>1. i + 1 \in DOMAIN t /\ r[i] = t[i + 1] /\ i + 1 # 1
      BY <1>5
    <2>2. r[i][1] # "data"
      BY <1>3, <1>6, <2>1
    <2>3. r[i][1] # "fcs"
      BY <1>2, <1>4, <1>5, <2>1
    <2> QED BY <2>2, <2>3
  <1>8. \A s : AtIn(far, s, r)
    BY <1>6, <1>7 DEF AtIn
  <1> QED BY <1>6, <1>8 DEF r

(* The end of a signal: the buffers are left alone, or emptied, or change  *)
(* their contents.                                                         *)
LEMMA FaithfulOver ==
  ASSUME Types, OrderInv, Sending, Faithful, main.todo # << >>, Done(<< >>),
         Op \notin { "ind", "data", "fcs" },
         \A b \in Bufs : \/ hdlc'.buf[b] = Cleared
                         \/ /\ hdlc'.buf[b].pieces = hdlc.buf[b].pieces
                            /\ hdlc'.buf[b].flags = hdlc.buf[b].flags
  PROVE  Faithful'
  <1>1. UNCHANGED far /\ Judged(far, hdlc.buf)
    BY DEF Done, Faithful
  <1>2. \A s : AtIn(far, s, main'.todo)
    BY AtInOver
  <1>3. Judged(far, hdlc'.buf)
    <2> SUFFICES ASSUME NEW b \in Bufs PROVE Fair(far, hdlc'.buf[b])
      BY DEF Judged
    <2>1. Fair(far, hdlc.buf[b])
      BY <1>1 DEF Judged
    <2> QED BY <2>1, FairCleared DEF Fair
  <1> QED BY <1>1, <1>2, <1>3 DEF Faithful

LEMMA FaithfulPlain ==
  ASSUME Types, OrderInv, Sending, Faithful, Injected \/ Pushed
  PROVE  Faithful'
  <1>1. main.todo # << >> /\ Done(<< >>) /\ Op \notin { "ind", "data", "fcs" } /\ UNCHANGED hdlc
    BY DEF Injected, Pushed
  <1> QED BY <1>1, FaithfulOver

LEMMA FaithfulThrow ==
  ASSUME Types, OrderInv, Sending, Faithful, Throw
  PROVE  Faithful'
  <1> DEFINE g == hdlc'
  <1>1. main.todo # << >> /\ Done(<< >>) /\ Op = "throw" /\ Queue(hdlc) /\ g = ThrownOut(hdlc)
    BY DEF Throw, Types
  <1>2. hdlc.in \in Bufs /\ hdlc.buf \in [Bufs -> BufTypes]
    BY <1>1, FieldsOf
  <1> HIDE DEF g
  <1>3. /\ g.in = hdlc.in /\ g.out = hdlc.out /\ g.last = hdlc.last /\ g.tx = hdlc.tx
        /\ g.current_rx_indicator = hdlc.current_rx_indicator
        /\ g.buf = [hdlc.buf EXCEPT ![hdlc.in] = Cleared]
    BY <1>1, ReusedIs
  <1>4. \A b \in Bufs : g.buf[b] = Cleared \/ g.buf[b] = hdlc.buf[b]
    BY <1>2, <1>3
  <1>5. \A b \in Bufs : \/ g.buf[b] = Cleared
                        \/ g.buf[b].pieces = hdlc.buf[b].pieces /\ g.buf[b].flags = hdlc.buf[b].flags
    BY <1>4
  <1> QED BY <1>1, <1>5, FaithfulOver DEF g

(* An indicator: nothing has come to the buffer that in moves to.           *)
LEMMA FaithfulInd ==
  ASSUME Types, OrderInv, Uncrossed, Sending, Faithful, Queued, Op \in { "ind", "end" },
         NEW i \in Indicators, Op = "ind" => i = main.todo[1][2],
         \/ hdlc' = RxIndicator(hdlc, i, main.same)
         \/ hdlc' = [RxIndicator(hdlc, i, main.same) EXCEPT !.field_class = "none"]
  PROVE  Faithful'
  <1> DEFINE B == hdlc.buf
             l == Landing(hdlc)
             cur == hdlc.current_rx_indicator
             C == hdlc'.buf
  <1>1. main.todo # << >> /\ Done(<< >>) /\ Queue(hdlc) /\ UNCHANGED far
    BY DEF Queued, Types, Done
  <1>2. /\ hdlc.in \in Bufs /\ hdlc.out \in Bufs /\ B \in [Bufs -> BufTypes]
        /\ \A b \in Bufs : B[b] \in BufTypes
    BY <1>1, FieldsOf
  <1>3. /\ Used = Off(hdlc.in, hdlc.out) /\ Used \in Nat /\ QLen \in Nat /\ Used <= QLen - 4
    BY <1>1, RoomFor
  <1>4. Laid(B, hdlc.in, hdlc.out, cur)
    BY DEF Uncrossed, LaidOut
  <1>5. CASE cur = i
    <2>1. RxIndicator(hdlc, i, main.same) = hdlc
      BY <1>5 DEF RxIndicator
    <2>2. hdlc'.buf = hdlc.buf
      <3>1. hdlc \in HdlcTypes
        BY <1>1 DEF Queue
      <3>2. hdlc' = hdlc \/ hdlc' = [hdlc EXCEPT !.field_class = "none"]
        BY <2>1
      <3> QED BY ONLY <3>1, <3>2 DEF HdlcTypes
    <2>3. Op = "end"
      <3>1. main.todo[1] = Head(main.todo) /\ 1 \in DOMAIN main.todo
        BY <1>1, TailIs DEF Types, MainTypes
      <3>2. Op = "ind" => cur # main.todo[1][2]
        BY <3>1 DEF Uncrossed, Planned, Op
      <3> QED BY <1>5, <3>2
    <2> QED BY <1>1, <2>2, <2>3, FaithfulOver
  <1>6. CASE cur # i
    <2>1. /\ C = [B EXCEPT ![l] = [B[l] EXCEPT !.contents = Ind(i)]] /\ l \in Bufs
          /\ hdlc'.in = Nxt(l)
      <3> DEFINE g == hdlc'
      <3>1. \/ g = RxIndicator(hdlc, i, main.same)
            \/ g = [RxIndicator(hdlc, i, main.same) EXCEPT !.field_class = "none"]
        OBVIOUS
      <3> HIDE DEF g
      <3>2. /\ g.buf = [hdlc.buf EXCEPT ![Landing(hdlc)] = [hdlc.buf[Landing(hdlc)] EXCEPT !.contents = Ind(i)]]
            /\ Landing(hdlc) \in Bufs
            /\ g.in = Nxt(Landing(hdlc)) /\ g.out = hdlc.out /\ g.last = hdlc.last
            /\ g.tx = hdlc.tx \/ g.tx = [hdlc.tx EXCEPT !.tx_end = TRUE]
            /\ g.current_rx_indicator = i
        BY <1>1, <1>6, <3>1, RxIndicatorIs
      <3> QED BY <3>2 DEF g
    <2>2. Nxt(l) \in Bufs /\ Nxt(l) # l
      BY <2>1, NxtIs
    <2>3. B[Nxt(l)] = Cleared
      <3>1. l = IF B[hdlc.in].contents # NONE THEN Nxt(hdlc.in) ELSE hdlc.in
        BY DEF Landing
      <3>2. Off(hdlc.in, hdlc.out) <= QLen - 4
        BY <1>3
      <3> HIDE DEF B, C, l, cur
      <3>3. C = [B EXCEPT ![l] = [B[l] EXCEPT !.contents = Ind(i)]]
        BY <2>1
      <3>4. hdlc.in \in Bufs /\ hdlc.out \in Bufs /\ B \in [Bufs -> BufTypes]
        BY <1>2
      <3>5. PutBehind(B, hdlc.in, i, l, C)
        BY <3>1, <3>3 DEF PutBehind
      <3>6. Off(Nxt(l), hdlc.out) \in { Off(hdlc.in, hdlc.out) + 1, Off(hdlc.in, hdlc.out) + 2 }
        BY ONLY i \in Indicators, <1>4, <3>2, <3>4, <3>5, LaidInd
      <3>7. Off(hdlc.in, hdlc.out) \in Nat
        BY <1>3
      <3> DEFINE u == Off(hdlc.in, hdlc.out)
                 v == Off(Nxt(l), hdlc.out)
      <3>8. v > u
        <4>1. v \in { u + 1, u + 2 } /\ u \in Nat
          BY <3>6, <3>7
        <4> HIDE DEF u, v
        <4> QED BY <4>1
      <3> QED BY <1>4, <2>2, <3>8 DEF Laid
    <2>4. \A b \in Bufs : C[b].pieces = B[b].pieces /\ C[b].flags = B[b].flags
      BY <1>2, <2>1 DEF BufTypes
    <2>5. C[Nxt(l)] = B[Nxt(l)]
      BY <1>2, <2>1, <2>2
    <2>6. CASE Op = "end"
      BY <1>1, <2>4, <2>6, FaithfulOver
    <2>7. CASE Op = "ind"
      <3>1. AtIn(far, Cleared, main'.todo)
        BY <1>1, <2>7, AtInNext DEF Cleared
      <3>2. Judged(far, C)
        <4> SUFFICES ASSUME NEW b \in Bufs PROVE Fair(far, C[b])
          BY DEF Judged
        <4>1. Fair(far, B[b])
          BY DEF Faithful, Judged
        <4> QED BY <2>4, <4>1 DEF Fair
      <3> QED BY <1>1, <2>1, <2>3, <2>5, <3>1, <3>2 DEF Faithful
    <2> QED BY <2>6, <2>7
  <1> QED BY <1>5, <1>6

(* A piece goes into the buffer at in.                                     *)
PutDown(s, p, c) ==
  \/ Len(s.pieces) + 1 > MaxLen /\ c = Noted(s)
  \/ \E start \in BOOLEAN : c = Longer(s, p, ~Headed(s, p), start)

InPlace(w, s, p) ==
  /\ Goes(w) /\ FarEnd(w) /\ Fair(w, s) /\ "FINISHED" \notin s.flags
  /\ w.k > 0 /\ p.f = w.f /\ p.k = w.k /\ p.last = w.whole /\ p.d = TypeOf(w.sig)
  /\ Headed(s, p) => Begun(w, s, w.k - 1, FALSE)
  /\ w.lost = 0 => Headed(s, p)

LEMMA BegunLonger ==
  ASSUME NEW w \in FarTypes, NEW s \in BufTypes, NEW p \in Pieces, InPlace(w, s, p),
         NEW c, PutDown(s, p, c)
  PROVE  Fair(w, c) /\ Begun(w, c, w.k, w.whole)
  <1>1. /\ w.k \in Nat /\ w.lost \in Nat /\ w.k > 0 /\ w.k <= MaxPieces
        /\ MaxPieces \in Nat /\ MaxLen \in Nat /\ MaxPieces <= MaxLen
        /\ s.pieces \in Seq(Pieces) /\ Len(s.pieces) \in Nat
    BY BoundAssumption, QueueAssumption DEF FarTypes, BufTypes, InPlace, FarEnd
  <1>2. "MISSING_DATA" \in s.flags => w.lost > 0
    BY DEF InPlace, Fair
  <1>3. CASE Len(s.pieces) + 1 > MaxLen /\ c = Noted(s)
    <2>1. c.flags = s.flags \union { "MISSING_DATA" }
      BY <1>3 DEF Noted, BufTypes
    <2>2. w.lost > 0
      <3>1. SUFFICES ASSUME w.lost = 0 PROVE FALSE
        BY <1>1
      <3>2. Begun(w, s, w.k - 1, FALSE)
        BY <3>1 DEF InPlace
      <3>3. "MISSING_DATA" \notin s.flags
        BY <1>1, <1>2, <3>1
      <3>5. Len(s.pieces) <= w.k - 1
        BY <1>1, <3>2, <3>3 DEF Begun
      <3> QED BY <1>1, <1>3, <3>5
    <2> QED BY <2>1, <2>2 DEF Fair, Begun, InPlace
  <1>4. ASSUME NEW start \in BOOLEAN, c = Longer(s, p, ~Headed(s, p), start)
        PROVE  Fair(w, c) /\ Begun(w, c, w.k, w.whole)
    <2> DEFINE missing == ~Headed(s, p)
    <2>1. /\ c.contents = Data(p.d) /\ c.pieces = Append(s.pieces, p)
          /\ c.flags = s.flags \union (IF missing THEN { "MISSING_DATA" } ELSE {})
                               \union (IF start THEN { "PROCEED" } ELSE {})
      BY <1>4 DEF Longer
    <2>2. missing => w.lost > 0
      BY <1>1 DEF InPlace
    <2>3. "MISSING_DATA" \in c.flags <=> "MISSING_DATA" \in s.flags \/ missing
      BY <2>1
    <2>4. Fair(w, c)
      <3>1. "FINISHED" \notin c.flags
        BY <2>1 DEF InPlace
      <3> QED BY <1>2, <2>2, <2>3, <3>1 DEF Fair
    <2>5. ASSUME "MISSING_DATA" \notin c.flags
          PROVE  LET l == Len(c.pieces)
                 IN  /\ l = w.k \/ (l < w.k /\ w.f \in w.headless)
                     /\ \A j \in 1 .. l : c.pieces[j].f = w.f /\ c.pieces[j].k = w.k - l + j
                     /\ c.contents = Data(TypeOf(w.sig)) /\ c.pieces[l].last = w.whole
      <3>1. Begun(w, s, w.k - 1, FALSE) /\ "MISSING_DATA" \notin s.flags
        BY <2>3, <2>5 DEF InPlace
      <3> DEFINE k  == w.k
                 ps == s.pieces
                 l  == Len(s.pieces)
                 n  == w.k - 1
      <3>2. /\ l = n \/ (l < n /\ w.f \in w.headless)
            /\ \A j \in 1 .. l : ps[j].f = w.f /\ ps[j].k = n - l + j
        BY <3>1 DEF Begun
      <3>3. /\ k \in Nat /\ k > 0 /\ n = k - 1 /\ l \in Nat /\ l = Len(ps) /\ ps \in Seq(Pieces)
            /\ p.f = w.f /\ p.k = k /\ p.last = w.whole /\ p.d = TypeOf(w.sig)
        BY <1>1 DEF InPlace
      <3>4. c.pieces = Append(ps, p) /\ c.contents = Data(p.d)
        BY <2>1
      <3> HIDE DEF k, ps, missing, l, n
      <3>5. Len(Append(ps, p)) = l + 1 /\ Append(ps, p)[l + 1] = p
        BY <3>3
      <3>6. \A j \in 1 .. l : Append(ps, p)[j] = ps[j]
        BY <3>3
      <3>7. \A j \in 1 .. l + 1 : j = l + 1 \/ j \in 1 .. l
        BY <3>3
      <3>8. l + 1 = k \/ (l + 1 < k /\ w.f \in w.headless)
        BY <3>2, <3>3
      <3>9. k = k - (l + 1) + (l + 1) /\ \A j \in 1 .. l : n - l + j = k - (l + 1) + j
        BY <3>3
      <3>10. \A j \in 1 .. l + 1 :
               Append(ps, p)[j].f = w.f /\ Append(ps, p)[j].k = k - (l + 1) + j
        <4> TAKE j \in 1 .. l + 1
        <4>1. CASE j = l + 1
          BY <3>3, <3>5, <3>9, <4>1
        <4>2. CASE j \in 1 .. l
          BY <3>2, <3>6, <3>9, <4>2
        <4> QED BY <3>7, <4>1, <4>2
      <3> QED BY <3>3, <3>4, <3>5, <3>8, <3>10 DEF k
    <2> QED BY <2>4, <2>5 DEF Begun
  <1> QED BY <1>3, <1>4 DEF PutDown

LEMMA FaithfulData ==
  ASSUME Types, OrderInv, Uncrossed, Sending, Faithful, Queued, Op = "data"
  PROVE  Faithful'
  <1> DEFINE B == hdlc.buf
             C == hdlc'.buf
             s == hdlc.buf[hdlc.in]
             c == hdlc'.buf[hdlc.in]
             p == main.todo[1][2]
  <1>1. main.todo # << >> /\ Done(<< >>) /\ Queue(hdlc) /\ UNCHANGED far /\ far \in FarTypes
    BY DEF Queued, Types, Done
  <1>2. hdlc.in \in Bufs /\ B \in [Bufs -> BufTypes] /\ s \in BufTypes
    BY <1>1, FieldsOf
  <1>3. p \in Pieces /\ hdlc' = RxData(hdlc, p, main.same) /\ main'.todo = << >>
    BY QueuedIs, OrderPut
  <1>4. 1 \in DOMAIN main.todo /\ main.todo[1][1] = "data"
    BY <1>1, TailIs DEF Op, Types, MainTypes
  <1>5. InPlace(far, s, p)
    <2>1. Goes(far) /\ p.f = far.f /\ p.k = far.k
      BY <1>4 DEF OrderInv, InHand, Open, Goes
    <2>2. far.k > 0 /\ p.last = far.whole /\ p.d = TypeOf(far.sig) /\ FarEnd(far)
      BY <1>4 DEF Sending, Asks
    <2>3. /\ Headed(s, p) => Begun(far, s, far.k - 1, FALSE)
          /\ far.lost = 0 => p.ff \/ s.contents = Data(p.d)
      BY <1>4 DEF Faithful, AtIn
    <2>6. far.lost = 0 => Headed(s, p)
      BY <2>3 DEF Headed
    <2>4. "FINISHED" \notin s.flags
      BY DEF Uncrossed, LaidOut, Laid, IsComing
    <2>5. Fair(far, s)
      BY <1>2 DEF Faithful, Judged
    <2> HIDE DEF p, s
    <2> QED BY <2>1, <2>2, <2>3, <2>4, <2>5, <2>6 DEF InPlace
  <1>6. PutIn(hdlc, hdlc', p, main.same)
    <2> DEFINE g == hdlc'
    <2> HIDE DEF g, p
    <2>1. PutIn(hdlc, RxData(hdlc, p, main.same), p, main.same)
      BY <1>1, <1>3, RxDataIs
    <2>2. g = RxData(hdlc, p, main.same)
      BY <1>3 DEF g
    <2> QED BY <2>1, <2>2 DEF g
  <1> HIDE DEF p
  <1>7. /\ hdlc'.in = hdlc.in /\ PutDown(s, p, c)
        /\ \A b \in Bufs : b # hdlc.in => C[b] = B[b]
    <2> DEFINE miss == ~Headed(s, p)
    <2>1. /\ hdlc'.in = hdlc.in
          /\ \/ Len(s.pieces) + 1 > MaxLen /\ C = [B EXCEPT ![hdlc.in] = Noted(s)]
             \/ \E start \in BOOLEAN : C = [B EXCEPT ![hdlc.in] = Longer(s, p, miss, start)]
      BY <1>6 DEF PutIn
    <2>2. CASE Len(s.pieces) + 1 > MaxLen /\ C = [B EXCEPT ![hdlc.in] = Noted(s)]
      <3>1. c = Noted(s) /\ \A b \in Bufs : b # hdlc.in => C[b] = B[b]
        BY <1>2, <2>2
      <3> QED BY <2>1, <2>2, <3>1 DEF PutDown
    <2>3. ASSUME NEW start \in BOOLEAN, C = [B EXCEPT ![hdlc.in] = Longer(s, p, miss, start)]
          PROVE  PutDown(s, p, c) /\ \A b \in Bufs : b # hdlc.in => C[b] = B[b]
      <3>1. c = Longer(s, p, miss, start) /\ \A b \in Bufs : b # hdlc.in => C[b] = B[b]
        BY <1>2, <2>3
      <3> QED BY <3>1 DEF PutDown
    <2> QED BY <2>1, <2>2, <2>3
  <1>8. Fair(far, c) /\ Begun(far, c, far.k, far.whole)
    <2> HIDE DEF s, c
    <2> QED BY <1>1, <1>2, <1>3, <1>5, <1>7, BegunLonger
  <1>9. Judged(far, C)
    <2> SUFFICES ASSUME NEW b \in Bufs PROVE Fair(far, C[b])
      BY DEF Judged
    <2>1. Fair(far, B[b])
      BY DEF Faithful, Judged
    <2> QED BY <1>7, <1>8, <2>1
  <1>10. AtIn(far, c, << >>)
    BY <1>8 DEF AtIn
  <1> QED BY <1>1, <1>3, <1>7, <1>9, <1>10 DEF Faithful

(* The end of a frame.                                                     *)
LEMMA FaithfulFcs ==
  ASSUME Types, OrderInv, Uncrossed, Sending, Faithful, Queued, Op = "fcs"
  PROVE  Faithful'
  <1> DEFINE B    == hdlc.buf
             C    == hdlc'.buf
             s    == hdlc.buf[hdlc.in]
             d    == main.todo[1][2]
             good == main.todo[1][3]
  <1>1. main.todo # << >> /\ Done(<< >>) /\ Queue(hdlc) /\ UNCHANGED far
    BY DEF Queued, Types, Done
  <1>2. /\ hdlc.in \in Bufs /\ B \in [Bufs -> BufTypes] /\ s \in BufTypes
        /\ Nxt(hdlc.in) \in Bufs /\ Nxt(hdlc.in) # hdlc.in
    BY <1>1, FieldsOf, NxtIs
  <1>3. /\ d \in DataTypes /\ good \in BOOLEAN
        /\ \/ hdlc' = Reused(hdlc) /\ s.pieces = << >>
           \/ hdlc' = Finalise(hdlc, d, good, main.same)
    BY QueuedIs
  <1>4. 1 \in DOMAIN main.todo /\ main.todo[1][1] = "fcs"
    BY <1>1, TailIs DEF Op, Types, MainTypes
  <1>5. Fair(far, s) /\ (s.pieces # << >> => Deserved(far, s.pieces, Spoilt(s, good)))
    BY <1>2, <1>4 DEF Faithful, AtIn, Judged
  <1>6. \A t : t.contents = NONE /\ t.pieces = << >> => AtIn(far, t, main'.todo)
    BY <1>1, AtInNext
  <1>7. ASSUME \A b \in Bufs : Fair(far, C[b]), AtIn(far, C[hdlc'.in], main'.todo)
        PROVE  Faithful'
    BY <1>1, <1>7 DEF Faithful, Judged
  <1> HIDE DEF d, good
  <1>8. CASE hdlc' = Reused(hdlc) /\ s.pieces = << >>
    <2> DEFINE c == [s EXCEPT !.contents = NONE]
               g == hdlc'
    <2>1. c.contents = NONE /\ c.pieces = << >> /\ c.flags = s.flags
      BY <1>2, <1>8 DEF BufTypes
    <2>2. g = Reused(hdlc) /\ c = [hdlc.buf[hdlc.in] EXCEPT !.contents = NONE]
      BY <1>8
    <2> HIDE DEF c, g
    <2>3. /\ g.in = hdlc.in /\ g.out = hdlc.out /\ g.last = hdlc.last /\ g.tx = hdlc.tx
          /\ g.current_rx_indicator = hdlc.current_rx_indicator
          /\ g.buf = [hdlc.buf EXCEPT ![hdlc.in] = c]
      BY <1>1, <2>2, ReusedIs
    <2>4. g.buf[hdlc.in] = c /\ \A b \in Bufs : b # hdlc.in => g.buf[b] = B[b]
      BY <1>2, <2>3
    <2>5. Fair(far, c)
      BY <1>5, <2>1 DEF Fair
    <2>6. \A b \in Bufs : Fair(far, g.buf[b])
      BY <2>4, <2>5 DEF Faithful, Judged
    <2>7. AtIn(far, g.buf[g.in], main'.todo)
      BY <1>6, <2>1, <2>3, <2>4
    <2> QED BY <1>7, <2>6, <2>7 DEF g
  <1>9. CASE hdlc' = Finalise(hdlc, d, good, main.same)
    <2> DEFINE bad == Spoilt(s, good)
               c   == Complete(s, d, bad)
               tx1 == IF "PROCEED" \in s.flags THEN hdlc.tx ELSE TxFrame(hdlc.tx, s.pieces)
    <2>1. hdlc'.in = Nxt(hdlc.in) /\ C = [[B EXCEPT ![hdlc.in] = c] EXCEPT ![Nxt(hdlc.in)] = Cleared]
      <3> DEFINE g == Finalise(hdlc, d, good, main.same)
      <3>1. /\ g.in = Nxt(hdlc.in) /\ g.out = hdlc.out /\ g.last = hdlc.last
            /\ g.current_rx_indicator = hdlc.current_rx_indicator
            /\ g.buf = [[hdlc.buf EXCEPT ![hdlc.in] = c] EXCEPT ![Nxt(hdlc.in)] = Cleared]
            /\ g.tx = IF ~main.same THEN hdlc.tx ELSE IF bad THEN TxCorrupt(tx1) ELSE tx1
        BY <1>1, <1>3, FinaliseIs
      <3> QED BY <1>9, <3>1
    <2>2. /\ C[Nxt(hdlc.in)] = Cleared /\ C[hdlc.in] = c
          /\ \A b \in Bufs : b # hdlc.in /\ b # Nxt(hdlc.in) => C[b] = B[b]
      <3> HIDE DEF c
      <3> QED BY <1>2, <2>1
    <2>3. /\ c.pieces = s.pieces /\ ("CORRUPT_CRC" \in c.flags <=> bad)
          /\ "MISSING_DATA" \in c.flags <=> "MISSING_DATA" \in s.flags
      <3>1. "CORRUPT_CRC" \notin s.flags
        BY DEF Uncrossed, LaidOut, Laid, IsComing
      <3> HIDE DEF s, bad
      <3>2. s \in BufTypes
        BY <1>2 DEF s
      <3> QED BY <3>1, <3>2 DEF Complete, BufTypes
    <2>4. Fair(far, c)
      <3>1. s.pieces # << >> => Deserved(far, c.pieces, "CORRUPT_CRC" \in c.flags)
        BY <1>5, <2>3 DEF Deserved
      <3> HIDE DEF c
      <3> QED BY <1>5, <2>3, <3>1 DEF Fair
    <2>5. \A b \in Bufs : Fair(far, C[b])
      <3> TAKE b \in Bufs
      <3>1. Fair(far, B[b])
        BY DEF Faithful, Judged
      <3> QED BY <2>2, <2>4, <3>1, FairCleared
    <2>6. AtIn(far, C[hdlc'.in], main'.todo)
      BY <1>6, <2>1, <2>2 DEF Cleared
    <2> QED BY <1>7, <2>5, <2>6
  <1> QED BY <1>3, <1>8, <1>9

LEMMA FaithfulMain ==
  ASSUME Types, OrderInv, Uncrossed, Sending, Faithful, Queued \/ Injected \/ Pushed \/ Throw
  PROVE  Faithful'
  <1>1. CASE Injected \/ Pushed
    BY <1>1, FaithfulPlain
  <1>2. CASE Throw
    BY <1>2, FaithfulThrow
  <1>3. CASE Queued
    <2>1. CASE Op = "ind"
      <3>1. main.todo[1][2] \in Indicators /\ hdlc' = RxIndicator(hdlc, main.todo[1][2], main.same)
        BY <1>3, <2>1, QueuedIs
      <3> QED BY <1>3, <2>1, <3>1, FaithfulInd
    <2>2. CASE Op = "end"
      <3>1. hdlc' = [RxIndicator(hdlc, "no_signal", main.same) EXCEPT !.field_class = "none"]
        BY <1>3, <2>2, QueuedIs
      <3>2. "no_signal" \in Indicators
        BY DEF Indicators
      <3> QED BY <1>3, <2>2, <3>1, <3>2, FaithfulInd
    <2>3. CASE Op = "data"
      BY <1>3, <2>3, FaithfulData
    <2>4. CASE Op = "fcs"
      BY <1>3, <2>4, FaithfulFcs
    <2> QED BY <1>3, <2>1, <2>2, <2>3, <2>4, QueuedIs
  <1> QED BY <1>1, <1>2, <1>3

(* A packet.  The buffer at in tells of a gap before it.                    *)
Marked(s, gap) == IF gap THEN Noted(s) ELSE s

LEMMA MarkedIs ==
  ASSUME NEW s \in BufTypes, NEW gap \in BOOLEAN, NEW m, m = Marked(s, gap)
  PROVE  /\ m.contents = s.contents /\ m.pieces = s.pieces
         /\ "MISSING_DATA" \in m.flags <=> gap \/ "MISSING_DATA" \in s.flags
         /\ \A x \in Flags : x # "MISSING_DATA" => (x \in m.flags <=> x \in s.flags)
  BY DEF Marked, Noted, BufTypes

LEMMA FaithfulSends ==
  ASSUME Types, Types', Sending, Faithful, Grows(far, far'),
         NEW ops, NEW packet, NEW class, Sends(ops, packet, class),
         ~far'.gap => AtIn(far', Marked(hdlc.buf[hdlc.in], far.gap), ops)
  PROVE  Faithful'
  <1>1. /\ hdlc.in \in Bufs /\ hdlc.buf \in [Bufs -> BufTypes]
        /\ far \in FarTypes /\ far' \in FarTypes /\ far.gap \in BOOLEAN
    BY FieldsOf DEF Types, FarTypes
  <1>2. \A b \in Bufs : Fair(far', hdlc.buf[b])
    <2> TAKE b \in Bufs
    <2>1. hdlc.buf[b] \in BufTypes /\ Fair(far, hdlc.buf[b])
      BY <1>1 DEF Faithful, Judged
    <2> QED BY <1>1, <2>1, FairGrows
  <1>3. CASE far'.gap /\ UNCHANGED << hdlc, main >> /\ main.todo = << >>
    <2>1. AtIn(far', hdlc'.buf[hdlc'.in], main'.todo)
      BY <1>3 DEF AtIn
    <2> QED BY <1>2, <1>3, <2>1 DEF Faithful, Judged
  <1>4. CASE ~far'.gap /\ SeenAs(hdlc, hdlc', far.gap) /\ main'.todo = ops
    <2> DEFINE s == hdlc.buf[hdlc.in]
               m == Marked(s, far.gap)
               C == hdlc'.buf
    <2>1. hdlc'.in = hdlc.in /\ C[hdlc.in] = m /\ \A b \in Bufs : b # hdlc.in => C[b] = hdlc.buf[b]
      BY <1>1, <1>4 DEF SeenAs, Marked
    <2>2. Fair(far', m)
      <3>1. /\ m.pieces = s.pieces
            /\ "MISSING_DATA" \in m.flags <=> far.gap \/ "MISSING_DATA" \in s.flags
            /\ "FINISHED" \in m.flags <=> "FINISHED" \in s.flags
            /\ "CORRUPT_CRC" \in m.flags <=> "CORRUPT_CRC" \in s.flags
        <4>1. s \in BufTypes /\ m = Marked(s, far.gap)
          BY <1>1
        <4> HIDE DEF s, m
        <4> QED BY <1>1, <4>1, MarkedIs DEF Flags
      <3>2. Fair(far', s)
        BY <1>1, <1>2
      <3>3. far.gap => far'.lost > 0
        <4>1. far.gap => far.lost > 0
          BY DEF Sending, FarEnd
        <4> QED BY <1>1, <4>1 DEF Grows, FarTypes
      <3> HIDE DEF s, m
      <3>4. "MISSING_DATA" \in m.flags => far'.lost > 0
        BY <3>1, <3>2, <3>3 DEF Fair
      <3>5. "FINISHED" \in m.flags /\ m.pieces # << >> => Deserved(far', m.pieces, "CORRUPT_CRC" \in m.flags)
        BY <3>1, <3>2 DEF Fair, Deserved
      <3> QED BY <3>4, <3>5 DEF Fair
    <2>3. AtIn(far', m, ops)
      BY <1>4
    <2> HIDE DEF m
    <2>4. Judged(far', C)
      BY <1>2, <2>1, <2>2 DEF Judged
    <2> QED BY <1>4, <2>1, <2>3, <2>4 DEF Faithful
  <1> QED BY <1>3, <1>4 DEF Sends

LEMMA AtInNone ==
  ASSUME NEW w, ~Goes(w), NEW s, NEW ops,
         \A i \in DOMAIN ops : ops[i][1] \notin { "data", "fcs" }
  PROVE  AtIn(w, s, ops)
  BY DEF AtIn

LEMMA BegunMarked ==
  ASSUME NEW s \in BufTypes, NEW w, NEW n, NEW done
  PROVE  /\ Begun(w, Marked(s, TRUE), n, done)
         /\ Begun(w, s, n, done) => Begun(w, Marked(s, FALSE), n, done)
  <1>1. "MISSING_DATA" \in Marked(s, TRUE).flags
    BY MarkedIs
  <1> QED BY <1>1 DEF Begun, Marked

LEMMA ShortIs ==
  ASSUME NEW a, NEW x, NEW e
  PROVE  /\ << x >> # << >> /\ << a, x >> # << >> /\ << x, e >> # << >> /\ << a, x, e >> # << >>
         /\ \A i \in DOMAIN << x >> : i = 1 /\ << x >>[i] = x
         /\ \A i \in DOMAIN << x, e >> : (i = 1 /\ << x, e >>[i] = x) \/ << x, e >>[i] = e
         /\ \A i \in DOMAIN << a, x >> : << a, x >>[i] = a \/ (i = 2 /\ << a, x >>[i] = x)
         /\ \A i \in DOMAIN << a, x, e >> :
              \/ << a, x, e >>[i] = a \/ << a, x, e >>[i] = e
              \/ i = 2 /\ << a, x, e >>[i] = x
  OBVIOUS

LEMMA AtInPiece ==
  ASSUME NEW w, NEW s, NEW x, NEW a, x[1] = "data", a[1] = "ind", NEW p, p = x[2],
         Begun(w, s, w.k - 1, FALSE)
  PROVE  /\ (w.lost = 0 => p.ff \/ s.contents = Data(p.d)) => AtIn(w, s, << x >>)
         /\ (w.lost = 0 => p.ff) /\ (p.ff => p.k = 1 \/ w.f \in w.headless) =>
              AtIn(w, s, << a, x >>)
  <1> DEFINE behind == (w.lost = 0 => p.ff) /\ (p.ff => p.k = 1 \/ w.f \in w.headless)
  <1>1. ASSUME NEW ops, ops # << >>, w.lost = 0 => p.ff \/ s.contents = Data(p.d),
               \A i \in DOMAIN ops : ops[i] = a \/ (ops[i] = x /\ (i = 1 \/ behind))
        PROVE  AtIn(w, s, ops)
    <2>1. ASSUME NEW i \in DOMAIN ops
          PROVE  /\ ops[i][1] = "data" =>
                      /\ i # 1 /\ ops[i][2].ff => ops[i][2].k = 1 \/ w.f \in w.headless
                      /\ w.lost = 0 => ops[i][2].ff \/ (i = 1 /\ s.contents = Data(ops[i][2].d))
                 /\ ops[i][1] # "fcs"
      <3> DEFINE o == ops[i]
      <3>1. o = a \/ (o = x /\ (i = 1 \/ behind))
        BY <1>1
      <3> HIDE DEF o
      <3>2. CASE o = a
        BY <3>2 DEF o
      <3>3. CASE o = x /\ (i = 1 \/ behind)
        <4>1. ops[i][2] = p /\ ops[i][1] = "data"
          BY <3>3 DEF o
        <4> QED BY <1>1, <3>3, <4>1
      <3> QED BY <3>1, <3>2, <3>3
    <2> QED BY <1>1, <2>1 DEF AtIn
  <1>2. /\ << x >> # << >> /\ << a, x >> # << >>
        /\ \A i \in DOMAIN << x >> : i = 1 /\ << x >>[i] = x
        /\ \A i \in DOMAIN << a, x >> : << a, x >>[i] = a \/ (i = 2 /\ << a, x >>[i] = x)
    BY ShortIs
  <1>3. (w.lost = 0 => p.ff \/ s.contents = Data(p.d)) => AtIn(w, s, << x >>)
    BY <1>1, <1>2
  <1>4. behind => AtIn(w, s, << a, x >>)
    BY <1>1, <1>2
  <1> QED BY <1>3, <1>4

LEMMA AtInFcs ==
  ASSUME NEW w, NEW s, NEW x, NEW a, NEW e, x[1] = "fcs", a[1] = "ind", e[1] = "end",
         NEW good, good = x[3],
         s.pieces # << >> => Deserved(w, s.pieces, Spoilt(s, good))
  PROVE  /\ AtIn(w, s, << x >>) /\ AtIn(w, s, << x, e >>)
         /\ AtIn(w, s, << a, x >>) /\ AtIn(w, s, << a, x, e >>)
  <1>1. ASSUME NEW ops, ops # << >>, \A i \in DOMAIN ops : ops[i] \in { a, x, e }
        PROVE  AtIn(w, s, ops)
    <2>1. ASSUME NEW i \in DOMAIN ops
          PROVE  /\ ops[i][1] # "data"
                 /\ ops[i][1] = "fcs" /\ i = 1 /\ s.pieces # << >> =>
                      Deserved(w, s.pieces, Spoilt(s, ops[i][3]))
      <3> DEFINE o == ops[i]
      <3>1. o = a \/ o = x \/ o = e
        BY <1>1
      <3> HIDE DEF o
      <3>2. CASE o = a \/ o = e
        BY <3>2 DEF o
      <3>3. CASE o = x
        <4>1. ops[i][3] = good /\ ops[i][1] = "fcs"
          BY <3>3 DEF o
        <4> QED BY <4>1
      <3> QED BY <3>1, <3>2, <3>3
    <2> QED BY <1>1, <2>1 DEF AtIn
  <1>2. /\ \A i \in DOMAIN << x >> : << x >>[i] \in { a, x, e }
        /\ \A i \in DOMAIN << x, e >> : << x, e >>[i] \in { a, x, e }
        /\ \A i \in DOMAIN << a, x >> : << a, x >>[i] \in { a, x, e }
        /\ \A i \in DOMAIN << a, x, e >> : << a, x, e >>[i] \in { a, x, e }
    BY ShortIs
  <1>3. /\ << x >> # << >> /\ << a, x >> # << >> /\ << x, e >> # << >> /\ << a, x, e >> # << >>
    BY ShortIs
  <1> QED BY <1>1, <1>2, <1>3

LEMMA FaithfulBegin ==
  ASSUME Types, Types', Sending, Faithful, Begin
  PROVE  Faithful'
  <1> DEFINE cur == hdlc.current_rx_indicator
             m   == Marked(hdlc.buf[hdlc.in], far.gap)
  <1>1. PICK sig \in Hdlcs \union NonEcms :
         /\ far.sig = NONE
         /\ far'.sig = sig /\ far'.k = 0 /\ ~far'.whole
         /\ Sends(IF cur = Expected(TypeOf(sig)) THEN << >>
                  ELSE << << "ind", Expected(TypeOf(sig)) >> >>, NONE, hdlc.field_class)
    BY BeginIs
  <1> DEFINE ops == IF cur = Expected(TypeOf(sig)) THEN << >>
                    ELSE << << "ind", Expected(TypeOf(sig)) >> >>
  <1>2. Grows(far, far')
    BY FarGrows DEF Sending
  <1>3. hdlc.buf[hdlc.in] \in BufTypes /\ far.gap \in BOOLEAN
    BY FieldsOf DEF Types, FarTypes
  <1>4. CASE cur # Expected(TypeOf(sig))
    <2> DEFINE a == << "ind", Expected(TypeOf(sig)) >>
    <2>1. a[1] = "ind" /\ ops = << a >>
      BY <1>4
    <2>2. Sends(ops, NONE, hdlc.field_class)
      BY <1>1
    <2> HIDE DEF a, ops, m
    <2>3. AtIn(far', m, ops)
      <3>1. ops # << >> /\ \A i \in DOMAIN ops : ops[i] = a
        BY <2>1, ShortIs
      <3>2. \A i \in DOMAIN ops : ops[i][1] = "ind"
        BY <2>1, <3>1
      <3> QED BY <3>1, <3>2 DEF AtIn
    <2> QED BY <1>2, <2>2, <2>3, FaithfulSends DEF m
  <1>5. CASE cur = Expected(TypeOf(sig))
    <2>1. main.todo = << >> /\ ops = << >>
      BY <1>1, <1>5 DEF Sends
    <2>2. TypeOf(sig) \in DataTypes
      BY DEF TypeOf, DataTypes
    <2>3. cur \notin { NONE, "no_signal" }
      BY <1>5, <2>2, ExpectedIs, NoneIs DEF Expected
    <2>4. far.gap
      BY <1>1, <2>1, <2>3 DEF Sending, Heard
    <2>5. Begun(far', m, far'.k, far'.whole)
      BY <1>3, <2>4, BegunMarked
    <2>6. Sends(ops, NONE, hdlc.field_class)
      BY <1>1
    <2> HIDE DEF m, ops
    <2>7. AtIn(far', m, ops)
      BY <2>1, <2>5 DEF AtIn
    <2> QED BY <1>2, <2>6, <2>7, FaithfulSends DEF m
  <1> QED BY <1>4, <1>5

LEMMA FaithfulPiece ==
  ASSUME Types, Types', Sending, Faithful, SendPiece,
         Tuned(far, main.todo, hdlc.current_rx_indicator)
  PROVE  Faithful'
  <1> DEFINE s == hdlc.buf[hdlc.in]
             m == Marked(hdlc.buf[hdlc.in], far.gap)
  <1>1. PICK p \in Pieces :
         /\ far.sig \in Hdlcs /\ ~far.over /\ ~far.whole
         /\ far'.sig = far.sig /\ ~far'.over /\ far'.f = far.f /\ far'.k = far.k + 1
         /\ p.k = far.k + 1 /\ p.d = TypeOf(far.sig) /\ (far.k = 0 => p.ff)
         /\ far'.headless = (IF ~far'.gap /\ p.ff /\ far.k > 0 /\ far.heard # far.n
                             THEN far.headless \union { far.f } ELSE far.headless)
         /\ Sends(Append(Missing(p.d), << "data", p >>), << p.d, "data" >>, "hdlc")
    BY SendPieceIs
  <1> DEFINE x   == << "data", p >>
             a   == IndOp(p.d)
             ops == Append(Missing(p.d), x)
  <1>2. Grows(far, far')
    BY FarGrows DEF Sending, Continue
  <1>3. s \in BufTypes /\ far.gap \in BOOLEAN /\ far.whole \in BOOLEAN /\ far.k \in Nat
    BY FieldsOf DEF Types, FarTypes
  <1>4. x[1] = "data" /\ x[2] = p /\ a[1] = "ind" /\ Sends(ops, << p.d, "data" >>, "hdlc")
    BY <1>1 DEF IndOp
  <1>5. \/ ops = << x >>
        \/ ops = << a, x >> /\ hdlc.current_rx_indicator # Expected(p.d)
    BY DataOpsIs
  <1>6. main.todo = << >> /\ (~far'.gap => far'.lost = far.lost) /\ far.lost \in Nat
    BY <1>4 DEF Sends, Types, FarTypes
  <1>7. ~far.gap => Begun(far, s, far.k, FALSE)
    <2>1. Goes(far) /\ far.whole = FALSE
      BY <1>1, <1>3 DEF Goes
    <2>2. Goes(far) /\ main.todo = << >> /\ ~far.gap => Begun(far, s, far.k, far.whole)
      BY <1>6 DEF Faithful, AtIn
    <2> QED BY <1>6, <2>1, <2>2
  <1>8. Begun(far', m, far'.k - 1, FALSE)
    <2>1. CASE far.gap
      BY <1>3, <2>1, BegunMarked
    <2>2. CASE ~far.gap
      <3>1. far'.k - 1 = far.k
        BY <1>1, <1>3
      <3>2. Begun(far', s, far.k, FALSE)
        <4>1. far.headless \subseteq far'.headless
          BY <1>1
        <4> QED BY <1>1, <1>7, <2>2, <4>1 DEF Begun
      <3>3. m = Marked(s, FALSE)
        BY <1>3, <2>2
      <3> HIDE DEF m, s
      <3> QED BY <1>3, <3>1, <3>2, <3>3, BegunMarked
    <2> QED BY <2>1, <2>2
  <1>9. far.lost = 0 => p.ff \/ (m.contents = Data(p.d) /\ s.contents = Data(p.d))
    <2> SUFFICES ASSUME far.lost = 0, ~p.ff
                 PROVE  m.contents = Data(p.d) /\ s.contents = Data(p.d)
      OBVIOUS
    <2>1. ~far.gap /\ far.headless = {}
      BY DEF Sending, FarEnd
    <2>2. "MISSING_DATA" \notin s.flags
      <3>1. "MISSING_DATA" \in s.flags => far.lost > 0
        BY FieldsOf DEF Faithful, Judged, Fair, Types
      <3> QED BY <3>1
    <2>3. far.k > 0
      BY <1>1, <1>3
    <2>4. s.contents = Data(p.d)
      BY <1>1, <1>7, <2>1, <2>2, <2>3 DEF Begun
    <2> QED BY <1>3, <2>4, MarkedIs
  <1> HIDE DEF x, a, ops, m, s
  <1>10. ~far'.gap => AtIn(far', m, ops)
    <2>1. SUFFICES ASSUME ~far'.gap PROVE AtIn(far', m, ops)
      OBVIOUS
    <2>2. far'.lost = 0 => p.ff \/ (m.contents = Data(p.d) /\ s.contents = Data(p.d))
      BY <1>6, <1>9, <2>1
    <2>3. CASE ops = << x >>
      BY <1>4, <1>8, <2>2, <2>3, AtInPiece
    <2>4. CASE ops = << a, x >> /\ hdlc.current_rx_indicator # Expected(p.d)
      <3>1. far.heard # far.n
        <4>1. Goes(far)
          BY <1>1 DEF Goes
        <4> QED BY <1>1, <1>6, <2>4, <4>1 DEF Tuned
      <3>2. p.ff => p.k = 1 \/ far'.f \in far'.headless
        BY <1>1, <1>3, <2>1, <3>1
      <3>3. far'.lost = 0 => p.ff
        <4>1. far.k = 0 => p.ff
          BY <1>1
        <4>2. far.k > 0 => far.gap /\ far.lost > 0
          BY <1>1, <3>1 DEF Sending, FarEnd, Goes
        <4> QED BY <1>3, <1>6, <2>1, <4>1, <4>2
      <3> QED BY <1>4, <1>8, <2>4, <3>2, <3>3, AtInPiece
    <2> QED BY <1>5, <2>3, <2>4
  <1> QED BY <1>2, <1>4, <1>10, FaithfulSends DEF m

(* The pieces at in are of the frame that is ended, or of one before.       *)
LEMMA FaithfulSendFcs ==
  ASSUME Types, Types', OrderInv, Sending, Faithful, SendFcs
  PROVE  Faithful'
  <1> DEFINE s  == hdlc.buf[hdlc.in]
             m  == Marked(hdlc.buf[hdlc.in], far.gap)
             ps == hdlc.buf[hdlc.in].pieces
  <1>1. PICK d \in DataTypes, good \in BOOLEAN, end \in BOOLEAN, dcs \in BOOLEAN \union { NONE } :
         /\ far.sig \in Hdlcs /\ ~far.over /\ far.whole
         /\ far'.sig = far.sig /\ far'.k = 0 /\ ~far'.whole /\ far'.over = end
         /\ far'.f = (IF end THEN far.f ELSE far.f + 1)
         /\ far'.spoilt = (IF good THEN far.spoilt ELSE far.spoilt \union { far.f })
         /\ TellsNoMore
         /\ Sends(FcsOps(d, good, end, dcs), << d, "fcs", good, end >>, "hdlc")
    BY SendFcsIs
  <1> DEFINE a == IndOp(d)
             e == << "end" >>
             x == FcsOp(d, good, end, dcs)
             q == FcsOps(d, good, end, dcs)
  <1>2. a[1] = "ind" /\ e[1] = "end" /\ x[1] = "fcs" /\ x[3] = good
        /\ Sends(q, << d, "fcs", good, end >>, "hdlc")
    BY <1>1 DEF IndOp, FcsOp
  <1>3. \/ q = << >> /\ hdlc.last = << d, "fcs", good, end >>
        \/ q \in { << x >>, << x, e >>, << a, x >>, << a, x, e >> }
    <2>1. PlanOf(d, good, end, x, q)
      BY FcsOpsIs
    <2> HIDE DEF q, x
    <2>2. \/ q = << >> /\ hdlc.last = << d, "fcs", good, end >>
          \/ q = IF end THEN << x, << "end" >> >> ELSE << x >>
          \/ q = IF end THEN << IndOp(d), x, << "end" >> >> ELSE << IndOp(d), x >>
      BY <2>1 DEF PlanOf
    <2> QED BY <2>2
  <1>4. Grows(far, far')
    BY FarGrows DEF Sending, Continue
  <1>5. /\ hdlc.in \in Bufs /\ s \in BufTypes /\ ps \in Seq(Pieces) /\ far.gap \in BOOLEAN
        /\ far.k \in Nat /\ far.f \in Nat /\ far \in FarTypes
    BY FieldsOf DEF Types, FarTypes
  <1>6. main.todo = << >> /\ Goes(far) /\ far.k > 0 /\ far.whole = TRUE /\ far.f \notin far.spoilt
    <2>1. main.todo = << >> /\ Goes(far)
      BY <1>1 DEF Sends, Goes
    <2>2. far.k # 0 /\ far.f \notin far.spoilt
      BY <1>1, <2>1 DEF Sending, FarEnd
    <2>3. far.whole \in BOOLEAN
      BY <1>5 DEF FarTypes
    <2> QED BY <1>1, <1>5, <2>1, <2>2, <2>3
  <1>7. ~far.gap => Begun(far, s, far.k, TRUE)
    BY <1>6 DEF Faithful, AtIn
  <1>8. far.gap => far.lost > 0 /\ far'.lost >= far.lost
    BY <1>4 DEF Sending, FarEnd, Grows
  <1>9. Fair(far', s)
    <2>1. Fair(far, s) /\ far' \in FarTypes
      BY <1>5 DEF Faithful, Judged, Types
    <2> QED BY <1>4, <1>5, <2>1, FairGrows
  <1>10. /\ m.pieces = ps
         /\ "MISSING_DATA" \in m.flags <=> far.gap \/ "MISSING_DATA" \in s.flags
    <2>1. m = Marked(s, far.gap)
      OBVIOUS
    <2> HIDE DEF s, m
    <2>2. m.pieces = s.pieces
          /\ ("MISSING_DATA" \in m.flags <=> far.gap \/ "MISSING_DATA" \in s.flags)
      BY <1>5, <2>1, MarkedIs
    <2> QED BY <2>2 DEF s
  <1>11. "MISSING_DATA" \in m.flags => far'.lost > 0
    <2>1. far.lost \in Nat /\ far'.lost \in Nat
      BY DEF Types, FarTypes
    <2>2. "MISSING_DATA" \in s.flags => far'.lost > 0
      BY <1>9 DEF Fair
    <2>3. far.gap => far'.lost > 0
      BY <1>8, <2>1
    <2> HIDE DEF m, s
    <2> QED BY <1>10, <2>2, <2>3
  <1>12. ps # << >> => Shut(far', ps[1].f)
    <2> SUFFICES ASSUME ps # << >> PROVE Shut(far', ps[1].f)
      OBVIOUS
    <2>1. << ps[1].f, ps[1].k >> \in PastKeys /\ ps[1] \in Pieces
      <3>1. Keys(ps) \subseteq PastKeys
        BY <1>5 DEF OrderInv, Recent, Within
      <3> HIDE DEF ps
      <3>2. 1 \in DOMAIN ps /\ ps[1] \in Pieces /\ << ps[1].f, ps[1].k >> \in Keys(ps)
        BY <1>5, KeysOf
      <3> QED BY <3>1, <3>2
    <2> DEFINE f == ps[1].f
    <2>2. f \in Nat /\ (f < far.f \/ f = far.f)
      BY <2>1 DEF PastKeys, Pieces
    <2> HIDE DEF f, ps
    <2>3. CASE end
      BY <1>1, <1>5, <2>2, <2>3 DEF Shut, Goes, f
    <2>4. CASE ~end
      BY <1>1, <1>5, <2>2, <2>4 DEF Shut, f
    <2> QED BY <2>3, <2>4
  <1>13. "MISSING_DATA" \notin m.flags /\ ps # << >> =>
           /\ Unbroken(ps) /\ ps[1].f = far.f
           /\ ps[1].k = 1 \/ far.f \in far'.headless
    <2> SUFFICES ASSUME "MISSING_DATA" \notin m.flags, ps # << >>
                 PROVE  /\ Unbroken(ps) /\ ps[1].f = far.f
                        /\ ps[1].k = 1 \/ far.f \in far'.headless
      OBVIOUS
    <2> DEFINE k == far.k
               l == Len(hdlc.buf[hdlc.in].pieces)
    <2>1. /\ l = k \/ (l < k /\ far.f \in far.headless)
          /\ \A j \in 1 .. l : ps[j].f = far.f /\ ps[j].k = k - l + j
          /\ l > 0 => ps[l].last
      BY <1>6, <1>7, <1>10 DEF Begun
    <2>2. k \in Nat /\ l = Len(ps) /\ l \in Nat
      BY <1>5, <1>6
    <2>3. far'.headless = far.headless
      BY <1>1 DEF TellsNoMore
    <2> HIDE DEF k, ps, l
    <2>4. DOMAIN ps = 1 .. l /\ 1 \in 1 .. l /\ l > 0
      BY <1>5, <2>2
    <2>5. ps[1].k = k - l + 1
      BY <2>1, <2>4
    <2>6. l = k => ps[1].k = 1
      BY <2>2, <2>5
    <2>7. \A j \in 1 .. l : ps[j].f = ps[1].f /\ ps[j].k = ps[1].k + j - 1
      <3> TAKE j \in 1 .. l
      <3>1. k - l + j = (k - l + 1) + j - 1
        BY <2>2
      <3> QED BY <2>1, <2>4, <2>5, <3>1
    <2>8. Unbroken(ps)
      BY <2>1, <2>2, <2>4, <2>7 DEF Unbroken
    <2> QED BY <2>1, <2>3, <2>4, <2>6, <2>8
  <1>14. m.pieces # << >> => Deserved(far', m.pieces, Spoilt(m, good))
    <2> SUFFICES ASSUME ps # << >> PROVE Deserved(far', ps, Spoilt(m, good))
      BY <1>10
    <2>1. Shut(far', ps[1].f)
      BY <1>12
    <2>2. CASE good /\ "MISSING_DATA" \notin m.flags
      <3>1. /\ Unbroken(ps) /\ ps[1].f = far.f /\ far'.spoilt = far.spoilt
            /\ ps[1].k = 1 \/ ps[1].f \in far'.headless
        BY <1>1, <1>13, <2>2
      <3> HIDE DEF ps, m
      <3> QED BY <1>6, <2>1, <2>2, <3>1 DEF Deserved, Spoilt
    <2>3. CASE "MISSING_DATA" \in m.flags
      <3> HIDE DEF ps, m
      <3> QED BY <1>11, <2>1, <2>3 DEF Deserved, Spoilt
    <2>4. CASE ~good /\ "MISSING_DATA" \notin m.flags
      <3>1. ps[1].f \in far'.spoilt
        BY <1>1, <1>13, <2>4
      <3> HIDE DEF ps, m
      <3> QED BY <2>1, <2>4, <3>1 DEF Deserved, Spoilt
    <2> QED BY <2>2, <2>3, <2>4
  <1>15. AtIn(far', m, q)
    <2> HIDE DEF m, q, x, a, e
    <2>1. CASE q \in { << x >>, << x, e >>, << a, x >>, << a, x, e >> }
      BY <1>2, <1>14, <2>1, AtInFcs
    <2>2. CASE q = << >> /\ hdlc.last = << d, "fcs", good, end >>
      <3>1. far.gap
        <4>1. ~far.gap => hdlc.last = << TypeOf(far.sig), "data" >>
          BY <1>6 DEF Sending, Heard
        <4>2. << TypeOf(far.sig), "data" >> # << d, "fcs", good, end >>
          OBVIOUS
        <4> QED BY <2>2, <4>1, <4>2
      <3>2. Begun(far', m, far'.k, far'.whole)
        BY <1>5, <3>1, BegunMarked DEF m
      <3> QED BY <2>2, <3>2 DEF AtIn
    <2> QED BY <1>3, <2>1, <2>2
  <1> HIDE DEF q, m
  <1> QED BY <1>2, <1>4, <1>15, FaithfulSends DEF m

LEMMA FaithfulSendOver ==
  ASSUME Types, Types', Sending, Faithful,
         SendHdlcEnd \/ SendNonEcmEnd \/ SendOctet \/ SendNoSignal
  PROVE  Faithful'
  <1>1. Grows(far, far')
    BY FarGrows DEF Sending, Continue
  <1>2. ASSUME NEW ops, NEW packet, NEW class, Sends(ops, packet, class), ~Goes(far'),
               \A i \in DOMAIN ops : ops[i][1] \notin { "data", "fcs" }
        PROVE  Faithful'
    BY <1>1, <1>2, AtInNone, FaithfulSends
  <1>3. (\A d : IndOp(d)[1] = "ind") /\ << "ind", "no_signal" >>[1] = "ind"
    BY DEF IndOp
  <1>4. CASE SendHdlcEnd \/ SendNonEcmEnd
    <2>1. PICK d \in DataTypes, pushes \in BOOLEAN, field \in Packets :
           /\ far'.over
           /\ Sends(IF hdlc.last = field THEN << >> ELSE SignalEnd(d, pushes), field,
                    hdlc.field_class)
      BY <1>4, SendEndIs
    <2> DEFINE a == IndOp(d)
               e == << "end" >>
               u == << "push" >>
               v == << "pushed" >>
               t == << "throw" >>
               r == SignalEnd(d, pushes)
               q == IF hdlc.last = field THEN << >> ELSE r
    <2>2. r \in { << u, v, e >>, << t, e >>, << a, u, v, e >>, << a, t, e >> }
      BY SignalEndOpsIs
    <2>3. /\ u[1] = "push" /\ v[1] = "pushed" /\ t[1] = "throw" /\ a[1] = "ind" /\ e[1] = "end"
          /\ Sends(q, field, hdlc.field_class)
      BY <1>3, <2>1
    <2>4. ~Goes(far')
      BY <2>1 DEF Goes
    <2> HIDE DEF u, v, t, e, a, r
    <2>5. \A i \in DOMAIN r : r[i] \in { a, u, v, t, e }
      BY <2>2
    <2>6. \A i \in DOMAIN r : r[i][1] \notin { "data", "fcs" }
      BY <2>3, <2>5
    <2>7. \A i \in DOMAIN q : q[i][1] \notin { "data", "fcs" }
      BY <2>6
    <2> HIDE DEF q
    <2> QED BY <1>2, <2>3, <2>4, <2>7
  <1>5. CASE SendOctet
    <2>1. PICK y \in Octets :
           /\ far.sig \in NonEcms /\ far'.sig = far.sig
           /\ Sends(Append(Missing("fast"), << "inject", y >>), << "fast", "t4" >>, "non_ecm")
      BY <1>5, SendOctetIs
    <2> DEFINE a == IndOp("fast")
               x == << "inject", y >>
               q == Append(Missing("fast"), x)
    <2>2. a[1] = "ind" /\ x[1] = "inject" /\ Sends(q, << "fast", "t4" >>, "non_ecm")
      BY <1>3, <2>1
    <2>3. ~Goes(far')
      BY <2>1 DEF Goes, Hdlcs, NonEcms
    <2>4. q = << x >> \/ q = << a, x >>
      BY DataOpsIs
    <2> HIDE DEF a, x, q
    <2>5. \A i \in DOMAIN q : q[i] = a \/ q[i] = x
      BY <2>4, ShortIs
    <2>6. \A i \in DOMAIN q : q[i][1] \notin { "data", "fcs" }
      BY <2>2, <2>5
    <2> QED BY <1>2, <2>2, <2>3, <2>6
  <1>6. CASE SendNoSignal
    <2> DEFINE cur == hdlc.current_rx_indicator
               a == << "ind", "no_signal" >>
               q == IF cur = "no_signal" THEN << >> ELSE << a >>
    <2>1. far'.over /\ Sends(q, NONE, hdlc.field_class)
      BY <1>6, SendNoSignalIs
    <2>2. ~Goes(far')
      BY <2>1 DEF Goes
    <2> HIDE DEF a
    <2>3. \A i \in DOMAIN q : q[i] = a
      BY ShortIs
    <2>4. \A i \in DOMAIN q : q[i][1] \notin { "data", "fcs" }
      BY <1>3, <2>3 DEF a
    <2> HIDE DEF q
    <2> QED BY <1>2, <2>1, <2>2, <2>4
  <1> QED BY <1>4, <1>5, <1>6

(* Nothing but an indicator changes what the last one was, and the first of *)
(* a signal that comes is one, or asks for it.                             *)
LEMMA TunedFax ==
  ASSUME Types, Tuned(far, main.todo, hdlc.current_rx_indicator),
         Quiet \/ HdlcOctetsEnd \/ HdlcFlagsEnd \/ HdlcFrameEnd \/ NextTxType
  PROVE  Tuned(far, main.todo, hdlc.current_rx_indicator)'
  BY FaxLeaves DEF Tuned

LEMMA TunedMain ==
  ASSUME Types, Sending, Tuned(far, main.todo, hdlc.current_rx_indicator),
         Queued \/ Injected \/ Pushed \/ Throw
  PROVE  Tuned(far, main.todo, hdlc.current_rx_indicator)'
  <1> DEFINE s == main.todo
             c == hdlc'.current_rx_indicator
  <1>1. /\ s # << >> /\ s \in Seq(Ops) /\ UNCHANGED far
        /\ Op = "ind" => c = s[1][2]
        /\ Op \in { "data", "fcs" } => c = hdlc.current_rx_indicator
    BY MainLeaves
  <1>2. Op = s[1][1] /\ 1 \in DOMAIN s
    BY <1>1, TailIs DEF Op
  <1>3. Goes(far) => /\ s[1][1] \in { "ind", "data", "fcs" }
                     /\ s[1][1] = "ind" => s[1] = IndOp(TypeOf(far.sig))
    BY <1>2 DEF Sending, Asks
  <1>4. Tuned(far, s, hdlc.current_rx_indicator)
    OBVIOUS
  <1> HIDE DEF s, c
  <1>5. Goes(far) /\ far.heard = far.n => c = Expected(TypeOf(far.sig))
    BY <1>1, <1>2, <1>3, <1>4 DEF Tuned, IndOp
  <1> QED BY <1>1, <1>5 DEF Tuned, c

LEMMA TunedSends ==
  ASSUME NEW ops, NEW packet, NEW class, Sends(ops, packet, class),
         ~far'.gap => Tuned(far', ops, hdlc.current_rx_indicator),
         far'.gap  => Tuned(far', << >>, hdlc.current_rx_indicator)
  PROVE  Tuned(far, main.todo, hdlc.current_rx_indicator)'
  BY DEF Sends, SeenAs, Tuned

LEMMA TunedPackets ==
  ASSUME Types, Uncrossed, Sending, Tuned(far, main.todo, hdlc.current_rx_indicator),
         Begin \/ Continue
  PROVE  Tuned(far, main.todo, hdlc.current_rx_indicator)'
  <1> DEFINE cur == hdlc.current_rx_indicator
  <1>1. ASSUME main.todo = << >>, Goes(far), far.heard = far.n PROVE cur = Expected(TypeOf(far.sig))
    BY <1>1 DEF Tuned
  <1>2. CASE Begin
    <2>1. PICK sig \in Hdlcs \union NonEcms :
           /\ far'.sig = sig /\ far'.n = far.n + 1
           /\ far'.heard = (IF far'.gap THEN far.heard ELSE far'.n)
           /\ Sends(IF cur = Expected(TypeOf(sig)) THEN << >>
                    ELSE << << "ind", Expected(TypeOf(sig)) >> >>, NONE, hdlc.field_class)
      BY <1>2, BeginIs
    <2> DEFINE a == << "ind", Expected(TypeOf(sig)) >>
               q == IF cur = Expected(TypeOf(sig)) THEN << >> ELSE << a >>
    <2>2. Sends(q, NONE, hdlc.field_class) /\ a[1] = "ind"
      BY <2>1
    <2>3. (q # << >> /\ q[1] = a) \/ cur = Expected(TypeOf(sig))
      OBVIOUS
    <2>4. far'.gap => far'.heard # far'.n
      <3>1. far.heard <= far.n /\ far.heard \in Nat /\ far.n \in Nat
        BY DEF Sending, FarEnd, Types, FarTypes
      <3> QED BY <2>1, <3>1
    <2> HIDE DEF a, q
    <2> QED BY <2>1, <2>2, <2>3, <2>4, TunedSends DEF Tuned
  <1>3. CASE SendPiece
    <2>1. PICK p \in Pieces :
           /\ far.sig \in Hdlcs /\ ~far.over /\ far'.sig = far.sig /\ ~far'.over
           /\ p.d = TypeOf(far.sig)
           /\ far'.n = far.n /\ far'.heard = (IF far'.gap THEN far.heard ELSE far.n)
           /\ Sends(Append(Missing(p.d), << "data", p >>), << p.d, "data" >>, "hdlc")
      BY <1>3, SendPieceIs
    <2> DEFINE x == << "data", p >>
               q == Append(Missing(p.d), x)
               a == IndOp(p.d)
    <2>2. main.todo = << >> /\ Sends(q, << p.d, "data" >>, "hdlc") /\ a[1] = "ind" /\ p.d \in DataTypes
      BY <2>1 DEF Sends, IndOp, Pieces
    <2>3. \/ q = << x >> /\ (hdlc.buf[hdlc.in].contents = Data(p.d) \/ cur = Expected(p.d))
          \/ q = << a, x >>
      BY DataOpsIs
    <2>4. cur = Expected(p.d) \/ (q # << >> /\ q[1] = a)
      <3>1. hdlc.buf[hdlc.in].contents = Data(p.d) => cur = Expected(p.d)
        BY <2>2, ComesAfter
      <3> HIDE DEF q, a, x, cur
      <3>2. q = << a, x >> => q # << >> /\ q[1] = a
        OBVIOUS
      <3> QED BY <2>3, <3>1, <3>2
    <2>5. ASSUME far'.gap PROVE Tuned(far', << >>, cur)
      BY <1>1, <2>1, <2>2, <2>5 DEF Tuned, Goes
    <2> HIDE DEF q, a, cur
    <2>6. Tuned(far', q, cur)
      BY <2>1, <2>2, <2>4 DEF Tuned
    <2> QED BY <2>2, <2>5, <2>6, TunedSends DEF cur
  <1>4. CASE SendFcs
    <2>1. PICK d \in DataTypes, good \in BOOLEAN, end \in BOOLEAN, dcs \in BOOLEAN \union { NONE } :
           /\ far.sig \in Hdlcs /\ ~far.over /\ far'.sig = far.sig /\ TellsNoMore
           /\ Sends(FcsOps(d, good, end, dcs), << d, "fcs", good, end >>, "hdlc")
      BY <1>4, SendFcsIs
    <2>2. main.todo = << >> /\ Goes(far)
      BY <2>1 DEF Sends, Goes
    <2>3. far'.heard = far'.n => cur = Expected(TypeOf(far'.sig))
      BY <1>1, <2>1, <2>2 DEF TellsNoMore
    <2> HIDE DEF cur
    <2>4. \A ops : Tuned(far', ops, cur)
      BY <2>3 DEF Tuned
    <2> QED BY <2>1, <2>4, TunedSends DEF cur
  <1>5. CASE SendHdlcEnd \/ SendNonEcmEnd
    <2>1. far'.over
      BY <1>5, SendEndIs
    <2> QED BY <2>1 DEF Tuned, Goes
  <1>6. CASE SendOctet
    <2>1. far'.sig \in NonEcms
      BY <1>6, SendOctetIs
    <2> QED BY <2>1 DEF Tuned, Goes, Hdlcs, NonEcms
  <1>7. CASE SendNoSignal
    <2>1. far'.over
      BY <1>7, SendNoSignalIs
    <2> QED BY <2>1 DEF Tuned, Goes
  <1> QED BY <1>2, <1>3, <1>4, <1>5, <1>6, <1>7 DEF Continue

LEMMA FcsNext ==
  ASSUME Types, Types', OrderInv, QueueInv, Sending, FcsInv, [GwNext]_gwVars
  PROVE  FcsInv'
  <1> SUFFICES ASSUME Well'
               PROVE  Faithful' /\ Tuned(far, main.todo, hdlc.current_rx_indicator)'
    BY DEF FcsInv
  <1>1. Uncrossed /\ Faithful /\ Tuned(far, main.todo, hdlc.current_rx_indicator)
    BY WellBefore DEF QueueInv, FcsInv
  <1>2. CASE Quiet \/ HdlcOctetsEnd \/ HdlcFlagsEnd \/ HdlcFrameEnd \/ NextTxType
    BY <1>1, <1>2, FaithfulFax, TunedFax
  <1>3. CASE Queued \/ Injected \/ Pushed \/ Throw
    BY <1>1, <1>3, FaithfulMain, TunedMain
  <1>4. CASE Begin \/ Continue
    <2>1. Tuned(far, main.todo, hdlc.current_rx_indicator)'
      BY <1>1, <1>4, TunedPackets
    <2>2. Faithful'
      BY <1>1, <1>4, FaithfulBegin, FaithfulPiece, FaithfulSendFcs, FaithfulSendOver DEF Continue
    <2> QED BY <2>1, <2>2
  <1> QED BY <1>2, <1>3, <1>4 DEF GwNext, Main, Fax, Quiet

LEMMA FcsInitially ==
  ASSUME GwInit
  PROVE  Sending /\ FcsInv
  <1>1. /\ main.todo = << >> /\ far.sig = NONE /\ far.spoilt = {} /\ ~far.gap
        /\ far.heard = 0 /\ far.n = 0 /\ far.headless = {}
        /\ hdlc.current_rx_indicator = NONE
        /\ \A b \in Bufs : hdlc.buf[b] = Cleared
    BY DEF GwInit, HdlcInit, Idle
  <1>2. ~Goes(far)
    BY <1>1, NoneIs DEF Goes, Hdlcs
  <1>3. Sending
    BY <1>1, <1>2 DEF Sending, FarEnd, Asks, Heard
  <1>4. Judged(far, hdlc.buf)
    BY <1>1, FairCleared DEF Judged
  <1>5. AtIn(far, hdlc.buf[hdlc.in], main.todo)
    BY <1>1, <1>2, AtInNone
  <1> QED BY <1>2, <1>3, <1>4, <1>5 DEF FcsInv, Faithful, Tuned

\* The frame whose FCS goes out is the one at out, and it is finished.
LEMMA FcsSays ==
  ASSUME Types, QueueInv, FcsInv
  PROVE  GoodFcs
  <1> DEFINE s == hdlc.buf[hdlc.out]
             t == hdlc.tx
  <1>1. SUFFICES ASSUME t.crc, hit = {} PROVE Deserved(far, t.pieces, t.bad)
    BY DEF GoodFcs, Deserved
  <1>2. Uncrossed /\ Faithful
    BY <1>1 DEF QueueInv, FcsInv, Well
  <1>3. t.pieces # << >> /\ modem.src = "hdlc"
    BY <1>1 DEF QueueInv, AtWork, Running
  <1>4. Plays(s, t, Alone)
    BY <1>2, <1>3 DEF Uncrossed, InModem
  <1>5. Fair(far, s) /\ t \in TxTypes
    BY <1>2, FieldsOf DEF Faithful, Judged, Types
  <1> HIDE DEF s, t
  <1>6. t.pieces = s.pieces /\ "FINISHED" \in s.flags /\ (t.bad <=> "CORRUPT_CRC" \in s.flags)
    BY <1>1, <1>3, <1>4 DEF Plays
  <1>7. Deserved(far, s.pieces, "CORRUPT_CRC" \in s.flags)
    BY <1>3, <1>5, <1>6 DEF Fair
  <1> QED BY <1>6, <1>7 DEF Deserved

-----------------------------------------------------------------------------
(* The theorems.                                                           *)

(* Whatever is lost and however the threads meet, the pieces in the ring and *)
(* in the frame in progress lie in the order they came; and while the threads *)
(* have not crossed, the ring holds whole frames behind their indicators, and *)
(* hdlc_tx what lies at out.                                               *)
THEOREM QueueInvariance == GwSpec => [](Types /\ OrderInv /\ QueueInv)
  <1>1. GwInit => OrderInv /\ QueueInv
    BY OrderInitially, QueueInitially
  <1>2. /\ GatewayInv /\ GatewayInv' /\ (OrderInv /\ QueueInv) /\ [GwNext]_gwVars
        => (OrderInv /\ QueueInv)'
    <2> SUFFICES ASSUME GatewayInv, GatewayInv', OrderInv, QueueInv, [GwNext]_gwVars
                 PROVE  OrderInv' /\ QueueInv'
      OBVIOUS
    <2>1. Types /\ Types'
      BY DEF GatewayInv
    <2>2. (hit = {} => Clean) /\ (hdlc.tx.crc => hdlc.tx.pieces # << >>)
      BY <2>1, QueueSays
    <2> QED BY <2>1, <2>2, OrderNext, QueueNext
  <1>3. GatewayInv => Types
    BY DEF GatewayInv
  <1> QED BY <1>1, <1>2, <1>3, GatewayInvariance, PTL DEF GwSpec

(* hdlc_to_modem and hdlc_tx, between the handlers of t38_core on the main  *)
(* thread and the modem on the fax thread: the pieces of the frames leave in *)
(* the order they came and none twice, for a ring of any length, whatever is *)
(* lost and even when the two threads cross.                               *)
THEOREM FramesLeaveInOrder == GwSpec => []FramesInOrder
  <1>1. Types /\ OrderInv /\ QueueInv => FramesInOrder
    BY OrderIsInOrder
  <1> QED BY <1>1, QueueInvariance, PTL

(* set_next_tx_type and hdlc_underflow_handler share the queue out: as long *)
(* as the threads have not crossed, a V.21 frame leaves by V.21 and an ECM  *)
(* frame by the fast modem, whatever packets are lost.                     *)
THEOREM OwnModemPlays == GwSpec => []OwnModem
  <1>1. Types /\ OrderInv /\ QueueInv => OwnModem
    BY QueueSays
  <1> QED BY <1>1, QueueInvariance, PTL

(* The FCS that hdlc_tx computes anew is good only for a frame that came    *)
(* with a good FCS and without a gap down to its last piece, and from its   *)
(* first piece, unless all of the signal up to a piece that begins with 0xFF *)
(* was lost; and bad only for a frame that the far end spoilt or a loss has *)
(* touched, for a ring and frames of any length, whatever packets are lost, *)
(* as long as the two threads have not crossed.                            *)
THEOREM FcsIsDeserved == GwSpec => []GoodFcs
  <1> DEFINE Inv == Types /\ OrderInv /\ QueueInv
             FInv == Sending /\ FcsInv
  <1>1. GwInit => FInv
    BY FcsInitially
  <1>2. Inv /\ Inv' /\ FInv /\ [GwNext]_gwVars => FInv'
    BY SendingNext, FcsNext
  <1>3. Inv /\ FInv => GoodFcs
    BY FcsSays
  <1>4. GwSpec => []Inv
    BY QueueInvariance
  <1> HIDE DEF Inv, FInv
  <1> QED BY <1>1, <1>2, <1>3, <1>4, PTL DEF GwSpec

=============================================================================
