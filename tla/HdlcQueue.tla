----------------------------- MODULE HdlcQueue -----------------------------
(***************************************************************************)
(* The queue between the T.38 link and the modems of t38_gateway.c:        *)
(* hdlc_to_modem, a ring of indicators and HDLC frames that the handlers   *)
(* of t38_core fill on the main thread, and hdlc_tx (hdlc.c), from which   *)
(* the modem on the fax thread takes the frame in progress.                *)
(*                                                                         *)
(* A frame is a sequence of pieces, one per T.38 packet.  A piece is a     *)
(* record of its frame's ordinal f, its own number k in the frame, whether *)
(* it is the last, the data type d, and whether its first octet is 0xFF.   *)
(***************************************************************************)
EXTENDS Integers, Sequences

CONSTANTS
  NONE,
  QLen,         \* T38_TX_HDLC_BUFS
  MaxLen,       \* T38_MAX_HDLC_LEN, in pieces
  StartLevel    \* HDLC_START_BUFFER_LEVEL, in pieces

ASSUME QueueAssumption ==
  /\ QLen \in Nat /\ QLen > 2 /\ MaxLen \in Nat
  /\ StartLevel \in 1 .. MaxLen

VARIABLE hdlc    \* hdlc_to_modem, hdlc_tx and what t38_core and t38x
                 \* remember of the last packet

Bufs   == 0 .. QLen - 1
Nxt(i) == (i + 1) % QLen

Ind(i)  == << "indicator", i >>
Data(d) == << "data", d >>
IsInd(c)  == c # NONE /\ c[1] = "indicator"
IsData(c) == c # NONE /\ c[1] = "data"

\* No contents, indicator, signal, modem or answer is the one that says there is none.
ASSUME NoneAssumption ==
  /\ \A i \in { "no_signal", "v21_preamble", "training" } : NONE # Ind(i)
  /\ \A d \in { "v21", "fast" } : NONE # Data(d)
  /\ NONE \notin BOOLEAN
  /\ NONE \notin { "no_signal", "v21_preamble", "training", "v21", "ecm", "tcf", "image",
                   "silence", "fsk", "fast", "hdlc", "non_ecm" }

\* The indicator that data of a type should follow.
Expected(d) == IF d = "v21" THEN "v21_preamble" ELSE "training"

Cleared == [contents |-> NONE, pieces |-> << >>, flags |-> {}]

(* hdlc_tx_init.  "pieces" is the frame in progress, "crc" the section      *)
(* after its octets, where hdlc_tx_frame refuses more of them, "bad" an FCS *)
(* made wrong, "preamble" the timed flags.  How far the modem has come in  *)
(* the frame is left out: it may be through with what there is at any time. *)
TxInit == [pieces |-> << >>, crc |-> FALSE, bad |-> FALSE,
           tx_end |-> FALSE, preamble |-> FALSE]

HdlcInit ==
  hdlc = [buf |-> [i \in Bufs |-> Cleared], in |-> 0, out |-> 0, tx |-> TxInit,
          current_rx_indicator |-> NONE, field_class |-> "none", last |-> NONE]

-----------------------------------------------------------------------------
\* hdlc_tx_frame
TxFrame(tx, ps) ==
  CASE ps = << >> -> [tx EXCEPT !.tx_end = TRUE]
    [] ps # << >> /\ tx.crc -> tx
    [] OTHER -> [tx EXCEPT !.pieces = @ \o ps, !.tx_end = FALSE]

\* hdlc_tx_corrupt_frame
TxCorrupt(tx) == IF tx.pieces = << >> THEN tx ELSE [tx EXCEPT !.bad = ~@]

\* hdlc_tx_flags
TxFlags(tx) ==
  IF tx.crc THEN tx ELSE [tx EXCEPT !.preamble = TRUE, !.tx_end = FALSE]

-----------------------------------------------------------------------------
(* The main thread: what the handlers of t38_core do to the queue.  Where   *)
(* they ask whether in and out are the same, the answer they got is "same": *)
(* by the time they act on it the fax thread may have moved out.            *)

\* process_rx_indicator
RxIndicator(h, i, same) ==
  LET in1 == IF h.buf[h.in].contents # NONE THEN Nxt(h.in) ELSE h.in
  IN  IF h.current_rx_indicator = i THEN h
      ELSE [h EXCEPT
              !.buf[in1].contents = Ind(i), !.in = Nxt(in1),
              !.tx = IF same /\ h.field_class = "hdlc" THEN TxFrame(@, << >>) ELSE @,
              !.field_class = "none", !.current_rx_indicator = i]

\* process_rx_missing
RxMissing(h) == [h EXCEPT !.buf[h.in].flags = @ \union {"MISSING_DATA"}]

\* A buffer has room for so many pieces; and the slip of one that is not asked.
FitsAlways(ps) == TRUE
Fits(ps) == Len(ps) <= MaxLen

\* What hdlc_tx is given with a new piece: the frame so far, or the piece when the
\* modem has the rest; and the slip of giving it the frame each time.
FreshAll(s, ps) == ps
Fresh(s, ps) == IF "PROCEED" \in s.flags THEN << ps[Len(ps)] >> ELSE ps

\* "All real HDLC messages in the FAX world start with 0xFF"
Headed(s, p) == s.contents = Data(p.d) \/ p.ff

\* T38_FIELD_HDLC_DATA, once the indicator that was missing is queued.
RxData(h0, p, same) ==
  LET h     == IF Headed(h0.buf[h0.in], p) THEN h0 ELSE RxMissing(h0)
      s     == h.buf[h.in]
      ps    == Append(s.pieces, p)
      start == p.d = "v21" /\ Len(ps) >= StartLevel
  IN  IF ~Fits(ps) THEN RxMissing(h)
      ELSE [h EXCEPT
              !.buf[h.in] = [contents |-> Data(p.d), pieces |-> ps,
                             flags |-> s.flags \union (IF start THEN {"PROCEED"} ELSE {})],
              !.tx = IF start /\ same THEN TxFrame(@, Fresh(s, ps)) ELSE @]

\* The FCS of a frame is to be made wrong; and the slip that forgets what was lost.
SpoiltByFcs(s, good) == ~good
Spoilt(s, good) == ~good \/ "MISSING_DATA" \in s.flags

\* finalise_hdlc_frame
Finalise(h, d, good, same) ==
  LET s   == h.buf[h.in]
      bad == Spoilt(s, good)
      tx1 == IF "PROCEED" \in s.flags THEN h.tx ELSE TxFrame(h.tx, s.pieces)
  IN  [h EXCEPT
         !.buf = [@ EXCEPT
                    ![h.in] = [s EXCEPT
                                 !.contents = Data(d),
                                 !.flags = @ \union {"PROCEED", "FINISHED"}
                                             \union (IF bad THEN {"CORRUPT_CRC"} ELSE {})],
                    ![Nxt(h.in)] = Cleared],
         !.tx = IF ~same THEN @ ELSE IF bad THEN TxCorrupt(tx1) ELSE tx1,
         !.in = Nxt(h.in)]

\* A frame with a bad FCS and no content, and a partial frame at the end of the
\* signal, which is thrown away.
Reused(h)    == [h EXCEPT !.buf[h.in].contents = NONE]
ThrownOut(h) == [h EXCEPT !.buf[h.in] = Cleared]

-----------------------------------------------------------------------------
(* The fax thread.                                                         *)

\* The frame at out goes to hdlc_tx.
StartFrame(h) ==
  LET s == h.buf[h.out]
  IN  [h EXCEPT !.tx = IF "CORRUPT_CRC" \in s.flags
                       THEN TxCorrupt(TxFrame(@, s.pieces)) ELSE TxFrame(@, s.pieces)]

\* The slip: the end of the transmission behind the last frame not passed on.
UnderflowSilent(h) ==
  LET h1 == [h EXCEPT !.buf[h.out] = Cleared, !.out = Nxt(h.out)]
      s  == h1.buf[h1.out]
  IN  IF "PROCEED" \notin h.buf[h.out].flags THEN h
      ELSE IF IsData(s.contents) /\ "PROCEED" \in s.flags THEN StartFrame(h1) ELSE h1

\* hdlc_underflow_handler
Underflow(h) ==
  LET h1 == [h EXCEPT !.buf[h.out] = Cleared, !.out = Nxt(h.out)]
      s  == h1.buf[h1.out]
  IN  IF "PROCEED" \notin h.buf[h.out].flags THEN h
      ELSE CASE IsInd(s.contents) -> [h1 EXCEPT !.tx = TxFrame(@, << >>)]
             [] IsData(s.contents) /\ "PROCEED" \in s.flags -> StartFrame(h1)
             [] OTHER -> h1

\* The end of hdlc_tx_get_byte's FCS: the frame has left.
TxDone(h) == Underflow([h EXCEPT !.tx = [TxInit EXCEPT !.tx_end = h.tx.tx_end]])

\* The end of the preamble, reported when nothing has been given to hdlc_tx.
PreambleDone(h) ==
  LET h1 == [h EXCEPT !.tx.preamble = FALSE]
  IN  IF h.tx.pieces = << >> THEN Underflow(h1) ELSE h1

=============================================================================
