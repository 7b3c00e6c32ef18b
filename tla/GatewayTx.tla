----------------------------- MODULE GatewayTx -----------------------------
(***************************************************************************)
(* The way from the T.38 link to the fax machine through t38_gateway.c:    *)
(* the main thread handles the packets UDPTL hands it (fax_rxUDPTL), the   *)
(* fax thread runs the modems (fax_txAUDIO), and between them are the      *)
(* queue of HdlcQueue and the buffer of NonEcmBuffer, without a lock.      *)
(*                                                                         *)
(* A packet is a list of operations on the queue.  Each operation first    *)
(* looks whether in and out are the same and then acts, and the fax thread *)
(* may run between the two; within one action it does not.                 *)
(***************************************************************************)
EXTENDS HdlcQueue, NonEcmBuffer

CONSTANTS
  MaxSignals,   \* bounds: signals the far end sends,
  MaxFrames,    \* HDLC frames, in all,
  MaxPieces,    \* pieces in a frame,
  MaxData,      \* non-ECM octets, and twice the signals and the pieces, in all,
  MaxLost       \* packets lost

\* The far end sends no frame that T38_MAX_HDLC_LEN octets do not hold.
ASSUME BoundAssumption ==
  /\ { MaxSignals, MaxFrames, MaxPieces, MaxData, MaxLost } \subseteq Nat
  /\ MaxPieces <= MaxLen

VARIABLES
  main,    \* what the main thread has still to do for the packet, and what it
           \* saw: [todo, same]
  modem,   \* tx_handler, next_tx_handler, whether the modem has ended, and
           \* where a fast modem takes its bits from
  mode,    \* core.image_data_mode and core.ecm_mode
  far,     \* the far end and the network; "heard" is the last signal of which an
           \* indicator or a piece came, "headless" the frames of which a later piece
           \* with 0xFF was the first piece of its signal, its indicator lost
  hit,     \* history: what went wrong between the link and the modem (Hits)
  left     \* history: the last piece that left

gwVars == << hdlc, main, modem, mode, far, hit, left, nonEcmVars >>

Idle == [todo |-> << >>, same |-> NONE]

Hdlcs   == { "v21", "ecm" }
NonEcms == { "tcf", "image" }
TypeOf(sig) == IF sig = "v21" THEN "v21" ELSE "fast"

(* A call begins with nothing trained; or a page has just gone through, in  *)
(* ECM frames or through the non-ECM buffer.                               *)
GwInit ==
  /\ HdlcInit
  /\ \E image, ecm \in BOOLEAN :
       /\ ecm => image
       /\ mode = [image |-> image, ecm |-> ecm] /\ NonEcmInit(image /\ ~ecm)
  /\ main = Idle
  /\ modem = [handler |-> "silence", next |-> NONE, ended |-> FALSE, src |-> NONE]
  /\ far = [sig |-> NONE, n |-> 0, data |-> 0, f |-> 0, k |-> 0, whole |-> FALSE, over |-> FALSE,
            spoilt |-> {}, dcs |-> FALSE, gap |-> FALSE, lost |-> 0, heard |-> 0, headless |-> {}]
  /\ hit = {} /\ left = << 0, 0 >>

-----------------------------------------------------------------------------
(* The main thread.                                                        *)

\* The frame at in is the one at out; and the slip of not asking.
SameAlways == TRUE
Same   == hdlc.in = hdlc.out
Asking == { "ind", "end", "data", "fcs" }

(* The ring is taken to be long enough: process_rx_indicator and            *)
(* finalise_hdlc_frame do not look whether in comes round to out.  What a   *)
(* packet asks for moves in by five buffers at the most.                   *)
RoomInRing == (hdlc.in - hdlc.out) % QLen < QLen - 6

\* A packet comes, or is lost and the next one shows the gap.
Packet(after, handled) ==
  /\ main.todo = << >> /\ RoomInRing
  /\ UNCHANGED << modem, mode, hit, left, getting, pushing, collided >>
  /\ \/ /\ far' = [after EXCEPT !.gap = FALSE]
        /\ handled
     \/ /\ far.lost < MaxLost
        /\ far' = [after EXCEPT !.gap = TRUE, !.lost = @ + 1,
                                !.heard = far.heard, !.headless = far.headless]
        /\ UNCHANGED << hdlc, main, nonEcm >>

Seen(packet) == [(IF far.gap THEN RxMissing(hdlc) ELSE hdlc) EXCEPT !.last = packet]

\* With the packet in hand the main thread comes to its first look.
Do(ops) ==
  main' = [todo |-> ops, same |-> IF Head(ops)[1] \in Asking THEN Same ELSE NONE]

\* queue_missing_indicator, called when the buffer does not hold data of type d.
Missing(d) ==
  IF \/ hdlc.buf[hdlc.in].contents = Data(d)
     \/ hdlc.current_rx_indicator = Expected(d)
  THEN << >> ELSE << << "ind", Expected(d) >> >>

\* t38_core_rx_ifp_packet with an indicator
Indicator(after, i) ==
  Packet(after, /\ hdlc' = Seen(NONE) /\ UNCHANGED nonEcm
                /\ IF hdlc.current_rx_indicator = i THEN UNCHANGED main
                   ELSE Do(<< << "ind", i >> >>))

HdlcData(after, p) ==
  Packet(after, /\ hdlc' = [Seen(<< p.d, "data" >>) EXCEPT !.field_class = "hdlc"]
                /\ Do(Append(Missing(p.d), << "data", p >>))
                /\ UNCHANGED nonEcm)

\* "Only bother with frames that have a bad CRC, if they also have some content": at
\* the end of a signal the content is looked at when the missing indicator is queued,
\* before that it has been looked at already.
FcsOp(d, good, end, dcs) ==
  << "fcs", d, good, dcs, end \/ hdlc.buf[hdlc.in].pieces = << >> >>

\* The four FCS packets; a repeated one does nothing.
HdlcFcs(after, d, good, end, dcs) ==
  LET field == << d, "fcs", good, end >>
      empty == ~good /\ ~end /\ hdlc.buf[hdlc.in].pieces = << >>
  IN  Packet(after, /\ hdlc' = [Seen(field) EXCEPT !.field_class = "hdlc"]
                    /\ IF hdlc.last = field THEN UNCHANGED main
                       ELSE Do((IF empty THEN << >> ELSE Missing(d))
                               \o << FcsOp(d, good, end, dcs) >>
                               \o (IF end THEN << << "end" >> >> ELSE << >>))
                    /\ UNCHANGED nonEcm)

\* set_mode, when the first packet of a signal comes
Moded == IF hdlc.field_class = "none" THEN SetMode(nonEcm, mode.image) ELSE nonEcm

NonEcmData(after, x) ==
  /\ Room(nonEcm, x)
  /\ Packet(after, /\ hdlc' = [Seen(<< "fast", "t4" >>) EXCEPT !.field_class = "non_ecm"]
                   /\ nonEcm' = Moded
                   /\ Do(Append(Missing("fast"), << "inject", x >>)))

(* The ends of a signal: non-ECM data is pushed out, a partial HDLC frame   *)
(* thrown away.  T38_FIELD_HDLC_SIG_END asks what came last after the       *)
(* missing indicator, T38_FIELD_T4_NON_ECM_SIG_END before it.              *)
SignalEnd(d, pushes) ==
  Missing(d) \o (IF pushes THEN << << "push" >>, << "pushed" >> >> ELSE << << "throw" >> >>)
             \o << << "end" >> >>

NonEcmEnd(after) ==
  LET field == << "fast", "t4_end" >>
  IN  Packet(after, /\ hdlc' = Seen(field) /\ nonEcm' = Moded
                    /\ IF hdlc.last = field THEN UNCHANGED main
                       ELSE Do(SignalEnd("fast", hdlc.field_class = "non_ecm")))

HdlcEnd(after, d) ==
  LET field == << d, "sig_end" >>
  IN  Packet(after, /\ hdlc' = Seen(field) /\ UNCHANGED nonEcm
                    /\ IF hdlc.last = field THEN UNCHANGED main
                       ELSE Do(SignalEnd(d, Missing(d) = << >>
                                            /\ hdlc.field_class = "non_ecm")))

Op == Head(main.todo)[1]

\* The test of in and out.
Look ==
  /\ main.todo # << >> /\ Op \in Asking /\ main.same = NONE
  /\ main' = [main EXCEPT !.same = Same]
  /\ UNCHANGED << hdlc, modem, mode, far, hit, left, nonEcmVars >>

Done(ops) ==
  /\ main' = [todo |-> ops \o Tail(main.todo), same |-> NONE]
  /\ UNCHANGED << modem, far, left >>

(* What can go wrong without a packet lost:                                *)
(*   "missed"   the fax thread has moved out to in since the look;         *)
(*   "empty"    a signal ends that had no data;                            *)
(*   "behind"   a modem is started when more is queued already;            *)
(*   "starved"  a modem is through with a frame that has not all come.     *)
Hits(op) ==
  { h \in { "missed", "empty" } :
      \/ h = "missed" /\ main.same = FALSE /\ Same
      \/ h = "empty"  /\ op \in { << "end" >>, << "ind", "no_signal" >> }
                      /\ hdlc.field_class = "none"
                      /\ hdlc.current_rx_indicator \in { "v21_preamble", "training" } }

\* monitor_control_messages: a DCS that came whole.
Monitored(op) ==
  LET s == hdlc.buf[hdlc.in]
  IN  IF op[3] /\ op[4] # NONE /\ "MISSING_DATA" \notin s.flags /\ s.pieces # << >>
      THEN [image |-> FALSE, ecm |-> op[4]] ELSE mode

Queued ==
  /\ main.todo # << >> /\ main.same # NONE
  /\ LET op == Head(main.todo)
     IN  /\ hdlc' = CASE op[1] = "ind"  -> RxIndicator(hdlc, op[2], main.same)
                      [] op[1] = "end"  ->
                           [RxIndicator(hdlc, "no_signal", main.same)
                              EXCEPT !.field_class = "none"]
                      [] op[1] = "data" -> RxData(hdlc, op[2], main.same)
                      [] op[1] = "fcs"  ->
                           IF ~op[3] /\ op[5] /\ hdlc.buf[hdlc.in].pieces = << >>
                           THEN Reused(hdlc)
                           ELSE Finalise(hdlc, op[2], op[3], main.same)
         /\ mode' = IF op[1] = "fcs" THEN Monitored(op) ELSE mode
         /\ hit' = hit \union Hits(op)
  /\ Done(<< >>)
  /\ UNCHANGED nonEcmVars

Injected ==
  /\ main.todo # << >> /\ Op = "inject"
  /\ nonEcm' = InjectOctet(nonEcm, Head(main.todo)[2])
  /\ Done(<< >>) /\ UNCHANGED << hit, hdlc, mode, getting, pushing, collided >>

Pushed ==
  /\ main.todo # << >>
  /\ \/ Op = "push"   /\ PushAll
     \/ Op = "pushed" /\ PushDone
  /\ Done(<< >>) /\ UNCHANGED << hit, hdlc, mode >>

Throw ==
  /\ main.todo # << >> /\ Op = "throw"
  /\ hdlc' = ThrownOut(hdlc)
  /\ Done(<< >>) /\ UNCHANGED << hit, mode, nonEcmVars >>

Main == Look \/ Queued \/ Injected \/ Pushed \/ Throw

-----------------------------------------------------------------------------
(* The fax thread: t38_gateway_tx.                                         *)

\* set_next_tx_type: the modem that was to follow, or what the indicator says.
Ready == modem.handler = "silence" \/ modem.ended

NextHandler ==
  /\ Ready /\ modem.next # NONE
  /\ modem' = [modem EXCEPT !.handler = modem.next, !.next = NONE, !.ended = FALSE]
  /\ UNCHANGED << hdlc, main, mode, far, hit, left, nonEcmVars >>

NextTxType ==
  /\ Ready /\ modem.next = NONE /\ hdlc.in # hdlc.out
  /\ IsInd(hdlc.buf[hdlc.out].contents)
  /\ LET i    == hdlc.buf[hdlc.out].contents[2]
         ecm  == mode.image /\ mode.ecm
         h1   == [hdlc EXCEPT !.buf[hdlc.out] = Cleared, !.out = Nxt(hdlc.out),
                              !.tx = IF ecm THEN TxInit ELSE @]
     IN  /\ hdlc' = CASE i = "no_signal" -> h1
                      [] i = "v21_preamble" ->
                           [h1 EXCEPT !.tx = [TxInit EXCEPT !.preamble = TRUE],
                                      !.buf[h1.in].pieces = << >>]
                      [] i = "training" -> [h1 EXCEPT !.tx = TxFlags(@)]
         /\ modem' = [handler |-> "silence", ended |-> FALSE,
                      next |-> CASE i = "no_signal" -> NONE
                                 [] i = "v21_preamble" -> "fsk"
                                 [] i = "training" -> "fast",
                      src  |-> CASE i = "no_signal" -> NONE
                                 [] i = "v21_preamble" -> "hdlc"
                                 [] i = "training" -> IF ecm THEN "hdlc" ELSE "non_ecm"]
         /\ hit' = IF i # "no_signal" /\ hdlc.buf[Nxt(hdlc.out)].contents # NONE
                   THEN hit \union { "behind" } ELSE hit
  /\ UNCHANGED << main, mode, far, left, nonEcmVars >>

Running(src) == modem.handler # "silence" /\ ~modem.ended /\ modem.src = src

\* hdlc_tx_get_byte
HdlcFlagsEnd ==
  /\ Running("hdlc") /\ hdlc.tx.preamble
  /\ hdlc' = PreambleDone(hdlc)
  /\ UNCHANGED << main, modem, mode, far, hit, left, nonEcmVars >>

HdlcOctetsEnd ==
  /\ Running("hdlc") /\ ~hdlc.tx.preamble /\ hdlc.tx.pieces # << >> /\ ~hdlc.tx.crc
  /\ hdlc' = [hdlc EXCEPT !.tx.crc = TRUE]
  /\ hit' = IF "FINISHED" \notin hdlc.buf[hdlc.out].flags
            THEN hit \union { "starved" } ELSE hit
  /\ UNCHANGED << main, modem, mode, far, left, nonEcmVars >>

HdlcFrameEnd ==
  /\ Running("hdlc") /\ ~hdlc.tx.preamble /\ hdlc.tx.crc
  /\ hdlc' = TxDone(hdlc)
  /\ LET p == hdlc.tx.pieces[Len(hdlc.tx.pieces)] IN left' = << p.f, p.k >>
  /\ UNCHANGED << main, modem, mode, far, hit, nonEcmVars >>

HdlcTxEnd ==
  /\ Running("hdlc") /\ ~hdlc.tx.preamble /\ hdlc.tx.pieces = << >> /\ hdlc.tx.tx_end
  /\ hdlc' = [hdlc EXCEPT !.tx.tx_end = FALSE]
  /\ modem' = [modem EXCEPT !.ended = TRUE]
  /\ UNCHANGED << main, mode, far, hit, left, nonEcmVars >>

\* t38_non_ecm_buffer_get_bit
NonEcmBits ==
  /\ Running("non_ecm")
  /\ \/ (GetOctet \/ FindEmpty \/ GetFill) /\ UNCHANGED modem
     \/ GetEnd /\ modem' = [modem EXCEPT !.ended = TRUE]
  /\ UNCHANGED << hdlc, main, mode, far, hit, left >>

\* monitor_control_messages, of a CFR that the fax machine sends when it has heard
\* all there is and the line is quiet.
HearCfr ==
  /\ Ready /\ modem.next = NONE /\ Same
  /\ ~mode.image /\ far.dcs /\ nonEcm.stored = 0 /\ far.sig = NONE
  /\ main.todo = << >>
  /\ mode' = [mode EXCEPT !.image = TRUE]
  /\ UNCHANGED << hdlc, main, modem, far, hit, left, nonEcmVars >>

Fax ==
  \/ NextHandler \/ NextTxType
  \/ HdlcFlagsEnd \/ HdlcOctetsEnd \/ HdlcFrameEnd \/ HdlcTxEnd
  \/ NonEcmBits

-----------------------------------------------------------------------------
(* The far end.                                                            *)

(* The end of non-ECM data has left before more of them come: "restart      *)
(* should occur before any fresh data can possibly arrive".                *)
Drained == nonEcm.stored = 0 /\ ~nonEcm.data_finished /\ getting = "no"

MaySend(sig) ==
  CASE sig = "v21"   -> TRUE
    [] sig = "tcf"   -> far.dcs /\ ~mode.image /\ Drained
    [] sig = "image" -> mode.image /\ ~mode.ecm /\ Drained
    [] sig = "ecm"   -> mode.image /\ mode.ecm

Begin ==
  /\ far.sig = NONE /\ far.n < MaxSignals /\ far.data + 4 <= MaxData /\ hit = {}
  /\ \E sig \in Hdlcs \union NonEcms :
       /\ MaySend(sig)
       /\ sig \in Hdlcs => far.f < MaxFrames
       /\ Indicator([far EXCEPT !.sig = sig, !.n = @ + 1, !.data = @ + 2, !.k = 0,
                                !.whole = FALSE, !.over = FALSE, !.heard = far.n + 1,
                                !.f = IF sig \in Hdlcs THEN @ + 1 ELSE @],
                    Expected(TypeOf(sig)))

SendPiece ==
  /\ far.sig \in Hdlcs /\ ~far.over /\ ~far.whole
  /\ far.k < MaxPieces /\ far.data + 2 <= MaxData /\ hit = {}
  /\ \E last, ff \in BOOLEAN :
       /\ far.k = 0 => ff
       /\ HdlcData([far EXCEPT !.k = @ + 1, !.data = @ + 2, !.whole = last, !.heard = far.n,
                               !.headless = IF ff /\ far.k > 0 /\ far.heard # far.n
                                            THEN @ \union { far.f } ELSE @],
                   [f |-> far.f, k |-> far.k + 1, last |-> last, d |-> TypeOf(far.sig),
                    ff |-> ff])

\* The end of a frame, and another frame or the end of the signal.
SendFcs ==
  /\ far.sig \in Hdlcs /\ ~far.over /\ far.whole
  /\ \E good, end \in BOOLEAN, dcs \in BOOLEAN \union { NONE } :
       /\ dcs # NONE => far.sig = "v21" /\ good /\ end
       /\ ~end => far.f < MaxFrames
       /\ HdlcFcs([far EXCEPT !.k = 0, !.whole = FALSE, !.over = end,
                              !.f = IF end THEN @ ELSE @ + 1,
                              !.spoilt = IF good THEN @ ELSE @ \union { far.f },
                              !.dcs = dcs # NONE],
                  TypeOf(far.sig), good, end, dcs)

\* The carrier drops, within a frame or after one.
SendHdlcEnd ==
  /\ far.sig \in Hdlcs /\ ~far.over
  /\ HdlcEnd([far EXCEPT !.over = TRUE], TypeOf(far.sig))

SendOctet ==
  /\ far.sig \in NonEcms /\ ~far.over /\ far.data < MaxData
  /\ \E x \in Octets : NonEcmData([far EXCEPT !.k = @ + 1, !.data = @ + 1], x)

\* At least one known implementation ends non-ECM data as it ends HDLC.
SendNonEcmEnd ==
  /\ far.sig \in NonEcms /\ ~far.over /\ far.k > 0
  /\ \/ NonEcmEnd([far EXCEPT !.over = TRUE])
     \/ HdlcEnd([far EXCEPT !.over = TRUE], "fast")

SendNoSignal ==
  /\ far.sig # NONE /\ far.over
  /\ Indicator([far EXCEPT !.sig = NONE], "no_signal")

Continue == SendPiece \/ SendFcs \/ SendHdlcEnd \/ SendOctet \/ SendNonEcmEnd \/ SendNoSignal

GwNext == Main \/ Fax \/ HearCfr \/ Begin \/ Continue

GwSpec ==
  GwInit /\ [][GwNext]_gwVars /\ WF_gwVars(Main) /\ WF_gwVars(Fax) /\ WF_gwVars(Continue)

-----------------------------------------------------------------------------
\* The pointers stay in their rings, no frame outgrows its buffer, and the modems
\* are those of fax_modems_state_t.
GwTypeOK ==
  /\ hdlc.in \in Bufs /\ hdlc.out \in Bufs
  /\ \A b \in Bufs : Len(hdlc.buf[b].pieces) <= MaxLen
  /\ { nonEcm.in_ptr, nonEcm.out_ptr, nonEcm.latest_eol_ptr } \subseteq Slots
  /\ modem.handler \in { "silence", "fsk", "fast" }
  /\ hit \subseteq { "missed", "empty", "behind", "starved" }

\* Pieces of one frame without a gap, down to its last.
Unbroken(ps) ==
  /\ \A i \in DOMAIN ps : ps[i].f = ps[1].f /\ ps[i].k = ps[1].k + i - 1
  /\ ps[Len(ps)].last

\* The FCS that the gateway computes anew tells the fax machine what the far end
\* and the link did to a frame: it is good only for one that the far end did not
\* spoil and that came without a gap from its first piece to its last, and bad only
\* for one that the far end spoilt or a loss has touched (hdlc_tx_corrupt_frame, and
\* the flags MISSING_DATA and CORRUPT_CRC of
\* src/spandsp/spandsp-0.0.6/src/t38_gateway.c:638).  The one beginning that can go
\* missing unseen is that of a frame of which a later piece with 0xFF in front is the
\* first piece to come of a signal whose indicator was lost
\* (src/spandsp/spandsp-0.0.6/src/t38_gateway.c:1199).
GoodFcs ==
  LET ps == hdlc.tx.pieces
  IN  hdlc.tx.crc /\ hit = {} =>
        /\ ~hdlc.tx.bad => /\ ps[1].f \notin far.spoilt /\ Unbroken(ps)
                           /\ ps[1].k = 1 \/ ps[1].f \in far.headless
        /\ hdlc.tx.bad  => far.lost > 0 \/ ps[1].f \in far.spoilt

Before(a, b) == a[1] < b[1] \/ (a[1] = b[1] /\ a[2] < b[2])

\* The pieces leave in the order they came and none twice, whatever is lost and
\* however the threads cross (src/spandsp/spandsp-0.0.6/src/t38_gateway.c:372, 634,
\* 1228).
FramesInOrder ==
  LET ps == hdlc.tx.pieces
  IN  \A i \in DOMAIN ps :
        Before(IF i = 1 THEN left ELSE << ps[i - 1].f, ps[i - 1].k >>,
               << ps[i].f, ps[i].k >>)

\* The modem that plays a frame is the one the frame was meant for: the octets of a
\* V.21 frame leave by V.21, those of an ECM frame by the fast modem.
Matching ==
  LET ps == hdlc.tx.pieces
  IN  ps # << >> /\ ~hdlc.tx.preamble /\ Running("hdlc") =>
        modem.handler = IF ps[1].d = "v21" THEN "fsk" ELSE "fast"

\* The queue hands every frame to the modem whose indicator came before it
\* (set_next_tx_type and hdlc_underflow_handler, which share out, at
\* src/spandsp/spandsp-0.0.6/src/t38_gateway.c:372, 634, 1228), whatever packets are
\* lost, as long as the two threads have not crossed.
OwnModem == hit \subseteq { "empty" } => Matching

AllLeft ==
  /\ main.todo = << >> /\ far.sig = NONE
  /\ Same /\ modem.handler = "silence" /\ nonEcm.stored = 0 /\ hdlc.tx.pieces = << >>

\* A signal of the far end, once begun, is played to its end and the modem falls
\* silent with nothing left in the queue or the buffer, unless a packet was lost
\* or one of the four things of Hits came to pass; every one of these can leave
\* the modem on flags for ever (set_next_tx_type is then never called).
Drains == far.sig # NONE ~> AllLeft \/ hit # {} \/ far.lost > 0

=============================================================================
