------------------------------ MODULE UdptlFec ------------------------------
(***************************************************************************)
(* UDPTL to which the far end may add forward error correction, which the  *)
(* program itself never sends but udptl_rx_packet accepts; the far end is  *)
(* taken to build datagrams as udptl_build_packet does.  It may begin with *)
(* redundancy and go over to FEC.                                          *)
(*                                                                         *)
(* The XOR of IFP packets is the symmetric difference of the sets of their *)
(* names, at the length of the longest: what is repaired has that length,  *)
(* a shorter packet with zeros behind it.                                  *)
(***************************************************************************)
EXTENDS Udptl, OpenType, Ascending

CONSTANTS
  Span,        \* error_correction_span of the far end
  Size(_),     \* the length of an IFP
  Indicators,  \* the IFPs that are indicators; the others are data
  MaxRefused   \* bound: malformed datagrams in a behaviour

MaxSize == 400     \* LOCAL_FAX_MAX_DATAGRAM

ASSUME FecAssumption ==
  /\ Span \in Nat \ {0} /\ Entries > 0 /\ Span * Entries < BufSize
  /\ \A n \in 0 .. MaxSent : Size(n) \in 1 .. MaxSize
  /\ Indicators \subseteq 0 .. MaxSent
  /\ MaxRefused \in Nat
ASSUME FirstRoundAssumption == MaxSent <= SeqSpace
(* No later datagram has taken the slots of the IFPs of a late one.        *)
ASSUME LateAssumption == Delay + Entries < BufSize
(* An IFP that is repaired is not so old that the engine takes its number  *)
(* for one of the next round.                                              *)
ASSUME RingAssumption == BufSize < Offset

VARIABLES
  fecOn,       \* whether the far end has gone over to FEC
  rx,          \* rx[] of udptl_state_t
  held,        \* history: the IFPs of the last BufSize numbers that have come,
               \* in a primary, a secondary or by repair
  broken,      \* history: something was lost that could not be repaired
  came,        \* history: the latest datagram that has come, malformed or not
  mixed,       \* history: whether FEC was used after a later datagram had come,
               \* or was malformed and came after one at least as late had been used
  refused      \* how many datagrams were found malformed

fecVars == << fecOn, rx, held, broken, came, mixed, refused >>

Slots == 0 .. BufSize - 1

(* The contents of a buffer: the names whose XOR it is, and buf_len.       *)
Missing == [of |-> {}, len |-> -1]
Ifp(n)  == [of |-> {n}, len |-> Size(n)]

\* The names that are in an odd number of the sets.
XorNames(sets) ==
  { n \in UNION { sets[i] : i \in DOMAIN sets } :
      Cardinality({ i \in DOMAIN sets : n \in sets[i] }) % 2 = 1 }

ClearSlot(s) == [s EXCEPT !.buf = Missing, !.fec[0].len = 0, !.span = 0, !.entries = 0]

FecInit ==
  /\ Init
  /\ fecOn = FALSE
  /\ rx = [x \in Slots |-> [buf |-> Missing, span |-> 0, entries |-> 0,
                            fec |-> [m \in 0 .. Entries - 1 |-> [of |-> {}, len |-> 0]]]]
  /\ held = {} /\ broken = FALSE /\ refused = 0
  /\ came = UNKNOWN /\ mixed = FALSE

-----------------------------------------------------------------------------
(* udptl_build_packet. *)

\* Rows that begin at the slot of the primary.
RowLate(l, m, span, entries) ==
  [i \in 1 .. span |-> (l + m - (span - i) * entries) % BufSize]

\* The ring slots of row m of FEC of datagram slot l.
Row(l, m, span, entries) ==
  [i \in 1 .. span |-> (l + m - (span + 1 - i) * entries) % BufSize]

\* The entries of the wind-up without their limit.
WindUpEntriesUncut(n) == n \div Span

\* On the way up there are fewer packets than the rows need.
WindUpEntries(n) == IF n < Span * Entries THEN n \div Span ELSE Entries
WindUpSpan(n)    == IF n < Span THEN 0 ELSE Span

FecRows(tx1, n) ==
  LET e == WindUpEntries(n)
  IN  [m \in 1 .. e |->
         LET row == Row(Entry(n), m - 1, WindUpSpan(n), e)
         IN  [of  |-> XorNames([i \in DOMAIN row |-> { tx1[row[i]] }]),
              len |-> Max({ Size(tx1[row[i]]) : i \in DOMAIN row })]]

Datagram(tx1, n, fec) ==
  [seq |-> n % SeqSpace, primary |-> n, mode |-> IF fec THEN "fec" ELSE "redundancy",
   secondary |-> IF fec THEN << >> ELSE Secondaries(tx1, n),
   span |-> IF fec THEN WindUpSpan(n) ELSE 0,
   fec  |-> IF fec THEN FecRows(tx1, n) ELSE << >>]

FecSend ==
  /\ tx_seq_no < MaxSent
  /\ tx' = [tx EXCEPT ![Entry(tx_seq_no)] = tx_seq_no]
  /\ \E fec \in { f \in BOOLEAN : fecOn => f } :
       /\ fecOn' = fec
       /\ net' = { d \in net : d.primary >= tx_seq_no - Delay }
                   \union { Datagram(tx', tx_seq_no, fec) }
  /\ tx_seq_no' = tx_seq_no + 1
  /\ UNCHANGED << rxVars, histVars, rx, held, broken, came, mixed, refused >>

-----------------------------------------------------------------------------
(* udptl_rx_packet. *)

\* Slots that were missed keep what they held.
StoredOverOld(p) ==
  [rx EXCEPT ![Entry(p.seq)] = [ClearSlot(@) EXCEPT !.buf = Ifp(p.primary)]]

\* The slots that were missed, and the primary, before the rest is decoded.
Stored(p) ==
  LET x      == Entry(p.seq)
      missed == { Entry(i) : i \in rx_seq_no .. p.seq - 1 }
  IN  [i \in Slots |->
         IF i = x THEN [ClearSlot(rx[i]) EXCEPT !.buf = Ifp(p.primary)]
         ELSE IF i \in missed THEN ClearSlot(rx[i]) ELSE rx[i]]

Fresh(p, i) == p.seq - i >= rx_seq_no

\* The secondaries that were not seen before are stored too.
WithSecondaries(r, p) ==
  [i \in Slots |->
     IF \E k \in DOMAIN p.secondary :
          p.seq > rx_seq_no /\ Fresh(p, k) /\ i = Entry(p.seq - k)
     THEN [ClearSlot(r[i]) EXCEPT
             !.buf = Ifp(p.secondary[CHOOSE k \in DOMAIN p.secondary :
                                       i = Entry(p.seq - k)])]
     ELSE r[i]]

\* The first k FEC elements of p are decoded into its slot.
WithFec(r, p, k) ==
  LET s == r[Entry(p.seq)]
  IN  [r EXCEPT ![Entry(p.seq)] =
         [buf |-> s.buf, span |-> p.span, entries |-> Len(p.fec),
          fec |-> [m \in 0 .. Entries - 1 |-> IF m < k THEN p.fec[m + 1] ELSE s.fec[m]]]]

\* Of the next element only the length, or not even that.
WithFecCut(r, p, k) ==
  { [WithFec(r, p, k) EXCEPT ![Entry(p.seq)].fec[k].len = n] : n \in {0, p.fec[k + 1].len} }

\* Repair of one row, where exactly one packet of it is missing.
RepairRow(st, l, m) ==
  LET s     == st.rx[l]
      row   == Row(l, m, s.span, s.entries)
      gone  == { i \in DOMAIN row : st.rx[row[i]].buf.len <= 0 }
      which == row[CHOOSE i \in gone : TRUE]
      rest  == [i \in DOMAIN row |-> IF i \in gone THEN {} ELSE st.rx[row[i]].buf.of]
  IN  IF s.fec[0].len <= 0 \/ m >= s.entries \/ Cardinality(gone) # 1 THEN st
      ELSE [rx       |-> [st.rx EXCEPT ![which].buf =
                                 [of  |-> XorNames(<< s.fec[m].of >> \o rest),
                                  len |-> s.fec[m].len]],
            repaired |-> st.repaired \union {which}]

(* From the slot of p back through the slots whose rows lie in the ring,   *)
(* each with all its rows.                                                 *)
Hunt(r, p) ==
  LET back == (BufSize - p.span * Len(p.fec)) % BufSize
      st[j \in 0 .. back * Entries] ==
        IF j = 0 THEN [rx |-> r, repaired |-> {}]
        ELSE RepairRow(st[j - 1],
                       (Entry(p.seq) - (j - 1) \div Entries) % BufSize, (j - 1) % Entries)
  IN  st[back * Entries]

\* The IFP a buffer holds, as it was built or with zeros behind it; the number it
\* is handed over with may be that of another.
Named(b) ==
  IF \E n \in b.of : b.of = {n} /\ b.len >= Size(n) THEN CHOOSE n \in b.of : TRUE
  ELSE UNKNOWN

\* "Now play any new packets forwards in time": from the slot behind that of p on.
Played(st, p) ==
  LET ahead == Ascending({ i \in 1 .. BufSize - 1 :
                             (Entry(p.seq) + i) % BufSize \in st.repaired })
  IN  [k \in DOMAIN ahead |->
         << Named(st.rx[(Entry(p.seq) + ahead[k]) % BufSize].buf),
            (p.seq + ahead[k] - BufSize) % SeqSpace >>]

Primary(p) == IF p.seq >= rx_seq_no THEN << << p.primary, p.seq >> >> ELSE << >>

FecHanded(p, st) == IF p.mode = "fec" THEN Played(st, p) \o Primary(p) ELSE HandedBy(p)

(* t38_core_rx_ifp_packet refuses an indicator with anything behind it,    *)
(* whose number it has consumed by then, and understands such data.  An    *)
(* IFP that was handed over still lies in its slot.                        *)
Intact(n) == n \in Indicators => rx[Entry(n)].buf.len = Size(n)

Understood ==
  LET u == Ascending({ k \in DOMAIN taken : Intact(taken[k]) })
  IN  [j \in DOMAIN u |-> taken[u[j]]]

\* Every IFP before p that the engine has not had is repaired by p: it is a
\* secondary, or the only one of a row that has not come; but an indicator only
\* if no other of the row was longer.
Repairs(p, n) ==
  \/ \E k \in DOMAIN p.secondary : p.secondary[k] = n
  \/ \E m \in DOMAIN p.fec :
       p.fec[m].of \ held = {n} /\ (n \in Indicators => p.fec[m].len = Size(n))

Comes(p) == came' = IF p.primary > came THEN p.primary ELSE came

FecReceive(p) ==
  LET r  == IF p.mode = "fec" THEN WithFec(Stored(p), p, Len(p.fec))
            ELSE WithSecondaries(Stored(p), p)
      st == IF p.mode = "fec" THEN Hunt(r, p) ELSE [rx |-> r, repaired |-> {}]
  IN  /\ rx' = st.rx
      /\ Process(FecHanded(p, st))
      /\ rx_seq_no' = After(p.seq)
      /\ due' = p.primary + 1
      /\ held' = { n \in held \union { handed'[k][1] : k \in DOMAIN handed' } :
                     n > p.primary - BufSize }
      /\ broken' = \/ broken \/ p.primary < due - 1
                    \/ \E n \in top + 1 .. p.primary - 1 : ~Repairs(p, n)
      /\ Comes(p)
      /\ mixed' = (mixed \/ (p.mode = "fec" /\ p.primary < came))
      /\ UNCHANGED << txVars, fecOn, refused >>

(* A datagram that recvfrom cut, or that has octets too many, is found     *)
(* malformed when its secondaries or its FEC are decoded.                  *)
Refused(p) ==
  /\ refused < MaxRefused
  /\ rx' \in { Stored(p), WithFec(Stored(p), p, Len(p.fec)) }
              \union UNION { WithFecCut(Stored(p), p, k) : k \in 0 .. Len(p.fec) - 1 }
  /\ Process(<< >>)
  /\ Comes(p)
  /\ mixed' = (mixed \/ (p.mode = "fec" /\ p.seq < rx_seq_no))
  /\ refused' = refused + 1
  /\ UNCHANGED << txVars, rx_seq_no, due, fecOn, held, broken >>

(* Any datagram that is not too late, as in ReceiveAny.                    *)
FecArrive ==
  \E p \in net : FecReceive(p) \/ Refused(p)

FecNext == FecSend \/ FecArrive

FecSpec == FecInit /\ [][FecNext]_<< vars, fecVars >>

-----------------------------------------------------------------------------
\* Types; the span and the entries of the FEC of a slot are ones a sender uses.
FecTypeOK ==
  /\ fecOn \in BOOLEAN /\ broken \in BOOLEAN /\ refused \in 0 .. MaxRefused
  /\ came \in UNKNOWN .. MaxSent - 1 /\ mixed \in BOOLEAN
  /\ held \subseteq UNKNOWN .. MaxSent - 1
  /\ \A x \in Slots :
       /\ rx[x].buf.of \subseteq 0 .. MaxSent - 1 /\ rx[x].buf.len \in -1 .. MaxSize
       /\ rx[x].span \in {0, Span} /\ rx[x].entries \in 0 .. Entries

\* Whatever the engine processes, it was handed over as the packet that was built
\* under that number, with all its octets and nothing but zeros behind them, and
\* not as the XOR of several or cut to the length of a shorter one: no repair
\* uses a slot of the ring that holds a packet of an earlier round, or one that a
\* malformed datagram has half filled (src/src/udptl.c:193, 321, 331).  It holds
\* until FEC is used that was overtaken by a later datagram.
TakenIsOriginal ==
  ~mixed => \A k \in DOMAIN taken :
              \E j \in DOMAIN handed : handed[j] = << taken[k], taken[k] % SeqSpace >>

(* A datagram on the wire.  The octets of an IFP or an XOR are of no       *)
(* matter; those chosen look like lengths of every form.                   *)
Octets(c) == [i \in 1 .. c.len |-> (5 * i + Cardinality(c.of)) % Radix]

Contents(p) ==
  << Ifp(p.primary) >> \o
  (IF p.mode = "fec" THEN p.fec ELSE [k \in DOMAIN p.secondary |-> Ifp(p.secondary[k])])

Wire(p) ==
  LET o == [k \in DOMAIN Contents(p) |-> Octets(Contents(p)[k])]
  IN  IF p.mode = "fec" THEN EncodeFec(p.seq, o[1], p.span, Tail(o))
      ELSE EncodeRedundancy(p.seq, o[1], Tail(o))

Sound(p) ==
  LET w == Wire(p)
      d == Decode(w)
  IN  /\ d.ok /\ d.objects = [k \in DOMAIN Contents(p) |-> Octets(Contents(p)[k])]
      /\ \A n \in 0 .. Len(w) - 1 : ~Decode(SubSeq(w, 1, n)).ok
      /\ \A o \in 0 .. Radix - 1 : ~Decode(Append(w, o)).ok

\* Every datagram udptl_build_packet makes (src/src/udptl.c:366) is decoded to
\* the very primary, secondaries or FEC it was made of, with lengths of both
\* forms; cut short anywhere, as recvfrom cuts it, or with an octet too many,
\* it is found malformed (src/src/udptl.c:355), never decoded to something else.
WireSound == [][\A p \in net' \ net : Sound(p)]_vars

FecStream == INSTANCE IfpStream WITH
            sent <- tx_seq_no, next <- top + 1, batch <- Understood, garbled <- mixed

\* The engine understands the sender's packets in order, and without a gap as long
\* as each one lost is a secondary, or the only one lost of a row of FEC, of the
\* next datagram that comes (src/src/udptl.c:313); an indicator that is repaired
\* at the length of a longer packet (src/src/udptl.c:331) is a gap.
FecImplementsIfpStream == FecStream!Spec
=============================================================================
