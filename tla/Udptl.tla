------------------------------- MODULE Udptl -------------------------------
(***************************************************************************)
(* UDPTL with redundancy (src/src/udptl.c), from the t38_tx_packet_handler *)
(* of one gateway to the T.38 engine of the other, over a network that     *)
(* loses, repeats and reorders datagrams.                                  *)
(*                                                                         *)
(* IFP packets are named by the order in which the sender built them: 0,   *)
(* 1, 2, ...  A datagram that session_proc truncates or that               *)
(* udptl_rx_packet finds malformed is one the network lost: in redundancy  *)
(* mode those paths change nothing that is read again.                     *)
(***************************************************************************)
EXTENDS Integers, Sequences, FiniteSets, SequencesExt

CONSTANTS
  SeqSpace,    \* 2^16: sequence numbers are sixteen bits wide
  BufSize,     \* UDPTL_BUF_MASK + 1
  Entries,     \* error_correction_entries, DEFAULT_FEC_ENTRIES
  Offset,      \* ACCEPTABLE_SEQ_NO_OFFSET of the T.38 engine
  MaxSent,     \* bound: IFP packets built in a behaviour
  Delay        \* bound: how many packets a datagram may be late

ASSUME SizeAssumption ==
  /\ SeqSpace \in Nat /\ BufSize \in Nat /\ Entries \in Nat /\ Offset \in Nat
  /\ Entries < BufSize /\ SeqSpace % BufSize = 0
  /\ 2 * Offset < SeqSpace
(* The oldest IFP of the latest datagram is one the engine can still tell  *)
(* from one of the next round of numbers, and two datagrams Delay apart    *)
(* are not both at the edge of what it can tell.                           *)
ASSUME BoundAssumption ==
  /\ MaxSent \in Nat /\ Delay \in Nat
  /\ Delay + Entries + 1 < Offset
  /\ 2 * Offset + Delay <= SeqSpace

UNKNOWN == -1

VARIABLES
  tx_seq_no, tx,     \* udptl_state_t of the sender; tx holds IFP names
  net,               \* the datagrams built so far
  rx_seq_no,         \* udptl_state_t of the receiver
  rx_expected_seq_no,    \* t38_core_state_t of the receiver
  handed,            \* history: <<ifp, seq_no>> given to rx_packet_handler
                     \* by the last datagram
  taken,             \* history: IFPs the engine processed with it
  top,               \* history: the latest IFP the engine has processed
  due                \* history: number of the datagram after the last received

txVars   == << tx_seq_no, tx, net >>
rxVars   == << rx_seq_no, rx_expected_seq_no >>
histVars == << handed, taken, top, due >>
vars     == << txVars, rxVars, histVars >>

Init ==
  /\ tx_seq_no = 0 /\ tx = [x \in 0 .. BufSize - 1 |-> UNKNOWN]
  /\ net = {}
  /\ rx_seq_no = 0 /\ rx_expected_seq_no = UNKNOWN
  /\ handed = << >> /\ taken = << >> /\ top = UNKNOWN /\ due = 0

-----------------------------------------------------------------------------
(* udptl_build_packet.  The length check refuses an IFP before anything is *)
(* changed, so a refused IFP takes no number.                              *)

Entry(seq) == seq % BufSize

Count(n) == IF n > Entries THEN Entries ELSE n

\* A ring read from one slot too far back.
SecondariesShifted(tx1, n) ==
  [i \in 1 .. Count(n) |-> tx1[Entry((n % SeqSpace) - i - 1)]]

Secondaries(tx1, n) ==
  [i \in 1 .. Count(n) |-> tx1[Entry((n % SeqSpace) - i)]]

Send ==
  /\ tx_seq_no < MaxSent
  /\ tx' = [tx EXCEPT ![Entry(tx_seq_no % SeqSpace)] = tx_seq_no]
  /\ net' = net \union
       { [seq |-> tx_seq_no % SeqSpace, primary |-> tx_seq_no,
          secondary |-> Secondaries(tx', tx_seq_no)] }
  /\ tx_seq_no' = tx_seq_no + 1
  /\ UNCHANGED << rxVars, histVars >>

-----------------------------------------------------------------------------
(* udptl_rx_packet, from a well-formed datagram to the calls of            *)
(* rx_packet_handler, in the order of the calls.                           *)

(* The secondaries that were not seen before, seq_no - i >= rx_seq_no: the *)
(* newest ones, as many as the numbers between.                            *)
Unseen(p) ==
  LET ahead == p.seq - rx_seq_no
  IN  IF Len(p.secondary) > ahead THEN ahead ELSE Len(p.secondary)

\* They are handed over in the order they stand in.
RepairedNewestFirst(p) ==
  [k \in 1 .. Unseen(p) |-> << p.secondary[k], p.seq - k >>]

\* They are handed over oldest first.
Repaired(p) ==
  [k \in 1 .. Unseen(p) |->
     LET i == Unseen(p) + 1 - k IN << p.secondary[i], p.seq - i >>]

HandedBy(p) ==
  (IF p.seq > rx_seq_no THEN Repaired(p) ELSE << >>)
    \o (IF p.seq >= rx_seq_no THEN << << p.primary, p.seq >> >> ELSE << >>)

(* t38_core_rx_ifp_packet, the handler: classify_seq_no_offset calls a     *)
(* number late when it is less than Offset behind the expected one.        *)
Late(expected, seq) ==
  IF expected > seq THEN expected < seq + Offset
  ELSE expected + SeqSpace - Offset < seq

\* A sequence number that is not cut to sixteen bits.
AfterUncut(seq) == seq + 1

After(seq) == (seq + 1) % SeqSpace

Repeat(expected, seq) == After(seq) = expected

Engine(st, m) ==
  IF st.expected # UNKNOWN /\ st.expected # m[2]
       /\ (Repeat(st.expected, m[2]) \/ Late(st.expected, m[2]))
  THEN st
  ELSE [expected |-> After(m[2]), taken |-> Append(st.taken, m[1])]

(* The engine before it has been given any of h, and after all of it.      *)
Before == [expected |-> rx_expected_seq_no, taken |-> << >>]

Given(h) ==
  LET st[k \in 0 .. Len(h)] == IF k = 0 THEN Before ELSE Engine(st[k - 1], h[k])
  IN  st[Len(h)]

Process(h) ==
  /\ handed' = h
  /\ LET st == Given(h)
     IN  /\ rx_expected_seq_no' = st.expected
         /\ taken' = st.taken
         /\ top' = IF st.taken = << >> THEN top ELSE Last(st.taken)

Receive(p) ==
  /\ Process(HandedBy(p))
  /\ rx_seq_no' = After(p.seq)
  /\ due' = p.primary + 1
  /\ UNCHANGED txVars

(* Any datagram that is not too late, whether it was received before or    *)
(* not and whatever was received since; one never received is lost.        *)
ReceiveAny == \E p \in net : p.primary >= tx_seq_no - 1 - Delay /\ Receive(p)

(* A line that keeps the order and loses at most Entries datagrams in a    *)
(* row.                                                                    *)
ReceiveInOrder ==
  \E p \in net : p.primary \in due .. due + Entries /\ Receive(p)

Next     == Send \/ ReceiveAny
NextLine == Send \/ ReceiveInOrder

Spec     == Init /\ [][Next]_vars
LineSpec == Init /\ [][NextLine]_vars

-----------------------------------------------------------------------------
\* Types; sequence numbers stay within their width.
TypeOK ==
  /\ tx_seq_no \in 0 .. MaxSent
  /\ tx \in [0 .. BufSize - 1 -> 0 .. MaxSent - 1 \union {UNKNOWN}]
  /\ rx_seq_no \in 0 .. SeqSpace - 1
  /\ rx_expected_seq_no \in 0 .. SeqSpace - 1 \union {UNKNOWN}
  /\ top \in 0 .. MaxSent - 1 \union {UNKNOWN} /\ due \in 0 .. MaxSent
  /\ \A k \in DOMAIN handed : handed[k][2] \in 0 .. SeqSpace - 1

\* The engine processes every IFP at most once and in the order they were
\* built, though udptl_rx_packet moves rx_seq_no backwards on a late datagram
\* and hands IFPs over again (src/src/udptl.c:361); this holds across the wrap
\* of the sequence numbers.
InOrder ==
  [][\A k \in DOMAIN taken' :
       taken'[k] > IF k = 1 THEN top ELSE taken'[k - 1]]_<< taken, top, due >>

\* Every IFP is handed over under its own sequence number: the secondaries of
\* a datagram are numbered downwards from it (src/src/udptl.c:253), and the
\* sender took them from the ring slots of those numbers
\* (src/src/udptl.c:430), across wraps of the ring and of the numbers.
OwnNumber ==
  \A k \in DOMAIN handed : handed[k][2] = handed[k][1] % SeqSpace

(* The engine gets every IFP of p that is later than all it had.           *)
Fills(p) ==
  \A n \in {p.primary} \union { p.secondary[i] : i \in DOMAIN p.secondary } :
    n > top => \E k \in DOMAIN taken' : taken'[k] = n

\* "We received a later packet than we expected, so we need to check if we
\* can fill in the gap from the secondary packets" (src/src/udptl.c:233):
\* after a datagram, the engine has processed every IFP in it that was not
\* older than one already processed.
GapFilled == [][\A p \in net : Receive(p) => Fills(p)]_vars

\* The same up to the first wrap of the sequence numbers: gaps are filled
\* whatever was lost, repeated or reordered before, unless so much is lost at
\* a time that the engine takes the next number for one of the past.
GapFilledBeforeWrap ==
  [][\A p \in net :
       Receive(p) /\ p.primary < SeqSpace /\ p.primary - top < Offset
         => Fills(p)]_vars

=============================================================================
