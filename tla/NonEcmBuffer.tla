---------------------------- MODULE NonEcmBuffer ----------------------------
(***************************************************************************)
(* The buffer of t38_non_ecm_buffer.c, which takes TCF and non-ECM image   *)
(* data from the T.38 link and gives them to a modem: the main thread      *)
(* fills it (fax_rxUDPTL), the fax thread empties it (fax_txAUDIO), and no *)
(* lock is held on either side.                                            *)
(*                                                                         *)
(* An octet in the buffer is its ordinal and what it is in the image; the  *)
(* bits matter only where t38_non_ecm_buffer_inject looks for an EOL.      *)
(***************************************************************************)
EXTENDS Integers, Sequences

CONSTANTS
  BufLen,      \* T38_NON_ECM_TX_BUF_LEN
  MinBits,     \* core.min_row_bits, as t38_non_ecm_buffer_set_mode gets it
  Octets       \* the octets that arrive

ASSUME BufAssumption ==
  /\ BufLen \in Nat /\ BufLen > 3 /\ MinBits \in Nat
  /\ Octets \subseteq 0 .. 255

VARIABLES
  nonEcm,     \* t38_non_ecm_buffer_state_t
  getting,    \* where the fax thread is in t38_non_ecm_buffer_get_bit
  pushing,    \* whether the main thread is inside t38_non_ecm_buffer_push
  collided    \* history: the buffer was pushed while get_bit was deciding

nonEcmVars == << nonEcm, getting, pushing, collided >>

Slots == 0 .. BufLen - 1
Later(p, k) == (p + k) % BufLen

(* restart_buffer.  The field "since" is no field of the program: the bits *)
(* since the 1 of the last EOL, which row_bits is to count.  Nor is        *)
(* "stored", the octets stored since the restart, or "due", those read.    *)
Restart(b) ==
  [b EXCEPT !.input_phase = IF b.image_data_mode THEN "waiting_eol" ELSE "all_ones",
            !.zeros = 0, !.out_ptr = 0, !.in_ptr = 0, !.latest_eol_ptr = 0,
            !.data_finished = FALSE, !.stored = 0, !.due = 0]

NonEcmInit(image) ==
  /\ nonEcm = Restart([data |-> [i \in Slots |-> [n |-> 0, is |-> "pad"]],
                       in_ptr |-> 0, out_ptr |-> 0, latest_eol_ptr |-> 0,
                       row_bits |-> 0, zeros |-> 0, since |-> 0,
                       input_phase |-> "all_ones", data_finished |-> FALSE,
                       image_data_mode |-> image, stored |-> 0, due |-> 0])
  /\ getting = "no" /\ pushing = FALSE /\ collided = FALSE

-----------------------------------------------------------------------------
(* t38_non_ecm_buffer_inject, octet by octet.  The field "zeros" is        *)
(* bottom_bit(bit_stream | 0x800), all that is read of bit_stream.         *)

TopBit(x)    == CHOOSE i \in 0 .. 7 : 2^i <= x /\ x < 2^(i + 1)
BottomBit(x) == CHOOSE i \in 0 .. 7 : x % 2^(i + 1) = 2^i

IsEol(b, x) == x # 0 /\ b.zeros - TopBit(x) > 11 - 8

Zeros(b, x) ==
  IF x # 0 THEN BottomBit(x) ELSE IF b.zeros + 8 > 11 THEN 11 ELSE b.zeros + 8

\* Octets stored at in_ptr, which moves past them.
Store(b, kinds) ==
  [b EXCEPT
     !.data = [i \in Slots |->
                 LET j == (i - b.in_ptr) % BufLen
                 IN  IF j < Len(kinds)
                     THEN [n |-> b.stored + j, is |-> kinds[j + 1]] ELSE b.data[i]],
     !.in_ptr = Later(b.in_ptr, Len(kinds)), !.stored = @ + Len(kinds)]

InjectTcf(b, x) ==
  IF b.input_phase = "all_ones" /\ x = 255 THEN b
  ELSE [Store(b, << "tcf" >>) EXCEPT !.input_phase = "all_zeros",
                                     !.latest_eol_ptr = b.in_ptr]

InjectFirstEol(b, x) ==
  IF ~IsEol(b, x) THEN [b EXCEPT !.zeros = Zeros(b, x)]
  ELSE [Store(b, << "pad", "pad", "eol" >>) EXCEPT
          !.input_phase = "in_progress", !.latest_eol_ptr = b.in_ptr,
          !.row_bits = TopBit(x) - 8, !.since = TopBit(x), !.zeros = Zeros(b, x)]

\* Zero octets that bring a row of so many bits to the minimum.
Fill(bits) == IF bits >= MinBits THEN 0 ELSE (MinBits - bits + 7) \div 8

\* The EOLs are not back to back; and the slip of stuffing between any two.
RowsApartAlways(bits) == TRUE
RowsApart(bits) == bits < 12 \/ bits > 13

InjectRow(b, x) ==
  LET eol   == IsEol(b, x)
      bits  == b.row_bits + 8 - TopBit(x)
      rtc   == b.since = b.row_bits /\ b.since + 8 - TopBit(x) \in 12 .. 13
      kind  == IF ~eol THEN "row" ELSE IF rtc THEN "rtc" ELSE "eol"
      apart == eol /\ RowsApart(bits)
      pads  == IF apart THEN Fill(bits) ELSE 0
      b1    == Store(b, [j \in 1 .. pads |-> "pad"])
      b2    == IF apart THEN [b1 EXCEPT !.latest_eol_ptr = b1.in_ptr] ELSE b1
  IN  [Store(b2, << kind >>) EXCEPT
         !.row_bits = IF eol THEN TopBit(x) ELSE b.row_bits + 8,
         !.since    = IF eol THEN TopBit(x) ELSE b.since + 8,
         !.zeros    = Zeros(b, x)]

InjectOctet(b, x) ==
  CASE b.input_phase \in {"all_ones", "all_zeros"} -> InjectTcf(b, x)
    [] b.input_phase = "waiting_eol"               -> InjectFirstEol(b, x)
    [] b.input_phase = "in_progress"               -> InjectRow(b, x)

(* The buffer holds nine seconds of data; the modem is taken never to fall *)
(* so far behind that the tail is overwritten.                             *)
Room(b, x) == InjectOctet(b, x).stored - b.due < BufLen

\* t38_non_ecm_buffer_set_mode
SetMode(b, mode) == [b EXCEPT !.image_data_mode = mode]

\* t38_non_ecm_buffer_push, its two assignments.
PushAll ==
  /\ nonEcm' = [nonEcm EXCEPT !.latest_eol_ptr = nonEcm.in_ptr]
  /\ pushing' = TRUE
  /\ collided' = (collided \/ getting = "empty")
  /\ UNCHANGED getting

PushDone ==
  /\ pushing
  /\ nonEcm' = [nonEcm EXCEPT !.data_finished = TRUE]
  /\ pushing' = FALSE
  /\ UNCHANGED << getting, collided >>

-----------------------------------------------------------------------------
(* t38_non_ecm_buffer_get_bit, when another octet is needed.  Whether the  *)
(* queue is empty and whether the data are finished are two reads.         *)

GetOctet ==
  /\ getting = "no" /\ nonEcm.out_ptr # nonEcm.latest_eol_ptr
  /\ nonEcm' = [nonEcm EXCEPT !.out_ptr = Later(@, 1), !.due = @ + 1]
  /\ UNCHANGED << getting, pushing, collided >>

FindEmpty ==
  /\ getting = "no" /\ nonEcm.out_ptr = nonEcm.latest_eol_ptr
  /\ getting' = "empty" /\ collided' = FALSE
  /\ UNCHANGED << nonEcm, pushing >>

\* A fill octet goes out.
GetFill ==
  /\ getting = "empty" /\ ~nonEcm.data_finished
  /\ getting' = "no"
  /\ UNCHANGED << nonEcm, pushing, collided >>

\* The slip: the out pointer is not moved back at the restart.
GetEndKeeps ==
  /\ getting = "empty" /\ nonEcm.data_finished
  /\ nonEcm' = [Restart(nonEcm) EXCEPT !.out_ptr = nonEcm.out_ptr]
  /\ getting' = "no"
  /\ UNCHANGED << pushing, collided >>

\* SIG_STATUS_END_OF_DATA
GetEnd ==
  /\ getting = "empty" /\ nonEcm.data_finished
  /\ nonEcm' = Restart(nonEcm)
  /\ getting' = "no"
  /\ UNCHANGED << pushing, collided >>

-----------------------------------------------------------------------------
(* An octet waits behind the point where the modem stuffs zeros.           *)
Blocked(b) ==
  /\ b.out_ptr = b.latest_eol_ptr /\ b.out_ptr # b.in_ptr /\ ~b.data_finished

\* "We need to buffer whole rows before we output their beginning, so there is
\* no possibility of underflow mid-row" (t38_non_ecm_buffer.c:160): where the
\* modem has to stuff zeros an EOL follows, and nothing is stuffed between the
\* EOLs of an RTC, whatever rows and fill came before and however the buffer has
\* wrapped.  This is about input in a phase of image data; the first page after a
\* TCF goes out under the rules of TCF, for set_mode leaves the phase as it is.
RowsHeldBack ==
  nonEcm.input_phase = "in_progress" /\ Blocked(nonEcm)
    => nonEcm.data[nonEcm.out_ptr].is \in {"pad", "eol"}

\* The octets leave in the order they were stored, none twice and none skipped:
\* the octet at out_ptr is the one that is due, though the two threads move three
\* wrapping pointers without a lock.  And "this must really be the end to
\* transmission" (t38_non_ecm_buffer.c:101): the modem ends only when all that
\* was stored has left, unless the push came between the two reads of get_bit.
OctetsInOrder ==
  /\ nonEcm.out_ptr # nonEcm.latest_eol_ptr
       => nonEcm.data[nonEcm.out_ptr].n = nonEcm.due
  /\ getting = "empty" /\ nonEcm.data_finished /\ ~collided
       => nonEcm.due = nonEcm.stored

=============================================================================
