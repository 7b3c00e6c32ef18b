------------------------------ MODULE OpenType ------------------------------
(***************************************************************************)
(* The open types of a UDPTL datagram (src/src/udptl.c): a length of one   *)
(* or two octets and the octets themselves.  A fragment has 16384 octets   *)
(* or more, which no buffer of LOCAL_FAX_MAX_DATAGRAM octets holds, or is  *)
(* empty: the decoder goes on to the length behind it.                     *)
(***************************************************************************)
EXTENDS Integers, Sequences, SequencesExt

CONSTANT Radix    \* 256: the number of values of an octet

ASSUME RadixAssumption == Radix \in Nat /\ Radix > 0 /\ Radix % 4 = 0

LongForm == Radix \div 2          \* 0x80
Fragment == LongForm + Radix \div 4    \* 0xC0

-----------------------------------------------------------------------------
(* encode_length, encode_open_type *)

\* One octet, whatever the length.
EncodeLengthShort(n) == << n % Radix >>

EncodeLength(n) ==
  IF n < LongForm THEN << n >> ELSE << LongForm + n \div Radix, n % Radix >>

EncodeOpenType(data) ==
  LET d == IF data = << >> THEN << 0 >> ELSE data IN EncodeLength(Len(d)) \o d

-----------------------------------------------------------------------------
(* decode_length, decode_open_type.  The decoder has read "at" octets of   *)
(* buf and collected "objects"; NotOk is its return with -1, after which   *)
(* it reads no more.                                                       *)

NotOk(st) == [st EXCEPT !.ok = FALSE]

\* Behind the empty fragments, the octet of which is Fragment itself.
PastEmpty(buf, at) ==
  CHOOSE a \in at .. Len(buf) :
    /\ \A i \in at + 1 .. a : buf[i] = Fragment
    /\ a < Len(buf) => buf[a + 1] # Fragment

DecodeLength(buf, st) ==
  LET at == PastEmpty(buf, st.at)
      b  == buf[at + 1]
  IN  IF ~st.ok \/ at >= Len(buf) THEN NotOk(st)
      ELSE IF b < LongForm THEN [st EXCEPT !.value = b, !.at = at + 1]
      ELSE IF b > Fragment \/ at >= Len(buf) - 1 THEN NotOk(st)
      ELSE [st EXCEPT !.value = (b % (Radix \div 4)) * Radix + buf[at + 2],
                      !.at = at + 2]

DecodeOpenType(buf, st) ==
  LET l == DecodeLength(buf, st)
  IN  IF ~l.ok \/ l.at + l.value > Len(buf) THEN NotOk(l)
      ELSE [l EXCEPT !.at = @ + l.value,
                     !.objects = Append(@, SubSeq(buf, l.at + 1, l.at + l.value))]

DecodeOpenTypes(buf, st, count) ==
  FoldLeft(LAMBDA s, i : DecodeOpenType(buf, s), st, [i \in 1 .. count |-> i])

-----------------------------------------------------------------------------
(* A datagram: the number, the primary, and either a count and the         *)
(* secondaries or the span, the entries and the FEC.                       *)

Header(seq, primary) ==
  << (seq \div Radix) % Radix, seq % Radix >> \o EncodeOpenType(primary)

EncodeRedundancy(seq, primary, secondaries) ==
  Header(seq, primary) \o << 0 >> \o EncodeLength(Len(secondaries))
    \o FlattenSeq([i \in DOMAIN secondaries |-> EncodeOpenType(secondaries[i])])

EncodeFec(seq, primary, span, fec) ==
  Header(seq, primary) \o << LongForm, 1, span, Len(fec) >>
    \o FlattenSeq([i \in DOMAIN fec |-> EncodeOpenType(fec[i])])

\* udptl_rx_packet, as far as it decodes; "stored" says that it came to the
\* point where slots are cleared and the primary is stored.
DecodeSecondaries(buf, st) ==
  LET c == DecodeLength(buf, st) IN DecodeOpenTypes(buf, c, c.value)

DecodeFec(buf, st) ==
  IF st.at + 3 > Len(buf) \/ buf[st.at + 1] # 1 THEN NotOk(st)
  ELSE DecodeOpenTypes(buf, [st EXCEPT !.at = @ + 3], buf[st.at + 3])

Decode(buf) ==
  LET start == [ok |-> Len(buf) >= 2, at |-> 2, value |-> 0, objects |-> << >>]
      p     == DecodeOpenType(buf, start)
      next  == [p EXCEPT !.at = @ + 1]
      rest  == IF buf[p.at + 1] < LongForm THEN DecodeSecondaries(buf, next)
               ELSE DecodeFec(buf, next)
  IN  IF ~p.ok \/ p.at + 1 > Len(buf)
      THEN [ok |-> FALSE, stored |-> FALSE, objects |-> << >>]
      ELSE [ok |-> rest.ok /\ rest.at = Len(buf), stored |-> TRUE,
            objects |-> rest.objects]

=============================================================================
