------------------------------ MODULE MsgProc ------------------------------
(***************************************************************************)
(* The texts of the signalling messages (src/src/msg_proc.c): what         *)
(* sig_msgCompose writes and what sig_msgParse makes of a text.            *)
(*                                                                         *)
(* A text is a sequence of words as sscanf separates them; one that holds  *)
(* a colon is an address and the number written after it.  A text ends     *)
(* with the line end that sig_msgCompose writes, but with no NUL: what the *)
(* receive buffer still holds behind it is "rest", and sscanf reads on.    *)
(***************************************************************************)
EXTENDS Integers, Sequences

CONSTANTS
  PortSpace,    \* 2^16: ports are sixteen bits wide
  IntSpace,     \* 2^32: strtoul's result is stored into an int
  NoHost        \* INADDR_NONE: what inet_addr returns for 255.255.255.255
                \* and for a text that is no address

ASSUME WidthAssumption ==
  /\ PortSpace \in Nat /\ PortSpace > 2
  /\ IntSpace \in Nat /\ IntSpace > 0 /\ IntSpace % (2 * PortSpace) = 0

Word(w)   == << w >>
At(ip, n) == << "at", ip, n >>
IsAt(w)   == Len(w) = 3

-----------------------------------------------------------------------------
(* sig_msgCreate*.  "dst" of a GT SETUP is whatever it is. *)

SetupMsg(c, mode, src, dst) ==
  [type |-> "SETUP", call_id |-> c, mode |-> mode, src |-> src, dst |-> dst]
OkMsg(c, addr)   == [type |-> "OK", call_id |-> c, addr |-> addr]
ReleaseMsg(c)    == [type |-> "RELEASE", call_id |-> c]
ErrorMsg(c, err) == [type |-> "ERROR", call_id |-> c, err |-> err]

-----------------------------------------------------------------------------
(* sig_msgCompose. *)

ErrorText == [INTERNAL |-> "INTERNAL_ERR", INVALID_MESSAGE |-> "INVALID_MSG_ERR",
              UNKNOWN |-> "UNKNOWN_ERR"]

\* A switch that forgets an error code.
ErrStrOneMissing(err) ==
  ErrorText[IF err = "INVALID_MESSAGE" THEN "UNKNOWN" ELSE err]

ErrStr(err) == ErrorText[err]

AddrText(a) == At(a[1], a[2])

Compose(m) ==
  << Word(m.type), Word(m.call_id) >> \o
  CASE m.type = "SETUP" /\ m.mode = "GG" ->
         << Word("GG"), AddrText(m.src), AddrText(m.dst) >>
    [] m.type = "SETUP" /\ m.mode = "GT" -> << Word("GT"), AddrText(m.src) >>
    [] m.type = "OK"                     -> << AddrText(m.addr) >>
    [] m.type = "ERROR"                  -> << Word(ErrStr(m.err)) >>
    [] OTHER                             -> << >>

-----------------------------------------------------------------------------
(* sig_msgParse.                                                           *)

\* strtoul into an int, the test of the int, and the cast to sixteen bits.
AsInt(n) == LET r == n % IntSpace IN IF r < IntSpace \div 2 THEN r ELSE r - IntSpace

\* The test made of a short.
PortFitsShort(n) == n % PortSpace > 0 /\ n % PortSpace < PortSpace \div 2

PortFits(n) == AsInt(n) # 0 /\ AsInt(n) < PortSpace - 1
Uint16Of(n) == n % PortSpace

AddrFits(w) == IsAt(w) /\ w[2] # NoHost /\ PortFits(w[3])
AddrOf(w)   == << w[2], Uint16Of(w[3]) >>

Refusal == [type |-> "NONE"]

(* w is the whole buffer.  With no third address sscanf leaves             *)
(* dst_ip_port_str as the stack had it, and a GT SETUP leaves so dst_ip    *)
(* and dst_port: "stack" is what was there.                                *)

\* The second address looked for in the word of the first.
ParseSetupSrcTwice(w, stack) ==
  IF Len(w) >= 4 /\ w[3] \in { Word("GG"), Word("GT") } /\ AddrFits(w[4])
  THEN SetupMsg(w[2][1], w[3][1], AddrOf(w[4]), AddrOf(w[4]))
  ELSE Refusal

ParseSetup(w, stack) ==
  LET dst == IF Len(w) >= 5 THEN w[5] ELSE stack
  IN  IF /\ Len(w) >= 4 /\ AddrFits(w[4])
         /\ \/ w[3] = Word("GG") /\ AddrFits(dst)
            \/ w[3] = Word("GT")
      THEN SetupMsg(w[2][1], w[3][1], AddrOf(w[4]),
                    AddrOf(IF w[3] = Word("GG") THEN dst ELSE stack))
      ELSE Refusal

ParseOk(w) ==
  IF Len(w) >= 3 /\ AddrFits(w[3]) THEN OkMsg(w[2][1], AddrOf(w[3])) ELSE Refusal

ParseError(w) ==
  IF Len(w) < 3 THEN Refusal
  ELSE ErrorMsg(w[2][1],
         IF w[3] = Word("INTERNAL_ERR") THEN "INTERNAL"
         ELSE IF w[3] = Word("INVALID_MSG_ERR") THEN "INVALID_MESSAGE" ELSE "UNKNOWN")

Parsed(w, stack) ==
  IF Len(w) < 2 THEN Refusal
  ELSE CASE w[1] = Word("SETUP")   -> ParseSetup(w, stack)
         [] w[1] = Word("OK")      -> ParseOk(w)
         [] w[1] = Word("ERROR")   -> ParseError(w)
         [] w[1] = Word("RELEASE") -> ReleaseMsg(w[2][1])
         [] OTHER                  -> Refusal

Parse(text, rest, stack) == Parsed(text \o rest, stack)

=============================================================================
