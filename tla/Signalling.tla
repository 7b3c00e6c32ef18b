----------------------------- MODULE Signalling -----------------------------
(***************************************************************************)
(* CallControl with the texts it reads and answers: session_procCMD parses *)
(* what the controller sent, hands the message to its handler, and sends   *)
(* the answer as a text.  The addresses of a SETUP become those the legs   *)
(* send their datagrams to.                                                *)
(***************************************************************************)
EXTENDS CallControlRefinement, MsgProc

CONSTANTS
  Messages,     \* the messages a controller composes
  OddTexts,     \* other texts it may send
  Rests,        \* what may stand in a receive buffer behind a text
  Stacks,       \* what may stand in the locals of msg_parseSetup: addresses
  LocalIp,      \* cfg->local_ip
  PortStart     \* PORT_START

Texts == { Compose(m) : m \in Messages } \union OddTexts

(* A host and a port there are. *)
Good(a) == a = << a[1], a[2] >> /\ a[1] # NoHost /\ a[2] \in 1 .. PortSpace - 2

(* A message that sig_msgCreate* makes, with good addresses. *)
WellFormed(m) ==
  CASE m.type = "SETUP"   -> /\ m = SetupMsg(m.call_id, m.mode, m.src, m.dst)
                             /\ m.mode \in { "GG", "GT" } /\ Good(m.src)
                             /\ m.mode = "GG" => Good(m.dst)
    [] m.type = "OK"      -> m = OkMsg(m.call_id, m.addr) /\ Good(m.addr)
    [] m.type = "RELEASE" -> m = ReleaseMsg(m.call_id)
    [] m.type = "ERROR"   -> m = ErrorMsg(m.call_id, m.err) /\ m.err \in DOMAIN ErrorText
    [] OTHER              -> FALSE

IsSeq(s) == s \in Seq({ s[i] : i \in DOMAIN s })

(* A controller that names hosts and ports there are, and writes numbers   *)
(* an int can hold; and CallIds are the identifiers a text can name.       *)
ASSUME MessageAssumption == \A m \in Messages : WellFormed(m)
ASSUME TextAssumption ==
  /\ \A t \in Texts :
       IsSeq(t) /\ \A i \in DOMAIN t : IsAt(t[i]) => t[i][3] \in 0 .. IntSpace \div 2 - 1
  /\ \A rest \in Rests : IsSeq(rest)
  /\ \A w \in Stacks : IsAt(w)
ASSUME CallIdAssumption ==
  \A t \in Texts, rest \in Rests :
    LET w == t \o rest
    IN  Len(w) >= 2 /\ w[1] \in { Word("SETUP"), Word("RELEASE") }
          => w[2] \in { Word(c) : c \in CallIds }
ASSUME LocalAssumption ==
  LocalIp # NoHost /\ PortStart \in 1 .. PortSpace - 2 - PortCount

VARIABLES
  rem,      \* remaddr of each session
  asked     \* history: the address the text of the SETUP gave for each leg

sigVars == << rem, asked >>

NoAddr == << NoHost, 0 >>
AnyAddr == << NoHost, 1 >>     \* asked: the text gave none

SigInit ==
  /\ Init
  /\ rem = [s \in Sess |-> NoAddr] /\ asked = [s \in Sess |-> NoAddr]

-----------------------------------------------------------------------------
(* The message sent, read off the answer of CallControl.                   *)
AnswerMsg(a) ==
  CASE a.type = "OK" ->
         OkMsg(a.call_id,
               << LocalIp, IF a.port = WrapPort THEN PortSpace - 1 ELSE PortStart + a.port >>)
    [] a.type = "ERROR" ->
         IF a.call_id = NULL THEN ErrorMsg("FAIL", "INVALID_MESSAGE")
         ELSE ErrorMsg(a.call_id, "INTERNAL")
    [] OTHER -> Refusal

(* The addresses a SETUP text gives, behind its mode: "SETUP id GG ip:port *)
(* ip:port".  A GT call has but the first.                                 *)
Written(t, k) ==
  IF Len(t) >= 3 + k /\ IsAt(t[3 + k]) THEN << t[3 + k][2], t[3 + k][3] >> ELSE AnyAddr

Given(t, m) ==
  CASE m.type # "SETUP" -> << NoAddr, NoAddr >>
    [] m.type = "SETUP" /\ m.mode = "GG" -> << Written(t, 1), Written(t, 2) >>
    [] OTHER -> << Written(t, 1), AnyAddr >>

(* session_init of both legs, and what became of the freed ones.           *)
LegAddr(f, in, out) ==
  [s \in Sess |-> IF s \notin live' THEN NoAddr
                  ELSE IF s \in live THEN f[s]
                  ELSE IF obj'[s].kind = "IN" THEN in ELSE out]

Handle(m) ==
  CASE m.type = "SETUP"   -> Setup(m.call_id)
    [] m.type = "RELEASE" -> Release(m.call_id) \/ ReleaseUnknown(m.call_id)
    [] m.type = "NONE"    -> BadMessage
    [] OTHER              -> NoCommand

(* What the program can make of what is sent to it: each text, with what   *)
(* it finds in its buffer and on its stack.                                *)
Readings ==
  LET Read(t, m) == [message |-> m, in |-> Given(t, m)[1], out |-> Given(t, m)[2]]
  IN  { Read(t, Parse(t, rest, stack)) : t \in Texts, rest \in Rests, stack \in Stacks }

(* session_procCMD with a datagram. *)
ProcCMD ==
  /\ pc = "cmd"
  /\ \E r \in Readings :
       /\ Handle(r.message)
       /\ IF r.message.type = "SETUP" THEN rem' = LegAddr(rem, r.message.src, r.message.dst)
          ELSE rem' = LegAddr(rem, NoAddr, NoAddr)
       /\ asked' = LegAddr(asked, r.in, r.out)

(* The rest of the main thread. *)
Otherwise ==
  /\ \/ AppInit \/ AppInitFails
     \/ Poll \/ SkipHole \/ KeepSession \/ MoveSession \/ EndSessions
     \/ NoCommand \/ AppDestroy
     \/ Signal \/ Ended
  /\ rem' = LegAddr(rem, NoAddr, NoAddr) /\ asked' = LegAddr(asked, NoAddr, NoAddr)

SigNext == ProcCMD \/ Otherwise

SigSpec == SigInit /\ [][SigNext]_<< vars, sigVars >>

-----------------------------------------------------------------------------
\* Each leg sends its datagrams to the address the SETUP of its call gave for
\* it, for as long as it lives and wherever it is moved in the table; only the
\* OUT leg of a GT call has an address nobody gave (src/src/msg_proc.c:393).
RemoteIsAsked ==
  \A s \in Legs : asked[s] # AnyAddr => rem[s] = asked[s]

\* A controller that parses the answer with the code of this repository gets the
\* very message that was sent, whatever its buffer held before
\* (src/src/msg_proc.c:273, 540).
AnswerUnderstood ==
  answer.type # "NONE" =>
    \A rest \in Rests, stack \in Stacks :
      Parse(Compose(AnswerMsg(answer)), rest, stack) = AnswerMsg(answer)

\* A command that sig_msgCompose wrote, with ports from 1 to 65534, is read as
\* the message it was made of, whatever the buffer and the stack hold; of a GT
\* SETUP all but the second address (src/src/msg_proc.c:200, 322).
CommandUnderstood ==
  pc = "cmd" =>
    \A m \in Messages, rest \in Rests, stack \in Stacks :
      LET read == Parse(Compose(m), rest, stack)
      IN  \/ read = m
          \/ m.type = "SETUP" /\ m.mode = "GT" /\ read.type = "SETUP"
             /\ read = [m EXCEPT !.dst = read.dst]

=============================================================================
