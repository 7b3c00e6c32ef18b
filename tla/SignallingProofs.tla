-------------------------- MODULE SignallingProofs --------------------------
(***************************************************************************)
(* What sig_msgCompose writes, sig_msgParse reads back, whatever stands in *)
(* the buffer behind the text; and the addresses of a SETUP stay with the  *)
(* legs they were given for.  The texts change nothing of what the main    *)
(* thread does, so that all that is proved of CallControl holds here too.  *)
(***************************************************************************)
EXTENDS Signalling, CallControlProofs

-----------------------------------------------------------------------------
(* Words and numbers. *)

LEMMA WordIs ==
  /\ \A x : Word(x)[1] = x
  /\ \A x, y : Word(x) = Word(y) => x = y
  <1>1. \A x : Word(x)[1] = x
    BY DEF Word
  <1> QED BY ONLY <1>1

LEMMA AtIs ==
  \A ip, n : IsAt(At(ip, n)) /\ At(ip, n)[2] = ip /\ At(ip, n)[3] = n
  BY DEF IsAt, At

(* An int holds a port and its sign. *)
LEMMA Widths ==
  /\ PortSpace \in Nat /\ PortSpace > 2
  /\ IntSpace \in Nat /\ IntSpace > 0
  /\ IntSpace \div 2 \in Int /\ PortSpace <= IntSpace \div 2
  /\ IntSpace \div 2 <= IntSpace
  <1>1. /\ PortSpace \in Nat /\ PortSpace > 2
        /\ IntSpace \in Nat /\ IntSpace > 0 /\ IntSpace % (2 * PortSpace) = 0
    BY WidthAssumption
  <1> DEFINE b == 2 * PortSpace
             d == IntSpace \div b
             h == IntSpace \div 2
  <1>2. b \in Nat /\ b > 0
    BY <1>1
  <1>3. IntSpace = b * d /\ d \in Int
    <2> HIDE DEF b
    <2>1. IntSpace = b * d + (IntSpace % b) /\ d \in Int
      BY <1>1, <1>2, Remainder
    <2>2. IntSpace % b = 0
      BY <1>1 DEF b
    <2> HIDE DEF d
    <2> QED BY ONLY <1>1, <1>2, <2>1, <2>2
  <1> HIDE DEF d
  <1>4. d >= 1
    <2>1. CASE d <= 0
      <3>1. b * d <= 0
        BY ONLY <1>2, <1>3, <2>1
      <3> QED BY ONLY <1>1, <1>3, <3>1
    <2> QED BY <1>3, <2>1
  <1>5. IntSpace = 2 * (PortSpace * d) /\ PortSpace * d \in Int
    BY ONLY <1>1, <1>3 DEF b
  <1>6. h \in Int /\ IntSpace = 2 * h + (IntSpace % 2) /\ IntSpace % 2 \in 0 .. 1
    BY <1>1, Remainder
  <1> HIDE DEF h
  <1>7. h = PortSpace * d /\ h <= IntSpace
    <2> DEFINE e == PortSpace * d
               o == IntSpace % 2
    <2>1. e \in Int /\ IntSpace = 2 * e /\ o \in 0 .. 1 /\ IntSpace = 2 * h + o
      BY <1>5, <1>6
    <2> HIDE DEF e, o
    <2>2. h = e /\ h <= IntSpace
      BY ONLY <1>1, <1>6, <2>1
    <2> QED BY <2>2 DEF e
  <1>8. PortSpace * d >= PortSpace
    BY ONLY <1>1, <1>3, <1>4
  <1> QED BY <1>1, <1>6, <1>7, <1>8 DEF h

(* What strtoul, the test and the cast leave of a number an int can hold.  *)
LEMMA PortIs ==
  ASSUME NEW n \in 0 .. IntSpace \div 2 - 1
  PROVE  /\ PortFits(n) => n \in 1 .. PortSpace - 2 /\ Uint16Of(n) = n
         /\ n \in 1 .. PortSpace - 2 => PortFits(n)
  <1> DEFINE h == IntSpace \div 2
  <1>1. /\ PortSpace \in Nat /\ PortSpace > 2 /\ IntSpace \in Nat /\ h \in Int
        /\ PortSpace <= h /\ h <= IntSpace /\ n \in 0 .. h - 1
    BY Widths
  <1>2. n % IntSpace = n
    <2> HIDE DEF h
    <2>1. n \in Int /\ 0 <= n /\ n < IntSpace
      BY ONLY <1>1
    <2> QED BY ONLY <1>1, <2>1
  <1>3. AsInt(n) = n
    <2>1. AsInt(n) = IF n < h THEN n ELSE n - IntSpace
      BY <1>2 DEF AsInt
    <2> HIDE DEF h
    <2> QED BY ONLY <1>1, <2>1
  <1>4. PortFits(n) <=> n # 0 /\ n < PortSpace - 1
    BY <1>3 DEF PortFits
  <1> HIDE DEF h
  <1>5. ASSUME PortFits(n) PROVE Uint16Of(n) = n
    <2>1. n \in Int /\ 0 <= n /\ n < PortSpace
      BY ONLY <1>1, <1>4, <1>5
    <2> QED BY ONLY <1>1, <2>1 DEF Uint16Of
  <1> QED BY ONLY <1>1, <1>4, <1>5

-----------------------------------------------------------------------------
(* A buffer: a text and what stands behind it. *)

LEMMA SequenceIs ==
  ASSUME NEW s, IsSeq(s), NEW S, \A i \in DOMAIN s : s[i] \in S
  PROVE  s \in Seq(S)
  <1> DEFINE R == { s[i] : i \in DOMAIN s }
  <1>1. s \in Seq(R) /\ R \subseteq S
    BY DEF IsSeq
  <1> HIDE DEF R
  <1> QED BY <1>1, SeqMonotonic, Zenon

LEMMA BufferIs ==
  ASSUME NEW t, IsSeq(t), NEW rest, IsSeq(rest), NEW w, w = t \o rest
  PROVE  /\ Len(w) \in Nat /\ Len(t) \in Nat /\ Len(w) >= Len(t)
         /\ DOMAIN t = 1 .. Len(t)
         /\ \A i \in 1 .. Len(t) : w[i] = t[i]
  <1> DEFINE S == { t[i] : i \in DOMAIN t } \union { rest[i] : i \in DOMAIN rest }
  <1>1. t \in Seq(S) /\ rest \in Seq(S)
    <2>1. /\ \A i \in DOMAIN t : t[i] \in S
          /\ \A i \in DOMAIN rest : rest[i] \in S
      OBVIOUS
    <2> HIDE DEF S
    <2> QED BY <2>1, SequenceIs
  <1> HIDE DEF S
  <1>2. /\ t \o rest \in Seq(S)
        /\ Len(t \o rest) = Len(t) + Len(rest)
        /\ \A i \in 1 .. Len(t) + Len(rest) :
             (t \o rest)[i] = IF i <= Len(t) THEN t[i] ELSE rest[i - Len(t)]
    BY <1>1, ConcatProperties, Zenon
  <1>3. Len(t) \in Nat /\ Len(rest) \in Nat /\ DOMAIN t = 1 .. Len(t)
    BY <1>1, LenProperties
  <1> DEFINE n == Len(t)
             k == Len(rest)
  <1>4. /\ n \in Nat /\ k \in Nat /\ Len(w) = n + k /\ DOMAIN t = 1 .. n
        /\ \A i \in 1 .. n + k : w[i] = IF i <= n THEN t[i] ELSE rest[i - n]
    BY <1>2, <1>3
  <1> HIDE DEF n, k
  <1>5. Len(w) \in Nat /\ n \in Nat /\ Len(w) >= n
    BY ONLY <1>4
  <1>6. \A i \in 1 .. n : w[i] = t[i]
    BY ONLY <1>4
  <1> QED BY <1>4, <1>5, <1>6 DEF n

(* A composed text: two words and at most three more. *)
Composed(a, b, v) == << a, b >> \o v

LEMMA ComposedIs ==
  ASSUME NEW S, NEW a \in S, NEW b \in S, NEW v \in Seq(S),
         NEW t, t = Composed(a, b, v)
  PROVE  /\ IsSeq(t) /\ Len(t) = 2 + Len(v) /\ Len(v) \in Nat
         /\ t[1] = a /\ t[2] = b
         /\ \A i \in 1 .. Len(v) : t[2 + i] = v[i]
  <1> DEFINE u == << a, b >>
             n == Len(v)
  <1>1. u \in Seq(S) /\ Len(u) = 2 /\ u[1] = a /\ u[2] = b
    OBVIOUS
  <1>0. t = u \o v
    BY DEF Composed
  <1>2. n \in Nat
    BY LenProperties
  <1> HIDE DEF u
  <1>3. /\ u \o v \in Seq(S) /\ Len(u \o v) = Len(u) + Len(v)
        /\ \A i \in 1 .. Len(u) + Len(v) :
             (u \o v)[i] = IF i <= Len(u) THEN u[i] ELSE v[i - Len(u)]
    BY <1>1, ConcatProperties, Zenon
  <1>4. /\ t \in Seq(S) /\ Len(t) = 2 + n
        /\ \A i \in 1 .. 2 + n : t[i] = IF i <= 2 THEN u[i] ELSE v[i - 2]
    BY ONLY <1>0, <1>1, <1>3
  <1> HIDE DEF n
  <1>5. t[1] = a /\ t[2] = b
    BY ONLY <1>1, <1>2, <1>4
  <1>6. \A i \in 1 .. n : t[2 + i] = v[i]
    <2> TAKE i \in 1 .. n
    <2> DEFINE j == 2 + i
    <2>1. j \in 1 .. 2 + n /\ ~(j <= 2) /\ j - 2 = i
      BY ONLY <1>2
    <2> HIDE DEF j
    <2>2. t[j] = v[i]
      BY ONLY <1>4, <2>1
    <2> QED BY <2>2 DEF j
  <1>7. IsSeq(t)
    <2>1. t = [i \in 1 .. Len(t) |-> t[i]] /\ Len(t) \in Nat /\ DOMAIN t = 1 .. Len(t)
      BY ONLY <1>4, LenProperties
    <2> DEFINE R == { t[i] : i \in DOMAIN t }
    <2>2. \A i \in 1 .. Len(t) : t[i] \in R
      BY <2>1
    <2> HIDE DEF R
    <2>3. t \in [1 .. Len(t) -> R]
      BY ONLY <2>1, <2>2
    <2>4. t \in Seq(R)
      BY ONLY <2>1, <2>3, SeqDef
    <2> QED BY <2>4 DEF IsSeq, R
  <1> QED BY <1>2, <1>4, <1>5, <1>6, <1>7 DEF n

Received(a, b, v, rest) == Composed(a, b, v) \o rest

LEMMA ReceivedIs ==
  ASSUME NEW S, NEW v \in Seq(S), NEW rest, IsSeq(rest), NEW a, NEW b
  PROVE  /\ Len(Received(a, b, v, rest)) \in Nat /\ Len(v) \in Nat
         /\ Len(Received(a, b, v, rest)) >= 2 + Len(v)
         /\ Received(a, b, v, rest)[1] = a /\ Received(a, b, v, rest)[2] = b
         /\ \A i \in 1 .. Len(v) : Received(a, b, v, rest)[2 + i] = v[i]
  <1> DEFINE n == Len(v)
             w == Received(a, b, v, rest)
             t == Composed(a, b, v)
             T == S \union { a, b }
  <1>1. v \in Seq(T) /\ a \in T /\ b \in T
    <2>1. S \subseteq T /\ a \in T /\ b \in T
      OBVIOUS
    <2> HIDE DEF T
    <2> QED BY <2>1, SeqMonotonic, Zenon
  <1> HIDE DEF T
  <1>2. /\ IsSeq(t) /\ Len(t) = 2 + n /\ n \in Nat
        /\ t[1] = a /\ t[2] = b /\ \A i \in 1 .. n : t[2 + i] = v[i]
    BY <1>1, ComposedIs
  <1> HIDE DEF t
  <1>3. /\ Len(w) \in Nat /\ Len(w) >= Len(t)
        /\ \A i \in 1 .. Len(t) : w[i] = t[i]
    <2>1. w = t \o rest
      BY DEF t, Received
    <2> HIDE DEF w
    <2> QED BY <1>2, <2>1, BufferIs
  <1> HIDE DEF n, w
  <1>4. /\ 1 \in 1 .. Len(t) /\ 2 \in 1 .. Len(t)
        /\ \A i \in 1 .. n : 2 + i \in 1 .. Len(t)
    BY ONLY <1>2
  <1>5. Len(w) >= 2 + n
    BY ONLY <1>2, <1>3
  <1> QED BY ONLY <1>2, <1>3, <1>4, <1>5 DEF n, w

(* The first word tells what the buffer holds. *)
LEMMA ParsedIs ==
  ASSUME NEW w, NEW stack, Len(w) \in Nat
  PROVE  /\ Len(w) < 2 => Parsed(w, stack) = Refusal
         /\ Len(w) >= 2 =>
              /\ w[1] = Word("SETUP") => Parsed(w, stack) = ParseSetup(w, stack)
              /\ w[1] = Word("OK") => Parsed(w, stack) = ParseOk(w)
              /\ w[1] = Word("ERROR") => Parsed(w, stack) = ParseError(w)
              /\ w[1] = Word("RELEASE") => Parsed(w, stack) = ReleaseMsg(w[2][1])
              /\ w[1] \notin { Word("SETUP"), Word("OK"), Word("ERROR"), Word("RELEASE") }
                   => Parsed(w, stack) = Refusal
  <1>1. /\ Word("SETUP") # Word("OK") /\ Word("SETUP") # Word("ERROR")
        /\ Word("SETUP") # Word("RELEASE") /\ Word("OK") # Word("ERROR")
        /\ Word("OK") # Word("RELEASE") /\ Word("ERROR") # Word("RELEASE")
    BY WordIs
  <1>2. Len(w) >= 2 => ~(Len(w) < 2)
    OBVIOUS
  <1>3. Len(w) < 2 => Parsed(w, stack) = Refusal
    BY Zenon DEF Parsed
  <1>4. ASSUME Len(w) >= 2, w[1] = Word("SETUP")
        PROVE  Parsed(w, stack) = ParseSetup(w, stack)
    BY <1>1, <1>2, <1>4, Zenon DEF Parsed
  <1>5. ASSUME Len(w) >= 2, w[1] = Word("OK")
        PROVE  Parsed(w, stack) = ParseOk(w)
    BY <1>1, <1>2, <1>5, Zenon DEF Parsed
  <1>6. ASSUME Len(w) >= 2, w[1] = Word("ERROR")
        PROVE  Parsed(w, stack) = ParseError(w)
    BY <1>1, <1>2, <1>6, Zenon DEF Parsed
  <1>7. ASSUME Len(w) >= 2, w[1] = Word("RELEASE")
        PROVE  Parsed(w, stack) = ReleaseMsg(w[2][1])
    BY <1>1, <1>2, <1>7, Zenon DEF Parsed
  <1>8. ASSUME Len(w) >= 2,
               w[1] \notin { Word("SETUP"), Word("OK"), Word("ERROR"), Word("RELEASE") }
        PROVE  Parsed(w, stack) = Refusal
    BY <1>1, <1>2, <1>8, Zenon DEF Parsed
  <1> QED BY ONLY <1>3, <1>4, <1>5, <1>6, <1>7, <1>8, Zenon

-----------------------------------------------------------------------------
(* Reading back what was composed. *)

(* A good address is read as it was written. *)
LEMMA AddressBack ==
  ASSUME NEW a, Good(a)
  PROVE  AddrFits(AddrText(a)) /\ AddrOf(AddrText(a)) = a
  <1> DEFINE n == a[2]
             x == AddrText(a)
  <1>1. a = << a[1], n >> /\ a[1] # NoHost /\ n \in 1 .. PortSpace - 2
    BY DEF Good
  <1>2. n \in 0 .. IntSpace \div 2 - 1
    BY <1>1, Widths
  <1> HIDE DEF n
  <1>3. PortFits(n) /\ Uint16Of(n) = n
    BY <1>1, <1>2, PortIs
  <1>4. IsAt(x) /\ x[2] = a[1] /\ x[3] = n
    BY AtIs DEF AddrText, n
  <1> HIDE DEF x
  <1>5. AddrFits(x) /\ AddrOf(x) = << a[1], n >>
    BY <1>1, <1>3, <1>4 DEF AddrFits, AddrOf
  <1> QED BY <1>1, <1>5 DEF x

LEMMA SetupBack ==
  ASSUME NEW m, WellFormed(m), m.type = "SETUP", NEW rest, IsSeq(rest), NEW stack
  PROVE  LET read == Parse(Compose(m), rest, stack)
         IN  \/ read = m
             \/ m.mode = "GT" /\ read.type = "SETUP" /\ read = [m EXCEPT !.dst = read.dst]
  <1>1. /\ m = SetupMsg(m.call_id, m.mode, m.src, m.dst)
        /\ m.mode \in { "GG", "GT" } /\ Good(m.src) /\ (m.mode = "GG" => Good(m.dst))
    BY DEF WellFormed
  <1> DEFINE c == m.call_id
             mode == m.mode
             src == m.src
             dst == m.dst
             w == Compose(m) \o rest
             x == AddrText(src)
  <1>2. AddrFits(x) /\ AddrOf(x) = src
    BY <1>1, AddressBack
  <1>3. ASSUME NEW v, NEW S, v \in Seq(S),
               Compose(m) = Composed(Word("SETUP"), Word(c), v)
        PROVE  /\ Len(w) \in Nat /\ Len(w) >= 2 + Len(v)
               /\ w[1] = Word("SETUP") /\ w[2] = Word(c)
               /\ \A i \in 1 .. Len(v) : w[2 + i] = v[i]
    <2>1. w = Received(Word("SETUP"), Word(c), v, rest)
      BY <1>3 DEF Received
    <2> HIDE DEF w
    <2> QED BY <1>3, <2>1, ReceivedIs
  <1>4. Parse(Compose(m), rest, stack) = Parsed(w, stack)
    BY DEF Parse
  <1>5. CASE mode = "GG"
    <2> DEFINE y == AddrText(dst)
               v == << Word("GG"), x, y >>
    <2>1. AddrFits(y) /\ AddrOf(y) = dst
      BY <1>1, <1>5, AddressBack
    <2>2. Compose(m) = Composed(Word("SETUP"), Word(c), v)
      BY <1>5 DEF Compose, Composed
    <2>3. /\ v \in Seq({ Word("GG"), x, y }) /\ Len(v) = 3
          /\ v[1] = Word("GG") /\ v[2] = x /\ v[3] = y
      OBVIOUS
    <2> HIDE DEF v, x, y
    <2>4. /\ Len(w) \in Nat /\ Len(w) >= 2 + Len(v)
          /\ w[1] = Word("SETUP") /\ w[2] = Word(c)
          /\ \A i \in 1 .. Len(v) : w[2 + i] = v[i]
      BY <1>3, <2>2, <2>3
    <2> HIDE DEF w
    <2>5. Len(w) >= 5 /\ w[3] = Word("GG") /\ w[4] = x /\ w[5] = y
      BY <2>3, <2>4
    <2>6. ParseSetup(w, stack) = SetupMsg(Word(c)[1], Word("GG")[1], AddrOf(x), AddrOf(y))
      BY <1>2, <2>1, <2>4, <2>5 DEF ParseSetup
    <2>7. Parse(Compose(m), rest, stack) = ParseSetup(w, stack)
      BY <1>4, <2>4, <2>5, ParsedIs
    <2> QED BY <1>1, <1>2, <1>5, <2>1, <2>6, <2>7, WordIs
  <1>6. CASE mode = "GT"
    <2> DEFINE v == << Word("GT"), x >>
    <2>2. Compose(m) = Composed(Word("SETUP"), Word(c), v)
      BY <1>6 DEF Compose, Composed
    <2>3. /\ v \in Seq({ Word("GT"), x }) /\ Len(v) = 2
          /\ v[1] = Word("GT") /\ v[2] = x
      OBVIOUS
    <2> HIDE DEF v, x
    <2>4. /\ Len(w) \in Nat /\ Len(w) >= 2 + Len(v)
          /\ w[1] = Word("SETUP") /\ w[2] = Word(c)
          /\ \A i \in 1 .. Len(v) : w[2 + i] = v[i]
      BY <1>3, <2>2, <2>3
    <2> HIDE DEF w
    <2>5. Len(w) >= 4 /\ w[3] = Word("GT") /\ w[4] = x
      BY <2>3, <2>4
    <2>6. w[3] # Word("GG")
      BY <2>5, WordIs
    <2>7. ParseSetup(w, stack)
            = SetupMsg(Word(c)[1], Word("GT")[1], AddrOf(x), AddrOf(stack))
      BY <1>2, <2>4, <2>5, <2>6 DEF ParseSetup
    <2>8. Parse(Compose(m), rest, stack) = ParseSetup(w, stack)
      BY <1>4, <2>4, <2>5, ParsedIs
    <2> DEFINE read == Parse(Compose(m), rest, stack)
    <2>9. read = SetupMsg(c, "GT", src, AddrOf(stack)) /\ m = SetupMsg(c, "GT", src, dst)
      BY <1>1, <1>2, <1>6, <2>7, <2>8, WordIs
    <2> HIDE DEF read, c, src, dst
    <2>10. read.type = "SETUP" /\ read = [m EXCEPT !.dst = read.dst]
      BY ONLY <2>9 DEF SetupMsg
    <2> QED BY <1>6, <2>10 DEF read
  <1> QED BY <1>1, <1>5, <1>6

LEMMA ReplyBack ==
  ASSUME NEW m, WellFormed(m), m.type # "SETUP", NEW rest, IsSeq(rest), NEW stack
  PROVE  Parse(Compose(m), rest, stack) = m
  <1> DEFINE c == m.call_id
             w == Compose(m) \o rest
  <1>1. \/ m.type = "OK" /\ m = OkMsg(c, m.addr) /\ Good(m.addr)
        \/ m.type = "RELEASE" /\ m = ReleaseMsg(c)
        \/ m.type = "ERROR" /\ m = ErrorMsg(c, m.err) /\ m.err \in DOMAIN ErrorText
    BY DEF WellFormed
  <1>2. ASSUME NEW v, NEW S, v \in Seq(S),
               Compose(m) = Composed(Word(m.type), Word(c), v)
        PROVE  /\ Len(w) \in Nat /\ Len(v) \in Nat /\ Len(w) >= 2 + Len(v)
               /\ w[1] = Word(m.type) /\ w[2] = Word(c)
               /\ \A i \in 1 .. Len(v) : w[2 + i] = v[i]
    <2>1. w = Received(Word(m.type), Word(c), v, rest)
      BY <1>2 DEF Received
    <2> HIDE DEF w
    <2> QED BY <1>2, <2>1, ReceivedIs
  <1>3. Parse(Compose(m), rest, stack) = Parsed(w, stack)
    BY DEF Parse
  <1>4. CASE m.type = "OK"
    <2> DEFINE x == AddrText(m.addr)
               v == << x >>
    <2>1. AddrFits(x) /\ AddrOf(x) = m.addr
      BY <1>1, <1>4, AddressBack
    <2>2. Compose(m) = Composed(Word(m.type), Word(c), v)
      BY <1>4 DEF Compose, Composed
    <2>3. v \in Seq({ x }) /\ Len(v) = 1 /\ v[1] = x
      OBVIOUS
    <2> HIDE DEF v, x
    <2>4. /\ Len(w) \in Nat /\ Len(w) >= 2 + Len(v)
          /\ w[1] = Word(m.type) /\ w[2] = Word(c)
          /\ \A i \in 1 .. Len(v) : w[2 + i] = v[i]
      BY <1>2, <2>2, <2>3
    <2> HIDE DEF w
    <2>5. Len(w) >= 3 /\ w[3] = x
      BY <2>3, <2>4
    <2>6. ParseOk(w) = OkMsg(Word(c)[1], m.addr)
      BY <2>1, <2>4, <2>5 DEF ParseOk
    <2>7. w[1] = Word("OK") /\ w[1] # Word("SETUP")
      BY <1>4, <2>4, WordIs
    <2>8. Parse(Compose(m), rest, stack) = ParseOk(w)
      BY <1>3, <2>4, <2>5, <2>7, ParsedIs
    <2> QED BY <1>1, <1>4, <2>6, <2>8, WordIs
  <1>5. CASE m.type = "RELEASE"
    <2> DEFINE v == << >>
    <2>1. Compose(m) = Composed(Word(m.type), Word(c), v)
      BY <1>5 DEF Compose, Composed
    <2>2. v \in Seq({}) /\ Len(v) = 0
      OBVIOUS
    <2> HIDE DEF v
    <2>3. /\ Len(w) \in Nat /\ Len(w) >= 2 + Len(v)
          /\ w[1] = Word(m.type) /\ w[2] = Word(c)
      BY <1>2, <2>1, <2>2
    <2> HIDE DEF w
    <2>4. /\ w[1] = Word("RELEASE") /\ w[1] # Word("SETUP") /\ w[1] # Word("OK")
          /\ w[1] # Word("ERROR")
      BY <1>5, <2>3, WordIs
    <2>5. Parse(Compose(m), rest, stack) = ReleaseMsg(Word(c)[1])
      BY <1>3, <2>2, <2>3, <2>4, ParsedIs
    <2> QED BY <1>1, <1>5, <2>5, WordIs
  <1>6. CASE m.type = "ERROR"
    <2> DEFINE x == Word(ErrStr(m.err))
               v == << x >>
    <2>1. Compose(m) = Composed(Word(m.type), Word(c), v)
      BY <1>6 DEF Compose, Composed
    <2>2. v \in Seq({ x }) /\ Len(v) = 1 /\ v[1] = x
      OBVIOUS
    <2> HIDE DEF v, x
    <2>3. /\ Len(w) \in Nat /\ Len(w) >= 2 + Len(v)
          /\ w[1] = Word(m.type) /\ w[2] = Word(c)
          /\ \A i \in 1 .. Len(v) : w[2 + i] = v[i]
      BY <1>2, <2>1, <2>2
    <2> HIDE DEF w
    <2>4. Len(w) >= 3 /\ w[3] = x
      BY <2>2, <2>3
    <2>5. w[1] = Word("ERROR") /\ w[1] # Word("SETUP") /\ w[1] # Word("OK")
      BY <1>6, <2>3, WordIs
    <2>6. Parse(Compose(m), rest, stack) = ParseError(w)
      BY <1>3, <2>2, <2>3, <2>5, ParsedIs
    <2>7. /\ ErrStr("INTERNAL") = "INTERNAL_ERR"
          /\ ErrStr("INVALID_MESSAGE") = "INVALID_MSG_ERR"
          /\ ErrStr("UNKNOWN") = "UNKNOWN_ERR"
          /\ m.err \in { "INTERNAL", "INVALID_MESSAGE", "UNKNOWN" }
      BY <1>1, <1>6 DEF ErrStr, ErrorText
    <2>8. ParseError(w) = ErrorMsg(Word(c)[1], m.err)
      <3>1. x = Word("INTERNAL_ERR") <=> m.err = "INTERNAL"
        BY <2>7, WordIs DEF x
      <3>2. x = Word("INVALID_MSG_ERR") <=> m.err = "INVALID_MESSAGE"
        BY <2>7, WordIs DEF x
      <3> QED BY <2>3, <2>4, <2>7, <3>1, <3>2 DEF ParseError
    <2> QED BY <1>1, <1>6, <2>6, <2>8, WordIs
  <1> QED BY <1>1, <1>4, <1>5, <1>6

-----------------------------------------------------------------------------
(* What the program makes of a text: the call it names is one of CallIds,  *)
(* and the addresses that stand in the text are the addresses it takes.    *)

LEMMA WrittenIs ==
  ASSUME NEW t \in Texts, NEW rest \in Rests, NEW k \in { 1, 2 },
         Written(t, k) # AnyAddr, NEW w, w = t \o rest
  PROVE  /\ Len(w) >= 3 + k
         /\ AddrFits(w[3 + k]) => AddrOf(w[3 + k]) = Written(t, k)
  <1> DEFINE i == 3 + k
             n == t[i][3]
  <1>1. IsSeq(t) /\ IsSeq(rest)
    BY TextAssumption
  <1>2. /\ Len(w) \in Nat /\ Len(t) \in Nat /\ Len(w) >= Len(t)
        /\ DOMAIN t = 1 .. Len(t) /\ \A j \in 1 .. Len(t) : w[j] = t[j]
    BY <1>1, BufferIs
  <1>3. Len(t) >= i /\ IsAt(t[i]) /\ Written(t, k) = << t[i][2], n >>
    BY Zenon DEF Written
  <1>4. i \in 1 .. Len(t)
    BY <1>2, <1>3
  <1> HIDE DEF i
  <1>5. n \in 0 .. IntSpace \div 2 - 1
    BY <1>2, <1>3, <1>4, TextAssumption
  <1>6. w[i] = t[i]
    BY <1>2, <1>4
  <1>7. ASSUME AddrFits(w[i]) PROVE AddrOf(w[i]) = << t[i][2], n >>
    <2>1. PortFits(n)
      BY <1>6, <1>7 DEF AddrFits
    <2>2. Uint16Of(n) = n
      BY <1>5, <2>1, PortIs
    <2> QED BY <1>6, <2>2, Zenon DEF AddrOf
  <1>8. Len(w) >= i
    BY <1>2, <1>4
  <1> QED BY <1>3, <1>7, <1>8 DEF i

LEMMA ReadingIs ==
  ASSUME NEW t \in Texts, NEW rest \in Rests, NEW stack \in Stacks,
         NEW m, m = Parse(t, rest, stack)
  PROVE  /\ m.type \in { "SETUP", "RELEASE" } => m.call_id \in CallIds
         /\ m.type = "SETUP" =>
              /\ Given(t, m)[1] # AnyAddr => m.src = Given(t, m)[1]
              /\ Given(t, m)[2] # AnyAddr => m.dst = Given(t, m)[2]
  <1> DEFINE w == t \o rest
  <1>1. IsSeq(t) /\ IsSeq(rest)
    BY TextAssumption
  <1>2. Len(w) \in Nat
    BY <1>1, BufferIs
  <1>3. m = Parsed(w, stack)
    BY DEF Parse
  <1>4. Len(w) >= 2 /\ w[1] \in { Word("SETUP"), Word("RELEASE") }
          => w[2] \in { Word(c) : c \in CallIds }
    BY CallIdAssumption
  <1>5. /\ Written(t, 1) # AnyAddr /\ AddrFits(w[4]) => AddrOf(w[4]) = Written(t, 1)
        /\ Written(t, 2) # AnyAddr =>
             Len(w) >= 5 /\ (AddrFits(w[5]) => AddrOf(w[5]) = Written(t, 2))
    <2>1. \A k \in { 1, 2 } : Written(t, k) # AnyAddr =>
            Len(w) >= 3 + k /\ (AddrFits(w[3 + k]) => AddrOf(w[3 + k]) = Written(t, k))
      BY WrittenIs
    <2> HIDE DEF w
    <2>2. 3 + 1 = 4 /\ 3 + 2 = 5
      OBVIOUS
    <2> QED BY ONLY <2>1, <2>2
  <1> HIDE DEF w
  <1>6. Refusal.type = "NONE"
    BY DEF Refusal
  <1>7. \A c, x : OkMsg(c, x).type = "OK" /\ ErrorMsg(c, x).type = "ERROR"
    BY DEF OkMsg, ErrorMsg
  <1>8. ASSUME Len(w) >= 2, w[1] \in { Word("SETUP"), Word("RELEASE") }
        PROVE  w[2][1] \in CallIds
    BY <1>4, <1>8, WordIs
  <1>9. CASE Len(w) >= 2 /\ w[1] = Word("SETUP") /\ m # Refusal
    <2> DEFINE dst == IF Len(w) >= 5 THEN w[5] ELSE stack
               in == AddrOf(w[4])
               out == AddrOf(IF w[3] = Word("GG") THEN dst ELSE stack)
    <2>1. m = ParseSetup(w, stack)
      BY <1>2, <1>3, <1>9, ParsedIs
    <2>2. /\ AddrFits(w[4])
          /\ \/ w[3] = Word("GG") /\ AddrFits(dst)
             \/ w[3] = Word("GT")
          /\ m = SetupMsg(w[2][1], w[3][1], in, out)
      BY <1>9, <2>1, Zenon DEF ParseSetup
    <2>3. /\ m.type = "SETUP" /\ m.call_id = w[2][1] /\ m.mode = w[3][1]
          /\ m.src = in /\ m.dst = out
      <3> HIDE DEF in, out
      <3> QED BY <2>2 DEF SetupMsg
    <2>4. m.call_id \in CallIds
      BY <1>8, <1>9, <2>3
    <2>5. Written(t, 1) # AnyAddr => in = Written(t, 1)
      BY <1>5, <2>2
    <2>6. CASE w[3] = Word("GG")
      <3>1. Given(t, m) = << Written(t, 1), Written(t, 2) >>
        BY <2>3, <2>6, WordIs DEF Given
      <3>2. Written(t, 2) # AnyAddr => out = Written(t, 2)
        <4> SUFFICES ASSUME Written(t, 2) # AnyAddr PROVE out = Written(t, 2)
          OBVIOUS
        <4>1. dst = w[5]
          BY <1>5
        <4>2. AddrFits(w[5]) /\ out = AddrOf(w[5])
          BY <2>2, <2>6, <4>1, WordIs
        <4> QED BY <1>5, <4>2
      <3> HIDE DEF in, out
      <3> QED BY <2>3, <2>4, <2>5, <3>1, <3>2
    <2>7. CASE w[3] = Word("GT")
      <3>1. Given(t, m) = << Written(t, 1), AnyAddr >>
        BY <2>3, <2>7, WordIs DEF Given
      <3> HIDE DEF in, out
      <3> QED BY <2>3, <2>4, <2>5, <3>1
    <2> QED BY <2>2, <2>6, <2>7
  <1>10. CASE Len(w) >= 2 /\ w[1] = Word("RELEASE")
    <2>1. m = ReleaseMsg(w[2][1])
      BY <1>2, <1>3, <1>10, ParsedIs
    <2>2. m.type = "RELEASE" /\ m.call_id = w[2][1]
      BY <2>1 DEF ReleaseMsg
    <2> QED BY <1>8, <1>10, <2>2
  <1>11. CASE m.type \in { "NONE", "OK", "ERROR" }
    BY <1>11
  <1>12. CASE Len(w) >= 2 /\ w[1] = Word("OK")
    <2>1. m = ParseOk(w)
      BY <1>2, <1>3, <1>12, ParsedIs
    <2> QED BY <1>6, <1>7, <1>11, <2>1 DEF ParseOk
  <1>13. CASE Len(w) >= 2 /\ w[1] = Word("ERROR")
    <2>1. m = ParseError(w)
      BY <1>2, <1>3, <1>13, ParsedIs
    <2>2. m = Refusal \/ \E c, x : m = ErrorMsg(c, x)
      BY <2>1, Zenon DEF ParseError
    <2> QED BY <1>6, <1>7, <1>11, <2>2
  <1>14. CASE m = Refusal
    BY <1>6, <1>11, <1>14
  <1>15. \/ Len(w) >= 2 /\ w[1] \in { Word("SETUP"), Word("OK"), Word("ERROR"), Word("RELEASE") }
         \/ m = Refusal
    BY <1>2, <1>3, ParsedIs
  <1> QED BY <1>9, <1>10, <1>12, <1>13, <1>14, <1>15

-----------------------------------------------------------------------------
(* The texts add nothing to what the main thread does.                     *)

LEMMA ReadingsAre ==
  ASSUME NEW r \in Readings
  PROVE  \E t \in Texts, rest \in Rests, stack \in Stacks :
           /\ r.message = Parse(t, rest, stack)
           /\ r.in = Given(t, r.message)[1] /\ r.out = Given(t, r.message)[2]
  <1>1. PICK t \in Texts, rest \in Rests, stack \in Stacks :
          r = [message |-> Parse(t, rest, stack),
               in |-> Given(t, Parse(t, rest, stack))[1],
               out |-> Given(t, Parse(t, rest, stack))[2]]
    BY DEF Readings
  <1> DEFINE m == Parse(t, rest, stack)
  <1> HIDE DEF m
  <1>2. r.message = m /\ r.in = Given(t, m)[1] /\ r.out = Given(t, m)[2]
    BY <1>1 DEF m
  <1> QED BY <1>2 DEF m

LEMMA ProcIs ==
  ASSUME ProcCMD
  PROVE  NoCommand \/ BadMessage \/ \E c \in CallIds : Command(c)
  <1>1. PICK r \in Readings : Handle(r.message)
    BY DEF ProcCMD
  <1> DEFINE m == r.message
  <1>2. m.type \in { "SETUP", "RELEASE" } => m.call_id \in CallIds
    <2>1. PICK t \in Texts, rest \in Rests, stack \in Stacks : m = Parse(t, rest, stack)
      BY ReadingsAre
    <2> QED BY <2>1, ReadingIs
  <1>3. Handle(m)
    BY <1>1
  <1> HIDE DEF m
  <1>4. CASE m.type = "SETUP"
    BY <1>2, <1>3, <1>4 DEF Handle, Command
  <1>5. CASE m.type = "RELEASE"
    BY <1>2, <1>3, <1>5 DEF Handle, Command
  <1>6. CASE m.type = "NONE"
    BY <1>3, <1>6 DEF Handle
  <1>7. CASE m.type \notin { "SETUP", "RELEASE", "NONE" }
    BY <1>3, <1>7 DEF Handle
  <1> QED BY <1>4, <1>5, <1>6, <1>7

LEMMA SigStep ==
  ASSUME [SigNext]_<< vars, sigVars >>
  PROVE  [Next]_vars
  <1>1. CASE ProcCMD
    BY <1>1, ProcIs DEF Next, MainThread
  <1>2. CASE Otherwise
    BY <1>2 DEF Otherwise, Next, MainThread
  <1>3. CASE UNCHANGED << vars, sigVars >>
    BY <1>3
  <1> QED BY <1>1, <1>2, <1>3 DEF SigNext

(* With texts for commands the main thread is still the main thread of     *)
(* CallControl, and all that is proved of it holds: session_procCMD hands  *)
(* the handlers what the parser made, and a call of no other name than     *)
(* those a text can hold (src/src/session.c:723).                      *)
THEOREM SameProgram == SigSpec => Spec
  <1>1. SigInit => Init
    BY DEF SigInit
  <1>2. [SigNext]_<< vars, sigVars >> => [Next]_vars
    BY SigStep
  <1> QED BY <1>1, <1>2, PTL DEF SigSpec, Spec

-----------------------------------------------------------------------------
(* The addresses of the legs. *)

RemInv == \A s \in Sess : asked[s] # AnyAddr => rem[s] = asked[s]

(* Whatever became of a session, both addresses went with it. *)
LEMMA LegAddrKeeps ==
  ASSUME RemInv, NEW in, NEW out, NEW inAsked, NEW outAsked,
         rem' = LegAddr(rem, in, out), asked' = LegAddr(asked, inAsked, outAsked),
         inAsked # AnyAddr => in = inAsked, outAsked # AnyAddr => out = outAsked
  PROVE  RemInv'
  <1> SUFFICES ASSUME NEW s \in Sess, asked'[s] # AnyAddr
               PROVE  rem'[s] = asked'[s]
    BY DEF RemInv, AnyAddr
  <1> DEFINE Of(f, i, o) == IF s \notin live' THEN NoAddr
                            ELSE IF s \in live THEN f[s]
                            ELSE IF obj'[s].kind = "IN" THEN i ELSE o
  <1>1. rem'[s] = Of(rem, in, out) /\ asked'[s] = Of(asked, inAsked, outAsked)
    BY DEF LegAddr
  <1> QED BY <1>1 DEF RemInv

LEMMA RemStep ==
  ASSUME RemInv, [SigNext]_<< vars, sigVars >>
  PROVE  RemInv'
  <1>1. CASE ProcCMD
    <2>1. PICK r \in Readings :
            /\ IF r.message.type = "SETUP"
               THEN rem' = LegAddr(rem, r.message.src, r.message.dst)
               ELSE rem' = LegAddr(rem, NoAddr, NoAddr)
            /\ asked' = LegAddr(asked, r.in, r.out)
      BY <1>1 DEF ProcCMD
    <2>2. PICK t \in Texts, rest \in Rests, stack \in Stacks :
            /\ r.message = Parse(t, rest, stack)
            /\ r.in = Given(t, r.message)[1] /\ r.out = Given(t, r.message)[2]
      BY ReadingsAre
    <2> DEFINE m == r.message
    <2>3. m.type = "SETUP" =>
            (r.in # AnyAddr => m.src = r.in) /\ (r.out # AnyAddr => m.dst = r.out)
      BY <2>2, ReadingIs
    <2>4. m.type # "SETUP" => r.in = NoAddr /\ r.out = NoAddr
      BY <2>2 DEF Given
    <2> HIDE DEF m
    <2>5. CASE m.type = "SETUP"
      BY <2>1, <2>3, <2>5, LegAddrKeeps DEF m
    <2>6. CASE m.type # "SETUP"
      BY <2>1, <2>4, <2>6, LegAddrKeeps DEF m
    <2> QED BY <2>5, <2>6
  <1>2. CASE Otherwise
    BY <1>2, LegAddrKeeps DEF Otherwise
  <1>3. CASE UNCHANGED << vars, sigVars >>
    BY <1>3 DEF sigVars, RemInv, AnyAddr
  <1> QED BY <1>1, <1>2, <1>3 DEF SigNext

(* A leg keeps the address its SETUP gave for it, for every set of texts,  *)
(* every content of the buffer behind them and of the stack, wherever      *)
(* app_procSessions moves the leg and whoever is released beside it        *)
(* (src/src/msg_proc.c:334-394, src/src/session.c:545, 568).               *)
THEOREM AddressKept == SigSpec => []RemoteIsAsked
  <1>1. SigInit => RemInv
    BY DEF SigInit, RemInv
  <1>2. RemInv /\ [SigNext]_<< vars, sigVars >> => RemInv'
    BY RemStep
  <1>3. IInv /\ RemInv => RemoteIsAsked
    <2>1. IInv => Legs \subseteq Sess
      BY ScopeInSlots DEF IInv
    <2> QED BY <2>1 DEF RemInv, RemoteIsAsked
  <1> QED BY <1>1, <1>2, <1>3, SameProgram, Inductive, PTL DEF SigSpec

-----------------------------------------------------------------------------
(* The answers. *)

(* An OK names a port of the managed range, never the -1 of a full table   *)
(* stored into sixteen bits.                                               *)
AnswerInv == answer.type = "OK" => answer.port \in 0 .. PortCount - 1

LEMMA AnswerStep ==
  ASSUME IInv, RInv, AnswerInv, [Next]_vars
  PROVE  AnswerInv'
  <1> USE DEF loopVars, tableVars, memVars, cursorVars
  <1>1. CASE UNCHANGED answer
    BY <1>1 DEF AnswerInv
  <1>2. CASE answer' = NoAnswer \/ \E c : answer' = Error(c)
    BY <1>2 DEF AnswerInv, NoAnswer, Error
  <1>3. ASSUME NEW c, Reply(Error(c)) PROVE AnswerInv'
    BY <1>2, <1>3 DEF Reply
  <1>4. ASSUME NEW c, Reply(Ok(c, Uint16(InPort))), pc = "cmd", session_cnt < MaxSessions
        PROVE  AnswerInv'
    <2>1. InPort \in 0 .. PortCount - 1
      BY <1>4, Room DEF IInv, TableInv
    <2>2. InPort # NoEntry /\ Uint16(InPort) = InPort
      BY <2>1, TableAssumption DEF NoEntry, Uint16
    <2>3. CASE answer' = Ok(c, Uint16(InPort))
      BY <2>1, <2>2, <2>3 DEF AnswerInv, Ok
    <2> QED BY <1>2, <1>4, <2>3 DEF Reply
  <1>5. CASE \/ AppInit \/ AppInitFails \/ SkipHole \/ KeepSession \/ MoveSession
             \/ EndSessions \/ NoCommand \/ AppDestroy \/ Signal \/ Ended \/ UNCHANGED vars
    BY <1>1, <1>5 DEF AppInit, AppInitFails, SkipHole, KeepSession, MoveSession,
                      EndSessions, NoCommand, AppDestroy, Signal, Ended, vars
  <1>6. CASE Poll \/ BadMessage
    BY <1>2, <1>3, <1>6 DEF Poll, BadMessage
  <1>7. ASSUME NEW c \in CallIds, Command(c) PROVE AnswerInv'
    <2>1. CASE \/ SetupOverrun(c) \/ SetupInListenerFails(c) \/ SetupFaxCrashes(c)
               \/ SetupOutListenerFails(c) \/ Release(c) \/ ReleaseUnknown(c)
      BY <1>1, <2>1 DEF SetupOverrun, SetupInListenerFails, SetupFaxCrashes,
                        SetupOutListenerFails, Release, ReleaseUnknown, Crash
    <2>2. CASE \/ SetupRejected(c) \/ SetupInNoMemory(c) \/ SetupOutNoMemory(c)
               \/ SetupOutFaxFails(c) \/ SetupThreadFails(c)
      BY <1>3, <2>2 DEF SetupRejected, SetupInNoMemory, SetupOutNoMemory,
                        SetupOutFaxFails, SetupThreadFails
    <2>3. CASE SetupDone(c) \/ SetupInFaxFails(c)
      BY <1>4, <2>3 DEF SetupDone, SetupInFaxFails, Commanded
    <2> QED BY <1>7, <2>1, <2>2, <2>3 DEF Command, Setup
  <1> QED BY <1>5, <1>6, <1>7 DEF Next, MainThread

LEMMA AnswerPorts == Spec => []AnswerInv
  <1>1. Init => AnswerInv
    BY DEF Init, AnswerInv, NoAnswer
  <1>2. IInv /\ RInv /\ AnswerInv /\ [Next]_vars => AnswerInv'
    BY AnswerStep
  <1> QED BY <1>1, <1>2, ResourcesInductive, PTL DEF Spec

LEMMA AnswerFormed ==
  ASSUME TypeOK, AnswerInv, answer.type # "NONE"
  PROVE  WellFormed(AnswerMsg(answer)) /\ AnswerMsg(answer).type # "SETUP"
  <1> DEFINE m == AnswerMsg(answer)
  <1>1. answer.type \in { "OK", "ERROR" }
    BY DEF TypeOK, AnswerRec
  <1>2. CASE answer.type = "OK"
    <2> DEFINE p == PortStart + answer.port
               a == << LocalIp, p >>
               c == answer.call_id
    <2>1. answer.port \in 0 .. PortCount - 1
      BY <1>2 DEF AnswerInv
    <2>2. answer.port # WrapPort /\ p \in 1 .. PortSpace - 2
      BY <2>1, LocalAssumption, TableAssumption, Widths DEF WrapPort
    <2>3. m = OkMsg(c, a)
      BY <1>2, <2>2 DEF AnswerMsg
    <2>4. a[1] = LocalIp /\ a[2] = p
      OBVIOUS
    <2>5. Good(a)
      BY <2>2, <2>4, LocalAssumption DEF Good
    <2> HIDE DEF m, a, c
    <2>6. m.type = "OK" /\ m.call_id = c /\ m.addr = a
      BY <2>3 DEF OkMsg
    <2> QED BY <2>3, <2>5, <2>6 DEF WellFormed, m
  <1>3. CASE answer.type = "ERROR"
    <2> DEFINE c == IF answer.call_id = NULL THEN "FAIL" ELSE answer.call_id
               e == IF answer.call_id = NULL THEN "INVALID_MESSAGE" ELSE "INTERNAL"
    <2>1. m = ErrorMsg(c, e)
      BY <1>3 DEF AnswerMsg
    <2>2. e \in DOMAIN ErrorText
      BY DEF ErrorText
    <2> HIDE DEF m, c, e
    <2>3. m.type = "ERROR" /\ m.call_id = c /\ m.err = e
      BY <2>1 DEF ErrorMsg
    <2> QED BY <2>1, <2>2, <2>3 DEF WellFormed, m
  <1> QED BY <1>1, <1>2, <1>3

(* The controller that parses an answer with the code of this repository   *)
(* finds the message that was sent, whatever its own buffer holds behind   *)
(* the text (src/src/msg_proc.c:200, 273, 540).                            *)
THEOREM AnswersAreUnderstood == SigSpec => []AnswerUnderstood
  <1>1. TypeOK /\ AnswerInv => AnswerUnderstood
    <2> SUFFICES ASSUME TypeOK, AnswerInv, answer.type # "NONE",
                        NEW rest \in Rests, NEW stack \in Stacks
                 PROVE  Parse(Compose(AnswerMsg(answer)), rest, stack) = AnswerMsg(answer)
      BY DEF AnswerUnderstood
    <2> QED BY AnswerFormed, ReplyBack, TextAssumption
  <1> QED BY <1>1, SameProgram, TypeCorrect, AnswerPorts, PTL

(* A command composed by the code of this repository is read as it was     *)
(* meant, a GT SETUP but for its second address (src/src/msg_proc.c:200,   *)
(* 322, 393).                                                              *)
THEOREM CommandsAreUnderstood == SigSpec => []CommandUnderstood
  <1>1. CommandUnderstood
    <2> SUFFICES ASSUME NEW m \in Messages, NEW rest \in Rests, NEW stack \in Stacks
                 PROVE  LET read == Parse(Compose(m), rest, stack)
                        IN  \/ read = m
                            \/ m.type = "SETUP" /\ m.mode = "GT" /\ read.type = "SETUP"
                               /\ read = [m EXCEPT !.dst = read.dst]
      BY DEF CommandUnderstood
    <2>1. WellFormed(m) /\ IsSeq(rest)
      BY MessageAssumption, TextAssumption
    <2>2. CASE m.type = "SETUP"
      BY <2>1, <2>2, SetupBack
    <2>3. CASE m.type # "SETUP"
      BY <2>1, <2>3, ReplyBack
    <2> QED BY <2>2, <2>3
  <1> QED BY <1>1, PTL

=============================================================================
