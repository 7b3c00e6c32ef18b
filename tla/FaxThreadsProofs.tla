-------------------------- MODULE FaxThreadsProofs --------------------------
(***************************************************************************)
(* Theorems about FaxThreads, for every set of calls and addresses and any *)
(* allocator.                                                              *)
(*                                                                         *)
(* What a thread may touch depends on how far the main thread has come in  *)
(* a handler.  The invariant says for each step of a handler what holds of *)
(* the two sessions it works on (Linking, Destroying), and that all other  *)
(* memory in use is that of the calls in the table (Account).              *)
(***************************************************************************)
EXTENDS FaxThreads, TableLemmas

UpCalls == { up[k][1] : k \in DOMAIN up }

(* A call in the table: its sessions are whole and linked, and its thread, *)
(* which has not been told to end, holds pointers to them.                 *)
CallSound(c, in) ==
  LET out == mem[in].peer
  IN  /\ c \in Calls /\ in \in Addr /\ out \in Addr /\ in # out
      /\ mem[in].call = c /\ mem[in].fax /\ mem[in].active
      /\ mem[out].call = c /\ mem[out].fax /\ mem[out].peer = in
      /\ thr[c].at \notin { "none", "gone" } /\ c \notin cancelled
      /\ thr[c].arg = in /\ (thr[c].at = "rx_in" => thr[c].ses = out)

Table ==
  /\ \A k \in DOMAIN up : CallSound(up[k][1], up[k][2])
  /\ \A j, k \in DOMAIN up : up[j][1] = up[k][1] => j = k

(* proc_setup before its step n: the thread sleeps.                        *)
Linking(c, in, out, n) ==
  /\ todo = SubSeq(Link(c, in, out), n, 4)
  /\ in # out /\ c \notin UpCalls
  /\ mem[in].call = c /\ mem[in].fax /\ mem[out].call = c /\ mem[out].fax
  /\ n > 1 => mem[in].active
  /\ n > 2 => mem[in].peer = out
  /\ n > 3 => mem[out].peer = in
  /\ thr[c].at = "asleep" /\ thr[c].arg = in /\ c \notin cancelled

(* session_destroy of x and then of y, before its step n.                  *)
Destroying(c, x, y, n) ==
  /\ todo = SubSeq(Destroy(x) \o Destroy(y), n, 6)
  /\ x # y /\ c \notin UpCalls /\ thr[c].at # "none"
  /\ IF n <= 3 THEN mem[x].call = c ELSE mem[x] = FREE
  /\ mem[y].call = c
  /\ \/ c \in cancelled
     \/ n <= 2 /\ mem[x].active
     \/ n <= 5 /\ mem[y].active

(* Memory in use is in the table or one of the sessions P of call c, with  *)
(* which the handler is busy; so are the threads not told to end.          *)
Account(c, P) ==
  /\ \A a \in InUse : a \in P \/ \E k \in DOMAIN up : a \in Legs(up[k][2])
  /\ Cardinality(InUse) = 2 * Len(up) + Cardinality(P)
  /\ \A d \in Calls : thr[d].at # "none" => d \in cancelled \/ d = c \/ d \in UpCalls

Handler ==
  \/ todo = << >> /\ Account(NULL, {})
  \/ \E c \in Calls, in \in Addr, out \in Addr, n \in 1 .. 4 :
       Linking(c, in, out, n) /\ Account(c, {in, out})
  \/ \E c \in Calls, x \in Addr, y \in Addr, n \in 1 .. 6 :
       Destroying(c, x, y, n) /\ Account(c, IF n <= 3 THEN {x, y} ELSE {y})

Known ==
  /\ IsFiniteSet(InUse)
  /\ \A a \in InUse : mem[a].call \in Calls /\ thr[mem[a].call].at # "none"
  /\ \A c \in Calls : thr[c].at = "none" => c \notin cancelled /\ c \notin UpCalls

(* The calls of the pass that a thread still has before it. *)
Before(at) ==
  CASE at = "rx_out" -> 3 [] at = "tx_out" -> 2 [] at = "rx_in" -> 1
    [] at = "nap" -> 0 [] OTHER -> 4

Lateness ==
  \A c \in Calls : /\ late[c] \in Nat /\ late[c] + Before(thr[c].at) <= 4
                   /\ c \notin cancelled => late[c] = 0

Memory == [Addr -> [call : Calls \union {NULL}, peer : Addr \union {NULL},
                    fax : BOOLEAN, active : BOOLEAN]]

Types ==
  /\ mem \in Memory
  /\ up \in Seq(Calls \X Addr)
  /\ thr \in [Calls -> [at : Where, arg : Addr \union {NULL},
                        ses : Addr \union {NULL}]]
  /\ late \in [Calls -> Nat]
  /\ cancelled \subseteq Calls /\ stray \subseteq Calls
  /\ process \in { "runs", "ending", "exited", "crashed" }

FaxInv == Types /\ Table /\ Handler /\ Known /\ Lateness /\ SoundWhileUp

-----------------------------------------------------------------------------
(* What the steps of a handler are. *)

LEMMA PartOf ==
  ASSUME NEW S, NEW s \in Seq(S), NEW n \in 1 .. Len(s), NEW t, t = SubSeq(s, n, Len(s))
  PROVE  /\ t \in Seq(S) /\ Len(t) = Len(s) - n + 1
         /\ \A i \in 1 .. Len(t) : t[i] = s[n + i - 1]
  <1>1. n \in Int /\ Len(s) \in Int /\ n <= Len(s) /\ \A i \in n .. Len(s) : s[i] \in S
    OBVIOUS
  <1>2. /\ t \in Seq(S) /\ Len(t) = IF n <= Len(s) THEN Len(s) - n + 1 ELSE 0
        /\ \A i \in 1 .. Len(s) - n + 1 : t[i] = s[n + i - 1]
    BY ONLY <1>1, t = SubSeq(s, n, Len(s)), SubSeqProperties
  <1> QED BY ONLY <1>1, <1>2

LEMMA RestOf ==
  ASSUME NEW S, NEW s \in Seq(S), NEW n \in 1 .. Len(s), NEW t, t = SubSeq(s, n, Len(s))
  PROVE  /\ t \in Seq(S) /\ t # << >> /\ Head(t) = s[n]
         /\ Tail(t) = IF n < Len(s) THEN SubSeq(s, n + 1, Len(s)) ELSE << >>
  <1>1. /\ t \in Seq(S) /\ Len(t) = Len(s) - n + 1
        /\ \A i \in 1 .. Len(t) : t[i] = s[n + i - 1]
    BY PartOf
  <1>2. t # << >> /\ Head(t) = s[n]
    <2>1. Len(t) >= 1 /\ t[1] = s[n]
      BY <1>1
    <2>2. t \in Seq(S)
      BY <1>1
    <2> QED BY ONLY <2>1, <2>2
  <1>3. ASSUME n < Len(s)
        PROVE  Tail(t) = SubSeq(s, n + 1, Len(s))
    <2>1. /\ Tail(t) \in Seq(S) /\ Len(Tail(t)) = Len(s) - n
          /\ \A i \in 1 .. Len(Tail(t)) : Tail(t)[i] = s[n + i]
      BY <1>1, <1>2, <1>3
    <2> DEFINE u == SubSeq(s, n + 1, Len(s))
    <2>2. /\ u \in Seq(S) /\ Len(u) = Len(s) - n
          /\ \A i \in 1 .. Len(u) : u[i] = s[n + i]
      BY <1>3
    <2> QED BY <2>1, <2>2, SeqEqual
  <1>4. ASSUME ~(n < Len(s))
        PROVE  Tail(t) = << >>
    <2>1. Len(t) = 1 /\ Tail(t) \in Seq(S) /\ Len(Tail(t)) = 0
      BY <1>1, <1>2, <1>4
    <2> QED BY <2>1
  <1> QED BY <1>1, <1>2, <1>3, <1>4

LEMMA LinkIs ==
  ASSUME NEW c, NEW in, NEW out
  PROVE  LET s == Link(c, in, out)
         IN  /\ s \in Seq({ s[1], s[2], s[3], s[4] }) /\ Len(s) = 4
             /\ s[1] = << "flag", in >> /\ s[2] = << "peer", in, out >>
             /\ s[3] = << "peer", out, in >> /\ s[4] = << "enter", c, in >>
  BY DEF Link

LEMMA DestroyIs ==
  ASSUME NEW x, NEW y
  PROVE  LET s == Destroy(x) \o Destroy(y)
             S == { << "fax", x >>, << "cancel", x >>, << "free", x >>,
                    << "fax", y >>, << "cancel", y >>, << "free", y >> }
         IN  /\ s \in Seq(S) /\ Len(s) = 6
             /\ s[1] = << "fax", x >> /\ s[2] = << "cancel", x >> /\ s[3] = << "free", x >>
             /\ s[4] = << "fax", y >> /\ s[5] = << "cancel", y >> /\ s[6] = << "free", y >>
  <1> DEFINE S == { << "fax", x >>, << "cancel", x >>, << "free", x >>,
                    << "fax", y >>, << "cancel", y >>, << "free", y >> }
             a == Destroy(x)
             b == Destroy(y)
  <1>1. /\ a \in Seq(S) /\ Len(a) = 3
        /\ a[1] = << "fax", x >> /\ a[2] = << "cancel", x >> /\ a[3] = << "free", x >>
    BY DEF Destroy
  <1>2. /\ b \in Seq(S) /\ Len(b) = 3
        /\ b[1] = << "fax", y >> /\ b[2] = << "cancel", y >> /\ b[3] = << "free", y >>
    BY DEF Destroy
  <1> HIDE DEF a, b, S
  <1>3. /\ a \o b \in Seq(S) /\ Len(a \o b) = 6
        /\ \A i \in 1 .. 6 : (a \o b)[i] = IF i <= 3 THEN a[i] ELSE b[i - 3]
    <2>0. a \in Seq(S) /\ b \in Seq(S) /\ Len(a) = 3 /\ Len(b) = 3
      BY <1>1, <1>2
    <2>1. /\ a \o b \in Seq(S) /\ Len(a \o b) = Len(a) + Len(b)
          /\ \A i \in 1 .. Len(a) + Len(b) :
               (a \o b)[i] = IF i <= Len(a) THEN a[i] ELSE b[i - Len(a)]
      BY ONLY <2>0, ConcatProperties
    <2>2. \A i \in 1 .. 6 : (a \o b)[i] = IF i <= 3 THEN a[i] ELSE b[i - 3]
      BY ONLY <2>0, <2>1
    <2> QED BY <2>0, <2>1, <2>2
  <1>4. /\ (a \o b)[1] = a[1] /\ (a \o b)[2] = a[2] /\ (a \o b)[3] = a[3]
        /\ (a \o b)[4] = b[1] /\ (a \o b)[5] = b[2] /\ (a \o b)[6] = b[3]
    BY <1>3
  <1>5. /\ a \o b \in Seq(S) /\ Len(a \o b) = 6
        /\ (a \o b)[1] = << "fax", x >> /\ (a \o b)[2] = << "cancel", x >>
        /\ (a \o b)[3] = << "free", x >> /\ (a \o b)[4] = << "fax", y >>
        /\ (a \o b)[5] = << "cancel", y >> /\ (a \o b)[6] = << "free", y >>
    BY <1>1, <1>2, <1>3, <1>4
  <1> QED BY <1>5 DEF a, b, S

LEMMA MemOps ==
  /\ \A a : MemAfter(<< "flag", a >>) = [mem EXCEPT ![a].active = TRUE]
  /\ \A a : MemAfter(<< "fax", a >>) = [mem EXCEPT ![a].fax = FALSE]
  /\ \A a : MemAfter(<< "free", a >>) = [mem EXCEPT ![a] = FREE]
  /\ \A a : MemAfter(<< "cancel", a >>) = mem
  /\ \A c, a : MemAfter(<< "enter", c, a >>) = mem
  BY DEF MemAfter

LEMMA MemPeer ==
  ASSUME NEW a, NEW b
  PROVE  MemAfter(<< "peer", a, b >>) = [mem EXCEPT ![a].peer = b]
  BY DEF MemAfter

(* A step of proc_setup. *)
LEMMA LinkStep ==
  ASSUME NEW c, NEW in, NEW out, NEW n \in 1 .. 4,
         todo = SubSeq(Link(c, in, out), n, 4), Step
  PROVE  /\ n = 1 => mem' = [mem EXCEPT ![in].active = TRUE]
         /\ n = 2 => mem' = [mem EXCEPT ![in].peer = out]
         /\ n = 3 => mem' = [mem EXCEPT ![out].peer = in]
         /\ n = 4 => mem' = mem /\ up' = Append(up, << c, in >>) /\ todo' = << >>
         /\ n < 4 => up' = up /\ todo' = SubSeq(Link(c, in, out), n + 1, 4)
         /\ cancelled' = cancelled
         /\ thr' = thr /\ late' = late /\ stray' = stray /\ process' = process
  <1> DEFINE s == Link(c, in, out)
  <1>1. /\ s \in Seq({ s[1], s[2], s[3], s[4] }) /\ Len(s) = 4
        /\ s[1] = << "flag", in >> /\ s[2] = << "peer", in, out >>
        /\ s[3] = << "peer", out, in >> /\ s[4] = << "enter", c, in >>
    BY LinkIs
  <1> HIDE DEF s
  <1>2. todo = SubSeq(s, n, Len(s)) /\ n \in 1 .. Len(s)
    BY <1>1 DEF s
  <1>3. /\ Head(todo) = s[n]
        /\ Tail(todo) = IF n < Len(s) THEN SubSeq(s, n + 1, Len(s)) ELSE << >>
    <2>1. PICK S : s \in Seq(S)
      BY <1>1
    <2> QED BY ONLY <1>2, <2>1, RestOf
  <1>4. /\ mem' = MemAfter(s[n])
        /\ up' = IF s[n][1] = "enter" THEN Append(up, << s[n][2], s[n][3] >>) ELSE up
        /\ cancelled' = cancelled \union
             (IF s[n][1] = "cancel" /\ mem[s[n][2]].active THEN {mem[s[n][2]].call} ELSE {})
        /\ todo' = IF n < 4 THEN SubSeq(s, n + 1, 4) ELSE << >>
        /\ thr' = thr /\ late' = late /\ stray' = stray /\ process' = process
    BY <1>1, <1>3 DEF Step, histVars
  <1> DEFINE G == /\ n = 1 => mem' = [mem EXCEPT ![in].active = TRUE]
                  /\ n = 2 => mem' = [mem EXCEPT ![in].peer = out]
                  /\ n = 3 => mem' = [mem EXCEPT ![out].peer = in]
                  /\ n = 4 => mem' = mem /\ up' = Append(up, << c, in >>)
                  /\ n < 4 => up' = up
                  /\ cancelled' = cancelled
  <1>5. n = 1 => G
    <2>0. n = 1 => s[n] = << "flag", in >>
      BY ONLY <1>1
    <2>1. n = 1 => mem' = [mem EXCEPT ![in].active = TRUE]
      BY ONLY <1>4, <2>0, MemOps, Zenon
    <2>2. n = 1 => s[n][1] \notin { "enter", "cancel" }
      BY ONLY <1>1
    <2> QED BY ONLY <1>4, <2>1, <2>2
  <1>6. n = 2 => G
    <2>0. n = 2 => s[n] = << "peer", in, out >>
      BY ONLY <1>1
    <2>1. n = 2 => mem' = [mem EXCEPT ![in].peer = out]
      <3>1. MemAfter(<< "peer", in, out >>) = [mem EXCEPT ![in].peer = out]
        BY ONLY MemPeer
      <3>2. n = 2 => mem' = MemAfter(<< "peer", in, out >>)
        BY ONLY <1>4, <2>0
      <3> QED BY ONLY <3>1, <3>2, Zenon
    <2>2. n = 2 => s[n][1] \notin { "enter", "cancel" }
      BY ONLY <1>1
    <2> QED BY ONLY <1>4, <2>1, <2>2
  <1>7. n = 3 => G
    <2>0. n = 3 => s[n] = << "peer", out, in >>
      BY ONLY <1>1
    <2>1. n = 3 => mem' = [mem EXCEPT ![out].peer = in]
      <3>1. MemAfter(<< "peer", out, in >>) = [mem EXCEPT ![out].peer = in]
        BY ONLY MemPeer
      <3>2. n = 3 => mem' = MemAfter(<< "peer", out, in >>)
        BY ONLY <1>4, <2>0
      <3> QED BY ONLY <3>1, <3>2, Zenon
    <2>2. n = 3 => s[n][1] \notin { "enter", "cancel" }
      BY ONLY <1>1
    <2> QED BY ONLY <1>4, <2>1, <2>2
  <1>8. n = 4 => G
    BY ONLY <1>1, <1>4, MemOps
  <1>9. G
    BY <1>5, <1>6, <1>7, <1>8
  <1> QED BY <1>4, <1>9 DEF s

(* A step of session_destroy, of one session and then of the other. *)
LEMMA DestroyStep ==
  ASSUME NEW x, NEW y, NEW n \in 1 .. 6,
         todo = SubSeq(Destroy(x) \o Destroy(y), n, 6), Step
  PROVE  LET a == IF n <= 3 THEN x ELSE y
         IN  /\ n \in {1, 4} => mem' = [mem EXCEPT ![a].fax = FALSE]
             /\ n \in {2, 5} => mem' = mem
             /\ n \in {3, 6} => mem' = [mem EXCEPT ![a] = FREE]
             /\ cancelled' = IF n \in {2, 5} /\ mem[a].active
                             THEN cancelled \union {mem[a].call} ELSE cancelled
             /\ todo' = IF n < 6 THEN SubSeq(Destroy(x) \o Destroy(y), n + 1, 6) ELSE << >>
             /\ up' = up /\ thr' = thr /\ late' = late /\ stray' = stray
             /\ process' = process
  <1> DEFINE s == Destroy(x) \o Destroy(y)
             a == IF n <= 3 THEN x ELSE y
             S == { << "fax", x >>, << "cancel", x >>, << "free", x >>,
                    << "fax", y >>, << "cancel", y >>, << "free", y >> }
  <1>1. /\ s \in Seq(S) /\ Len(s) = 6
        /\ s[1] = << "fax", x >> /\ s[2] = << "cancel", x >> /\ s[3] = << "free", x >>
        /\ s[4] = << "fax", y >> /\ s[5] = << "cancel", y >> /\ s[6] = << "free", y >>
    BY DestroyIs
  <1> HIDE DEF s, S
  <1>2. todo = SubSeq(s, n, Len(s)) /\ n \in 1 .. Len(s)
    BY <1>1 DEF s
  <1>3. /\ Head(todo) = s[n]
        /\ Tail(todo) = IF n < Len(s) THEN SubSeq(s, n + 1, Len(s)) ELSE << >>
    BY ONLY <1>1, <1>2, RestOf
  <1>4. /\ mem' = MemAfter(s[n])
        /\ up' = IF s[n][1] = "enter" THEN Append(up, << s[n][2], s[n][3] >>) ELSE up
        /\ cancelled' = cancelled \union
             (IF s[n][1] = "cancel" /\ mem[s[n][2]].active THEN {mem[s[n][2]].call} ELSE {})
        /\ todo' = IF n < 6 THEN SubSeq(s, n + 1, 6) ELSE << >>
        /\ thr' = thr /\ late' = late /\ stray' = stray /\ process' = process
    BY <1>1, <1>3 DEF Step, histVars
  <1> DEFINE G == /\ n \in {1, 4} => mem' = [mem EXCEPT ![a].fax = FALSE]
                  /\ n \in {2, 5} => mem' = mem
                  /\ n \in {3, 6} => mem' = [mem EXCEPT ![a] = FREE]
                  /\ cancelled' = IF n \in {2, 5} /\ mem[a].active
                                  THEN cancelled \union {mem[a].call} ELSE cancelled
                  /\ up' = up
  <1>5. n \in {1, 4} => G
    <2>1. n \in {1, 4} => s[n] = << "fax", a >>
      BY ONLY <1>1
    <2>2. n \in {1, 4} => mem' = [mem EXCEPT ![a].fax = FALSE]
      BY ONLY <1>4, <2>1, MemOps, Zenon
    <2>3. n \in {1, 4} => s[n][1] \notin { "enter", "cancel" } /\ n \notin {2, 5}
      BY ONLY <2>1
    <2> QED BY ONLY <1>4, <2>1, <2>2, <2>3
  <1>6. n \in {2, 5} => G
    <2>1. n \in {2, 5} => s[n] = << "cancel", a >>
      BY ONLY <1>1
    <2>2. n \in {2, 5} => mem' = mem
      BY ONLY <1>4, <2>1, MemOps, Zenon
    <2>3. n \in {2, 5} => s[n][1] = "cancel" /\ s[n][2] = a /\ n \notin {1, 4, 3, 6}
      BY ONLY <2>1
    <2> QED BY ONLY <1>4, <2>1, <2>2, <2>3
  <1>7. n \in {3, 6} => G
    <2>1. n \in {3, 6} => s[n] = << "free", a >>
      BY ONLY <1>1
    <2>2. n \in {3, 6} => mem' = [mem EXCEPT ![a] = FREE]
      BY ONLY <1>4, <2>1, MemOps, Zenon
    <2>3. n \in {3, 6} => s[n][1] \notin { "enter", "cancel" } /\ n \notin {2, 5}
      BY ONLY <2>1
    <2> QED BY ONLY <1>4, <2>1, <2>2, <2>3
  <1>8. G
    BY <1>5, <1>6, <1>7
  <1> QED BY <1>4, <1>8 DEF s

-----------------------------------------------------------------------------
(* What the actions that begin a handler do. *)

LEMMA Whole ==
  ASSUME NEW S, NEW s \in Seq(S)
  PROVE  SubSeq(s, 1, Len(s)) = s
  <1>1. /\ SubSeq(s, 1, Len(s)) \in Seq(S) /\ Len(SubSeq(s, 1, Len(s))) = Len(s)
        /\ \A i \in 1 .. Len(s) : SubSeq(s, 1, Len(s))[i] = s[i]
    OBVIOUS
  <1> QED BY <1>1, SeqEqual

LEMMA WholeHandlers ==
  ASSUME NEW c, NEW x, NEW y
  PROVE  /\ Link(c, x, y) = SubSeq(Link(c, x, y), 1, 4)
         /\ Destroy(x) \o Destroy(y) = SubSeq(Destroy(x) \o Destroy(y), 1, 6)
  <1> DEFINE l == Link(c, x, y)
             d == Destroy(x) \o Destroy(y)
             S == { << "fax", x >>, << "cancel", x >>, << "free", x >>,
                    << "fax", y >>, << "cancel", y >>, << "free", y >> }
  <1>1. l \in Seq({ l[1], l[2], l[3], l[4] }) /\ Len(l) = 4
    BY LinkIs
  <1>2. d \in Seq(S) /\ Len(d) = 6
    BY DestroyIs
  <1> HIDE DEF l, d, S
  <1>3. SubSeq(l, 1, 4) = l
    BY ONLY <1>1, Whole
  <1>4. SubSeq(d, 1, 6) = d
    BY ONLY <1>2, Whole
  <1> QED BY <1>3, <1>4 DEF l, d

LEMMA SetupIs ==
  ASSUME NEW c \in Calls, Types, Known, Setup(c)
  PROVE  \E in, out \in Addr :
           /\ in # out /\ mem[in] = FREE /\ mem[out] = FREE
           /\ mem' = [mem EXCEPT ![in]  = [FREE EXCEPT !.call = c, !.fax = TRUE],
                                 ![out] = [FREE EXCEPT !.call = c, !.fax = TRUE]]
           /\ todo' = SubSeq(Link(c, in, out), 1, 4)
           /\ thr' = [thr EXCEPT ![c] = [at |-> "asleep", arg |-> in, ses |-> NULL]]
  <1>0. PICK in \in Calloc(InUse) : \E out \in Calloc(InUse \union {in}) :
           /\ mem' = [mem EXCEPT ![in]  = [FREE EXCEPT !.call = c, !.fax = TRUE],
                                 ![out] = [FREE EXCEPT !.call = c, !.fax = TRUE]]
           /\ todo' = Link(c, in, out)
           /\ thr' = [thr EXCEPT ![c] = [at |-> "asleep", arg |-> in, ses |-> NULL]]
    BY DEF Setup
  <1>1. PICK out \in Calloc(InUse \union {in}) :
           /\ mem' = [mem EXCEPT ![in]  = [FREE EXCEPT !.call = c, !.fax = TRUE],
                                 ![out] = [FREE EXCEPT !.call = c, !.fax = TRUE]]
           /\ todo' = Link(c, in, out)
           /\ thr' = [thr EXCEPT ![c] = [at |-> "asleep", arg |-> in, ses |-> NULL]]
    BY <1>0
  <1>2. in \in Addr /\ in \notin InUse
    <2>1. InUse \in SUBSET Addr
      BY DEF InUse
    <2> QED BY <2>1, CallocAssumption
  <1>3. out \in Addr /\ out \notin InUse /\ out # in
    <2>1. InUse \union {in} \in SUBSET Addr
      BY <1>2 DEF InUse
    <2> QED BY <2>1, CallocAssumption
  <1>4. Link(c, in, out) = SubSeq(Link(c, in, out), 1, 4)
    BY WholeHandlers
  <1>5. mem[in] = FREE /\ mem[out] = FREE
    BY <1>2, <1>3 DEF InUse
  <1>6. todo' = SubSeq(Link(c, in, out), 1, 4)
    BY <1>1, <1>4
  <1> HIDE DEF FREE
  <1> QED BY <1>1, <1>2, <1>3, <1>5, <1>6

(* RELEASE and each turn of app_cfgDestroy take one call from the table. *)
TakesDown(k, x, y) ==
  /\ todo = << >> /\ process # "crashed"
  /\ up' = RemoveAt(up, k)
  /\ todo' = SubSeq(Destroy(x) \o Destroy(y), 1, 6)
  /\ \/ x = up[k][2] /\ y = mem[up[k][2]].peer
     \/ y = up[k][2] /\ x = mem[up[k][2]].peer
  /\ UNCHANGED << mem, cancelled, thr, histVars, process >>

LEMMA ReleaseIs ==
  ASSUME NEW k \in DOMAIN up, Release(k)
  PROVE  TakesDown(k, mem[up[k][2]].peer, up[k][2])
  <1> DEFINE s == Destroy(mem[up[k][2]].peer) \o Destroy(up[k][2])
  <1>1. s = SubSeq(s, 1, 6)
    BY WholeHandlers
  <1>2. todo' = s
    BY DEF Release, DestroyCall
  <1> QED BY <1>1, <1>2 DEF Release, TakesDown, Idle

LEMMA DestroyNextIs ==
  ASSUME Types, DestroyNext
  PROVE  1 \in DOMAIN up /\ TakesDown(1, up[1][2], mem[up[1][2]].peer)
  <1> DEFINE s == Destroy(up[1][2]) \o Destroy(mem[up[1][2]].peer)
  <1>1. s = SubSeq(s, 1, 6)
    BY WholeHandlers
  <1>2. todo' = s
    BY DEF DestroyNext
  <1>3. 1 \in DOMAIN up
    BY DEF DestroyNext, Types
  <1> QED BY <1>1, <1>2, <1>3 DEF DestroyNext, TakesDown

LEMMA RemoveUp ==
  ASSUME Types, Table, NEW k \in DOMAIN up, up' = RemoveAt(up, k)
  PROVE  /\ up' \in Seq(Calls \X Addr) /\ Len(up') = Len(up) - 1
         /\ \A j \in DOMAIN up' : \E i \in DOMAIN up \ {k} : up'[j] = up[i]
         /\ \A i \in DOMAIN up \ {k} : \E j \in DOMAIN up' : up'[j] = up[i]
         /\ \A i, j \in DOMAIN up' : up'[i][1] = up'[j][1] => i = j
         /\ UpCalls' = UpCalls \ {up[k][1]}
  <1>1. /\ up \in Seq(Calls \X Addr) /\ Len(up) \in Nat /\ DOMAIN up = 1 .. Len(up)
        /\ k \in 1 .. Len(up)
    BY DEF Types
  <1>2. up' = [i \in 1 .. Len(up) - 1 |-> IF i < k THEN up[i] ELSE up[i + 1]]
    BY <1>1, RemoveAtIs
  <1>3. /\ up' \in Seq(Calls \X Addr) /\ Len(up') = Len(up) - 1
        /\ DOMAIN up' = 1 .. Len(up) - 1
    <2>1. \A i \in 1 .. Len(up) - 1 : up'[i] \in Calls \X Addr
      BY <1>1, <1>2
    <2> QED BY <1>1, <1>2, <2>1
  <1>4. \A j \in DOMAIN up' : up'[j] = up[IF j < k THEN j ELSE j + 1]
                              /\ (IF j < k THEN j ELSE j + 1) \in DOMAIN up \ {k}
    BY <1>1, <1>2, <1>3
  <1>5. \A i \in DOMAIN up \ {k} : /\ (IF i < k THEN i ELSE i - 1) \in DOMAIN up'
                                   /\ up'[IF i < k THEN i ELSE i - 1] = up[i]
    BY <1>1, <1>2, <1>3
  <1>6. \A i, j \in DOMAIN up' : up'[i][1] = up'[j][1] => i = j
    BY <1>1, <1>3, <1>4 DEF Table
  <1>7. UpCalls' = UpCalls \ {up[k][1]}
    <2>1. UpCalls' = { up'[j][1] : j \in DOMAIN up' }
      BY DEF UpCalls
    <2>2. \A j \in DOMAIN up' : up'[j][1] \in UpCalls \ {up[k][1]}
      BY <1>4 DEF UpCalls, Table
    <2>3. \A d \in UpCalls \ {up[k][1]} : \E j \in DOMAIN up' : up'[j][1] = d
      BY <1>5 DEF UpCalls
    <2> QED BY <2>1, <2>2, <2>3
  <1> QED BY <1>3, <1>4, <1>5, <1>6, <1>7

LEMMA AppendUp ==
  ASSUME Types, NEW c \in Calls, NEW in \in Addr, up' = Append(up, << c, in >>)
  PROVE  /\ up' \in Seq(Calls \X Addr) /\ Len(up') = Len(up) + 1
         /\ up'[Len(up) + 1] = << c, in >> /\ Len(up) + 1 \in DOMAIN up'
         /\ \A j \in DOMAIN up : j \in DOMAIN up' /\ up'[j] = up[j]
         /\ \A j \in DOMAIN up' : j \in DOMAIN up \/ j = Len(up) + 1
         /\ Len(up) + 1 \notin DOMAIN up
         /\ UpCalls' = UpCalls \union {c}
  <1>1. up \in Seq(Calls \X Addr) /\ << c, in >> \in Calls \X Addr
    BY DEF Types
  <1>2. /\ up' \in Seq(Calls \X Addr) /\ Len(up') = Len(up) + 1
        /\ up'[Len(up) + 1] = << c, in >> /\ Len(up) + 1 \in DOMAIN up'
        /\ \A j \in DOMAIN up : j \in DOMAIN up' /\ up'[j] = up[j]
        /\ \A j \in DOMAIN up' : j \in DOMAIN up \/ j = Len(up) + 1
        /\ Len(up) + 1 \notin DOMAIN up
    BY <1>1
  <1>3. UpCalls' = UpCalls \union {c}
    <2>1. UpCalls' = { up'[j][1] : j \in DOMAIN up' }
      BY DEF UpCalls
    <2> QED BY <1>2, <2>1 DEF UpCalls
  <1> QED BY <1>2, <1>3

-----------------------------------------------------------------------------
(* Whose SETUP a handler finishes. *)

Enters(t, d) == \E j \in DOMAIN t : t[j][1] = "enter" /\ t[j][2] = d

LEMMA EntersLink ==
  ASSUME NEW c, NEW in, NEW out, NEW n \in 1 .. 4
  PROVE  \A d : Enters(SubSeq(Link(c, in, out), n, 4), d) <=> d = c
  <1> TAKE d
  <1> DEFINE s == Link(c, in, out)
             t == SubSeq(s, n, 4)
  <1>1. /\ s \in Seq({ s[1], s[2], s[3], s[4] }) /\ Len(s) = 4
        /\ s[1] = << "flag", in >> /\ s[2] = << "peer", in, out >>
        /\ s[3] = << "peer", out, in >> /\ s[4] = << "enter", c, in >>
    BY LinkIs
  <1>2. t = SubSeq(s, n, 4)
    OBVIOUS
  <1> HIDE DEF s, t
  <1>3. DOMAIN t = 1 .. 5 - n /\ \A j \in 1 .. 5 - n : t[j] = s[n + j - 1]
    BY <1>1, <1>2
  <1>4. \A j \in DOMAIN t : t[j][1] = "enter" => j = 5 - n
    <2>1. \A i \in 1 .. 4 : s[i][1] = "enter" => i = 4
      BY <1>1
    <2>2. \A j \in 1 .. 5 - n : n + j - 1 \in 1 .. 4
      OBVIOUS
    <2>3. \A j \in 1 .. 5 - n : n + j - 1 = 4 => j = 5 - n
      OBVIOUS
    <2> QED BY <1>3, <2>1, <2>2, <2>3
  <1>5. 5 - n \in DOMAIN t /\ t[5 - n] = << "enter", c, in >>
    <2>1. 5 - n \in 1 .. 5 - n /\ n + (5 - n) - 1 = 4
      OBVIOUS
    <2> QED BY ONLY <1>1, <1>3, <2>1
  <1>6. Enters(t, d) => d = c
    BY <1>4, <1>5 DEF Enters
  <1>7. ASSUME d = c PROVE Enters(t, d)
    <2>1. t[5 - n][1] = "enter" /\ t[5 - n][2] = d
      BY ONLY <1>5, <1>7
    <2>2. \E j \in DOMAIN t : t[j][1] = "enter" /\ t[j][2] = d
      BY ONLY <1>5, <2>1
    <2> QED BY <2>2 DEF Enters
  <1> QED BY <1>6, <1>7 DEF s, t

LEMMA EntersDestroy ==
  ASSUME NEW x, NEW y, NEW n \in 1 .. 6
  PROVE  \A d : ~Enters(SubSeq(Destroy(x) \o Destroy(y), n, 6), d)
  <1> TAKE d
  <1> DEFINE s == Destroy(x) \o Destroy(y)
             t == SubSeq(s, n, 6)
             S == { << "fax", x >>, << "cancel", x >>, << "free", x >>,
                    << "fax", y >>, << "cancel", y >>, << "free", y >> }
  <1>1. /\ s \in Seq(S) /\ Len(s) = 6
        /\ s[1] = << "fax", x >> /\ s[2] = << "cancel", x >> /\ s[3] = << "free", x >>
        /\ s[4] = << "fax", y >> /\ s[5] = << "cancel", y >> /\ s[6] = << "free", y >>
    BY DestroyIs
  <1>2. t = SubSeq(s, n, 6)
    OBVIOUS
  <1> HIDE DEF s, t, S
  <1>3. DOMAIN t = 1 .. 7 - n /\ \A j \in 1 .. 7 - n : t[j] = s[n + j - 1]
    <2>1. s \in Seq(S) /\ Len(s) = 6 /\ n \in 1 .. 6
      BY <1>1
    <2> QED BY ONLY <1>2, <2>1
  <1>4. \A i \in 1 .. 6 : s[i][1] # "enter"
    BY <1>1
  <1>5. \A j \in 1 .. 7 - n : n + j - 1 \in 1 .. 6
    OBVIOUS
  <1>6. ~Enters(t, d)
    BY <1>3, <1>4, <1>5 DEF Enters
  <1> QED BY <1>6 DEF s, t

LEMMA EntersNone ==
  ASSUME NEW d
  PROVE  ~Enters(<< >>, d)
  BY DEF Enters

(* A thread that is astray belongs to a released call, and stays so. *)
LEMMA StrayFrame ==
  ASSUME Types, SoundWhileUp, stray' \subseteq stray,
         \A c \in Calls : thr[c].at # "none" => thr'[c].at # "none",
         \A c \in Calls : SettingUp(c)' => SettingUp(c) \/ thr[c].at = "none",
         \A c \in Calls : c \in UpCalls' => c \in UpCalls \/ SettingUp(c)
  PROVE  SoundWhileUp'
  BY DEF Types, SoundWhileUp, Released, UpCalls

(* A call whose memory and thread a step leaves alone. *)
LEMMA SoundFrame ==
  ASSUME NEW c, NEW in, CallSound(c, in),
         mem'[in] = mem[in], mem'[mem[in].peer] = mem[mem[in].peer],
         thr'[c] = thr[c], c \in cancelled' => c \in cancelled
  PROVE  CallSound(c, in)'
  BY DEF CallSound

(* What changes only the state of the process changes none of this. *)
LEMMA ProcessFrame ==
  ASSUME FaxInv, UNCHANGED << mem, up, todo, thr, cancelled, late, stray >>,
         process' \in { "runs", "ending", "exited", "crashed" }
  PROVE  FaxInv'
  <1> USE DEF FaxInv
  <1>1. Types'
    BY DEF Types
  <1>2. InUse' = InUse
    BY DEF InUse
  <1>3. UpCalls' = UpCalls
    BY DEF UpCalls
  <1>4. Table'
    BY DEF Table, CallSound
  <1>5. \A c, P : Account(c, P)' = Account(c, P)
    BY <1>2, <1>3 DEF Account, Legs
  <1>6. \A c, x, y, n : /\ Linking(c, x, y, n)' = Linking(c, x, y, n)
                        /\ Destroying(c, x, y, n)' = Destroying(c, x, y, n)
    BY <1>3 DEF Linking, Destroying
  <1>7. Handler'
    BY <1>5, <1>6 DEF Handler
  <1>8. Known' /\ Lateness'
    BY <1>2, <1>3 DEF Known, Lateness
  <1>9. SoundWhileUp'
    BY DEF SoundWhileUp, Released, SettingUp
  <1> QED BY <1>1, <1>4, <1>7, <1>8, <1>9

LEMMA InitInv ==
  ASSUME Init
  PROVE  FaxInv
  <1> USE DEF Init
  <1>1. Types
    BY DEF Types, Memory, FREE, Where
  <1>2. InUse = {} /\ UpCalls = {} /\ Len(up) = 0
    BY DEF InUse, UpCalls, FREE
  <1>3. Table
    BY DEF Table
  <1>4. IsFiniteSet({}) /\ Cardinality({}) = 0
    BY FS_EmptySet
  <1>5. Handler /\ Known
    BY <1>2, <1>4 DEF Handler, Account, Known
  <1>6. Lateness /\ SoundWhileUp
    BY DEF Lateness, SoundWhileUp, Before
  <1> QED BY <1>1, <1>3, <1>5, <1>6 DEF FaxInv

-----------------------------------------------------------------------------
(* SETUP up to pthread_create. *)

LEMMA Counts ==
  /\ Cardinality({}) = 0
  /\ \A a : Cardinality({a}) = 1
  /\ \A a, b : a # b => Cardinality({a, b}) = 2
  <1>1. IsFiniteSet({}) /\ Cardinality({}) = 0
    BY FS_EmptySet
  <1>2. \A a : IsFiniteSet({a}) /\ Cardinality({a}) = 1
    BY FS_Singleton
  <1>3. ASSUME NEW a, NEW b, a # b
        PROVE  Cardinality({a, b}) = 2
    <2>1. IsFiniteSet({a} \union {b}) /\ Cardinality({a} \union {b}) = Cardinality({a}) + 1
      BY <1>2, <1>3, FS_AddElement
    <2>2. {a} \union {b} = {a, b}
      OBVIOUS
    <2>3. Cardinality({a}) = 1
      BY <1>2
    <2>4. Cardinality({a, b}) = 1 + 1
      BY <2>1, <2>2, <2>3, Zenon
    <2> QED BY ONLY <2>4
  <1> QED BY <1>1, <1>2, <1>3

LEMMA NotBusy ==
  ASSUME Handler, todo = << >>
  PROVE  Account(NULL, {})
  <1>1. ASSUME NEW c, NEW x, NEW y, NEW n \in 1 .. 4
        PROVE  SubSeq(Link(c, x, y), n, 4) # << >>
    <2> DEFINE s == Link(c, x, y)
    <2>1. s \in Seq({ s[1], s[2], s[3], s[4] }) /\ Len(s) = 4
      BY LinkIs
    <2> HIDE DEF s
    <2>2. SubSeq(s, n, 4) # << >>
      <3>1. n \in 1 .. Len(s) /\ SubSeq(s, n, 4) = SubSeq(s, n, Len(s))
        BY <2>1
      <3>2. PICK S : s \in Seq(S)
        BY <2>1
      <3> QED BY ONLY <3>1, <3>2, RestOf
    <2> QED BY <2>2 DEF s
  <1>2. ASSUME NEW x, NEW y, NEW n \in 1 .. 6
        PROVE  SubSeq(Destroy(x) \o Destroy(y), n, 6) # << >>
    <2> DEFINE s == Destroy(x) \o Destroy(y)
               S == { << "fax", x >>, << "cancel", x >>, << "free", x >>,
                      << "fax", y >>, << "cancel", y >>, << "free", y >> }
    <2>1. s \in Seq(S) /\ Len(s) = 6
      BY DestroyIs
    <2> HIDE DEF s, S
    <2>2. SubSeq(s, n, 6) # << >>
      <3>1. n \in 1 .. Len(s) /\ SubSeq(s, n, 6) = SubSeq(s, n, Len(s))
        BY <2>1
      <3> QED BY ONLY <2>1, <3>1, RestOf
    <2> QED BY <2>2 DEF s
  <1>3. ASSUME NEW c, NEW x, NEW y, NEW n \in 1 .. 4, Linking(c, x, y, n)
        PROVE  FALSE
    BY <1>1, <1>3 DEF Linking
  <1>4. ASSUME NEW c, NEW x, NEW y, NEW n \in 1 .. 6, Destroying(c, x, y, n)
        PROVE  FALSE
    BY <1>2, <1>4 DEF Destroying
  <1> QED BY <1>3, <1>4 DEF Handler

LEMMA SetupInv ==
  ASSUME FaxInv, NEW c \in Calls, Setup(c)
  PROVE  FaxInv'
  <1> USE DEF FaxInv
  <1>1. PICK in \in Addr, out \in Addr :
           /\ in # out /\ mem[in] = FREE /\ mem[out] = FREE
           /\ mem' = [mem EXCEPT ![in]  = [FREE EXCEPT !.call = c, !.fax = TRUE],
                                 ![out] = [FREE EXCEPT !.call = c, !.fax = TRUE]]
           /\ todo' = SubSeq(Link(c, in, out), 1, 4)
           /\ thr' = [thr EXCEPT ![c] = [at |-> "asleep", arg |-> in, ses |-> NULL]]
    BY SetupIs
  <1>2. /\ todo = << >> /\ up' = up /\ cancelled' = cancelled /\ late' = late
        /\ stray' = stray /\ process' = process /\ thr[c].at = "none"
    BY DEF Setup, Idle, histVars
  <1>3. c \notin cancelled /\ c \notin UpCalls /\ UpCalls' = UpCalls
    BY <1>2 DEF Known, UpCalls
  <1>4. /\ mem'[in] = [FREE EXCEPT !.call = c, !.fax = TRUE]
        /\ mem'[out] = [FREE EXCEPT !.call = c, !.fax = TRUE]
        /\ \A a \in Addr \ {in, out} : mem'[a] = mem[a]
        /\ thr'[c] = [at |-> "asleep", arg |-> in, ses |-> NULL]
        /\ \A d \in Calls \ {c} : thr'[d] = thr[d]
    BY <1>1 DEF Types, Memory
  <1>5. /\ mem'[in].call = c /\ mem'[in].fax /\ mem'[out].call = c /\ mem'[out].fax
        /\ mem'[in] # FREE /\ mem'[out] # FREE
    <2>1. LET s == [FREE EXCEPT !.call = c, !.fax = TRUE] IN s.call = c /\ s.fax
      BY DEF FREE
    <2>2. FREE.call # c
      BY NullAssumption DEF FREE
    <2> QED BY <1>4, <2>1, <2>2
  <1>6. /\ InUse' = (InUse \union {in}) \union {out}
        /\ in \notin InUse /\ out \notin InUse \union {in}
    BY <1>1, <1>4, <1>5 DEF InUse
  <1>7. Types'
    <2>1. mem' \in Memory
      BY <1>1 DEF Types, Memory, FREE
    <2>2. thr' \in [Calls -> [at : Where, arg : Addr \union {NULL}, ses : Addr \union {NULL}]]
      BY <1>1 DEF Types, Where
    <2> QED BY <1>2, <2>1, <2>2 DEF Types
  <1>8. \A k \in DOMAIN up : /\ up[k][2] \in Addr \ {in, out}
                             /\ mem[up[k][2]].peer \in Addr \ {in, out}
                             /\ up[k][1] \in Calls \ {c}
    <2>1. FREE.call \notin Calls
      BY NullAssumption DEF FREE
    <2> QED BY <1>1, <1>3, <2>1 DEF Table, CallSound, UpCalls
  <1>9. Table'
    BY <1>2, <1>4, <1>8, SoundFrame DEF Table
  <1>10. Account(c, {in, out})'
    <2>1. Account(NULL, {})
      BY <1>2, NotBusy
    <2>2. \A k \in DOMAIN up : Legs(up[k][2])' = Legs(up[k][2])
      BY <1>2, <1>4, <1>8 DEF Legs
    <2>3. \A a \in InUse' : a \in {in, out} \/ \E k \in DOMAIN up : a \in Legs(up[k][2])'
      BY <1>6, <2>1, <2>2 DEF Account
    <2>4. Cardinality(InUse') = 2 * Len(up) + Cardinality({in, out})
      <3>1. /\ IsFiniteSet(InUse \union {in})
            /\ Cardinality(InUse \union {in}) = Cardinality(InUse) + 1
        BY <1>6, FS_AddElement DEF Known
      <3>2. Cardinality((InUse \union {in}) \union {out}) = Cardinality(InUse \union {in}) + 1
        BY <1>6, <3>1, FS_AddElement
      <3>3. Cardinality({in, out}) = 2 /\ Len(up) \in Nat
        <4>1. Cardinality({in, out}) = 2
          BY ONLY <1>1, Counts
        <4> QED BY <4>1 DEF Types
      <3>4. Cardinality(InUse) = 2 * Len(up)
        BY <2>1, <3>3, Counts DEF Account
      <3> QED BY <1>6, <3>1, <3>2, <3>3, <3>4
    <2>5. \A d \in Calls : thr'[d].at # "none" => d \in cancelled \/ d = c \/ d \in UpCalls
      BY <1>4, <2>1, NullAssumption DEF Account
    <2> QED BY <1>2, <1>3, <2>3, <2>4, <2>5 DEF Account
  <1>11. Linking(c, in, out, 1)'
    BY <1>1, <1>2, <1>3, <1>4, <1>5 DEF Linking
  <1>12. Handler'
    <2>1. \E n \in 1 .. 4 : Linking(c, in, out, n)' /\ Account(c, {in, out})'
      BY <1>10, <1>11
    <2> QED BY <2>1 DEF Handler
  <1>13. Known'
    <2>1. IsFiniteSet(InUse')
      BY <1>6, FS_AddElement DEF Known
    <2>2. ASSUME NEW a \in InUse'
          PROVE  mem'[a].call \in Calls /\ thr'[mem'[a].call].at # "none"
      <3>1. CASE a \in {in, out}
        <4>1. mem'[a].call = c
          BY ONLY <1>5, <3>1
        <4>2. thr'[c].at # "none"
          BY ONLY <1>4
        <4> QED BY <4>1, <4>2
      <3>2. CASE a \notin {in, out}
        <4>1. a \in InUse /\ mem'[a] = mem[a]
          BY <1>4, <1>6, <3>2 DEF InUse
        <4>2. mem[a].call \in Calls \ {c} /\ thr[mem[a].call].at # "none"
          BY <1>2, <4>1 DEF Known
        <4> QED BY <1>4, <4>1, <4>2
      <3> QED BY <3>1, <3>2
    <2>3. \A d \in Calls : thr'[d].at = "none" => thr[d].at = "none"
      BY <1>2, <1>4
    <2> QED BY <1>2, <1>3, <2>1, <2>2, <2>3 DEF Known
  <1>14. Lateness'
    BY <1>2, <1>3, <1>4 DEF Lateness, Before
  <1>15. SoundWhileUp'
    <2>1. \A d \in Calls : SettingUp(d)' => thr[d].at = "none"
      <3>1. \A d : Enters(todo', d) => d = c
        <4>1. todo' = SubSeq(Link(c, in, out), 1, 4) /\ 1 \in 1 .. 4
          BY <1>1
        <4> QED BY ONLY <4>1, EntersLink
      <3> QED BY <1>2, <3>1 DEF SettingUp, Enters
    <2> QED BY <1>2, <1>3, <1>4, <2>1, StrayFrame
  <1> QED BY <1>7, <1>9, <1>12, <1>13, <1>14, <1>15

-----------------------------------------------------------------------------
(* RELEASE and the turns of app_cfgDestroy, up to what is to be done. *)

LEMMA TakesDownInv ==
  ASSUME FaxInv, NEW k \in DOMAIN up, NEW x, NEW y, TakesDown(k, x, y)
  PROVE  FaxInv'
  <1> USE DEF FaxInv
  <1>0. PICK c, in, out : c = up[k][1] /\ in = up[k][2] /\ out = mem[in].peer
    OBVIOUS
  <1>1. /\ todo = << >> /\ todo' = SubSeq(Destroy(x) \o Destroy(y), 1, 6)
        /\ mem' = mem /\ cancelled' = cancelled /\ thr' = thr /\ late' = late
        /\ stray' = stray /\ process' = process /\ up' = RemoveAt(up, k)
        /\ \/ x = in /\ y = out
           \/ x = out /\ y = in
    BY <1>0 DEF TakesDown, histVars
  <1>2. /\ c \in Calls /\ in \in Addr /\ out \in Addr /\ in # out
        /\ mem[in].call = c /\ mem[in].active /\ mem[out].call = c
        /\ thr[c].at # "none"
    BY <1>0 DEF Table, CallSound
  <1>3. /\ up' \in Seq(Calls \X Addr) /\ Len(up') = Len(up) - 1
        /\ \A j \in DOMAIN up' : \E i \in DOMAIN up \ {k} : up'[j] = up[i]
        /\ \A i \in DOMAIN up \ {k} : \E j \in DOMAIN up' : up'[j] = up[i]
        /\ \A i, j \in DOMAIN up' : up'[i][1] = up'[j][1] => i = j
        /\ UpCalls' = UpCalls \ {c}
    BY <1>0, <1>1, RemoveUp
  <1>4. InUse' = InUse /\ \A a : Legs(a)' = Legs(a)
    BY <1>1 DEF InUse, Legs
  <1>5. Types'
    BY <1>1, <1>3 DEF Types
  <1>6. Table'
    <2>1. ASSUME NEW j \in DOMAIN up'
          PROVE  CallSound(up[j][1], up[j][2])'
      <3>1. PICK i \in DOMAIN up : up'[j] = up[i]
        BY <1>3
      <3>2. CallSound(up[i][1], up[i][2])
        BY DEF Table
      <3>3. \A d, a : CallSound(d, a)' <=> CallSound(d, a)
        BY ONLY <1>1 DEF CallSound
      <3> QED BY ONLY <3>1, <3>2, <3>3
    <2> QED BY <1>3, <2>1 DEF Table
  <1>7. Account(c, {x, y})'
    <2>1. Account(NULL, {})
      BY <1>1, NotBusy
    <2>2. ASSUME NEW a \in InUse
          PROVE  a \in {x, y} \/ \E j \in DOMAIN up' : a \in Legs(up[j][2])'
      <3>1. PICK i \in DOMAIN up : a \in Legs(up[i][2])
        BY <2>1 DEF Account
      <3>2. CASE i = k
        BY <1>0, <1>1, <3>1, <3>2 DEF Legs
      <3>3. CASE i # k
        <4>1. PICK j \in DOMAIN up' : up'[j] = up[i]
          BY <1>3, <3>3
        <4>2. Legs(up[j][2])' = Legs(up[i][2])
          BY <1>4, <4>1
        <4> QED BY <3>1, <4>1, <4>2
      <3> QED BY <3>2, <3>3
    <2>3. Cardinality(InUse) = 2 * Len(up') + Cardinality({x, y})
      <3>1. Cardinality({x, y}) = 2
        <4>1. x # y
          BY ONLY <1>1, <1>2
        <4> QED BY ONLY <4>1, Counts
      <3>2. Cardinality(InUse) = 2 * Len(up) + 0
        BY <2>1, Counts DEF Account
      <3>3. Len(up) \in Nat
        BY DEF Types
      <3> QED BY <1>3, <3>1, <3>2, <3>3
    <2>4. \A d \in Calls : thr[d].at # "none" => d \in cancelled \/ d = c \/ d \in UpCalls'
      BY <1>3, <2>1, NullAssumption DEF Account
    <2>5. InUse' = InUse /\ cancelled' = cancelled /\ thr' = thr
      BY <1>1, <1>4
    <2> QED BY ONLY <2>2, <2>3, <2>4, <2>5 DEF Account
  <1>8. Destroying(c, x, y, 1)'
    <2>1. x # y /\ mem[x].call = c /\ mem[y].call = c /\ (mem[x].active \/ mem[y].active)
      BY ONLY <1>1, <1>2
    <2>2. c \notin UpCalls' /\ thr[c].at # "none"
      BY <1>2, <1>3
    <2>3. todo' = SubSeq(Destroy(x) \o Destroy(y), 1, 6) /\ mem' = mem /\ thr' = thr
      BY <1>1
    <2> QED BY ONLY <2>1, <2>2, <2>3 DEF Destroying
  <1>9. Handler'
    <2>1. c \in Calls /\ x \in Addr /\ y \in Addr
      BY <1>1, <1>2
    <2>2. \E n \in 1 .. 6 : /\ Destroying(c, x, y, n)'
                            /\ Account(c, IF n <= 3 THEN {x, y} ELSE {y})'
      BY <1>7, <1>8
    <2> QED BY ONLY <2>1, <2>2 DEF Handler
  <1>10. Known'
    BY <1>1, <1>3, <1>4 DEF Known
  <1>11. Lateness'
    BY <1>1 DEF Lateness
  <1>12. SoundWhileUp'
    <2>1. \A d : ~Enters(todo', d)
      <3>1. todo' = SubSeq(Destroy(x) \o Destroy(y), 1, 6) /\ 1 \in 1 .. 6
        BY <1>1
      <3> QED BY ONLY <3>1, EntersDestroy
    <2> QED BY <1>1, <1>3, <2>1, StrayFrame DEF SettingUp, Enters
  <1> QED BY <1>5, <1>6, <1>9, <1>10, <1>11, <1>12

-----------------------------------------------------------------------------
(* The steps of a handler. *)

LEMMA SetFlag ==
  ASSUME Types, NEW a \in Addr, mem' = [mem EXCEPT ![a].active = TRUE]
  PROVE  /\ mem' \in Memory /\ \A b \in Addr \ {a} : mem'[b] = mem[b]
         /\ mem'[a].call = mem[a].call /\ mem'[a].peer = mem[a].peer
         /\ mem'[a].fax = mem[a].fax /\ mem'[a].active
  BY DEF Types, Memory

LEMMA SetPeer ==
  ASSUME Types, NEW a \in Addr, NEW p \in Addr, mem' = [mem EXCEPT ![a].peer = p]
  PROVE  /\ mem' \in Memory /\ \A b \in Addr \ {a} : mem'[b] = mem[b]
         /\ mem'[a].call = mem[a].call /\ mem'[a].peer = p
         /\ mem'[a].fax = mem[a].fax /\ mem'[a].active = mem[a].active
  BY DEF Types, Memory

LEMMA ResetFax ==
  ASSUME Types, NEW a \in Addr, mem' = [mem EXCEPT ![a].fax = FALSE]
  PROVE  /\ mem' \in Memory /\ \A b \in Addr \ {a} : mem'[b] = mem[b]
         /\ mem'[a].call = mem[a].call /\ mem'[a].active = mem[a].active
  BY DEF Types, Memory

LEMMA SetFree ==
  ASSUME Types, NEW a \in Addr, mem' = [mem EXCEPT ![a] = FREE]
  PROVE  /\ mem' \in Memory /\ \A b \in Addr \ {a} : mem'[b] = mem[b]
         /\ mem'[a] = FREE
  BY DEF Types, Memory, FREE

(* The sessions of a call that is not in the table are not those of one    *)
(* that is.                                                                *)
LEMMA Apart ==
  ASSUME Table, NEW k \in DOMAIN up, NEW a, mem[a].call \notin UpCalls
  PROVE  a # up[k][2] /\ a # mem[up[k][2]].peer
  BY DEF Table, CallSound, UpCalls

LEMMA LinkInv ==
  ASSUME FaxInv, NEW c \in Calls, NEW in \in Addr, NEW out \in Addr, NEW n \in 1 .. 3,
         Linking(c, in, out, n), Account(c, {in, out}), Step
  PROVE  FaxInv'
  <1> USE DEF FaxInv
  <1>1. /\ n = 1 => mem' = [mem EXCEPT ![in].active = TRUE]
        /\ n = 2 => mem' = [mem EXCEPT ![in].peer = out]
        /\ n = 3 => mem' = [mem EXCEPT ![out].peer = in]
        /\ up' = up /\ todo' = SubSeq(Link(c, in, out), n + 1, 4)
        /\ cancelled' = cancelled
        /\ thr' = thr /\ late' = late /\ stray' = stray /\ process' = process
    <2>1. Step /\ n \in 1 .. 4 /\ n < 4 /\ todo = SubSeq(Link(c, in, out), n, 4)
      BY DEF Linking
    <2>2. /\ n = 1 => mem' = [mem EXCEPT ![in].active = TRUE]
          /\ n = 2 => mem' = [mem EXCEPT ![in].peer = out]
          /\ n = 3 => mem' = [mem EXCEPT ![out].peer = in]
          /\ n = 4 => mem' = mem /\ up' = Append(up, << c, in >>) /\ todo' = << >>
          /\ n < 4 => up' = up /\ todo' = SubSeq(Link(c, in, out), n + 1, 4)
          /\ cancelled' = cancelled
          /\ thr' = thr /\ late' = late /\ stray' = stray /\ process' = process
      BY <2>1, LinkStep
    <2> QED BY ONLY <2>1, <2>2, Zenon
  <1>2. in # out /\ mem[in].call = c /\ mem[out].call = c /\ c \notin UpCalls
    BY DEF Linking
  <1>3. /\ mem' \in Memory /\ \A a \in Addr \ {in, out} : mem'[a] = mem[a]
        /\ \A a \in Addr : mem'[a].call = mem[a].call
        /\ mem'[in].fax = mem[in].fax /\ mem'[out].fax = mem[out].fax
        /\ n = 1 \/ mem[in].active => mem'[in].active
        /\ n = 2 => mem'[in].peer = out
        /\ n # 2 => mem'[in].peer = mem[in].peer
        /\ n = 3 => mem'[out].peer = in
    <2>1. CASE n = 1
      <3>1. /\ mem' \in Memory /\ \A b \in Addr \ {in} : mem'[b] = mem[b]
            /\ mem'[in].call = mem[in].call /\ mem'[in].peer = mem[in].peer
            /\ mem'[in].fax = mem[in].fax /\ mem'[in].active
        <4>1. Types /\ in \in Addr /\ mem' = [mem EXCEPT ![in].active = TRUE]
          BY <1>1, <2>1, Zenon
        <4> QED BY ONLY <4>1, SetFlag, Zenon
      <3> QED BY ONLY <1>2, <2>1, <3>1, in \in Addr, out \in Addr
    <2>2. CASE n = 2
      <3>1. /\ mem' \in Memory /\ \A b \in Addr \ {in} : mem'[b] = mem[b]
            /\ mem'[in].call = mem[in].call /\ mem'[in].peer = out
            /\ mem'[in].fax = mem[in].fax /\ mem'[in].active = mem[in].active
        <4>1. Types /\ in \in Addr /\ out \in Addr /\ mem' = [mem EXCEPT ![in].peer = out]
          BY <1>1, <2>2, Zenon
        <4> QED BY ONLY <4>1, SetPeer, Zenon
      <3> QED BY ONLY <1>2, <2>2, <3>1, in \in Addr, out \in Addr
    <2>3. CASE n = 3
      <3>1. /\ mem' \in Memory /\ \A b \in Addr \ {out} : mem'[b] = mem[b]
            /\ mem'[out].call = mem[out].call /\ mem'[out].peer = in
            /\ mem'[out].fax = mem[out].fax
        <4>1. Types /\ in \in Addr /\ out \in Addr /\ mem' = [mem EXCEPT ![out].peer = in]
          BY <1>1, <2>3, Zenon
        <4> QED BY ONLY <4>1, SetPeer, Zenon
      <3> QED BY ONLY <1>2, <2>3, <3>1, in \in Addr, out \in Addr
    <2> QED BY <2>1, <2>2, <2>3
  <1>4. Types'
    BY <1>1, <1>3 DEF Types
  <1>5. InUse' = InUse
    <2>1. FREE.call \notin Calls
      BY NullAssumption DEF FREE
    <2>2. \A a \in Addr : mem'[a] # FREE <=> mem[a] # FREE
      BY <1>2, <1>3, <2>1
    <2> QED BY <2>2 DEF InUse
  <1>6. UpCalls' = UpCalls
    BY <1>1 DEF UpCalls
  <1>7. \A k \in DOMAIN up : /\ mem'[up[k][2]] = mem[up[k][2]]
                             /\ mem'[mem[up[k][2]].peer] = mem[mem[up[k][2]].peer]
    <2>1. \A k \in DOMAIN up : up[k][2] \in Addr /\ mem[up[k][2]].peer \in Addr
      BY DEF Table, CallSound
    <2> QED BY <1>2, <1>3, <2>1, Apart
  <1>8. Table'
    BY <1>1, <1>7, SoundFrame DEF Table
  <1>9. Account(c, {in, out})'
    <2>1. \A k \in DOMAIN up : Legs(up[k][2])' = Legs(up[k][2])
      BY <1>1, <1>7 DEF Legs
    <2> QED BY <1>1, <1>5, <1>6, <2>1 DEF Account
  <1>10. Linking(c, in, out, n + 1)'
    <2>1. /\ n + 1 > 1 => mem'[in].active
          /\ n + 1 > 2 => mem'[in].peer = out
          /\ n + 1 > 3 => mem'[out].peer = in
      BY <1>3 DEF Linking
    <2> QED BY <1>1, <1>3, <1>6, <2>1 DEF Linking
  <1>11. Handler'
    <2>1. \E m \in 1 .. 4 : Linking(c, in, out, m)' /\ Account(c, {in, out})'
      BY <1>9, <1>10
    <2> QED BY <2>1 DEF Handler
  <1>12. Known'
    BY <1>1, <1>3, <1>5, <1>6 DEF Known, InUse
  <1>13. Lateness'
    BY <1>1 DEF Lateness
  <1>14. SoundWhileUp'
    <2>1. \A d : Enters(todo', d) => d = c
      <3>1. todo' = SubSeq(Link(c, in, out), n + 1, 4) /\ n + 1 \in 1 .. 4
        BY <1>1
      <3> QED BY ONLY <3>1, EntersLink
    <2>2. Enters(todo, c)
      <3>1. todo = SubSeq(Link(c, in, out), n, 4) /\ n \in 1 .. 4
        BY DEF Linking
      <3> QED BY ONLY <3>1, EntersLink
    <2> QED BY <1>1, <1>6, <2>1, <2>2, StrayFrame DEF SettingUp, Enters
  <1> QED BY <1>4, <1>8, <1>11, <1>12, <1>13, <1>14

LEMMA LinkEndInv ==
  ASSUME FaxInv, NEW c \in Calls, NEW in \in Addr, NEW out \in Addr,
         Linking(c, in, out, 4), Account(c, {in, out}), Step
  PROVE  FaxInv'
  <1> USE DEF FaxInv
  <1>1. /\ mem' = mem /\ up' = Append(up, << c, in >>) /\ todo' = << >>
        /\ cancelled' = cancelled
        /\ thr' = thr /\ late' = late /\ stray' = stray /\ process' = process
    <2>1. Step /\ 4 \in 1 .. 4 /\ todo = SubSeq(Link(c, in, out), 4, 4)
      BY DEF Linking
    <2> QED BY ONLY <2>1, LinkStep, 4 = 4, Zenon
  <1>2. /\ in # out /\ c \notin UpCalls /\ mem[in].call = c /\ mem[out].call = c
        /\ mem[in].fax /\ mem[out].fax /\ mem[in].active
        /\ mem[in].peer = out /\ mem[out].peer = in
        /\ thr[c].at = "asleep" /\ thr[c].arg = in /\ c \notin cancelled
    BY DEF Linking
  <1>3. /\ up' \in Seq(Calls \X Addr) /\ Len(up') = Len(up) + 1
        /\ up'[Len(up) + 1] = << c, in >> /\ Len(up) + 1 \in DOMAIN up'
        /\ \A j \in DOMAIN up : j \in DOMAIN up' /\ up'[j] = up[j]
        /\ \A j \in DOMAIN up' : j \in DOMAIN up \/ j = Len(up) + 1
        /\ Len(up) + 1 \notin DOMAIN up
        /\ UpCalls' = UpCalls \union {c}
    BY <1>1, AppendUp
  <1>4. InUse' = InUse /\ \A a : Legs(a)' = Legs(a)
    BY <1>1 DEF InUse, Legs
  <1>5. Types'
    BY <1>1, <1>3 DEF Types
  <1>6. Table'
    <2>1. \A d, a : CallSound(d, a)' <=> CallSound(d, a)
      BY ONLY <1>1 DEF CallSound
    <2>2. CallSound(c, in)
      BY <1>2 DEF CallSound
    <2>3. ASSUME NEW j \in DOMAIN up'
          PROVE  CallSound(up[j][1], up[j][2])'
      <3>1. CASE j \in DOMAIN up
        BY <1>3, <2>1, <3>1 DEF Table
      <3>2. CASE j = Len(up) + 1
        BY <1>3, <2>1, <2>2, <3>2
      <3> QED BY <1>3, <3>1, <3>2
    <2>4. ASSUME NEW i \in DOMAIN up', NEW j \in DOMAIN up', up'[i][1] = up'[j][1]
          PROVE  i = j
      <3>1. \A k \in DOMAIN up : up[k][1] # c
        BY <1>2 DEF UpCalls
      <3>2. \A k \in DOMAIN up : up'[k][1] # c
        BY <1>3, <3>1
      <3>3. up'[Len(up) + 1][1] = c
        BY <1>3
      <3>4. CASE i \in DOMAIN up /\ j \in DOMAIN up
        BY <1>3, <2>4, <3>4 DEF Table
      <3> QED BY <1>3, <2>4, <3>2, <3>3, <3>4
    <2> QED BY <2>3, <2>4 DEF Table
  <1>7. Account(NULL, {})'
    <2>1. ASSUME NEW a \in InUse
          PROVE  \E k \in DOMAIN up' : a \in Legs(up[k][2])'
      <3>1. CASE a \in {in, out}
        <4>1. PICK m : m = Len(up) + 1
          OBVIOUS
        <4>2. m \in DOMAIN up' /\ up'[m] = << c, in >>
          BY <1>3, <4>1
        <4>3. a \in Legs(up[m][2])'
          BY <1>1, <1>2, <3>1, <4>2 DEF Legs
        <4> QED BY <4>2, <4>3
      <3>2. CASE a \notin {in, out}
        <4>1. PICK k \in DOMAIN up : a \in Legs(up[k][2])
          BY <3>2 DEF Account
        <4>2. k \in DOMAIN up' /\ up'[k] = up[k]
          BY <1>3
        <4>3. a \in Legs(up[k][2])'
          BY <1>1, <4>1, <4>2 DEF Legs
        <4> QED BY <4>2, <4>3
      <3> QED BY <3>1, <3>2
    <2>2. Cardinality(InUse) = 2 * Len(up') + Cardinality({})
      <3>1. Cardinality({in, out}) = 2 /\ Cardinality({}) = 0
        BY ONLY <1>2, Counts
      <3>2. Len(up) \in Nat
        BY DEF Types
      <3>3. Cardinality(InUse) = 2 * Len(up) + Cardinality({in, out})
        BY DEF Account
      <3> QED BY <1>3, <3>1, <3>2, <3>3
    <2>3. \A d \in Calls : thr[d].at # "none" =>
                             d \in cancelled \/ d = NULL \/ d \in UpCalls'
      BY <1>3 DEF Account
    <2>4. InUse' = InUse /\ cancelled' = cancelled /\ thr' = thr
      BY <1>1, <1>4
    <2> QED BY ONLY <2>1, <2>2, <2>3, <2>4 DEF Account
  <1>8. Handler'
    BY <1>1, <1>7 DEF Handler
  <1>9. Known'
    <2>1. thr[c].at # "none"
      BY <1>2
    <2> QED BY <1>1, <1>3, <1>4, <2>1 DEF Known
  <1>10. Lateness'
    BY <1>1 DEF Lateness
  <1>11. SoundWhileUp'
    <2>1. Enters(todo, c)
      <3>1. todo = SubSeq(Link(c, in, out), 4, 4) /\ 4 \in 1 .. 4
        BY DEF Linking
      <3> QED BY ONLY <3>1, EntersLink
    <2>2. \A d : ~Enters(todo', d)
      BY <1>1, EntersNone
    <2> QED BY <1>1, <1>3, <2>1, <2>2, StrayFrame DEF SettingUp, Enters
  <1> QED BY <1>5, <1>6, <1>8, <1>9, <1>10, <1>11

(* What session_destroy does at its step n, to the session a.              *)
Destroys(c, x, y, n, a) ==
  /\ a \in Addr /\ mem[a].call = c
  /\ mem' \in Memory /\ \A b \in Addr \ {a} : mem'[b] = mem[b]
  /\ n \notin {3, 6} => mem'[a].call = c /\ mem'[a].active = mem[a].active
  /\ n \in {3, 6} => mem'[a] = FREE
  /\ cancelled \subseteq cancelled' /\ cancelled' \subseteq cancelled \union {c}
  /\ n \in {2, 5} /\ mem[a].active => c \in cancelled'
  /\ todo' = IF n < 6 THEN SubSeq(Destroy(x) \o Destroy(y), n + 1, 6) ELSE << >>
  /\ up' = up /\ thr' = thr /\ late' = late /\ stray' = stray
  /\ process' = process

LEMMA DestroyEffect ==
  ASSUME Types, NEW c \in Calls, NEW x \in Addr, NEW y \in Addr, NEW n \in 1 .. 6,
         Destroying(c, x, y, n), Step, NEW a, a = IF n <= 3 THEN x ELSE y
  PROVE  Destroys(c, x, y, n, a)
  <1>1. /\ n \in {1, 4} => mem' = [mem EXCEPT ![a].fax = FALSE]
        /\ n \in {2, 5} => mem' = mem
        /\ n \in {3, 6} => mem' = [mem EXCEPT ![a] = FREE]
        /\ cancelled' = IF n \in {2, 5} /\ mem[a].active
                        THEN cancelled \union {mem[a].call} ELSE cancelled
        /\ todo' = IF n < 6 THEN SubSeq(Destroy(x) \o Destroy(y), n + 1, 6) ELSE << >>
        /\ up' = up /\ thr' = thr /\ late' = late /\ stray' = stray
        /\ process' = process
    <2>1. Step /\ n \in 1 .. 6 /\ todo = SubSeq(Destroy(x) \o Destroy(y), n, 6)
      BY DEF Destroying
    <2> QED BY <2>1, DestroyStep
  <1>2. a \in Addr /\ mem[a].call = c
    BY DEF Destroying
  <1>3. n \in {1, 4} => /\ mem' \in Memory /\ \A b \in Addr \ {a} : mem'[b] = mem[b]
                        /\ mem'[a].call = mem[a].call /\ mem'[a].active = mem[a].active
    <2>1. Types
      OBVIOUS
    <2> QED BY ONLY <1>1, <1>2, <2>1, ResetFax, Zenon
  <1>4. n \in {2, 5} => /\ mem' \in Memory /\ \A b \in Addr \ {a} : mem'[b] = mem[b]
                        /\ mem'[a].call = mem[a].call /\ mem'[a].active = mem[a].active
    <2>1. mem \in Memory
      BY DEF Types
    <2> QED BY ONLY <1>1, <2>1, Zenon
  <1>5. n \in {3, 6} => /\ mem' \in Memory /\ \A b \in Addr \ {a} : mem'[b] = mem[b]
                        /\ mem'[a] = FREE
    <2>1. Types
      OBVIOUS
    <2> QED BY ONLY <1>1, <1>2, <2>1, SetFree, Zenon
  <1>6. /\ cancelled \subseteq cancelled' /\ cancelled' \subseteq cancelled \union {c}
        /\ n \in {2, 5} /\ mem[a].active => c \in cancelled'
    BY ONLY <1>1, <1>2
  <1>7. n \in {1, 4} \/ n \in {2, 5} \/ n \in {3, 6}
    OBVIOUS
  <1>8. n \in {3, 6} => n \notin {1, 4} /\ n \notin {2, 5}
    OBVIOUS
  <1> HIDE DEF FREE
  <1>9. n \notin {3, 6} => mem'[a].call = c /\ mem'[a].active = mem[a].active
    BY ONLY <1>2, <1>3, <1>4, <1>7
  <1>10. n \in {3, 6} => mem'[a] = FREE
    BY ONLY <1>5
  <1>11. mem' \in Memory /\ \A b \in Addr \ {a} : mem'[b] = mem[b]
    BY ONLY <1>3, <1>4, <1>5, <1>7
  <1> QED BY ONLY <1>1, <1>2, <1>6, <1>9, <1>10, <1>11 DEF Destroys

LEMMA DestroyInv ==
  ASSUME FaxInv, NEW c \in Calls, NEW x \in Addr, NEW y \in Addr, NEW n \in 1 .. 6,
         Destroying(c, x, y, n), Account(c, IF n <= 3 THEN {x, y} ELSE {y}), Step
  PROVE  FaxInv'
  <1> USE DEF FaxInv
  <1>0. PICK a : a = IF n <= 3 THEN x ELSE y
    OBVIOUS
  <1>1. /\ a \in Addr /\ mem[a].call = c
        /\ mem' \in Memory /\ \A b \in Addr \ {a} : mem'[b] = mem[b]
        /\ n \notin {3, 6} => /\ mem'[a].call = c
                              /\ mem'[a].active = mem[a].active
        /\ n \in {3, 6} => mem'[a] = FREE
        /\ cancelled \subseteq cancelled' /\ cancelled' \subseteq cancelled \union {c}
        /\ n \in {2, 5} /\ mem[a].active => c \in cancelled'
        /\ todo' = IF n < 6 THEN SubSeq(Destroy(x) \o Destroy(y), n + 1, 6) ELSE << >>
        /\ up' = up /\ thr' = thr /\ late' = late /\ stray' = stray
        /\ process' = process
    <2>1. Destroys(c, x, y, n, a)
      BY <1>0, DestroyEffect
    <2> QED BY ONLY <2>1, Zenon DEF Destroys
  <1>2. /\ x # y /\ c \notin UpCalls /\ thr[c].at # "none" /\ mem[y].call = c
        /\ n <= 3 => mem[x].call = c
        /\ n > 3 => mem[x] = FREE
        /\ \/ c \in cancelled
           \/ n <= 2 /\ mem[x].active
           \/ n <= 5 /\ mem[y].active
    BY DEF Destroying
  <1>3. FREE.call \notin Calls
    BY NullAssumption DEF FREE
  <1> HIDE DEF FREE
  <1>4. UpCalls' = UpCalls
    BY <1>1 DEF UpCalls
  <1>5. Types'
    BY <1>1, <1>2 DEF Types
  <1>6. /\ n \notin {3, 6} => InUse' = InUse
        /\ n \in {3, 6} => InUse' = InUse \ {a}
        /\ a \in InUse
    <2>1. mem[a] # FREE
      BY <1>1, <1>3
    <2>2. n \notin {3, 6} => \A b \in Addr : mem'[b] # FREE <=> mem[b] # FREE
      BY <1>1, <1>3, <2>1
    <2>3. n \in {3, 6} => \A b \in Addr : mem'[b] # FREE <=> mem[b] # FREE /\ b # a
      BY <1>1, <1>3, <2>1
    <2> QED BY <1>1, <2>1, <2>2, <2>3 DEF InUse
  <1>7. \A k \in DOMAIN up : /\ mem'[up[k][2]] = mem[up[k][2]]
                             /\ mem'[mem[up[k][2]].peer] = mem[mem[up[k][2]].peer]
                             /\ up[k][2] # a /\ mem[up[k][2]].peer # a
                             /\ up[k][1] # c
    <2>1. \A k \in DOMAIN up : up[k][2] \in Addr /\ mem[up[k][2]].peer \in Addr
      BY DEF Table, CallSound
    <2>2. \A k \in DOMAIN up : up[k][1] # c
      BY <1>2 DEF UpCalls
    <2>3. \A k \in DOMAIN up : up[k][2] # a /\ mem[up[k][2]].peer # a
      BY <1>1, <1>2, Apart
    <2> QED BY <1>1, <2>1, <2>2, <2>3
  <1>8. Table'
    <2>1. ASSUME NEW k \in DOMAIN up
          PROVE  CallSound(up[k][1], up[k][2])'
      <3>1. PICK d, e : d = up[k][1] /\ e = up[k][2]
        OBVIOUS
      <3>2. CallSound(d, e) /\ d # c
        BY <1>7, <3>1 DEF Table
      <3>3. CallSound(d, e)'
        <4>1. /\ mem'[e] = mem[e] /\ mem'[mem[e].peer] = mem[mem[e].peer]
              /\ thr'[d] = thr[d] /\ (d \in cancelled' => d \in cancelled)
          BY <1>1, <1>7, <3>1, <3>2
        <4> QED BY ONLY <3>2, <4>1, SoundFrame
      <3>4. up' = up
        BY <1>1
      <3> QED BY ONLY <3>1, <3>3, <3>4
    <2> QED BY <1>1, <2>1 DEF Table
  <1>9. \A k \in DOMAIN up : Legs(up[k][2])' = Legs(up[k][2]) /\ a \notin Legs(up[k][2])
    BY <1>1, <1>7 DEF Legs
  <1>10. IsFiniteSet(InUse) /\ IsFiniteSet(InUse')
    BY <1>6, FS_RemoveElement DEF Known
  <1>11. n # 6 => Account(c, IF n + 1 <= 3 THEN {x, y} ELSE {y})'
    <2> DEFINE P == IF n <= 3 THEN {x, y} ELSE {y}
               Q == IF n + 1 <= 3 THEN {x, y} ELSE {y}
    <2>0. SUFFICES ASSUME n # 6 PROVE Account(c, Q)'
      OBVIOUS
    <2>1. ASSUME NEW b \in InUse'
          PROVE  b \in Q \/ \E k \in DOMAIN up : b \in Legs(up[k][2])'
      <3>1. b \in InUse /\ (n = 3 => b # x)
        BY <1>0, <1>6, <2>0
      <3>2. b \in P \/ \E k \in DOMAIN up : b \in Legs(up[k][2])
        BY <3>1 DEF Account
      <3>3. b \in P => b \in Q
        BY <3>1
      <3> QED BY ONLY <1>9, <3>2, <3>3
    <2>2. Cardinality(InUse') = 2 * Len(up) + Cardinality(Q)
      <3>1. Cardinality(InUse) = 2 * Len(up) + Cardinality(P)
        BY DEF Account
      <3>2. Cardinality({x, y}) = 2 /\ Cardinality({y}) = 1
        BY ONLY <1>2, Counts
      <3>3. Len(up) \in Nat
        BY DEF Types
      <3>4. n = 3 => Cardinality(InUse') = Cardinality(InUse) - 1
        BY <1>6, <1>10, FS_RemoveElement
      <3>5. n # 3 => InUse' = InUse /\ P = Q
        BY <1>6, <2>0
      <3>6. n = 3 => P = {x, y} /\ Q = {y}
        OBVIOUS
      <3> QED BY ONLY <3>1, <3>2, <3>3, <3>4, <3>5, <3>6
    <2>3. \A d \in Calls : thr[d].at # "none" => d \in cancelled' \/ d = c \/ d \in UpCalls
      BY <1>1 DEF Account
    <2> HIDE DEF P, Q
    <2> QED BY <1>1, <1>4, <2>1, <2>2, <2>3 DEF Account
  <1>12. n = 6 => Account(NULL, {})'
    <2>0. SUFFICES ASSUME n = 6 PROVE Account(NULL, {})'
      OBVIOUS
    <2>1. ASSUME NEW b \in InUse'
          PROVE  \E k \in DOMAIN up : b \in Legs(up[k][2])'
      <3>1. b \in InUse /\ b # y
        BY <1>0, <1>6, <2>0
      <3>2. \E k \in DOMAIN up : b \in Legs(up[k][2])
        BY <2>0, <3>1 DEF Account
      <3> QED BY ONLY <1>9, <3>2
    <2>2. Cardinality(InUse') = 2 * Len(up) + Cardinality({})
      <3>1. Cardinality(InUse) = 2 * Len(up) + Cardinality({y})
        BY <2>0 DEF Account
      <3>2. Cardinality({y}) = 1 /\ Cardinality({}) = 0
        BY ONLY Counts
      <3>3. Len(up) \in Nat
        BY DEF Types
      <3>4. Cardinality(InUse') = Cardinality(InUse) - 1
        BY <1>6, <1>10, <2>0, FS_RemoveElement
      <3> QED BY ONLY <3>1, <3>2, <3>3, <3>4
    <2>3. \A d \in Calls : thr[d].at # "none" => d \in cancelled' \/ d \in UpCalls
      BY <1>1, <1>2, <2>0 DEF Account
    <2> QED BY <1>1, <1>4, <2>1, <2>2, <2>3 DEF Account
  <1>13. n # 6 => Destroying(c, x, y, n + 1)'
    <2>0. SUFFICES ASSUME n # 6 PROVE Destroying(c, x, y, n + 1)'
      OBVIOUS
    <2>1. IF n + 1 <= 3 THEN mem'[x].call = c ELSE mem'[x] = FREE
      BY <1>0, <1>1, <1>2, <2>0
    <2>2. mem'[y].call = c
      BY <1>0, <1>1, <1>2, <2>0
    <2>3. \/ c \in cancelled'
          \/ n + 1 <= 2 /\ mem'[x].active
          \/ n + 1 <= 5 /\ mem'[y].active
      BY <1>0, <1>1, <1>2, <2>0
    <2>4. todo' = SubSeq(Destroy(x) \o Destroy(y), n + 1, 6) /\ thr' = thr
      <3>1. n < 6
        BY ONLY <2>0, n \in 1 .. 6
      <3> QED BY ONLY <1>1, <3>1, Zenon
    <2> QED BY ONLY <1>2, <1>4, <2>1, <2>2, <2>3, <2>4 DEF Destroying
  <1>14. Handler'
    <2>1. CASE n = 6
      BY <1>1, <1>12, <2>1 DEF Handler
    <2>2. CASE n # 6
      <3>1. n + 1 \in 1 .. 6 /\ c \in Calls /\ x \in Addr /\ y \in Addr
        BY <2>2
      <3> QED BY ONLY <1>11, <1>13, <2>2, <3>1, Zenon DEF Handler
    <2> QED BY <2>1, <2>2
  <1>15. Known'
    <2>1. \A b \in InUse' : mem'[b].call = mem[b].call /\ b \in InUse
      <3>1. \A b \in InUse' : b \in InUse /\ (n \in {3, 6} => b # a) /\ b \in Addr
        BY <1>6 DEF InUse
      <3> QED BY ONLY <1>1, <3>1
    <2> QED BY <1>1, <1>2, <1>4, <1>10, <2>1 DEF Known
  <1>16. Lateness'
    BY <1>1 DEF Lateness
  <1>17. SoundWhileUp'
    <2>1. \A d : ~Enters(todo', d)
      <3>1. CASE n = 6
        BY <1>1, <3>1, EntersNone
      <3>2. CASE n # 6
        <4>1. todo' = SubSeq(Destroy(x) \o Destroy(y), n + 1, 6) /\ n + 1 \in 1 .. 6
          <5>1. n < 6 /\ n + 1 \in 1 .. 6
            BY ONLY <3>2, n \in 1 .. 6
          <5> QED BY ONLY <1>1, <5>1, Zenon
        <4> QED BY ONLY <4>1, EntersDestroy
      <3> QED BY <3>1, <3>2
    <2> QED BY <1>1, <1>4, <2>1, StrayFrame DEF SettingUp, Enters
  <1> QED BY <1>5, <1>8, <1>14, <1>15, <1>16, <1>17

LEMMA StepInv ==
  ASSUME FaxInv, Step
  PROVE  FaxInv'
  <1>1. todo # << >>
    BY DEF Step
  <1>2. CASE \E c \in Calls, in \in Addr, out \in Addr, n \in 1 .. 4 :
               Linking(c, in, out, n) /\ Account(c, {in, out})
    <2>1. PICK c \in Calls, in \in Addr, out \in Addr, n \in 1 .. 4 :
            Linking(c, in, out, n) /\ Account(c, {in, out})
      BY <1>2
    <2>2. CASE n = 4
      BY <2>1, <2>2, LinkEndInv
    <2>3. CASE n # 4
      <3>1. n \in 1 .. 3
        BY <2>3
      <3> QED BY <2>1, <3>1, LinkInv
    <2> QED BY <2>2, <2>3
  <1>3. CASE \E c \in Calls, x \in Addr, y \in Addr, n \in 1 .. 6 :
               /\ Destroying(c, x, y, n)
               /\ Account(c, IF n <= 3 THEN {x, y} ELSE {y})
    BY <1>3, DestroyInv
  <1> QED BY <1>1, <1>2, <1>3 DEF FaxInv, Handler

-----------------------------------------------------------------------------
(* The steps of a thread. *)

(* What a step of thread c keeps, and what it may make of its own state.   *)
Moves(c) ==
  /\ mem' = mem /\ up' = up /\ todo' = todo /\ cancelled' = cancelled
  /\ thr' \in [Calls -> [at : Where, arg : Addr \union {NULL}, ses : Addr \union {NULL}]]
  /\ \A d \in Calls \ {c} : thr'[d] = thr[d] /\ late'[d] = late[d]
  /\ thr[c].at # "none" /\ thr'[c].at # "none" /\ ~SettingUp(c)
  /\ c \in UpCalls => /\ thr'[c].at # "gone" /\ thr'[c].arg = thr[c].arg
                      /\ thr'[c].at = "rx_in" => thr'[c].ses = mem[thr[c].arg].peer
  /\ late' \in [Calls -> Nat] /\ late'[c] + Before(thr'[c].at) <= 4
  /\ c \notin cancelled => late'[c] = 0
  /\ stray' \subseteq stray \union {c} /\ (c \in stray' => c \in stray \/ Released(c))
  /\ process' \in { process, "crashed" }

LEMMA SettingUpIs ==
  ASSUME Handler, NEW c, SettingUp(c)
  PROVE  thr[c].at = "asleep" /\ c \notin cancelled
  <1>1. Enters(todo, c)
    BY DEF SettingUp, Enters
  <1>2. CASE todo = << >>
    BY <1>1, <1>2, EntersNone
  <1>3. ASSUME NEW d, NEW x, NEW y, NEW n \in 1 .. 4, Linking(d, x, y, n)
        PROVE  thr[c].at = "asleep" /\ c \notin cancelled
    <2>1. todo = SubSeq(Link(d, x, y), n, 4) /\ n \in 1 .. 4
      BY <1>3 DEF Linking
    <2>2. c = d
      BY ONLY <1>1, <2>1, EntersLink
    <2> QED BY <1>3, <2>2 DEF Linking
  <1>4. ASSUME NEW d, NEW x, NEW y, NEW n \in 1 .. 6, Destroying(d, x, y, n)
        PROVE  FALSE
    <2>1. todo = SubSeq(Destroy(x) \o Destroy(y), n, 6) /\ n \in 1 .. 6
      BY <1>4 DEF Destroying
    <2> QED BY ONLY <1>1, <2>1, EntersDestroy
  <1> QED BY <1>2, <1>3, <1>4 DEF Handler

LEMMA MovesInv ==
  ASSUME FaxInv, NEW c \in Calls, Moves(c)
  PROVE  FaxInv'
  <1> USE DEF FaxInv
  <1>1. /\ mem' = mem /\ up' = up /\ todo' = todo /\ cancelled' = cancelled
        /\ thr' \in [Calls -> [at : Where, arg : Addr \union {NULL}, ses : Addr \union {NULL}]]
        /\ \A d \in Calls \ {c} : thr'[d] = thr[d] /\ late'[d] = late[d]
        /\ thr[c].at # "none" /\ thr'[c].at # "none" /\ ~SettingUp(c)
        /\ c \in UpCalls => /\ thr'[c].at # "gone" /\ thr'[c].arg = thr[c].arg
                            /\ thr'[c].at = "rx_in" => thr'[c].ses = mem[thr[c].arg].peer
        /\ late' \in [Calls -> Nat] /\ late'[c] + Before(thr'[c].at) <= 4
        /\ c \notin cancelled => late'[c] = 0
        /\ stray' \subseteq stray \union {c} /\ (c \in stray' => c \in stray \/ Released(c))
        /\ process' \in { process, "crashed" }
    BY DEF Moves
  <1>2. UpCalls' = UpCalls /\ InUse' = InUse /\ \A a : Legs(a)' = Legs(a)
    BY <1>1 DEF UpCalls, InUse, Legs
  <1>3. \A d \in Calls : thr'[d].at = "none" <=> thr[d].at = "none"
    BY <1>1
  <1>4. Types'
    BY <1>1 DEF Types
  <1>5. Table'
    <2>1. ASSUME NEW d, NEW a, d \in UpCalls, CallSound(d, a)
          PROVE  CallSound(d, a)'
      <3>1. CASE d = c
        BY <1>1, <2>1, <3>1 DEF CallSound
      <3>2. CASE d # c
        <4>1. thr'[d] = thr[d]
          BY <1>1, <2>1, <3>2 DEF CallSound
        <4> QED BY ONLY <1>1, <2>1, <4>1 DEF CallSound
      <3> QED BY <3>1, <3>2
    <2>2. \A k \in DOMAIN up : up[k][1] \in UpCalls /\ CallSound(up[k][1], up[k][2])
      BY DEF Table, UpCalls
    <2>3. \A k \in DOMAIN up : CallSound(up[k][1], up[k][2])'
      BY ONLY <1>1, <2>1, <2>2
    <2> QED BY <1>1, <2>3 DEF Table
  <1>6. \A d, P : Account(d, P) => Account(d, P)'
    BY <1>1, <1>2, <1>3 DEF Account
  <1>7. ASSUME NEW d \in Calls, NEW x, NEW y, NEW n \in 1 .. 4, Linking(d, x, y, n)
        PROVE  Linking(d, x, y, n)'
    <2>1. todo = SubSeq(Link(d, x, y), n, 4) /\ n \in 1 .. 4
      BY <1>7 DEF Linking
    <2>2. Enters(todo, d)
      BY ONLY <2>1, EntersLink
    <2>3. thr'[d] = thr[d]
      BY <1>1, <2>2 DEF SettingUp, Enters
    <2> QED BY ONLY <1>1, <1>2, <1>7, <2>3, Zenon DEF Linking
  <1>8. ASSUME NEW d \in Calls, NEW x, NEW y, NEW n \in 1 .. 6, Destroying(d, x, y, n)
        PROVE  Destroying(d, x, y, n)'
    BY ONLY <1>1, <1>2, <1>3, <1>8, d \in Calls, Zenon DEF Destroying
  <1>9. Handler'
    <2>1. CASE todo = << >> /\ Account(NULL, {})
      BY <1>1, <1>6, <2>1 DEF Handler
    <2>2. CASE \E d \in Calls, x \in Addr, y \in Addr, n \in 1 .. 4 :
                 Linking(d, x, y, n) /\ Account(d, {x, y})
      BY ONLY <1>6, <1>7, <2>2 DEF Handler
    <2>3. CASE \E d \in Calls, x \in Addr, y \in Addr, n \in 1 .. 6 :
                 Destroying(d, x, y, n) /\ Account(d, IF n <= 3 THEN {x, y} ELSE {y})
      BY ONLY <1>6, <1>8, <2>3 DEF Handler
    <2> QED BY <2>1, <2>2, <2>3 DEF Handler
  <1>10. Known'
    BY <1>1, <1>2, <1>3 DEF Known
  <1>11. Lateness'
    BY <1>1 DEF Lateness
  <1>12. SoundWhileUp'
    <2>1. \A d \in Calls : Released(d) => Released(d)'
      BY <1>1, <1>3 DEF Released, SettingUp
    <2>2. \A d \in stray' : d \in Calls /\ Released(d)
      BY <1>1 DEF SoundWhileUp, Types
    <2> QED BY <2>1, <2>2 DEF SoundWhileUp
  <1> QED BY <1>4, <1>5, <1>9, <1>10, <1>11, <1>12

LEMMA MoveIs ==
  ASSUME Types, NEW c \in Calls, NEW at \in Where, NEW ses \in Addr \union {NULL},
         Move(c, at, ses)
  PROVE  /\ mem' = mem /\ up' = up /\ todo' = todo /\ cancelled' = cancelled
         /\ thr' \in [Calls -> [at : Where, arg : Addr \union {NULL}, ses : Addr \union {NULL}]]
         /\ \A d \in Calls \ {c} : thr'[d] = thr[d] /\ late'[d] = late[d]
         /\ thr'[c].at = at /\ thr'[c].arg = thr[c].arg /\ thr'[c].ses = ses
         /\ late' \in [Calls -> Nat]
         /\ late'[c] = late[c] + (IF c \in cancelled THEN 1 ELSE 0)
  <1>1. mem' = mem /\ up' = up /\ todo' = todo /\ cancelled' = cancelled
    BY DEF Move, mainVars
  <1>2. /\ thr' \in [Calls -> [at : Where, arg : Addr \union {NULL}, ses : Addr \union {NULL}]]
        /\ \A d \in Calls \ {c} : thr'[d] = thr[d]
        /\ thr'[c].at = at /\ thr'[c].arg = thr[c].arg /\ thr'[c].ses = ses
    BY DEF Move, Types
  <1>3. /\ late' \in [Calls -> Nat] /\ \A d \in Calls \ {c} : late'[d] = late[d]
        /\ late'[c] = late[c] + (IF c \in cancelled THEN 1 ELSE 0)
    BY DEF Move, Types
  <1> QED BY <1>1, <1>2, <1>3

LEMMA WakeMoves ==
  ASSUME FaxInv, NEW c \in Calls, Wake(c) \/ Nap(c)
  PROVE  Moves(c)
  <1>1. /\ thr[c].at \in { "asleep", "nap" } /\ c \notin cancelled
        /\ Move(c, "tx_in", NULL) /\ stray' = stray /\ process' = process
    BY DEF Wake, Nap
  <1>2. ~SettingUp(c)
    BY SettingUpIs DEF FaxInv, Wake, Nap
  <1>3. "tx_in" \in Where /\ NULL \in Addr \union {NULL} /\ Types
    BY DEF Where, Pass, NextAt, FaxInv
  <1>4. late[c] = 0
    BY <1>1 DEF FaxInv, Lateness
  <1>5. Before("tx_in") = 4
    BY DEF Before
  <1> QED BY <1>1, <1>2, <1>3, <1>4, <1>5, MoveIs DEF Moves

LEMMA PassIs ==
  /\ Pass = { "tx_in", "rx_out", "tx_out", "rx_in" }
  /\ \A at \in Pass : /\ at \in Where /\ NextAt[at] \in Where \ { "none", "gone" }
                      /\ Before(at) = 1 + Before(NextAt[at])
                      /\ Before(NextAt[at]) \in Nat
                      /\ NextAt[at] = "rx_in" <=> at = "tx_out"
  <1>1. Pass = { "tx_in", "rx_out", "tx_out", "rx_in" }
    BY DEF Pass, NextAt
  <1> QED BY <1>1 DEF NextAt, Before, Where

(* The thread of a call in the table finds what it looks for.              *)
LEMMA UpIsSound ==
  ASSUME Table, NEW c \in UpCalls, thr[c].at \in Pass
  PROVE  /\ Sound(c)
         /\ thr[c].at = "tx_out" => Target(c) = mem[thr[c].arg].peer
  <1>1. PICK in : CallSound(c, in)
    BY DEF UpCalls, Table
  <1> QED BY <1>1, PassIs DEF CallSound, Sound, Base, Target

LEMMA WorkMoves ==
  ASSUME FaxInv, NEW c \in Calls, Work(c) \/ WorkAstray(c)
  PROVE  Moves(c)
  <1> USE DEF FaxInv
  <1>1. PICK ses \in Addr \union {NULL} :
          /\ Move(c, NextAt[thr[c].at], ses)
          /\ Sound(c) /\ thr[c].at = "tx_out" => ses = Target(c)
    <2>1. CASE Work(c)
      BY <2>1 DEF Work, Sound
    <2>2. CASE WorkAstray(c)
      BY <2>2 DEF WorkAstray
    <2> QED BY <2>1, <2>2
  <1>2. /\ thr[c].at \in Pass /\ stray' \subseteq stray \union {c}
        /\ Sound(c) => stray' = stray
        /\ process' \in { process, "crashed" }
    BY DEF Work, WorkAstray
  <1>3. /\ thr[c].at \in Where /\ NextAt[thr[c].at] \in Where \ { "none", "gone" }
        /\ Before(thr[c].at) = 1 + Before(NextAt[thr[c].at])
        /\ Before(NextAt[thr[c].at]) \in Nat
        /\ NextAt[thr[c].at] = "rx_in" <=> thr[c].at = "tx_out"
    BY <1>2, PassIs
  <1>4. thr[c].at # "none" /\ thr[c].at # "asleep"
    BY <1>2, PassIs
  <1>5. ~SettingUp(c)
    BY <1>4, SettingUpIs
  <1>6. c \in UpCalls => Sound(c) /\ (thr[c].at = "tx_out" => Target(c) = mem[thr[c].arg].peer)
    BY <1>2, UpIsSound
  <1>7. c \notin UpCalls => Released(c)
    BY <1>4, <1>5 DEF Released, UpCalls
  <1>8. /\ mem' = mem /\ up' = up /\ todo' = todo /\ cancelled' = cancelled
        /\ thr' \in [Calls -> [at : Where, arg : Addr \union {NULL}, ses : Addr \union {NULL}]]
        /\ \A d \in Calls \ {c} : thr'[d] = thr[d] /\ late'[d] = late[d]
        /\ thr'[c].at = NextAt[thr[c].at] /\ thr'[c].arg = thr[c].arg /\ thr'[c].ses = ses
        /\ late' \in [Calls -> Nat]
        /\ late'[c] = late[c] + (IF c \in cancelled THEN 1 ELSE 0)
    BY <1>1, <1>3, MoveIs
  <1>9. /\ late[c] \in Nat /\ late[c] + Before(thr[c].at) <= 4
        /\ c \notin cancelled => late[c] = 0
    BY DEF Lateness
  <1>10. /\ late'[c] + Before(thr'[c].at) <= 4 /\ (c \notin cancelled => late'[c] = 0)
    BY ONLY <1>3, <1>8, <1>9
  <1>11. c \in UpCalls => /\ thr'[c].at # "gone" /\ thr'[c].arg = thr[c].arg
                          /\ thr'[c].at = "rx_in" => thr'[c].ses = mem[thr[c].arg].peer
    BY ONLY <1>1, <1>3, <1>6, <1>8
  <1>12. c \in stray' => c \in stray \/ Released(c)
    BY ONLY <1>2, <1>6, <1>7
  <1> QED BY ONLY <1>2, <1>3, <1>4, <1>5, <1>8, <1>10, <1>11, <1>12 DEF Moves

LEMMA CancelledMoves ==
  ASSUME FaxInv, NEW c \in Calls, Cancelled(c)
  PROVE  Moves(c)
  <1> USE DEF FaxInv
  <1>1. /\ c \in cancelled /\ thr[c].at # "none"
        /\ thr' = [thr EXCEPT ![c] = [at |-> "gone", arg |-> NULL, ses |-> NULL]]
        /\ late' = [late EXCEPT ![c] = 0] /\ stray' = stray \ {c}
        /\ mem' = mem /\ up' = up /\ todo' = todo /\ cancelled' = cancelled
        /\ process' = process
    BY DEF Cancelled, Gone, mainVars
  <1>2. /\ thr' \in [Calls -> [at : Where, arg : Addr \union {NULL}, ses : Addr \union {NULL}]]
        /\ \A d \in Calls \ {c} : thr'[d] = thr[d] /\ late'[d] = late[d]
        /\ thr'[c].at = "gone" /\ late' \in [Calls -> Nat] /\ late'[c] = 0
    <2>1. "gone" \in Where
      BY DEF Where
    <2> QED BY <1>1, <2>1 DEF Types
  <1>3. ~SettingUp(c)
    BY <1>1, SettingUpIs
  <1>4. c \notin UpCalls
    BY <1>1 DEF UpCalls, Table, CallSound
  <1>5. Before("gone") = 4
    BY DEF Before
  <1> QED BY <1>1, <1>2, <1>3, <1>4, <1>5 DEF Moves

-----------------------------------------------------------------------------
(* The theorems. *)

LEMMA NextInv ==
  ASSUME FaxInv, [Next]_vars
  PROVE  FaxInv'
  <1>1. ASSUME NEW c \in Calls, Setup(c) PROVE FaxInv'
    BY <1>1, SetupInv
  <1>2. ASSUME NEW k \in DOMAIN up, Release(k) PROVE FaxInv'
    BY <1>2, ReleaseIs, TakesDownInv
  <1>3. CASE Shutdown
    BY <1>3, ProcessFrame DEF Shutdown, mainVars, histVars
  <1>4. CASE Step
    BY <1>4, StepInv
  <1>5. CASE DestroyNext
    BY <1>5, DestroyNextIs, TakesDownInv DEF FaxInv
  <1>6. CASE Exit
    BY <1>6, ProcessFrame DEF Exit, mainVars, histVars
  <1>7. ASSUME NEW c \in Calls, Thread(c) PROVE FaxInv'
    BY <1>7, WakeMoves, WorkMoves, CancelledMoves, MovesInv DEF Thread
  <1>8. CASE UNCHANGED vars
    <2>1. process' \in { "runs", "ending", "exited", "crashed" }
      BY <1>8 DEF FaxInv, Types, vars
    <2> QED BY <1>8, <2>1, ProcessFrame DEF vars, mainVars, histVars
  <1> QED BY <1>1, <1>2, <1>3, <1>4, <1>5, <1>6, <1>7, <1>8 DEF Next, Main, MainStep, Ended

THEOREM Invariance == Spec => []FaxInv
  <1>1. Init => FaxInv
    BY InitInv
  <1>2. FaxInv /\ [Next]_vars => FaxInv'
    BY NextInv
  <1> QED BY <1>1, <1>2, PTL DEF Spec

(* A fax thread uses only the sessions of its own call while that call is  *)
(* up, however the threads run between the steps of proc_setup,            *)
(* proc_release and app_cfgDestroy and wherever calloc puts the sessions.  *)
THEOREM StraysAreReleased == Spec => []SoundWhileUp
  <1>1. FaxInv => SoundWhileUp
    BY DEF FaxInv
  <1> QED BY <1>1, Invariance, PTL

(* After pthread_cancel a thread makes at most the calls of one pass.      *)
THEOREM LateByOnePass == Spec => []OnePassLate
  <1>1. Cardinality(Pass) = 4
    <2>1. /\ IsFiniteSet({ "tx_in", "rx_out" })
          /\ Cardinality({ "tx_in", "rx_out" }) = 2
      <3>1. "tx_in" # "rx_out"
        OBVIOUS
      <3>2. IsFiniteSet({ "tx_in" }) /\ IsFiniteSet({ "tx_in" } \union { "rx_out" })
        BY FS_Singleton, FS_AddElement
      <3>3. { "tx_in" } \union { "rx_out" } = { "tx_in", "rx_out" }
        OBVIOUS
      <3> QED BY <3>1, <3>2, <3>3, Counts
    <2>2. /\ IsFiniteSet({ "tx_in", "rx_out" } \union { "tx_out" })
          /\ Cardinality({ "tx_in", "rx_out" } \union { "tx_out" }) = 3
      BY <2>1, FS_AddElement
    <2>3. Cardinality(({ "tx_in", "rx_out" } \union { "tx_out" }) \union { "rx_in" }) = 4
      BY <2>2, FS_AddElement
    <2>4. Pass = ({ "tx_in", "rx_out" } \union { "tx_out" }) \union { "rx_in" }
      BY PassIs
    <2> QED BY <2>3, <2>4
  <1>2. FaxInv => OnePassLate
    <2>1. \A at : Before(at) \in Nat
      BY DEF Before
    <2> QED BY <1>1, <2>1 DEF FaxInv, Lateness, OnePassLate
  <1> QED BY <1>2, Invariance, PTL

(* Between two handlers the memory in use is the legs of the calls in the  *)
(* table and the threads not told to end are theirs: RELEASE and shutdown  *)
(* leave nothing of a call.                                                *)
THEOREM NothingIsLeft == Spec => []NothingLeft
  <1> SUFFICES ASSUME FaxInv, todo = << >>
               PROVE  /\ InUse = UNION { Legs(up[k][2]) : k \in DOMAIN up }
                      /\ Cardinality(InUse) = 2 * Len(up)
                      /\ \A k \in DOMAIN up : mem[mem[up[k][2]].peer].peer = up[k][2]
                      /\ { c \in Calls : thr[c].at # "none" } \ cancelled
                           = { up[k][1] : k \in DOMAIN up }
    <2>1. FaxInv => NothingLeft
      BY DEF NothingLeft
    <2> QED BY <2>1, Invariance, PTL
  <1>1. Account(NULL, {})
    BY NotBusy DEF FaxInv
  <1>2. \A k \in DOMAIN up : CallSound(up[k][1], up[k][2])
    BY DEF FaxInv, Table
  <1>3. InUse = UNION { Legs(up[k][2]) : k \in DOMAIN up }
    <2>1. FREE.call \notin Calls
      BY NullAssumption DEF FREE
    <2>2. \A k \in DOMAIN up : Legs(up[k][2]) \subseteq InUse
      BY <1>2, <2>1 DEF CallSound, Legs, InUse
    <2> QED BY <1>1, <2>2 DEF Account
  <1>4. Cardinality(InUse) = 2 * Len(up)
    <2>1. Len(up) \in Nat
      BY DEF FaxInv, Types
    <2> QED BY <1>1, <2>1, Counts DEF Account
  <1>5. \A k \in DOMAIN up : mem[mem[up[k][2]].peer].peer = up[k][2]
    BY <1>2 DEF CallSound
  <1>6. { c \in Calls : thr[c].at # "none" } \ cancelled = UpCalls
    <2>1. \A c \in UpCalls : c \in Calls /\ thr[c].at # "none" /\ c \notin cancelled
      BY <1>2 DEF CallSound, UpCalls
    <2> QED BY <1>1, <2>1, NullAssumption DEF Account
  <1> QED BY <1>3, <1>4, <1>5, <1>6 DEF UpCalls

(* The operations that a handler has before it.                            *)
LEMMA Operations ==
  ASSUME FaxInv, NEW j \in DOMAIN todo
  PROVE  /\ \/ todo[j][1] \in { "flag", "peer", "fax", "cancel", "free" } /\ todo[j][2] \in Addr
            \/ todo[j][1] = "enter" /\ todo[j][2] \in Calls
         /\ j = 1 /\ todo[j][1] # "enter" => mem[todo[j][2]].call \in Calls
  <1>1. ASSUME NEW c \in Calls, NEW x \in Addr, NEW y \in Addr, NEW n \in 1 .. 4,
               Linking(c, x, y, n)
        PROVE  /\ \/ /\ todo[j][1] \in { "flag", "peer", "fax", "cancel", "free" }
                     /\ todo[j][2] \in Addr
                  \/ todo[j][1] = "enter" /\ todo[j][2] \in Calls
               /\ j = 1 /\ todo[j][1] # "enter" => mem[todo[j][2]].call \in Calls
    <2>1. todo = SubSeq(Link(c, x, y), n, 4) /\ mem[x].call = c /\ mem[y].call = c
      BY <1>1 DEF Linking
    <2> DEFINE s == Link(c, x, y)
    <2>2. /\ s \in Seq({ s[1], s[2], s[3], s[4] }) /\ Len(s) = 4
          /\ s[1] = << "flag", x >> /\ s[2] = << "peer", x, y >>
          /\ s[3] = << "peer", y, x >> /\ s[4] = << "enter", c, x >>
      BY LinkIs
    <2>3. todo = SubSeq(s, n, 4)
      BY <2>1
    <2> HIDE DEF s
    <2>4. j \in 1 .. 5 - n /\ todo[j] = s[n + j - 1]
      BY <2>2, <2>3
    <2>5. n + j - 1 \in 1 .. 4 /\ (j = 1 => n + j - 1 = n)
      BY <2>4
    <2>6. \A i \in 1 .. 4 :
            /\ \/ s[i][1] \in { "flag", "peer", "fax", "cancel", "free" } /\ s[i][2] \in Addr
               \/ s[i][1] = "enter" /\ s[i][2] \in Calls
            /\ s[i][1] # "enter" => mem[s[i][2]].call \in Calls
      BY <2>1, <2>2
    <2> QED BY ONLY <2>4, <2>5, <2>6
  <1>2. ASSUME NEW c \in Calls, NEW x \in Addr, NEW y \in Addr, NEW n \in 1 .. 6,
               Destroying(c, x, y, n)
        PROVE  /\ todo[j][1] \in { "flag", "peer", "fax", "cancel", "free" }
               /\ todo[j][2] \in Addr
               /\ j = 1 => mem[todo[j][2]].call \in Calls
    <2>1. /\ todo = SubSeq(Destroy(x) \o Destroy(y), n, 6) /\ mem[y].call = c
          /\ n <= 3 => mem[x].call = c
      BY <1>2 DEF Destroying
    <2> DEFINE s == Destroy(x) \o Destroy(y)
               S == { << "fax", x >>, << "cancel", x >>, << "free", x >>,
                      << "fax", y >>, << "cancel", y >>, << "free", y >> }
    <2>2. /\ s \in Seq(S) /\ Len(s) = 6
          /\ s[1] = << "fax", x >> /\ s[2] = << "cancel", x >> /\ s[3] = << "free", x >>
          /\ s[4] = << "fax", y >> /\ s[5] = << "cancel", y >> /\ s[6] = << "free", y >>
      BY DestroyIs
    <2>3. todo = SubSeq(s, n, 6)
      BY <2>1
    <2> HIDE DEF s, S
    <2>4. j \in 1 .. 7 - n /\ todo[j] = s[n + j - 1]
      <3>1. n \in 1 .. Len(s) /\ Len(s) = 6 /\ todo = SubSeq(s, n, Len(s))
        BY <2>2, <2>3
      <3>2. PICK T : s \in Seq(T)
        BY <2>2
      <3>3. /\ todo \in Seq(T) /\ Len(todo) = Len(s) - n + 1
            /\ \A i \in 1 .. Len(todo) : todo[i] = s[n + i - 1]
        <4>1. PICK q, u : q = s /\ u = todo
          OBVIOUS
        <4>2. q \in Seq(T) /\ n \in 1 .. Len(q) /\ u = SubSeq(q, n, Len(q))
          BY <3>1, <3>2, <4>1
        <4>3. /\ u \in Seq(T) /\ Len(u) = Len(q) - n + 1
              /\ \A i \in 1 .. Len(u) : u[i] = q[n + i - 1]
          BY ONLY <4>2, PartOf
        <4> QED BY <4>1, <4>3
      <3>4. DOMAIN todo = 1 .. Len(todo)
        BY ONLY <3>3
      <3>5. 6 - n + 1 = 7 - n
        OBVIOUS
      <3> QED BY ONLY j \in DOMAIN todo, <3>1, <3>3, <3>4, <3>5
    <2>5. n + j - 1 \in 1 .. 6 /\ (j = 1 => n + j - 1 = n)
      BY <2>4
    <2>6. \A i \in 1 .. 6 :
            /\ s[i][1] \in { "flag", "peer", "fax", "cancel", "free" }
            /\ s[i][2] = IF i <= 3 THEN x ELSE y
      BY <2>2
    <2> QED BY ONLY <2>1, <2>4, <2>5, <2>6, c \in Calls, x \in Addr, y \in Addr
  <1>3. todo # << >>
    OBVIOUS
  <1> QED BY <1>1, <1>2, <1>3 DEF FaxInv, Handler

(* The main thread never works on a session that it has freed.             *)
THEOREM MainIsSound == Spec => []MainSound
  <1>1. FaxInv => MainSound
    <2> SUFFICES ASSUME FaxInv, todo # << >>, Head(todo)[1] # "enter"
                 PROVE  mem[Head(todo)[2]] # FREE
      BY DEF MainSound
    <2>1. 1 \in DOMAIN todo /\ Head(todo) = todo[1]
      <3>1. \E S : todo \in Seq(S)
        <4>1. ASSUME NEW c, NEW x, NEW y, NEW n \in 1 .. 4, Linking(c, x, y, n)
              PROVE  \E S : todo \in Seq(S)
          <5> DEFINE s == Link(c, x, y)
          <5>1. s \in Seq({ s[1], s[2], s[3], s[4] }) /\ Len(s) = 4
            BY LinkIs
          <5>2. todo = SubSeq(s, n, 4)
            BY <4>1 DEF Linking
          <5> HIDE DEF s
          <5>3. todo \in Seq({ s[1], s[2], s[3], s[4] })
            BY <5>1, <5>2
          <5> QED BY <5>3
        <4>2. ASSUME NEW c, NEW x, NEW y, NEW n \in 1 .. 6, Destroying(c, x, y, n)
              PROVE  \E S : todo \in Seq(S)
          <5> DEFINE s == Destroy(x) \o Destroy(y)
                     S == { << "fax", x >>, << "cancel", x >>, << "free", x >>,
                            << "fax", y >>, << "cancel", y >>, << "free", y >> }
          <5>1. s \in Seq(S) /\ Len(s) = 6
            BY DestroyIs
          <5>2. todo = SubSeq(s, n, 6)
            BY <4>2 DEF Destroying
          <5> HIDE DEF s, S
          <5>3. todo \in Seq(S)
            <6>1. todo = SubSeq(s, n, Len(s)) /\ n \in 1 .. Len(s)
              BY <5>1, <5>2
            <6> QED BY ONLY <5>1, <6>1, RestOf
          <5> QED BY <5>3
        <4> QED BY <4>1, <4>2 DEF FaxInv, Handler
      <3>2. PICK S : todo \in Seq(S)
        BY <3>1
      <3> QED BY <3>2
    <2>2. mem[todo[1][2]].call \in Calls
      BY <2>1, Operations
    <2> QED BY <2>1, <2>2, NullAssumption DEF FREE
  <1> QED BY <1>1, Invariance, PTL

(* The types of the state; neither the table nor a handler holds half a    *)
(* call.                                                                   *)
THEOREM TypeCorrect == Spec => []TypeOK
  <1>1. FaxInv => TypeOK
    <2> SUFFICES ASSUME FaxInv PROVE TypeOK
      OBVIOUS
    <2>1. \A k \in DOMAIN up : up[k] \in Calls \X Addr /\ mem[up[k][2]].peer \in Addr
      BY DEF FaxInv, Types, Table, CallSound
    <2>2. \A j \in DOMAIN todo :
            \/ todo[j][1] \in { "flag", "peer", "fax", "cancel", "free" } /\ todo[j][2] \in Addr
            \/ todo[j][1] = "enter" /\ todo[j][2] \in Calls
      BY Operations
    <2> QED BY <2>1, <2>2 DEF FaxInv, Types, Memory, TypeOK
  <1> QED BY <1>1, Invariance, PTL

=============================================================================
