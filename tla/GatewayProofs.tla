--------------------------- MODULE GatewayProofs ---------------------------
(***************************************************************************)
(* Proofs about the way from the T.38 link to the modems, for a queue and  *)
(* a buffer of any length and any number of signals, frames and octets.    *)
(* The buffer of NonEcmBuffer has no lock; that the octets leave in order, *)
(* that rows are held back, and that the end is the end, rests on what the *)
(* main thread has still to do when the fax thread runs, and on the far    *)
(* end, which begins no data before the end of the last has left.          *)
(***************************************************************************)
EXTENDS GatewayTx, TableLemmas

-----------------------------------------------------------------------------
(* Types.                                                                  *)

DataTypes  == { "v21", "fast" }
Indicators == { "no_signal", "v21_preamble", "training" }
Octet      == 0 .. 255
Pieces     == [f : Nat, k : Nat, last : BOOLEAN, d : DataTypes, ff : BOOLEAN]

Ops ==
  ({ "ind" } \X Indicators)
    \union ({ "data" } \X Pieces)
    \union ({ "fcs" } \X DataTypes \X BOOLEAN \X (BOOLEAN \union { NONE }) \X BOOLEAN)
    \union ({ "inject" } \X Octets)
    \union { << "end" >>, << "throw" >>, << "push" >>, << "pushed" >> }

Contents == { NONE } \union ({ "indicator" } \X Indicators) \union ({ "data" } \X DataTypes)
Flags    == { "MISSING_DATA", "PROCEED", "FINISHED", "CORRUPT_CRC" }

BufTypes == [contents : Contents, pieces : Seq(Pieces), flags : SUBSET Flags]
TxTypes  == [pieces : Seq(Pieces), crc : BOOLEAN, bad : BOOLEAN,
             tx_end : BOOLEAN, preamble : BOOLEAN]

Packets ==
  { NONE } \union (DataTypes \X { "data", "t4", "t4_end", "sig_end" })
           \union (DataTypes \X { "fcs" } \X BOOLEAN \X BOOLEAN)

HdlcTypes ==
  [buf : [Bufs -> BufTypes], in : Bufs, out : Bufs, tx : TxTypes,
   current_rx_indicator : Indicators \union { NONE },
   field_class : { "none", "hdlc", "non_ecm" }, last : Packets]

(* No frame outgrows its buffer.                                           *)
Sized(s)  == s \in BufTypes /\ Len(s.pieces) <= MaxLen
Frames(B) == B \in [Bufs -> BufTypes] /\ \A b \in Bufs : Sized(B[b])
Queue(h)  == h \in HdlcTypes /\ \A b \in Bufs : Sized(h.buf[b])

Kinds  == { "pad", "tcf", "eol", "row", "rtc" }
Phases == { "all_ones", "all_zeros", "waiting_eol", "in_progress" }

NonEcmTypes ==
  [data : [Slots -> [n : Nat, is : Kinds]],
   in_ptr : Slots, out_ptr : Slots, latest_eol_ptr : Slots,
   row_bits : Int, zeros : Nat, since : Nat, input_phase : Phases,
   data_finished : BOOLEAN, image_data_mode : BOOLEAN, stored : Nat, due : Nat]

FarTypes ==
  [sig : Hdlcs \union NonEcms \union { NONE }, n : Nat, data : Nat, f : Nat, k : Nat,
   whole : BOOLEAN, over : BOOLEAN, spoilt : SUBSET Nat, dcs : BOOLEAN,
   gap : BOOLEAN, lost : Nat, heard : Nat, headless : SUBSET Nat]

ModemTypes ==
  [handler : { "silence", "fsk", "fast" }, next : { NONE, "fsk", "fast" },
   ended : BOOLEAN, src : { NONE, "hdlc", "non_ecm" }]

MainTypes == [todo : Seq(Ops), same : BOOLEAN \union { NONE }]

(* The main thread has looked only for an operation that asks.             *)
Asked == main.same # NONE => main.todo # << >> /\ Op \in Asking

Types ==
  /\ Queue(hdlc)
  /\ nonEcm \in NonEcmTypes
  /\ getting \in { "no", "empty" } /\ pushing \in BOOLEAN /\ collided \in BOOLEAN
  /\ main \in MainTypes /\ Asked
  /\ modem \in ModemTypes
  /\ mode \in [image : BOOLEAN, ecm : BOOLEAN]
  /\ far \in FarTypes
  /\ hit \subseteq { "missed", "empty", "behind", "starved" }

-----------------------------------------------------------------------------
(* The invariant.                                                          *)

(* The pointers are the counts, reduced: of the octets stored, of those    *)
(* read, and some count between them; and the octets between are there.    *)
Ring(b) ==
  /\ b.due <= b.stored /\ b.stored - b.due < BufLen
  /\ b.in_ptr = b.stored % BufLen /\ b.out_ptr = b.due % BufLen
  /\ \E e \in b.due .. b.stored : b.latest_eol_ptr = e % BufLen
  /\ \A n \in b.due .. b.stored - 1 : b.data[n % BufLen].n = n

(* Where the modem has to stop there is an octet, and it begins no row.    *)
Stop(b) ==
  b.latest_eol_ptr # b.in_ptr /\ b.data[b.latest_eol_ptr].is \in { "pad", "eol" }

RowsStop ==
  nonEcm.input_phase = "in_progress" /\ ~nonEcm.data_finished /\ ~pushing => Stop(nonEcm)

(* Once the tail is pushed everything may leave, and get_bit has found the *)
(* buffer empty only if everything has left.                               *)
Ending ==
  pushing \/ nonEcm.data_finished =>
    /\ nonEcm.latest_eol_ptr = nonEcm.in_ptr
    /\ getting = "empty" /\ ~collided => nonEcm.out_ptr = nonEcm.in_ptr

ToDo(op) == \E i \in DOMAIN main.todo : main.todo[i][1] = op

(* What the main thread has still to do: an octet of a signal that is not  *)
(* over, for which there is room, at last; or a push, both assignments.    *)
Injecting ==
  \A i \in DOMAIN main.todo : main.todo[i][1] = "inject" =>
    /\ i = Len(main.todo) /\ far.sig \in NonEcms /\ ~far.over
    /\ Room(nonEcm, main.todo[i][2])

Paired(ops) ==
  /\ \A i \in DOMAIN ops :
       ops[i][1] = "push" => i + 1 \in DOMAIN ops /\ ops[i + 1][1] = "pushed"
  /\ \A i \in DOMAIN ops : i > 1 /\ ops[i][1] = "pushed" => ops[i - 1][1] = "push"

Pushes == (pushing => main.todo # << >> /\ Op = "pushed") /\ Paired(main.todo)

(* While a signal goes on nothing is pushed and nothing is finished.       *)
GoingOn ==
  far.sig \in NonEcms /\ ~far.over =>
    ~nonEcm.data_finished /\ ~pushing /\ ~ToDo("push") /\ ~ToDo("pushed")

BufferInv == Ring(nonEcm) /\ RowsStop /\ Ending /\ Injecting /\ Pushes /\ GoingOn
GatewayInv == Types /\ BufferInv

-----------------------------------------------------------------------------
(* What the operators on the buffer do.                                    *)

LEMMA Lengths == BufLen \in Nat /\ BufLen > 3 /\ MinBits \in Nat /\ Octets \subseteq Octet
  BY BufAssumption DEF Octet

LEMMA OctetBits ==
  ASSUME NEW x \in Octet, x # 0
  PROVE  TopBit(x) \in 0 .. 7 /\ BottomBit(x) \in 0 .. 7
  <1>1. \E i \in 0 .. 7 : 2^i <= x /\ x < 2^(i + 1)
    BY DEF Octet
  <1>2. \E i \in 0 .. 7 : x % 2^(i + 1) = 2^i
    BY DEF Octet
  <1> QED BY <1>1, <1>2 DEF TopBit, BottomBit

LEMMA ZerosType ==
  ASSUME NEW b \in NonEcmTypes, NEW x \in Octet
  PROVE  Zeros(b, x) \in Nat
  <1>1. x # 0 => BottomBit(x) \in Nat
    BY OctetBits
  <1>2. b.zeros \in Nat
    BY DEF NonEcmTypes
  <1> QED BY <1>1, <1>2 DEF Zeros

LEMMA FillType ==
  ASSUME NEW bits \in Int
  PROVE  Fill(bits) \in Nat
  BY Lengths DEF Fill

(* The row that an EOL ends, with its fill: how many octets an octet that  *)
(* arrives puts into the buffer.                                           *)
Bits(b, x)   == b.row_bits + 8 - TopBit(x)
Apart(b, x)  == IsEol(b, x) /\ RowsApart(Bits(b, x))
Growth(b, x) ==
  CASE b.input_phase \in { "all_ones", "all_zeros" } ->
         IF b.input_phase = "all_ones" /\ x = 255 THEN 0 ELSE 1
    [] b.input_phase = "waiting_eol" -> IF IsEol(b, x) THEN 3 ELSE 0
    [] b.input_phase = "in_progress" -> (IF Apart(b, x) THEN Fill(Bits(b, x)) ELSE 0) + 1

LEMMA RestartIs ==
  ASSUME NEW b \in NonEcmTypes
  PROVE  /\ Restart(b) \in NonEcmTypes /\ Ring(Restart(b))
         /\ Restart(b).input_phase # "in_progress"
         /\ Restart(b).in_ptr = 0 /\ Restart(b).out_ptr = 0
         /\ Restart(b).latest_eol_ptr = 0 /\ ~Restart(b).data_finished
  <1>1. Restart(b) =
          [b EXCEPT !.input_phase = IF b.image_data_mode THEN "waiting_eol" ELSE "all_ones",
                    !.zeros = 0, !.out_ptr = 0, !.in_ptr = 0, !.latest_eol_ptr = 0,
                    !.data_finished = FALSE, !.stored = 0, !.due = 0]
    BY DEF Restart
  <1>2. 0 \in Slots /\ 0 % BufLen = 0
    BY Lengths DEF Slots
  <1> DEFINE phase == IF b.image_data_mode THEN "waiting_eol" ELSE "all_ones"
  <1>3. Restart(b) \in NonEcmTypes
    <2>1. phase \in Phases
      BY DEF Phases
    <2>2. Restart(b) = [b EXCEPT !.input_phase = phase,
                    !.zeros = 0, !.out_ptr = 0, !.in_ptr = 0, !.latest_eol_ptr = 0,
                    !.data_finished = FALSE, !.stored = 0, !.due = 0]
      BY <1>1
    <2> HIDE DEF phase
    <2>3. Restart(b) =
            [data |-> b.data, in_ptr |-> 0, out_ptr |-> 0, latest_eol_ptr |-> 0,
             row_bits |-> b.row_bits, zeros |-> 0, since |-> b.since,
             input_phase |-> phase, data_finished |-> FALSE,
             image_data_mode |-> b.image_data_mode, stored |-> 0, due |-> 0]
      BY ONLY <2>2, b \in NonEcmTypes DEF NonEcmTypes
    <2>4. /\ b.data \in [Slots -> [n : Nat, is : Kinds]] /\ b.row_bits \in Int
          /\ b.since \in Nat /\ b.image_data_mode \in BOOLEAN
      BY ONLY b \in NonEcmTypes DEF NonEcmTypes
    <2> QED BY ONLY <1>2, <2>1, <2>3, <2>4 DEF NonEcmTypes
  <1>4. /\ Restart(b).in_ptr = 0 /\ Restart(b).out_ptr = 0
        /\ Restart(b).latest_eol_ptr = 0 /\ ~Restart(b).data_finished
        /\ Restart(b).stored = 0 /\ Restart(b).due = 0
        /\ Restart(b).input_phase # "in_progress"
    BY <1>1 DEF NonEcmTypes
  <1>5. Ring(Restart(b))
    BY <1>2, <1>4, Lengths DEF Ring
  <1> QED BY <1>3, <1>4, <1>5

(* Octets are stored behind the last; those underway are left alone. *)
LEMMA StoreIs ==
  ASSUME NEW b \in NonEcmTypes, NEW k \in Nat, NEW kinds \in [1 .. k -> Kinds],
         Len(kinds) = k, Ring(b), b.stored + k - b.due < BufLen
  PROVE  LET c == Store(b, kinds)
         IN  /\ c \in NonEcmTypes
             /\ c.stored = b.stored + k /\ c.in_ptr = (b.stored + k) % BufLen
             /\ c.due = b.due /\ c.out_ptr = b.out_ptr
             /\ c.latest_eol_ptr = b.latest_eol_ptr /\ c.input_phase = b.input_phase
             /\ c.data_finished = b.data_finished
             /\ c.image_data_mode = b.image_data_mode
             /\ c.row_bits = b.row_bits /\ c.since = b.since
             /\ \A n \in b.due .. b.stored - 1 : c.data[n % BufLen] = b.data[n % BufLen]
             /\ \A j \in 0 .. k - 1 :
                  c.data[(b.stored + j) % BufLen] = [n |-> b.stored + j, is |-> kinds[j + 1]]
  <1> DEFINE c == Store(b, kinds)
             New(i) == (i - b.in_ptr) % BufLen
             data == [i \in Slots |-> IF New(i) < k
                                      THEN [n |-> b.stored + New(i), is |-> kinds[New(i) + 1]]
                                      ELSE b.data[i]]
  <1>1. /\ BufLen \in Nat /\ BufLen > 3 /\ Slots = 0 .. BufLen - 1
        /\ b.stored \in Nat /\ b.due \in Nat /\ b.in_ptr \in Slots
        /\ b.data \in [Slots -> [n : Nat, is : Kinds]]
    BY Lengths DEF NonEcmTypes, Slots
  <1>2. c = [b EXCEPT !.data = data, !.in_ptr = Later(b.in_ptr, k), !.stored = b.stored + k]
    BY Zenon DEF Store
  <1>0. /\ k \in Nat /\ b.due <= b.stored /\ b.stored - b.due < BufLen
        /\ b.stored + k - b.due < BufLen
        /\ b.stored \in Nat /\ b.due \in Nat /\ BufLen \in Nat /\ BufLen > 0
    BY <1>1 DEF Ring
  <1>3. Later(b.in_ptr, k) = (b.stored + k) % BufLen
    <2>1. Later(b.in_ptr, k) = ((b.stored % BufLen) + k) % BufLen
      BY DEF Later, Ring
    <2>2. BufLen \in Nat /\ BufLen > 0 /\ b.stored \in Int /\ k \in Int
      BY ONLY <1>0
    <2> QED BY ONLY <2>1, <2>2, RingAdvance
  <1>4. \A i \in Slots : New(i) \in 0 .. BufLen - 1
    BY <1>1
  <1>5. data \in [Slots -> [n : Nat, is : Kinds]]
    <2> SUFFICES ASSUME NEW i \in Slots PROVE data[i] \in [n : Nat, is : Kinds]
      BY Zenon
    <2>1. CASE New(i) < k
      <3>1. New(i) + 1 \in 1 .. k /\ b.stored + New(i) \in Nat
        <4>1. New(i) \in 0 .. BufLen - 1
          BY <1>4
        <4> HIDE DEF New
        <4> QED BY ONLY <1>0, <2>1, <4>1
      <3>2. data[i] = [n |-> b.stored + New(i), is |-> kinds[New(i) + 1]]
        BY <2>1, Zenon
      <3> HIDE DEF data, New
      <3> QED BY <3>1, <3>2
    <2>2. CASE ~(New(i) < k)
      BY <1>1, <2>2
    <2> QED BY <2>1, <2>2
  <1>6. (b.stored + k) % BufLen \in Slots /\ b.stored + k \in Nat
    BY <1>1
  <1> HIDE DEF data
  <1>7. c \in NonEcmTypes
    BY <1>2, <1>3, <1>5, <1>6 DEF NonEcmTypes
  <1>8. /\ c.stored = b.stored + k /\ c.in_ptr = (b.stored + k) % BufLen
        /\ c.due = b.due /\ c.out_ptr = b.out_ptr
        /\ c.latest_eol_ptr = b.latest_eol_ptr /\ c.input_phase = b.input_phase
        /\ c.data_finished = b.data_finished
        /\ c.image_data_mode = b.image_data_mode
        /\ c.row_bits = b.row_bits /\ c.since = b.since /\ c.data = data
    BY <1>2, <1>3 DEF NonEcmTypes
  <1>9. ASSUME NEW n \in b.due .. b.stored + k - 1
        PROVE  /\ n % BufLen \in Slots
               /\ New(n % BufLen) = IF n >= b.stored THEN n - b.stored ELSE n - b.stored + BufLen
    <2>1. /\ n \in Int /\ b.stored \in Int /\ BufLen \in Nat /\ BufLen > 0
          /\ n - b.stored < BufLen /\ b.stored - n < BufLen
      BY ONLY <1>0, n \in b.due .. b.stored + k - 1
    <2>2. n % BufLen \in Slots
      BY ONLY <1>1, <2>1
    <2>3. ((n % BufLen) - (b.stored % BufLen)) % BufLen
             = IF n >= b.stored THEN n - b.stored ELSE n - b.stored + BufLen
      BY ONLY <2>1, RingDistance
    <2> QED BY <2>2, <2>3 DEF Ring
  <1> HIDE DEF New, c
  <1>10. ASSUME NEW n \in b.due .. b.stored - 1
         PROVE  c.data[n % BufLen] = b.data[n % BufLen]
    <2>1. n \in b.due .. b.stored + k - 1 /\ ~(n >= b.stored) /\ n \in Int
      BY ONLY <1>0, n \in b.due .. b.stored - 1
    <2>2. n % BufLen \in Slots /\ New(n % BufLen) = n - b.stored + BufLen
      BY <1>9, <2>1
    <2>3. ~(New(n % BufLen) < k)
      BY ONLY <1>0, <2>1, <2>2
    <2>4. data[n % BufLen] = b.data[n % BufLen]
      BY ONLY <2>2, <2>3 DEF data
    <2> QED BY ONLY <1>8, <2>4
  <1>11. ASSUME NEW j \in 0 .. k - 1
         PROVE  c.data[(b.stored + j) % BufLen] = [n |-> b.stored + j, is |-> kinds[j + 1]]
    <2> DEFINE n == b.stored + j
    <2>1. n \in b.due .. b.stored + k - 1 /\ n >= b.stored /\ j \in Int /\ n - b.stored = j
      BY ONLY <1>0, j \in 0 .. k - 1
    <2> HIDE DEF n
    <2>2. n % BufLen \in Slots /\ New(n % BufLen) = j
      BY ONLY <1>9, <2>1
    <2>3. data[n % BufLen] = [n |-> b.stored + j, is |-> kinds[j + 1]]
      BY ONLY <2>2, j \in 0 .. k - 1, <1>0 DEF data
    <2> QED BY ONLY <1>8, <2>3 DEF n
  <1> QED BY <1>7, <1>8, <1>10, <1>11 DEF c

(* The buffer c is the buffer b with k octets more. *)
Grown(b, c, k) ==
  /\ c \in NonEcmTypes
  /\ c.stored = b.stored + k /\ c.in_ptr = (b.stored + k) % BufLen
  /\ c.due = b.due /\ c.out_ptr = b.out_ptr
  /\ c.data_finished = b.data_finished /\ c.image_data_mode = b.image_data_mode
  /\ \A n \in b.due .. b.stored - 1 : c.data[n % BufLen] = b.data[n % BufLen]
  /\ \A n \in b.stored .. b.stored + k - 1 : c.data[n % BufLen].n = n
  /\ \E e \in b.due .. b.stored + k : c.latest_eol_ptr = e % BufLen

LEMMA Counts ==
  ASSUME NEW b \in NonEcmTypes, Ring(b)
  PROVE  /\ BufLen \in Nat /\ BufLen > 3
         /\ b.stored \in Nat /\ b.due \in Nat /\ b.due <= b.stored
         /\ b.stored - b.due < BufLen
  BY Lengths DEF NonEcmTypes, Ring

LEMMA GrownRing ==
  ASSUME NEW b \in NonEcmTypes, Ring(b), NEW k \in Nat, b.stored + k - b.due < BufLen,
         NEW c, Grown(b, c, k)
  PROVE  Ring(c)
  <1> DEFINE s == b.stored
             d == b.due
  <1>1. s \in Nat /\ d \in Nat /\ d <= s /\ k \in Nat /\ s + k - d < BufLen
    BY Counts
  <1>2. c.stored = s + k /\ c.due = d
    BY DEF Grown
  <1>3. c.in_ptr = c.stored % BufLen /\ c.out_ptr = c.due % BufLen
    BY DEF Grown, Ring
  <1>4. \E e \in c.due .. c.stored : c.latest_eol_ptr = e % BufLen
    BY <1>2 DEF Grown
  <1>5. ASSUME NEW n \in d .. s + k - 1
        PROVE  c.data[n % BufLen].n = n
    <2>1. CASE n < s
      <3>1. n \in d .. s - 1
        BY ONLY <1>1, <2>1, n \in d .. s + k - 1
      <3>2. c.data[n % BufLen] = b.data[n % BufLen]
        BY <3>1 DEF Grown
      <3>3. b.data[n % BufLen].n = n
        BY <3>1 DEF Ring
      <3> QED BY <3>2, <3>3
    <2>2. CASE ~(n < s)
      <3>1. n \in s .. s + k - 1
        BY ONLY <1>1, <2>2, n \in d .. s + k - 1
      <3> QED BY <3>1 DEF Grown
    <2> QED BY <2>1, <2>2
  <1> HIDE DEF s, d
  <1>6. c.due <= c.stored /\ c.stored - c.due < BufLen
    BY ONLY <1>1, <1>2
  <1>7. \A n \in c.due .. c.stored - 1 : c.data[n % BufLen].n = n
    <2>1. c.due .. c.stored - 1 = d .. s + k - 1
      BY ONLY <1>1, <1>2
    <2> QED BY ONLY <1>5, <2>1, Zenon
  <1> QED BY ONLY <1>3, <1>4, <1>6, <1>7, Zenon DEF Ring

LEMMA GrownTwice ==
  ASSUME NEW b \in NonEcmTypes, Ring(b), NEW k \in Nat, NEW m \in Nat,
         NEW c, Grown(b, c, k), NEW f, Grown(c, f, m)
  PROVE  Grown(b, f, k + m)
  <1> DEFINE s == b.stored
             d == b.due
  <1>1. s \in Nat /\ d \in Nat /\ d <= s /\ k \in Nat /\ m \in Nat
    BY Counts
  <1>2. /\ c.stored = s + k /\ c.due = d
        /\ \A n \in d .. s + k - 1 : f.data[n % BufLen] = c.data[n % BufLen]
    <2>1. c.stored = s + k /\ c.due = d
      BY DEF Grown
    <2>2. \A n \in c.due .. c.stored - 1 : f.data[n % BufLen] = c.data[n % BufLen]
      BY DEF Grown
    <2> HIDE DEF s, d
    <2>3. c.due .. c.stored - 1 = d .. s + k - 1
      BY ONLY <1>1, <2>1
    <2> QED BY ONLY <2>1, <2>2, <2>3, Zenon
  <1>3. f \in NonEcmTypes /\ f.stored = s + k + m /\ f.in_ptr = (s + k + m) % BufLen
    BY <1>2 DEF Grown
  <1>4. /\ f.due = d /\ f.out_ptr = b.out_ptr
        /\ f.data_finished = b.data_finished /\ f.image_data_mode = b.image_data_mode
    BY DEF Grown
  <1>5. s + k + m = s + (k + m) /\ s + k + m - 1 = s + (k + m) - 1
    BY <1>1
  <1>6. \E e \in d .. s + k + m : f.latest_eol_ptr = e % BufLen
    BY <1>2 DEF Grown
  <1>7. ASSUME NEW n \in d .. s - 1
        PROVE  f.data[n % BufLen] = b.data[n % BufLen]
    <2>1. n \in d .. s + k - 1
      BY <1>1
    <2>2. f.data[n % BufLen] = c.data[n % BufLen]
      BY ONLY <1>2, <2>1
    <2> QED BY <2>2 DEF Grown
  <1>8. ASSUME NEW n \in s .. s + k + m - 1
        PROVE  f.data[n % BufLen].n = n
    <2>1. CASE n < s + k
      <3>1. n \in s .. s + k - 1 /\ n \in d .. s + k - 1
        BY <1>1, <2>1
      <3>2. f.data[n % BufLen] = c.data[n % BufLen]
        BY ONLY <1>2, <3>1
      <3>3. c.data[n % BufLen].n = n
        BY <3>1 DEF Grown
      <3> QED BY <3>2, <3>3
    <2>2. CASE ~(n < s + k)
      <3>1. n \in s + k .. s + k + m - 1
        BY <1>1, <2>2
      <3> QED BY <1>2, <3>1 DEF Grown
    <2> QED BY <2>1, <2>2
  <1> QED BY ONLY <1>3, <1>4, <1>5, <1>6, <1>7, <1>8 DEF Grown

(* Where the modem has to stop. *)
LEMMA StopAt ==
  ASSUME NEW c \in NonEcmTypes, Ring(c), NEW n \in c.due .. c.stored - 1,
         c.latest_eol_ptr = n % BufLen, c.data[n % BufLen].is \in { "pad", "eol" }
  PROVE  Stop(c)
  <1>1. c.stored \in Int /\ n \in Int /\ BufLen \in Nat /\ BufLen > 0
        /\ n # c.stored /\ n - c.stored < BufLen /\ c.stored - n < BufLen
    <2>1. /\ BufLen \in Nat /\ BufLen > 3
          /\ c.stored \in Nat /\ c.due \in Nat /\ c.due <= c.stored
          /\ c.stored - c.due < BufLen
      BY Counts
    <2> QED BY ONLY <2>1, n \in c.due .. c.stored - 1
  <1>2. n % BufLen # c.stored % BufLen
    BY ONLY <1>1, RemainderNear
  <1>3. c.in_ptr = c.stored % BufLen
    BY DEF Ring
  <1> QED BY <1>2, <1>3 DEF Stop

LEMMA StopKept ==
  ASSUME NEW b \in NonEcmTypes, Ring(b), Stop(b), NEW k \in Nat,
         b.stored + k - b.due < BufLen, NEW c, Grown(b, c, k),
         c.latest_eol_ptr = b.latest_eol_ptr
  PROVE  Stop(c)
  <1>1. c \in NonEcmTypes /\ Ring(c)
    BY GrownRing DEF Grown
  <1>2. PICK e \in b.due .. b.stored : b.latest_eol_ptr = e % BufLen
    BY DEF Ring
  <1>3. e # b.stored
    BY <1>2 DEF Stop, Ring
  <1>4. e \in b.due .. b.stored - 1 /\ e \in c.due .. c.stored - 1
    <2>1. b.stored \in Nat /\ b.due \in Nat /\ c.stored = b.stored + k /\ c.due = b.due
      BY Counts DEF Grown
    <2> QED BY ONLY <1>2, <1>3, <2>1, k \in Nat
  <1>5. c.data[e % BufLen] = b.data[e % BufLen]
    BY <1>4 DEF Grown
  <1>6. c.data[e % BufLen].is \in { "pad", "eol" }
    BY <1>2, <1>5 DEF Stop
  <1> QED BY <1>1, <1>2, <1>4, <1>6, StopAt

(* Octets stored, and latest_eol_ptr set or not. *)
LEMMA StoreGrows ==
  ASSUME NEW b \in NonEcmTypes, NEW k \in Nat, NEW kinds \in [1 .. k -> Kinds],
         Len(kinds) = k, Ring(b), b.stored + k - b.due < BufLen,
         NEW c \in NonEcmTypes,
         LET a == Store(b, kinds)
         IN  /\ c.data = a.data /\ c.in_ptr = a.in_ptr /\ c.stored = a.stored
             /\ c.due = a.due /\ c.out_ptr = a.out_ptr
             /\ c.data_finished = a.data_finished
             /\ c.image_data_mode = a.image_data_mode,
         \E e \in b.due .. b.stored + k : c.latest_eol_ptr = e % BufLen
  PROVE  Grown(b, c, k)
  <1> DEFINE a == Store(b, kinds)
  <1>1. /\ a.stored = b.stored + k /\ a.in_ptr = (b.stored + k) % BufLen
        /\ a.due = b.due /\ a.out_ptr = b.out_ptr
        /\ a.data_finished = b.data_finished /\ a.image_data_mode = b.image_data_mode
        /\ \A n \in b.due .. b.stored - 1 : a.data[n % BufLen] = b.data[n % BufLen]
        /\ \A j \in 0 .. k - 1 :
             a.data[(b.stored + j) % BufLen] = [n |-> b.stored + j, is |-> kinds[j + 1]]
    BY StoreIs
  <1> HIDE DEF a
  <1>2. /\ c.data = a.data /\ c.in_ptr = a.in_ptr /\ c.stored = a.stored
        /\ c.due = a.due /\ c.out_ptr = a.out_ptr
        /\ c.data_finished = a.data_finished
        /\ c.image_data_mode = a.image_data_mode
    BY DEF a
  <1>3. ASSUME NEW n \in b.stored .. b.stored + k - 1
        PROVE  c.data[n % BufLen].n = n
    <2>1. b.stored \in Nat
      BY Counts
    <2>2. n - b.stored \in 0 .. k - 1 /\ b.stored + (n - b.stored) = n
      BY ONLY <2>1, n \in b.stored .. b.stored + k - 1, k \in Nat
    <2>3. a.data[n % BufLen] = [n |-> n, is |-> kinds[n - b.stored + 1]]
      BY ONLY <1>1, <2>2
    <2> QED BY <1>2, <2>3
  <1> QED BY <1>1, <1>2, <1>3 DEF Grown

(* What an octet that arrives does to the buffer, when there is room. *)
Injects(b, x, c) ==
  /\ Grown(b, c, Growth(b, x))
  /\ (b.input_phase = "in_progress" => Stop(b)) => (c.input_phase = "in_progress" => Stop(c))

LEMMA InjectTcfIs ==
  ASSUME NEW b \in NonEcmTypes, Ring(b), NEW x \in Octet,
         b.input_phase \in { "all_ones", "all_zeros" },
         b.stored + Growth(b, x) - b.due < BufLen
  PROVE  InjectTcf(b, x).stored = b.stored + Growth(b, x) /\ Injects(b, x, InjectTcf(b, x))
  <1>0. /\ b.stored \in Nat /\ b.due \in Nat /\ b.due <= b.stored
        /\ b.in_ptr = b.stored % BufLen
    BY Counts DEF Ring
  <1>1. CASE b.input_phase = "all_ones" /\ x = 255
    <2>1. InjectTcf(b, x) = b /\ Growth(b, x) = 0
      BY <1>1 DEF InjectTcf, Growth
    <2>2. Grown(b, b, 0)
      <3>1. b.stored + 0 = b.stored /\ b.stored .. b.stored + 0 - 1 = {}
        BY ONLY <1>0
      <3> QED BY <3>1 DEF Grown, Ring
    <2> QED BY <1>0, <2>1, <2>2 DEF Injects
  <1>2. CASE ~(b.input_phase = "all_ones" /\ x = 255)
    <2> DEFINE kinds == << "tcf" >>
               a == Store(b, kinds)
               c == [a EXCEPT !.input_phase = "all_zeros", !.latest_eol_ptr = b.in_ptr]
    <2>1. InjectTcf(b, x) = c /\ Growth(b, x) = 1
      BY <1>2 DEF InjectTcf, Growth
    <2>2. kinds \in [1 .. 1 -> Kinds] /\ Len(kinds) = 1
      BY DEF Kinds
    <2>3. a \in NonEcmTypes /\ a.stored = b.stored + 1
      <3>1. b.stored + 1 - b.due < BufLen
        BY <2>1
      <3> HIDE DEF kinds
      <3> QED BY <2>2, <3>1, StoreIs
    <2>4. b.in_ptr \in Slots
      BY DEF NonEcmTypes
    <2> HIDE DEF a, kinds
    <2>5. /\ c \in NonEcmTypes
          /\ c.data = a.data /\ c.in_ptr = a.in_ptr /\ c.stored = a.stored
          /\ c.due = a.due /\ c.out_ptr = a.out_ptr
          /\ c.data_finished = a.data_finished
          /\ c.image_data_mode = a.image_data_mode
          /\ c.latest_eol_ptr = b.in_ptr /\ c.input_phase = "all_zeros"
      BY ONLY <2>3, <2>4 DEF NonEcmTypes, Phases
    <2> HIDE DEF c
    <2>6. \E e \in b.due .. b.stored + 1 : c.latest_eol_ptr = e % BufLen
      <3>1. b.stored \in b.due .. b.stored + 1
        BY ONLY <1>0
      <3> QED BY ONLY <1>0, <2>5, <3>1
    <2>7. Grown(b, c, 1)
      BY <2>1, <2>2, <2>5, <2>6, StoreGrows DEF a
    <2> QED BY <2>1, <2>3, <2>5, <2>7 DEF Injects
  <1> QED BY <1>1, <1>2

LEMMA InjectFirstEolIs ==
  ASSUME NEW b \in NonEcmTypes, Ring(b), NEW x \in Octet, b.input_phase = "waiting_eol",
         b.stored + Growth(b, x) - b.due < BufLen
  PROVE  /\ InjectFirstEol(b, x).stored = b.stored + Growth(b, x)
         /\ Injects(b, x, InjectFirstEol(b, x))
  <1>0. /\ b.stored \in Nat /\ b.due \in Nat /\ b.due <= b.stored
        /\ b.in_ptr = b.stored % BufLen
    BY Counts DEF Ring
  <1>1. Zeros(b, x) \in Nat
    BY ZerosType
  <1>2. CASE ~IsEol(b, x)
    <2> DEFINE z == Zeros(b, x)
               c == [b EXCEPT !.zeros = z]
    <2>1. InjectFirstEol(b, x) = c /\ Growth(b, x) = 0
      BY <1>2 DEF InjectFirstEol, Growth
    <2>2. z \in Nat
      BY <1>1
    <2> HIDE DEF z
    <2>3. /\ c \in NonEcmTypes /\ c.stored = b.stored /\ c.in_ptr = b.in_ptr
          /\ c.due = b.due /\ c.out_ptr = b.out_ptr /\ c.data = b.data
          /\ c.data_finished = b.data_finished /\ c.image_data_mode = b.image_data_mode
          /\ c.latest_eol_ptr = b.latest_eol_ptr /\ c.input_phase = b.input_phase
      BY ONLY <2>2, b \in NonEcmTypes DEF NonEcmTypes
    <2> HIDE DEF c
    <2>4. Grown(b, c, 0)
      <3>1. b.stored + 0 = b.stored /\ b.stored .. b.stored + 0 - 1 = {}
        BY ONLY <1>0
      <3> QED BY <2>3, <3>1 DEF Grown, Ring
    <2>5. c.input_phase # "in_progress"
      BY <2>3
    <2> QED BY <1>0, <2>1, <2>3, <2>4, <2>5 DEF Injects
  <1>3. CASE IsEol(b, x)
    <2> DEFINE kinds == << "pad", "pad", "eol" >>
               a == Store(b, kinds)
               z == Zeros(b, x)
               top == TopBit(x)
               c == [a EXCEPT !.input_phase = "in_progress", !.latest_eol_ptr = b.in_ptr,
                              !.row_bits = top - 8, !.since = top, !.zeros = z]
    <2>1. InjectFirstEol(b, x) = c /\ Growth(b, x) = 3
      BY <1>3 DEF InjectFirstEol, Growth
    <2>2. kinds \in [1 .. 3 -> Kinds] /\ Len(kinds) = 3 /\ kinds[1] = "pad"
      BY DEF Kinds
    <2>3. /\ a \in NonEcmTypes /\ a.stored = b.stored + 3
          /\ \A j \in 0 .. 3 - 1 :
               a.data[(b.stored + j) % BufLen] = [n |-> b.stored + j, is |-> kinds[j + 1]]
      <3>1. b.stored + 3 - b.due < BufLen
        BY <2>1
      <3>2. kinds \in [1 .. 3 -> Kinds] /\ Len(kinds) = 3 /\ 3 \in Nat
        BY <2>2
      <3> HIDE DEF kinds
      <3> QED BY ONLY <3>1, <3>2, Ring(b), b \in NonEcmTypes, StoreIs
    <2>4. b.in_ptr \in Slots
      BY DEF NonEcmTypes
    <2>5. top \in Nat /\ z \in Nat
      BY <1>1, <1>3, OctetBits DEF IsEol
    <2> HIDE DEF a, kinds, z, top
    <2>6. /\ c \in NonEcmTypes
          /\ c.data = a.data /\ c.in_ptr = a.in_ptr /\ c.stored = a.stored
          /\ c.due = a.due /\ c.out_ptr = a.out_ptr
          /\ c.data_finished = a.data_finished
          /\ c.image_data_mode = a.image_data_mode
          /\ c.latest_eol_ptr = b.in_ptr
      <3>1. top - 8 \in Int
        BY ONLY <2>5
      <3> QED BY ONLY <2>3, <2>4, <2>5, <3>1 DEF NonEcmTypes, Phases
    <2> HIDE DEF c
    <2>7. \E e \in b.due .. b.stored + 3 : c.latest_eol_ptr = e % BufLen
      <3>1. b.stored \in b.due .. b.stored + 3
        BY ONLY <1>0
      <3> QED BY ONLY <1>0, <2>6, <3>1
    <2>8. Grown(b, c, 3)
      BY <2>1, <2>2, <2>6, <2>7, StoreGrows DEF a
    <2>9. Stop(c)
      <3>1. b.stored + 3 - b.due < BufLen
        BY <2>1
      <3>2. Ring(c)
        BY <2>8, <3>1, GrownRing
      <3>3. c.data[b.stored % BufLen].is = "pad"
        <4>1. b.stored + 0 = b.stored /\ 0 \in 0 .. 3 - 1
          BY ONLY <1>0
        <4>2. a.data[(b.stored + 0) % BufLen] = [n |-> b.stored + 0, is |-> kinds[0 + 1]]
          BY ONLY <2>3, <4>1
        <4> QED BY <2>2, <2>6, <4>1, <4>2
      <3>4. b.stored \in c.due .. c.stored - 1
        <4>1. c.due = b.due /\ c.stored = b.stored + 3
          BY <2>8 DEF Grown
        <4> QED BY ONLY <1>0, <4>1
      <3> QED BY <1>0, <2>6, <3>2, <3>3, <3>4, StopAt
    <2> QED BY <2>1, <2>3, <2>6, <2>8, <2>9 DEF Injects
  <1> QED BY <1>2, <1>3

LEMMA InjectRowIs ==
  ASSUME NEW b \in NonEcmTypes, Ring(b), NEW x \in Octet, b.input_phase = "in_progress",
         b.stored + Growth(b, x) - b.due < BufLen
  PROVE  InjectRow(b, x).stored = b.stored + Growth(b, x) /\ Injects(b, x, InjectRow(b, x))
  <1> DEFINE eol   == IsEol(b, x)
             bits  == Bits(b, x)
             rtc   == b.since = b.row_bits /\ b.since + 8 - TopBit(x) \in 12 .. 13
             kind  == IF ~eol THEN "row" ELSE IF rtc THEN "rtc" ELSE "eol"
             apart == Apart(b, x)
             pads  == IF apart THEN Fill(bits) ELSE 0
             fill  == [j \in 1 .. pads |-> "pad"]
             b1    == Store(b, fill)
             b2    == IF apart THEN [b1 EXCEPT !.latest_eol_ptr = b1.in_ptr] ELSE b1
             a     == Store(b2, << kind >>)
             bits1 == IF eol THEN TopBit(x) ELSE b.row_bits + 8
             bits2 == IF eol THEN TopBit(x) ELSE b.since + 8
             z     == Zeros(b, x)
             c     == [a EXCEPT !.row_bits = bits1, !.since = bits2, !.zeros = z]
  <1>0. /\ b.stored \in Nat /\ b.due \in Nat /\ b.due <= b.stored
        /\ BufLen \in Nat /\ BufLen > 0
    BY Counts
  <1>1. InjectRow(b, x) = c
    BY DEF InjectRow, Bits, Apart
  <1>2. Growth(b, x) = pads + 1
    BY DEF Growth
  <1>3. eol => TopBit(x) \in 0 .. 7
    BY OctetBits DEF IsEol
  <1>4. pads \in Nat /\ bits1 \in Int /\ bits2 \in Nat /\ z \in Nat
    <2>1. b.row_bits \in Int /\ b.since \in Nat
      BY DEF NonEcmTypes
    <2>2. eol => bits \in Int
      BY <1>3, <2>1 DEF Bits
    <2>3. pads \in Nat
      BY <2>2, FillType DEF Apart
    <2> QED BY <1>3, <2>1, <2>3, ZerosType
  <1>5. apart => kind = "eol"
    <2> SUFFICES ASSUME apart PROVE ~rtc
      BY DEF Apart
    <2>1. bits < 12 \/ bits > 13
      BY DEF Apart, RowsApart
    <2>2. TopBit(x) \in Int /\ b.row_bits \in Int
      BY <1>3 DEF Apart, NonEcmTypes
    <2> QED BY <2>1, <2>2 DEF Bits
  <1>6. fill \in [1 .. pads -> Kinds] /\ Len(fill) = pads
    BY <1>4 DEF Kinds
  <1>7. << kind >> \in [1 .. 1 -> Kinds] /\ Len(<< kind >>) = 1
    BY DEF Kinds
  <1>8. kind \in { "row", "rtc", "eol" }
    OBVIOUS
  <1> HIDE DEF eol, kind, apart, pads, fill, bits1, bits2, z, bits, rtc
  <1>9. b.stored + (pads + 1) - b.due < BufLen
    BY <1>2
  <1>10. b.stored + pads - b.due < BufLen
    BY ONLY <1>0, <1>4, <1>9
  <1>11. /\ b1 \in NonEcmTypes /\ b1.in_ptr = (b.stored + pads) % BufLen
         /\ b1.latest_eol_ptr = b.latest_eol_ptr
    BY <1>4, <1>6, <1>10, StoreIs
  <1> HIDE DEF b1
  <1>12. /\ b2 \in NonEcmTypes
         /\ b2.data = b1.data /\ b2.in_ptr = b1.in_ptr /\ b2.stored = b1.stored
         /\ b2.due = b1.due /\ b2.out_ptr = b1.out_ptr
         /\ b2.data_finished = b1.data_finished
         /\ b2.image_data_mode = b1.image_data_mode
         /\ b2.latest_eol_ptr = IF apart THEN b1.in_ptr ELSE b.latest_eol_ptr
    BY ONLY <1>11 DEF NonEcmTypes
  <1> HIDE DEF b2
  <1>13. Grown(b, b2, pads)
    <2>1. \E e \in b.due .. b.stored + pads : b2.latest_eol_ptr = e % BufLen
      <3>1. CASE apart
        <4>1. b.stored + pads \in b.due .. b.stored + pads
          BY ONLY <1>0, <1>4
        <4> QED BY ONLY <1>11, <1>12, <3>1, <4>1
      <3>2. CASE ~apart
        <4>1. PICK e \in b.due .. b.stored : b.latest_eol_ptr = e % BufLen
          BY DEF Ring
        <4>2. e \in b.due .. b.stored + pads
          BY ONLY <1>0, <1>4, <4>1
        <4> QED BY <1>12, <3>2, <4>1, <4>2
      <3> QED BY <3>1, <3>2
    <2> QED BY <1>4, <1>6, <1>10, <1>12, <2>1, StoreGrows DEF b1
  <1>14. Ring(b2) /\ b2.stored = b.stored + pads /\ b2.due = b.due
    BY <1>4, <1>10, <1>13, GrownRing DEF Grown
  <1>15. b2.stored + 1 - b2.due < BufLen
    BY ONLY <1>0, <1>4, <1>9, <1>14
  <1>16. /\ a \in NonEcmTypes /\ a.latest_eol_ptr = b2.latest_eol_ptr
         /\ a.stored = b2.stored + 1 /\ a.due = b2.due
         /\ \A j \in 0 .. 1 - 1 :
              a.data[(b2.stored + j) % BufLen]
                = [n |-> b2.stored + j, is |-> << kind >>[j + 1]]
    BY <1>7, <1>12, <1>14, <1>15, StoreIs
  <1> HIDE DEF a
  <1>17. /\ c \in NonEcmTypes
         /\ c.data = a.data /\ c.in_ptr = a.in_ptr /\ c.stored = a.stored
         /\ c.due = a.due /\ c.out_ptr = a.out_ptr
         /\ c.data_finished = a.data_finished
         /\ c.image_data_mode = a.image_data_mode
         /\ c.latest_eol_ptr = a.latest_eol_ptr
    BY ONLY <1>4, <1>16 DEF NonEcmTypes
  <1> HIDE DEF c
  <1>18. Grown(b2, c, 1)
    <2>1. PICK e \in b2.due .. b2.stored : b2.latest_eol_ptr = e % BufLen
      BY <1>14 DEF Ring
    <2>2. e \in b2.due .. b2.stored + 1
      <3>1. b2.due \in Nat /\ b2.stored \in Nat
        BY ONLY <1>0, <1>4, <1>14
      <3> QED BY ONLY e \in b2.due .. b2.stored, <3>1
    <2>3. \E f \in b2.due .. b2.stored + 1 : c.latest_eol_ptr = f % BufLen
      BY <1>16, <1>17, <2>1, <2>2
    <2> QED BY <1>7, <1>12, <1>14, <1>15, <1>17, <2>3, StoreGrows DEF a
  <1>19. Grown(b, c, pads + 1)
    BY <1>4, <1>13, <1>18, GrownTwice
  <1>20. Stop(b) => Stop(c)
    <2>1. CASE apart
      <3>1. Ring(c)
        BY <1>4, <1>9, <1>19, GrownRing
      <3>2. c.latest_eol_ptr = b2.stored % BufLen
        BY <1>11, <1>12, <1>14, <1>16, <1>17, <2>1
      <3>3. c.data[b2.stored % BufLen].is = "eol"
        <4>1. b2.stored + 0 = b2.stored /\ 0 \in 0 .. 1 - 1
          BY ONLY <1>0, <1>4, <1>14
        <4>2. a.data[(b2.stored + 0) % BufLen]
                = [n |-> b2.stored + 0, is |-> << kind >>[0 + 1]]
          BY ONLY <1>16, <4>1
        <4> QED BY <1>5, <1>17, <2>1, <4>1, <4>2
      <3>4. b2.stored \in c.due .. c.stored - 1
        <4>1. c.due = b.due /\ c.stored = b.stored + pads + 1
          BY <1>14, <1>16, <1>17
        <4> QED BY ONLY <1>0, <1>4, <1>14, <4>1
      <3> QED BY <1>17, <3>1, <3>2, <3>3, <3>4, StopAt
    <2>2. CASE ~apart
      <3>1. c.latest_eol_ptr = b.latest_eol_ptr
        BY <1>12, <1>16, <1>17, <2>2
      <3> QED BY <1>4, <1>9, <1>19, <3>1, StopKept
    <2> QED BY <2>1, <2>2
  <1>21. c.stored = b.stored + (pads + 1)
    BY ONLY <1>0, <1>4, <1>14, <1>16, <1>17
  <1> QED BY <1>1, <1>2, <1>19, <1>20, <1>21 DEF Injects

(* How many octets the buffer holds after it, whether there is room or not. *)
LEMMA StoreCount ==
  ASSUME NEW b, { "data", "in_ptr", "stored", "latest_eol_ptr" } \subseteq DOMAIN b, NEW kinds
  PROVE  /\ Store(b, kinds).stored = b.stored + Len(kinds)
         /\ DOMAIN Store(b, kinds) = DOMAIN b
  <1> DEFINE data == [i \in Slots |->
                        LET j == (i - b.in_ptr) % BufLen
                        IN  IF j < Len(kinds)
                            THEN [n |-> b.stored + j, is |-> kinds[j + 1]] ELSE b.data[i]]
             in   == Later(b.in_ptr, Len(kinds))
  <1>1. Store(b, kinds) = [b EXCEPT !.data = data, !.in_ptr = in, !.stored = @ + Len(kinds)]
    BY Zenon DEF Store
  <1> HIDE DEF data, in
  <1> QED BY <1>1

LEMMA Count ==
  ASSUME NEW b \in NonEcmTypes, NEW x \in Octet
  PROVE  InjectOctet(b, x).stored = b.stored + Growth(b, x)
  <1>0. /\ { "data", "in_ptr", "stored", "latest_eol_ptr" } \subseteq DOMAIN b
        /\ { "input_phase", "zeros", "since", "row_bits" } \subseteq DOMAIN b
        /\ b.stored \in Nat /\ b.input_phase \in Phases
    BY DEF NonEcmTypes
  <1>1. CASE b.input_phase \in { "all_ones", "all_zeros" }
    <2>1. InjectOctet(b, x) = InjectTcf(b, x)
      BY <1>1 DEF InjectOctet
    <2> DEFINE a == Store(b, << "tcf" >>)
    <2>2. a.stored = b.stored + 1 /\ DOMAIN a = DOMAIN b
      <3> DEFINE kinds == << "tcf" >>
      <3>1. Len(kinds) = 1 /\ a = Store(b, kinds)
        OBVIOUS
      <3> HIDE DEF kinds, a
      <3>2. Store(b, kinds).stored = b.stored + Len(kinds) /\ DOMAIN Store(b, kinds) = DOMAIN b
        BY <1>0, StoreCount, Zenon
      <3> QED BY ONLY <3>1, <3>2
    <2> HIDE DEF a
    <2>3. [a EXCEPT !.input_phase = "all_zeros", !.latest_eol_ptr = b.in_ptr].stored = a.stored
      BY <1>0, <2>2
    <2>4. InjectTcf(b, x) = IF b.input_phase = "all_ones" /\ x = 255 THEN b
                            ELSE [a EXCEPT !.input_phase = "all_zeros",
                                           !.latest_eol_ptr = b.in_ptr]
      BY DEF InjectTcf, a
    <2> QED BY <1>0, <1>1, <2>1, <2>2, <2>3, <2>4 DEF Growth
  <1>2. CASE b.input_phase = "waiting_eol"
    <2>1. InjectOctet(b, x) = InjectFirstEol(b, x)
      BY <1>2 DEF InjectOctet
    <2> DEFINE a == Store(b, << "pad", "pad", "eol" >>)
               top == TopBit(x)
               z == Zeros(b, x)
    <2>2. a.stored = b.stored + 3 /\ DOMAIN a = DOMAIN b
      <3> DEFINE kinds == << "pad", "pad", "eol" >>
      <3>1. Len(kinds) = 3 /\ a = Store(b, kinds)
        OBVIOUS
      <3> HIDE DEF kinds, a
      <3>2. Store(b, kinds).stored = b.stored + Len(kinds) /\ DOMAIN Store(b, kinds) = DOMAIN b
        BY <1>0, StoreCount, Zenon
      <3> QED BY ONLY <3>1, <3>2
    <2>3. InjectFirstEol(b, x) =
            IF ~IsEol(b, x) THEN [b EXCEPT !.zeros = z]
            ELSE [a EXCEPT !.input_phase = "in_progress", !.latest_eol_ptr = b.in_ptr,
                           !.row_bits = top - 8, !.since = top, !.zeros = z]
      BY DEF InjectFirstEol
    <2> HIDE DEF a, z, top
    <2>4. /\ [b EXCEPT !.zeros = z].stored = b.stored
          /\ [a EXCEPT !.input_phase = "in_progress", !.latest_eol_ptr = b.in_ptr,
                       !.row_bits = top - 8, !.since = top, !.zeros = z].stored = a.stored
      BY <1>0, <2>2
    <2> QED BY <1>0, <1>2, <2>1, <2>2, <2>3, <2>4 DEF Growth
  <1>3. CASE b.input_phase = "in_progress"
    <2>1. InjectOctet(b, x) = InjectRow(b, x)
      BY <1>3 DEF InjectOctet
    <2> DEFINE eol   == IsEol(b, x)
               rtc   == b.since = b.row_bits /\ b.since + 8 - TopBit(x) \in 12 .. 13
               kind  == IF ~eol THEN "row" ELSE IF rtc THEN "rtc" ELSE "eol"
               apart == Apart(b, x)
               pads  == IF apart THEN Fill(Bits(b, x)) ELSE 0
               fill  == [j \in 1 .. pads |-> "pad"]
               b1    == Store(b, fill)
               b2    == IF apart THEN [b1 EXCEPT !.latest_eol_ptr = b1.in_ptr] ELSE b1
               a     == Store(b2, << kind >>)
               bits1 == IF eol THEN TopBit(x) ELSE b.row_bits + 8
               bits2 == IF eol THEN TopBit(x) ELSE b.since + 8
               z     == Zeros(b, x)
               c     == [a EXCEPT !.row_bits = bits1, !.since = bits2, !.zeros = z]
    <2>2. InjectRow(b, x) = c
      BY DEF InjectRow, Bits, Apart
    <2>3. pads \in Nat
      <3>1. apart => Bits(b, x) \in Int
        BY OctetBits DEF Apart, IsEol, Bits, NonEcmTypes
      <3> QED BY <3>1, FillType
    <2>4. Len(fill) = pads /\ Growth(b, x) = pads + 1 /\ Len(<< kind >>) = 1
      BY <1>3, <2>3 DEF Growth
    <2> HIDE DEF fill, pads, kind, bits1, bits2, z
    <2>5. b1.stored = b.stored + pads /\ DOMAIN b1 = DOMAIN b
      BY <1>0, <2>4, StoreCount
    <2> HIDE DEF b1, apart
    <2>6. b2.stored = b1.stored /\ DOMAIN b2 = DOMAIN b
      BY <1>0, <2>5
    <2> HIDE DEF b2
    <2>7. a.stored = b2.stored + 1 /\ DOMAIN a = DOMAIN b
      BY <1>0, <2>4, <2>6, StoreCount
    <2> HIDE DEF a
    <2>8. c.stored = a.stored
      BY <1>0, <2>7
    <2> HIDE DEF c
    <2> QED BY ONLY <1>0, <2>1, <2>2, <2>3, <2>4, <2>5, <2>6, <2>7, <2>8
  <1> QED BY <1>0, <1>1, <1>2, <1>3 DEF Phases

LEMMA GrowthType ==
  ASSUME NEW b \in NonEcmTypes, NEW x \in Octet
  PROVE  Growth(b, x) \in Nat
  <1>1. b.input_phase \in Phases
    BY DEF NonEcmTypes
  <1>2. Apart(b, x) => Bits(b, x) \in Int
    BY OctetBits DEF Apart, IsEol, Bits, NonEcmTypes
  <1>3. Apart(b, x) => Fill(Bits(b, x)) \in Nat
    BY <1>2, FillType
  <1> QED BY <1>1, <1>3 DEF Growth, Phases

(* There is room when the buffer does not come round to what is due. *)
LEMMA RoomIs ==
  ASSUME NEW b \in NonEcmTypes, NEW x \in Octet
  PROVE  Room(b, x) <=> b.stored + Growth(b, x) - b.due < BufLen
  <1>1. InjectOctet(b, x).stored = b.stored + Growth(b, x)
    BY Count
  <1>2. Room(b, x) <=> InjectOctet(b, x).stored - b.due < BufLen
    BY DEF Room
  <1>3. b.stored \in Nat /\ b.due \in Nat /\ Growth(b, x) \in Nat /\ BufLen \in Nat
    BY GrowthType, Lengths DEF NonEcmTypes
  <1> QED BY ONLY <1>1, <1>2, <1>3

LEMMA InjectIs ==
  ASSUME NEW b \in NonEcmTypes, Ring(b), NEW x \in Octet, Room(b, x)
  PROVE  Injects(b, x, InjectOctet(b, x)) /\ b.stored + Growth(b, x) - b.due < BufLen
  <1>1. b.stored + Growth(b, x) - b.due < BufLen
    BY RoomIs
  <1>2. b.input_phase \in Phases
    BY DEF NonEcmTypes
  <1>3. CASE b.input_phase \in { "all_ones", "all_zeros" }
    BY <1>1, <1>3, InjectTcfIs DEF InjectOctet
  <1>4. CASE b.input_phase = "waiting_eol"
    BY <1>1, <1>4, InjectFirstEolIs DEF InjectOctet
  <1>5. CASE b.input_phase = "in_progress"
    BY <1>1, <1>5, InjectRowIs DEF InjectOctet
  <1> QED BY <1>1, <1>2, <1>3, <1>4, <1>5 DEF Phases

(* Room that there is remains while the modem reads. *)
LEMMA RoomKept ==
  ASSUME NEW b \in NonEcmTypes, NEW c \in NonEcmTypes, NEW x \in Octet, Room(b, x),
         c.input_phase = b.input_phase, c.zeros = b.zeros, c.row_bits = b.row_bits,
         c.stored = b.stored, c.due >= b.due
  PROVE  Room(c, x)
  <1>1. Growth(c, x) = Growth(b, x)
    BY Zenon DEF Growth, Apart, Bits, IsEol
  <1>2. b.stored + Growth(b, x) - b.due < BufLen
    BY RoomIs
  <1>3. c.stored + Growth(c, x) - c.due < BufLen
    <2>1. /\ b.stored \in Nat /\ b.due \in Nat /\ c.due \in Nat
          /\ Growth(b, x) \in Nat /\ BufLen \in Nat
      BY GrowthType, Lengths DEF NonEcmTypes
    <2> QED BY ONLY <1>1, <1>2, <2>1, c.stored = b.stored, c.due >= b.due
  <1> QED BY <1>3, RoomIs

-----------------------------------------------------------------------------
(* Types of the queue: what its operators make of a queue is one, and no   *)
(* frame outgrows its buffer.                                              *)

LEMMA QueueIs ==
  ASSUME NEW h, Queue(h)
  PROVE  /\ h.in \in Bufs /\ h.out \in Bufs /\ h.tx \in TxTypes
         /\ Frames(h.buf)
         /\ h.buf[h.in] \in BufTypes /\ h.buf[h.out] \in BufTypes
         /\ h.tx.pieces \in Seq(Pieces)
         /\ \A b \in Bufs : Nxt(b) \in Bufs
  <1>1. h.in \in Bufs /\ h.out \in Bufs /\ h.tx \in TxTypes /\ h.buf \in [Bufs -> BufTypes]
    BY DEF Queue, HdlcTypes
  <1>4. Frames(h.buf)
    BY DEF Queue, HdlcTypes, Frames
  <1>2. \A b \in Bufs : Nxt(b) \in Bufs
    BY QueueAssumption DEF Bufs, Nxt
  <1>3. h.tx.pieces \in Seq(Pieces)
    BY <1>1 DEF TxTypes
  <1> QED BY <1>1, <1>2, <1>3, <1>4

LEMMA ClearedSized == Sized(Cleared)
  <1>1. << >> \in Seq(Pieces) /\ Len(<< >>) = 0 /\ MaxLen \in Nat
    BY QueueAssumption
  <1>2. Cleared = [contents |-> NONE, pieces |-> << >>, flags |-> {}]
    BY DEF Cleared
  <1>3. NONE \in Contents /\ {} \in SUBSET Flags
    BY DEF Contents
  <1> QED BY <1>1, <1>2, <1>3 DEF Sized, BufTypes

LEMMA QueueOf ==
  ASSUME NEW c, NEW B, NEW i \in Bufs, NEW o \in Bufs, NEW t \in TxTypes,
         NEW ind \in Indicators \union { NONE },
         NEW class \in { "none", "hdlc", "non_ecm" }, NEW p \in Packets,
         c = [buf |-> B, in |-> i, out |-> o, tx |-> t, current_rx_indicator |-> ind,
              field_class |-> class, last |-> p],
         Frames(B)
  PROVE  Queue(c)
  BY DEF Queue, HdlcTypes, Frames

LEMMA BufSet ==
  ASSUME NEW B, Frames(B), NEW i \in Bufs, NEW s, Sized(s)
  PROVE  Frames([B EXCEPT ![i] = s])
  BY DEF Frames, Sized

LEMMA TxTypesKept ==
  ASSUME NEW tx \in TxTypes
  PROVE  /\ \A ps \in Seq(Pieces) : TxFrame(tx, ps) \in TxTypes
         /\ TxCorrupt(tx) \in TxTypes /\ TxFlags(tx) \in TxTypes /\ TxInit \in TxTypes
  <1>1. ASSUME NEW ps \in Seq(Pieces) PROVE TxFrame(tx, ps) \in TxTypes
    <2>1. tx.pieces \in Seq(Pieces)
      BY DEF TxTypes
    <2>2. tx.pieces \o ps \in Seq(Pieces)
      BY <2>1
    <2> DEFINE qs == tx.pieces \o ps
    <2>3. TxFrame(tx, ps) = CASE ps = << >> -> [tx EXCEPT !.tx_end = TRUE]
                              [] ps # << >> /\ tx.crc -> tx
                              [] OTHER -> [tx EXCEPT !.pieces = qs, !.tx_end = FALSE]
      BY DEF TxFrame
    <2> HIDE DEF qs
    <2>4. qs \in Seq(Pieces)
      BY <2>2 DEF qs
    <2>5. [tx EXCEPT !.tx_end = TRUE] \in TxTypes
      BY DEF TxTypes
    <2>6. [tx EXCEPT !.pieces = qs, !.tx_end = FALSE] \in TxTypes
      BY <2>4 DEF TxTypes
    <2> QED BY <2>3, <2>5, <2>6
  <1>2. TxCorrupt(tx) \in TxTypes
    BY DEF TxCorrupt, TxTypes
  <1>3. TxFlags(tx) \in TxTypes
    BY DEF TxFlags, TxTypes
  <1>4. TxInit \in TxTypes
    <2>1. << >> \in Seq(Pieces)
      OBVIOUS
    <2> QED BY <2>1 DEF TxInit, TxTypes
  <1> QED BY <1>1, <1>2, <1>3, <1>4

LEMMA QueueFields ==
  ASSUME NEW h, Queue(h)
  PROVE  /\ h = [buf |-> h.buf, in |-> h.in, out |-> h.out, tx |-> h.tx,
                 current_rx_indicator |-> h.current_rx_indicator,
                 field_class |-> h.field_class, last |-> h.last]
         /\ h.current_rx_indicator \in Indicators \union { NONE }
         /\ h.field_class \in { "none", "hdlc", "non_ecm" } /\ h.last \in Packets
         /\ \A b \in Bufs : Sized(h.buf[b])
  BY DEF Queue, HdlcTypes

LEMMA RxIndicatorQueue ==
  ASSUME NEW h, Queue(h), NEW i \in Indicators, NEW same
  PROVE  Queue(RxIndicator(h, i, same))
  <1> DEFINE in1 == IF h.buf[h.in].contents # NONE THEN Nxt(h.in) ELSE h.in
             s   == [h.buf[in1] EXCEPT !.contents = Ind(i)]
             B   == [h.buf EXCEPT ![in1] = s]
             t   == IF same /\ h.field_class = "hdlc" THEN TxFrame(h.tx, << >>) ELSE h.tx
             c   == [buf |-> B, in |-> Nxt(in1), out |-> h.out, tx |-> t,
                     current_rx_indicator |-> i, field_class |-> "none", last |-> h.last]
  <1>1. in1 \in Bufs /\ Nxt(in1) \in Bufs
    BY QueueIs
  <1>2. Sized(s)
    <2>1. Sized(h.buf[in1])
      BY <1>1, QueueFields
    <2>2. Ind(i) \in Contents
      BY DEF Ind, Contents
    <2> HIDE DEF in1
    <2> QED BY <2>1, <2>2 DEF Sized, BufTypes
  <1>3. t \in TxTypes
    <2>1. << >> \in Seq(Pieces)
      OBVIOUS
    <2> QED BY <2>1, QueueIs, TxTypesKept
  <1>4. CASE h.current_rx_indicator = i
    BY <1>4 DEF RxIndicator
  <1>5. CASE h.current_rx_indicator # i
    <2>1. RxIndicator(h, i, same) = [h EXCEPT !.buf[in1].contents = Ind(i), !.in = Nxt(in1),
                                              !.tx = t, !.field_class = "none",
                                              !.current_rx_indicator = i]
      BY <1>5, Zenon DEF RxIndicator
    <2>2. RxIndicator(h, i, same) = [h EXCEPT !.buf = B, !.in = Nxt(in1), !.tx = t,
                                              !.field_class = "none", !.current_rx_indicator = i]
      BY <2>1, Zenon
    <2> HIDE DEF in1, t, B
    <2>3. RxIndicator(h, i, same) = c
      BY ONLY <2>2, Queue(h) DEF Queue, HdlcTypes
    <2>4. Frames(B)
      <3> HIDE DEF s
      <3> QED BY <1>1, <1>2, QueueIs, QueueFields, BufSet DEF B
    <2> QED BY ONLY <1>1, <1>3, <2>3, <2>4, QueueOf, QueueIs, QueueFields, Queue(h), i \in Indicators
  <1> QED BY <1>4, <1>5

LEMMA WithTx ==
  ASSUME NEW h, Queue(h), NEW t \in TxTypes
  PROVE  Queue([h EXCEPT !.tx = t])
  <1>1. h \in HdlcTypes /\ \A b \in Bufs : Sized(h.buf[b])
    BY DEF Queue
  <1>2. [h EXCEPT !.tx = t] \in HdlcTypes /\ [h EXCEPT !.tx = t].buf = h.buf
    BY <1>1 DEF HdlcTypes, Frames
  <1> QED BY <1>1, <1>2 DEF Queue, Frames

LEMMA WithBuf ==
  ASSUME NEW h, Queue(h), NEW B, Frames(B)
  PROVE  Queue([h EXCEPT !.buf = B])
  <1>1. h \in HdlcTypes /\ \A b \in Bufs : Sized(h.buf[b])
    BY DEF Queue
  <1>2. [h EXCEPT !.buf = B] \in HdlcTypes /\ [h EXCEPT !.buf = B].buf = B
    BY <1>1 DEF HdlcTypes, Frames
  <1> QED BY <1>1, <1>2 DEF Queue, Frames

LEMMA WithBufTx ==
  ASSUME NEW h, Queue(h), NEW B, Frames(B), NEW t \in TxTypes
  PROVE  Queue([h EXCEPT !.buf = B, !.tx = t])
  <1>1. h \in HdlcTypes /\ \A b \in Bufs : Sized(h.buf[b])
    BY DEF Queue
  <1>2. [h EXCEPT !.buf = B, !.tx = t] \in HdlcTypes /\ [h EXCEPT !.buf = B, !.tx = t].buf = B
    BY <1>1 DEF HdlcTypes, Frames
  <1> QED BY <1>1, <1>2 DEF Queue, Frames

LEMMA WithBufOut ==
  ASSUME NEW h, Queue(h), NEW B, Frames(B), NEW o \in Bufs
  PROVE  Queue([h EXCEPT !.buf = B, !.out = o])
  <1>1. h \in HdlcTypes /\ \A b \in Bufs : Sized(h.buf[b])
    BY DEF Queue
  <1>2. [h EXCEPT !.buf = B, !.out = o] \in HdlcTypes /\ [h EXCEPT !.buf = B, !.out = o].buf = B
    BY <1>1 DEF HdlcTypes, Frames
  <1> QED BY <1>1, <1>2 DEF Queue, Frames

LEMMA WithBufTxIn ==
  ASSUME NEW h, Queue(h), NEW B, Frames(B), NEW t \in TxTypes, NEW i \in Bufs
  PROVE  Queue([h EXCEPT !.buf = B, !.tx = t, !.in = i])
  <1>1. h \in HdlcTypes /\ \A b \in Bufs : Sized(h.buf[b])
    BY DEF Queue
  <1>2. [h EXCEPT !.buf = B, !.tx = t, !.in = i] \in HdlcTypes /\ [h EXCEPT !.buf = B, !.tx = t, !.in = i].buf = B
    BY <1>1 DEF HdlcTypes, Frames
  <1> QED BY <1>1, <1>2 DEF Queue, Frames

LEMMA RxMissingQueue ==
  ASSUME NEW h, Queue(h)
  PROVE  /\ Queue(RxMissing(h)) /\ RxMissing(h).in = h.in /\ RxMissing(h).tx = h.tx
         /\ RxMissing(h).current_rx_indicator = h.current_rx_indicator
  <1> DEFINE s == [h.buf[h.in] EXCEPT !.flags = @ \union { "MISSING_DATA" }]
             B == [h.buf EXCEPT ![h.in] = s]
  <1>1. Sized(s)
    <2>1. Sized(h.buf[h.in])
      BY QueueIs, QueueFields
    <2> QED BY <2>1 DEF Sized, BufTypes, Flags
  <1>2. Frames(B)
    <2> HIDE DEF s
    <2> QED BY <1>1, QueueIs, QueueFields, BufSet
  <1>3. RxMissing(h) = [h EXCEPT !.buf = B]
    BY Zenon DEF RxMissing
  <1> HIDE DEF B
  <1>4. Queue([h EXCEPT !.buf = B])
    BY <1>2, WithBuf
  <1>5. /\ [h EXCEPT !.buf = B].in = h.in /\ [h EXCEPT !.buf = B].tx = h.tx
        /\ [h EXCEPT !.buf = B].current_rx_indicator = h.current_rx_indicator
    BY DEF Queue, HdlcTypes
  <1> QED BY <1>3, <1>4, <1>5

LEMMA RxDataQueue ==
  ASSUME NEW h0, Queue(h0), NEW p \in Pieces, NEW same
  PROVE  Queue(RxData(h0, p, same))
  <1> DEFINE h     == IF Headed(h0.buf[h0.in], p) THEN h0 ELSE RxMissing(h0)
             s     == h.buf[h.in]
             ps    == Append(s.pieces, p)
             start == p.d = "v21" /\ Len(ps) >= StartLevel
             s1    == [contents |-> Data(p.d), pieces |-> ps,
                       flags |-> s.flags \union (IF start THEN { "PROCEED" } ELSE {})]
             B     == [h.buf EXCEPT ![h.in] = s1]
             t     == IF start /\ same THEN TxFrame(h.tx, Fresh(s, ps)) ELSE h.tx
  <1>1. Queue(h)
    BY RxMissingQueue
  <1>2. RxData(h0, p, same) = IF ~Fits(ps) THEN RxMissing(h)
                              ELSE [h EXCEPT !.buf[h.in] = s1, !.tx = t]
    BY Zenon DEF RxData
  <1> HIDE DEF h
  <1>3. s \in BufTypes /\ h.in \in Bufs
    BY <1>1, QueueIs
  <1>4. s.pieces \in Seq(Pieces)
    BY <1>3 DEF BufTypes
  <1>5. ps \in Seq(Pieces) /\ ps[Len(ps)] = p
    <2> DEFINE q == s.pieces
    <2>1. q \in Seq(Pieces) /\ ps = Append(q, p)
      BY <1>4
    <2> HIDE DEF q, ps
    <2> QED BY ONLY <2>1, p \in Pieces
  <1>6. Fits(ps) => Sized(s1)
    <2>1. Data(p.d) \in Contents
      BY DEF Data, Contents, Pieces
    <2>2. s.flags \union (IF start THEN { "PROCEED" } ELSE {}) \in SUBSET Flags
      BY <1>3 DEF BufTypes, Flags
    <2> HIDE DEF ps, s, start
    <2> QED BY ONLY <1>5, <2>1, <2>2 DEF Sized, BufTypes, Fits
  <1>7. t \in TxTypes
    <2>1. Fresh(s, ps) \in Seq(Pieces)
      <3>1. << p >> \in Seq(Pieces)
        OBVIOUS
      <3> HIDE DEF ps, s
      <3> QED BY <1>5, <3>1 DEF Fresh
    <2>2. h.tx \in TxTypes
      BY <1>1, QueueIs
    <2> HIDE DEF ps, s, start
    <2> QED BY <2>1, <2>2, TxTypesKept
  <1>8. CASE ~Fits(ps)
    BY <1>1, <1>2, <1>8, RxMissingQueue
  <1>9. CASE Fits(ps)
    <2>1. RxData(h0, p, same) = [h EXCEPT !.buf = B, !.tx = t]
      BY <1>2, <1>9, Zenon
    <2>2. Frames(B)
      <3> HIDE DEF s1, ps
      <3> QED BY <1>1, <1>3, <1>6, <1>9, QueueIs, QueueFields, BufSet
    <2> HIDE DEF B, t
    <2>3. Queue([h EXCEPT !.buf = B, !.tx = t])
      BY <1>1, <1>7, <2>2, WithBufTx
    <2> QED BY <2>1, <2>3
  <1> QED BY <1>8, <1>9

LEMMA FinaliseQueue ==
  ASSUME NEW h, Queue(h), NEW d \in DataTypes, NEW good, NEW same
  PROVE  Queue(Finalise(h, d, good, same))
  <1> DEFINE s   == h.buf[h.in]
             bad == Spoilt(s, good)
             tx1 == IF "PROCEED" \in s.flags THEN h.tx ELSE TxFrame(h.tx, s.pieces)
             f   == s.flags \union { "PROCEED", "FINISHED" }
                            \union (IF bad THEN { "CORRUPT_CRC" } ELSE {})
             s1  == [s EXCEPT !.contents = Data(d), !.flags = f]
             B1  == [h.buf EXCEPT ![h.in] = s1]
             B   == [B1 EXCEPT ![Nxt(h.in)] = Cleared]
             t   == IF ~same THEN h.tx ELSE IF bad THEN TxCorrupt(tx1) ELSE tx1
  <1>1. Finalise(h, d, good, same) = [h EXCEPT !.buf = B, !.tx = t, !.in = Nxt(h.in)]
    BY Zenon DEF Finalise
  <1>2. Sized(s) /\ h.in \in Bufs /\ Nxt(h.in) \in Bufs /\ h.tx \in TxTypes
    BY QueueIs, QueueFields
  <1>3. Sized(s1)
    <2>1. Data(d) \in Contents
      BY DEF Data, Contents
    <2>2. f \in SUBSET Flags
      BY <1>2 DEF Sized, BufTypes, Flags
    <2> HIDE DEF s, f
    <2> QED BY <1>2, <2>1, <2>2 DEF Sized, BufTypes
  <1>4. s.pieces \in Seq(Pieces)
    BY <1>2 DEF Sized, BufTypes
  <1>5. t \in TxTypes
    <2>1. tx1 \in TxTypes
      BY <1>2, <1>4, TxTypesKept
    <2>2. TxCorrupt(tx1) \in TxTypes
      <3> HIDE DEF tx1
      <3> QED BY <2>1, TxTypesKept
    <2> QED BY <1>2, <2>1, <2>2
  <1>6. Frames(B1)
    <2> HIDE DEF s1
    <2> QED BY <1>2, <1>3, QueueIs, QueueFields, BufSet
  <1> HIDE DEF B1
  <1>7. Frames(B)
    BY <1>2, <1>6, ClearedSized, BufSet
  <1> DEFINE i == Nxt(h.in)
  <1>8. i \in Bufs
    BY <1>2
  <1> HIDE DEF B, t, i
  <1>9. Queue([h EXCEPT !.buf = B, !.tx = t, !.in = i])
    BY <1>5, <1>7, <1>8, WithBufTxIn
  <1> QED BY <1>1, <1>9 DEF i

LEMMA ReusedQueue ==
  ASSUME NEW h, Queue(h)
  PROVE  Queue(Reused(h)) /\ Queue(ThrownOut(h))
  <1> DEFINE s == [h.buf[h.in] EXCEPT !.contents = NONE]
             B == [h.buf EXCEPT ![h.in] = s]
             C == [h.buf EXCEPT ![h.in] = Cleared]
  <1>1. Sized(h.buf[h.in]) /\ h.in \in Bufs
    BY QueueIs, QueueFields
  <1>2. Sized(s)
    BY <1>1 DEF Sized, BufTypes, Contents
  <1>3. Frames(B)
    <2> HIDE DEF s
    <2> QED BY <1>1, <1>2, QueueIs, QueueFields, BufSet
  <1>4. Frames(C)
    BY <1>1, ClearedSized, QueueIs, QueueFields, BufSet
  <1>5. Reused(h) = [h EXCEPT !.buf = B] /\ ThrownOut(h) = [h EXCEPT !.buf = C]
    BY Zenon DEF Reused, ThrownOut
  <1> HIDE DEF B, C
  <1>6. Queue([h EXCEPT !.buf = B]) /\ Queue([h EXCEPT !.buf = C])
    BY <1>3, <1>4, WithBuf
  <1> QED BY <1>5, <1>6

LEMMA StartFrameQueue ==
  ASSUME NEW h, Queue(h)
  PROVE  Queue(StartFrame(h))
  <1> DEFINE s == h.buf[h.out]
             u == TxFrame(h.tx, s.pieces)
             t == IF "CORRUPT_CRC" \in s.flags THEN TxCorrupt(u) ELSE u
  <1>1. s.pieces \in Seq(Pieces) /\ h.tx \in TxTypes
    BY QueueIs DEF BufTypes
  <1>2. u \in TxTypes
    BY <1>1, TxTypesKept
  <1>3. StartFrame(h) = [h EXCEPT !.tx = t]
    BY Zenon DEF StartFrame
  <1> HIDE DEF u
  <1>4. t \in TxTypes
    BY <1>2, TxTypesKept
  <1> HIDE DEF t
  <1> QED BY <1>3, <1>4, WithTx

LEMMA UnderflowQueue ==
  ASSUME NEW h, Queue(h)
  PROVE  Queue(Underflow(h))
  <1> DEFINE B  == [h.buf EXCEPT ![h.out] = Cleared]
             o  == Nxt(h.out)
             h1 == [h EXCEPT !.buf = B, !.out = o]
             s  == h1.buf[h1.out]
             t  == TxFrame(h1.tx, << >>)
  <1>1. Frames(B) /\ o \in Bufs
    BY ClearedSized, QueueIs, BufSet
  <1>2. Underflow(h) = IF "PROCEED" \notin h.buf[h.out].flags THEN h
                       ELSE CASE IsInd(s.contents) -> [h1 EXCEPT !.tx = t]
                              [] IsData(s.contents) /\ "PROCEED" \in s.flags -> StartFrame(h1)
                              [] OTHER -> h1
    BY Zenon DEF Underflow
  <1> HIDE DEF B, o
  <1>3. Queue(h1)
    BY <1>1, WithBufOut
  <1> HIDE DEF h1
  <1>4. t \in TxTypes
    <2>1. << >> \in Seq(Pieces)
      OBVIOUS
    <2> QED BY <1>3, <2>1, QueueIs, TxTypesKept
  <1> HIDE DEF t, s
  <1>5. Queue([h1 EXCEPT !.tx = t]) /\ Queue(StartFrame(h1))
    BY <1>3, <1>4, WithTx, StartFrameQueue
  <1> QED BY <1>2, <1>3, <1>5

LEMMA TxDoneQueue ==
  ASSUME NEW h, Queue(h)
  PROVE  Queue(TxDone(h))
  <1> DEFINE t == [TxInit EXCEPT !.tx_end = h.tx.tx_end]
  <1>1. t \in TxTypes
    BY QueueIs, TxTypesKept DEF TxTypes
  <1>2. TxDone(h) = Underflow([h EXCEPT !.tx = t])
    BY DEF TxDone
  <1> HIDE DEF t
  <1> QED BY <1>1, <1>2, WithTx, UnderflowQueue

LEMMA PreambleDoneQueue ==
  ASSUME NEW h, Queue(h)
  PROVE  Queue(PreambleDone(h))
  <1> DEFINE t == [h.tx EXCEPT !.preamble = FALSE]
             h1 == [h EXCEPT !.tx = t]
  <1>1. t \in TxTypes
    BY QueueIs DEF TxTypes
  <1>2. PreambleDone(h) = IF h.tx.pieces = << >> THEN Underflow(h1) ELSE h1
    BY Zenon DEF PreambleDone
  <1> HIDE DEF t
  <1>3. Queue(h1)
    BY <1>1, WithTx
  <1> HIDE DEF h1
  <1> QED BY <1>2, <1>3, UnderflowQueue

LEMMA WithClass ==
  ASSUME NEW h, Queue(h), NEW c \in { "none", "hdlc", "non_ecm" }
  PROVE  Queue([h EXCEPT !.field_class = c])
  <1>1. h \in HdlcTypes /\ \A b \in Bufs : Sized(h.buf[b])
    BY DEF Queue
  <1>2. [h EXCEPT !.field_class = c] \in HdlcTypes /\ [h EXCEPT !.field_class = c].buf = h.buf
    BY <1>1 DEF HdlcTypes
  <1> QED BY <1>1, <1>2 DEF Queue

LEMMA WithLast ==
  ASSUME NEW h, Queue(h), NEW p \in Packets
  PROVE  Queue([h EXCEPT !.last = p])
  <1>1. h \in HdlcTypes /\ \A b \in Bufs : Sized(h.buf[b])
    BY DEF Queue
  <1>2. [h EXCEPT !.last = p] \in HdlcTypes /\ [h EXCEPT !.last = p].buf = h.buf
    BY <1>1 DEF HdlcTypes
  <1> QED BY <1>1, <1>2 DEF Queue

LEMMA SeenQueue ==
  ASSUME Queue(hdlc), NEW p \in Packets
  PROVE  Queue(Seen(p))
  <1> DEFINE h == IF far.gap THEN RxMissing(hdlc) ELSE hdlc
  <1>1. Queue(h)
    BY RxMissingQueue
  <1>2. Seen(p) = [h EXCEPT !.last = p]
    BY DEF Seen
  <1> HIDE DEF h
  <1> QED BY <1>1, <1>2, WithLast

-----------------------------------------------------------------------------
(* The steps of the main thread.                                           *)

LEMMA TailIs ==
  ASSUME NEW s \in Seq(Ops), s # << >>
  PROVE  /\ Head(s) = s[1] /\ s[1] \in Ops /\ 1 \in DOMAIN s
         /\ << >> \o Tail(s) \in Seq(Ops) /\ Len(<< >> \o Tail(s)) = Len(s) - 1
         /\ Len(s) \in Nat
         /\ \A i \in DOMAIN (<< >> \o Tail(s)) :
              i \in Nat /\ i > 0 /\ i + 1 \in DOMAIN s /\ (<< >> \o Tail(s))[i] = s[i + 1]
         /\ \A i \in DOMAIN s : i > 1 => i - 1 \in DOMAIN (<< >> \o Tail(s))
  OBVIOUS

LEMMA TailPaired ==
  ASSUME NEW s \in Seq(Ops), s # << >>, Paired(s)
  PROVE  Paired(<< >> \o Tail(s))
  <1> DEFINE t == << >> \o Tail(s)
  <1>1. /\ \A i \in DOMAIN t : i \in Nat /\ i > 0 /\ i + 1 \in DOMAIN s /\ t[i] = s[i + 1]
        /\ \A i \in DOMAIN s : i > 1 => i - 1 \in DOMAIN t
    BY TailIs
  <1> HIDE DEF t
  <1>2. ASSUME NEW i \in DOMAIN t, t[i][1] = "push"
        PROVE  i + 1 \in DOMAIN t /\ t[i + 1][1] = "pushed"
    <2>1. i \in Nat /\ i > 0 /\ i + 1 \in DOMAIN s /\ s[i + 1][1] = "push"
      BY <1>1, <1>2
    <2>2. (i + 1) + 1 \in DOMAIN s /\ s[(i + 1) + 1][1] = "pushed"
      BY ONLY <2>1, Paired(s) DEF Paired
    <2>3. ((i + 1) + 1) - 1 = i + 1 /\ (i + 1) + 1 > 1
      BY <2>1
    <2>4. i + 1 \in DOMAIN t
      BY <1>1, <2>2, <2>3
    <2> QED BY <1>1, <2>2, <2>4
  <1>3. ASSUME NEW i \in DOMAIN t, i > 1, t[i][1] = "pushed"
        PROVE  t[i - 1][1] = "push"
    <2>1. i \in Nat /\ i + 1 \in DOMAIN s /\ s[i + 1][1] = "pushed" /\ i + 1 > 1
      BY <1>1, <1>3
    <2>2. s[(i + 1) - 1][1] = "push" /\ (i + 1) - 1 = i
      BY ONLY <2>1, Paired(s) DEF Paired
    <2>3. i \in DOMAIN s
      BY ONLY <2>1, s \in Seq(Ops), i > 1
    <2>4. i - 1 \in DOMAIN t /\ t[i - 1] = s[(i - 1) + 1] /\ (i - 1) + 1 = i
      BY <1>1, <1>3, <2>1, <2>3
    <2> QED BY <2>2, <2>4
  <1> QED BY <1>2, <1>3 DEF Paired, t

(* What an operation that leaves the buffer alone leaves of the invariant. *)
LEMMA Taken ==
  ASSUME Types, BufferInv, main.todo # << >>, Op \notin { "push", "pushed" },
         main' = [todo |-> << >> \o Tail(main.todo), same |-> NONE],
         UNCHANGED << nonEcmVars, far >>
  PROVE  BufferInv'
  <1> DEFINE s == main.todo
             t == << >> \o Tail(main.todo)
  <1>1. s \in Seq(Ops)
    BY DEF Types, MainTypes
  <1>2. main'.todo = t
    BY Zenon
  <1>3. /\ Len(t) = Len(s) - 1 /\ Len(s) \in Nat
        /\ \A i \in DOMAIN t : i \in Nat /\ i > 0 /\ i + 1 \in DOMAIN s /\ t[i] = s[i + 1]
    BY <1>1, TailIs
  <1>4. UNCHANGED << nonEcm, getting, pushing, collided, far >>
    BY DEF nonEcmVars
  <1>5. Ring(nonEcm)' /\ RowsStop' /\ Ending'
    BY <1>4 DEF BufferInv, RowsStop, Ending
  <1>6. ~pushing
    BY DEF BufferInv, Pushes
  <1>7. Paired(t)
    BY <1>1, TailPaired DEF BufferInv, Pushes
  <1> HIDE DEF s, t
  <1>8. Injecting'
    <2> SUFFICES ASSUME NEW i \in DOMAIN t, t[i][1] = "inject"
                 PROVE  /\ i = Len(t) /\ far.sig \in NonEcms /\ ~far.over
                        /\ Room(nonEcm, t[i][2])
      BY <1>2, <1>4 DEF Injecting
    <2>1. i \in Nat /\ i + 1 \in DOMAIN s /\ s[i + 1][1] = "inject" /\ t[i] = s[i + 1]
      BY <1>3
    <2>2. i + 1 = Len(s) /\ far.sig \in NonEcms /\ ~far.over /\ Room(nonEcm, s[i + 1][2])
      BY <2>1 DEF BufferInv, Injecting, s
    <2> QED BY <1>3, <2>1, <2>2
  <1>9. Pushes'
    BY <1>2, <1>4, <1>6, <1>7 DEF Pushes
  <1>10. GoingOn'
    <2>1. \A op : (\E i \in DOMAIN t : t[i][1] = op) => \E i \in DOMAIN s : s[i][1] = op
      BY <1>3
    <2> QED BY <1>2, <1>4, <2>1 DEF BufferInv, GoingOn, ToDo, s
  <1> QED BY <1>5, <1>8, <1>9, <1>10 DEF BufferInv

(* What a step that leaves the buffer and the operations alone leaves. *)
LEMMA BufferKept ==
  ASSUME BufferInv, UNCHANGED << nonEcmVars, far >>, main'.todo = main.todo
  PROVE  BufferInv'
  <1>1. UNCHANGED << nonEcm, getting, pushing, collided, far >>
    BY DEF nonEcmVars
  <1>2. Ring(nonEcm)' /\ RowsStop' /\ Ending'
    BY <1>1 DEF BufferInv, RowsStop, Ending
  <1>3. Injecting'
    BY <1>1 DEF BufferInv, Injecting
  <1>4. Pushes'
    BY <1>1 DEF BufferInv, Pushes, Op
  <1>5. GoingOn'
    BY <1>1 DEF BufferInv, GoingOn, ToDo
  <1> QED BY <1>2, <1>3, <1>4, <1>5 DEF BufferInv

LEMMA InjectedKeeps ==
  ASSUME Types, BufferInv, Injected
  PROVE  BufferInv' /\ nonEcm' \in NonEcmTypes
  <1> DEFINE s == main.todo
             x == main.todo[1][2]
  <1>1. s \in Seq(Ops) /\ s # << >> /\ nonEcm \in NonEcmTypes
    BY DEF Types, MainTypes, Injected
  <1>2. /\ Head(s) = s[1] /\ s[1] \in Ops /\ 1 \in DOMAIN s /\ Len(s) \in Nat
        /\ Len(<< >> \o Tail(s)) = Len(s) - 1
    BY <1>1, TailIs
  <1>3. s[1][1] = "inject"
    BY <1>2 DEF Injected, Op
  <1>4. 1 = Len(s) /\ far.sig \in NonEcms /\ ~far.over /\ Room(nonEcm, x)
    BY <1>2, <1>3 DEF BufferInv, Injecting
  <1>5. x \in Octet
    <2>1. x \in Octets
      BY <1>2, <1>3 DEF Ops
    <2> QED BY <2>1, Lengths
  <1>6. ~nonEcm.data_finished /\ ~pushing
    BY <1>4 DEF BufferInv, GoingOn
  <1>7. nonEcm' = InjectOctet(nonEcm, x) /\ UNCHANGED << getting, pushing, collided >>
    BY <1>2 DEF Injected
  <1>8. UNCHANGED far /\ main'.todo = << >> \o Tail(s)
    BY Zenon DEF Injected, Done
  <1>9. main'.todo = << >> /\ DOMAIN main'.todo = {}
    <2> DEFINE t == << >> \o Tail(s)
    <2>1. t \in Seq(Ops) /\ Len(t) = 0
      BY <1>1, <1>2, <1>4, TailIs
    <2>2. t = << >>
      <3> HIDE DEF t
      <3> QED BY ONLY <2>1
    <2> QED BY <1>8, <2>2
  <1>10. /\ Injects(nonEcm, x, nonEcm')
         /\ nonEcm.stored + Growth(nonEcm, x) - nonEcm.due < BufLen
    BY <1>1, <1>4, <1>5, <1>7, InjectIs DEF BufferInv
  <1>11. Grown(nonEcm, nonEcm', Growth(nonEcm, x))
    BY <1>10 DEF Injects
  <1>12. Ring(nonEcm')
    BY <1>1, <1>5, <1>10, <1>11, GrowthType, GrownRing DEF BufferInv
  <1>13. ~nonEcm'.data_finished /\ nonEcm' \in NonEcmTypes
    BY <1>6, <1>11 DEF Grown
  <1>14. RowsStop'
    BY <1>6, <1>10 DEF Injects, BufferInv, RowsStop
  <1>15. Ending'
    BY <1>6, <1>7, <1>13 DEF Ending
  <1>16. Injecting' /\ Pushes' /\ GoingOn'
    BY <1>6, <1>7, <1>9, <1>13 DEF Injecting, Pushes, Paired, GoingOn, ToDo
  <1> QED BY <1>12, <1>13, <1>14, <1>15, <1>16 DEF BufferInv

LEMMA PushedKeeps ==
  ASSUME Types, BufferInv, Pushed
  PROVE  BufferInv' /\ nonEcm' \in NonEcmTypes
  <1> DEFINE s == main.todo
             t == << >> \o Tail(main.todo)
  <1>1. s \in Seq(Ops) /\ s # << >> /\ nonEcm \in NonEcmTypes
    BY DEF Types, MainTypes, Pushed
  <1>2. /\ Head(s) = s[1] /\ 1 \in DOMAIN s /\ Len(s) \in Nat /\ Len(t) = Len(s) - 1
        /\ t \in Seq(Ops)
        /\ \A i \in DOMAIN t : i \in Nat /\ i > 0 /\ i + 1 \in DOMAIN s /\ t[i] = s[i + 1]
        /\ \A i \in DOMAIN s : i > 1 => i - 1 \in DOMAIN t
    BY <1>1, TailIs
  <1>3. UNCHANGED far /\ main'.todo = t
    BY Zenon DEF Pushed, Done
  <1>4. Paired(t) /\ Paired(s)
    BY <1>1, TailPaired DEF BufferInv, Pushes
  <1>5. s[1][1] \in { "push", "pushed" } /\ Op = s[1][1]
    BY <1>2 DEF Pushed, Op
  <1>6. far.sig \notin NonEcms \/ far.over
    BY <1>2, <1>5 DEF BufferInv, GoingOn, ToDo
  <1>7. Injecting' /\ GoingOn'
    <2> HIDE DEF s, t
    <2>1. \A i \in DOMAIN t : t[i][1] # "inject"
      BY <1>2, <1>6 DEF BufferInv, Injecting, s
    <2> QED BY <1>3, <1>6, <2>1 DEF Injecting, GoingOn
  <1>8. CASE Op = "push" /\ PushAll
    <2>1. /\ nonEcm' = [nonEcm EXCEPT !.latest_eol_ptr = nonEcm.in_ptr]
          /\ pushing' /\ collided' = (collided \/ getting = "empty") /\ UNCHANGED getting
      BY <1>8 DEF PushAll
    <2>2. /\ nonEcm' \in NonEcmTypes /\ nonEcm'.latest_eol_ptr = nonEcm.in_ptr
          /\ nonEcm'.in_ptr = nonEcm.in_ptr /\ nonEcm'.out_ptr = nonEcm.out_ptr
          /\ nonEcm'.stored = nonEcm.stored /\ nonEcm'.due = nonEcm.due
          /\ nonEcm'.data = nonEcm.data
      BY <1>1, <2>1 DEF NonEcmTypes
    <2>3. Ring(nonEcm')
      <3>1. Ring(nonEcm)
        BY DEF BufferInv
      <3>2. /\ nonEcm.stored \in nonEcm.due .. nonEcm.stored
            /\ nonEcm'.latest_eol_ptr = nonEcm.stored % BufLen
        <4>1. nonEcm.stored \in Nat /\ nonEcm.due \in Nat /\ nonEcm.due <= nonEcm.stored
          BY <1>1, <3>1, Counts
        <4> QED BY <2>2, <3>1, <4>1 DEF Ring
      <3>3. \E e \in nonEcm'.due .. nonEcm'.stored : nonEcm'.latest_eol_ptr = e % BufLen
        BY <2>2, <3>2
      <3> QED BY ONLY <2>2, <3>1, <3>3 DEF Ring
    <2>4. RowsStop' /\ Ending'
      BY <2>1, <2>2 DEF RowsStop, Ending
    <2>5. Pushes'
      <3>1. 1 + 1 \in DOMAIN s /\ s[1 + 1][1] = "pushed"
        BY <1>2, <1>4, <1>5, <1>8 DEF Paired
      <3>2. 1 \in DOMAIN t /\ t[1][1] = "pushed"
        <4>1. (1 + 1) - 1 = 1 /\ 1 + 1 > 1
          OBVIOUS
        <4> QED BY <1>2, <3>1, <4>1
      <3>3. t # << >> /\ Head(t) = t[1]
        <4>1. t \in Seq(Ops) /\ 1 \in DOMAIN t
          BY <1>2, <3>2
        <4> HIDE DEF t
        <4> QED BY ONLY <4>1
      <3> QED BY <1>3, <1>4, <3>2, <3>3 DEF Pushes, Op
    <2> QED BY <1>7, <2>2, <2>3, <2>4, <2>5 DEF BufferInv
  <1>9. CASE Op = "pushed" /\ PushDone
    <2>1. /\ nonEcm' = [nonEcm EXCEPT !.data_finished = TRUE]
          /\ pushing /\ ~pushing' /\ UNCHANGED << getting, collided >>
      BY <1>9 DEF PushDone
    <2>2. /\ nonEcm' \in NonEcmTypes /\ nonEcm'.latest_eol_ptr = nonEcm.latest_eol_ptr
          /\ nonEcm'.in_ptr = nonEcm.in_ptr /\ nonEcm'.out_ptr = nonEcm.out_ptr
          /\ nonEcm'.stored = nonEcm.stored /\ nonEcm'.due = nonEcm.due
          /\ nonEcm'.data = nonEcm.data /\ nonEcm'.data_finished
      BY <1>1, <2>1 DEF NonEcmTypes
    <2>3. Ring(nonEcm')
      BY ONLY <2>2, BufferInv DEF BufferInv, Ring
    <2>4. RowsStop' /\ Ending'
      BY <2>1, <2>2 DEF RowsStop, Ending, BufferInv
    <2>5. Pushes'
      BY <1>3, <1>4, <2>1 DEF Pushes
    <2> QED BY <1>7, <2>2, <2>3, <2>4, <2>5 DEF BufferInv
  <1> QED BY <1>8, <1>9 DEF Pushed

-----------------------------------------------------------------------------
(* The modem's steps in the buffer.                                        *)

LEMMA GetOctetKeeps ==
  ASSUME Types, BufferInv, GetOctet, UNCHANGED << main, far >>
  PROVE  BufferInv' /\ nonEcm' \in NonEcmTypes
  <1> DEFINE o == Later(nonEcm.out_ptr, 1)
             d == nonEcm.due + 1
  <1>1. nonEcm \in NonEcmTypes /\ main.todo \in Seq(Ops)
    BY DEF Types, MainTypes
  <1>2. Ring(nonEcm)
    BY DEF BufferInv
  <1>3. /\ BufLen \in Nat /\ BufLen > 3 /\ nonEcm.stored \in Nat /\ nonEcm.due \in Nat
        /\ nonEcm.due <= nonEcm.stored /\ nonEcm.stored - nonEcm.due < BufLen
    BY <1>1, <1>2, Counts
  <1>4. o = d % BufLen /\ d \in Nat /\ o \in Slots
    <2>1. nonEcm.out_ptr = nonEcm.due % BufLen
      BY <1>2 DEF Ring
    <2>2. o = ((nonEcm.due % BufLen) + 1) % BufLen
      BY <2>1 DEF Later
    <2>3. BufLen > 0 /\ nonEcm.due \in Int /\ 1 \in Int
      BY ONLY <1>3
    <2>4. o = d % BufLen
      BY ONLY <2>2, <2>3, <1>3, RingAdvance
    <2>5. d \in Int /\ d \in Nat
      BY ONLY <1>3
    <2> HIDE DEF o, d
    <2>6. o \in Int /\ 0 <= o /\ o < BufLen
      BY ONLY <2>3, <2>4, <2>5, <1>3, Remainder
    <2> QED BY <1>3, <2>4, <2>5, <2>6 DEF Slots
  <1>5. /\ nonEcm' = [nonEcm EXCEPT !.out_ptr = o, !.due = d]
        /\ nonEcm.out_ptr # nonEcm.latest_eol_ptr
        /\ getting = "no" /\ UNCHANGED << getting, pushing, collided >>
    BY DEF GetOctet
  <1> HIDE DEF o
  <1>6. /\ nonEcm' \in NonEcmTypes /\ nonEcm'.out_ptr = o /\ nonEcm'.due = d
        /\ nonEcm'.in_ptr = nonEcm.in_ptr /\ nonEcm'.stored = nonEcm.stored
        /\ nonEcm'.latest_eol_ptr = nonEcm.latest_eol_ptr /\ nonEcm'.data = nonEcm.data
        /\ nonEcm'.input_phase = nonEcm.input_phase /\ nonEcm'.zeros = nonEcm.zeros
        /\ nonEcm'.row_bits = nonEcm.row_bits
        /\ nonEcm'.data_finished = nonEcm.data_finished
    <2> HIDE DEF d
    <2> QED BY <1>1, <1>4, <1>5 DEF NonEcmTypes
  <1>7. Ring(nonEcm')
    <2>1. PICK e \in nonEcm.due .. nonEcm.stored : nonEcm.latest_eol_ptr = e % BufLen
      BY <1>2 DEF Ring
    <2>2. e # nonEcm.due
      BY <1>2, <1>5, <2>1 DEF Ring
    <2>3. e \in d .. nonEcm.stored /\ d <= nonEcm.stored /\ nonEcm.stored - d < BufLen
      BY ONLY <1>3, <2>2, e \in nonEcm.due .. nonEcm.stored
    <2>4. \A n \in d .. nonEcm.stored - 1 : n \in nonEcm.due .. nonEcm.stored - 1
      BY ONLY <1>3
    <2> HIDE DEF d
    <2>5. /\ nonEcm.in_ptr = nonEcm.stored % BufLen
          /\ \A n \in nonEcm.due .. nonEcm.stored - 1 : nonEcm.data[n % BufLen].n = n
      BY <1>2 DEF Ring
    <2>6. \A n \in d .. nonEcm.stored - 1 : nonEcm.data[n % BufLen].n = n
      BY ONLY <2>4, <2>5
    <2> QED BY ONLY <1>4, <1>6, <2>1, <2>3, <2>5, <2>6 DEF Ring
  <1>8. RowsStop' /\ Ending'
    BY <1>5, <1>6 DEF BufferInv, RowsStop, Stop, Ending
  <1>9. Injecting'
    <2> SUFFICES ASSUME NEW i \in DOMAIN main.todo, main.todo[i][1] = "inject"
                 PROVE  /\ i = Len(main.todo) /\ far.sig \in NonEcms /\ ~far.over
                        /\ Room(nonEcm', main.todo[i][2])
      BY DEF Injecting
    <2>1. /\ i = Len(main.todo) /\ far.sig \in NonEcms /\ ~far.over
          /\ Room(nonEcm, main.todo[i][2])
      BY DEF BufferInv, Injecting
    <2>2. main.todo[i] \in Ops
      BY <1>1
    <2>3. main.todo[i][2] \in Octets
      BY <2>2 DEF Ops
    <2>4. main.todo[i][2] \in Octet /\ d >= nonEcm.due
      BY <1>3, <2>3, Lengths
    <2> QED BY <1>1, <1>6, <2>1, <2>4, RoomKept
  <1>10. Pushes' /\ GoingOn'
    BY <1>5, <1>6 DEF BufferInv, Pushes, Op, GoingOn, ToDo
  <1> QED BY <1>6, <1>7, <1>8, <1>9, <1>10 DEF BufferInv

LEMMA FindEmptyKeeps ==
  ASSUME Types, BufferInv, FindEmpty \/ GetFill, UNCHANGED << main, far >>
  PROVE  BufferInv'
  <1>1. UNCHANGED << nonEcm, pushing >>
    BY DEF FindEmpty, GetFill
  <1>2. Ring(nonEcm)' /\ RowsStop' /\ Injecting' /\ Pushes' /\ GoingOn'
    BY <1>1 DEF BufferInv, RowsStop, Injecting, Pushes, Op, GoingOn, ToDo
  <1>3. Ending'
    BY <1>1 DEF BufferInv, Ending, FindEmpty, GetFill
  <1> QED BY <1>2, <1>3 DEF BufferInv

LEMMA EndKeeps ==
  ASSUME Types, BufferInv, GetEnd, UNCHANGED << main, far >>
  PROVE  BufferInv' /\ nonEcm' \in NonEcmTypes
  <1>1. nonEcm \in NonEcmTypes
    BY DEF Types
  <1>2. /\ nonEcm' = Restart(nonEcm) /\ nonEcm.data_finished
        /\ getting' = "no" /\ UNCHANGED << pushing, collided >>
    BY DEF GetEnd
  <1>3. /\ nonEcm' \in NonEcmTypes /\ Ring(nonEcm') /\ nonEcm'.input_phase # "in_progress"
        /\ nonEcm'.in_ptr = 0 /\ nonEcm'.latest_eol_ptr = 0 /\ ~nonEcm'.data_finished
    BY <1>1, <1>2, RestartIs
  <1>4. far.sig \notin NonEcms \/ far.over
    BY <1>2 DEF BufferInv, GoingOn
  <1>5. \A i \in DOMAIN main.todo : main.todo[i][1] # "inject"
    BY <1>4 DEF BufferInv, Injecting
  <1>6. Injecting' /\ GoingOn'
    BY <1>4, <1>5 DEF Injecting, GoingOn
  <1>7. RowsStop' /\ Ending'
    BY <1>2, <1>3 DEF RowsStop, Ending
  <1>8. Pushes'
    BY <1>2 DEF BufferInv, Pushes, Op
  <1> QED BY <1>3, <1>6, <1>7, <1>8 DEF BufferInv

-----------------------------------------------------------------------------
(* Packets.                                                                *)

(* Operations that touch the queue only.                                   *)
Plain(ops) ==
  ops \in Seq(Ops) /\ \A i \in DOMAIN ops : ops[i][1] \notin { "inject", "push", "pushed" }

LEMMA PlainOne ==
  /\ Plain(<< >>)
  /\ \A op \in Ops : op[1] \notin { "inject", "push", "pushed" } => Plain(<< op >>)
  BY DEF Plain

LEMMA PlainBoth ==
  ASSUME NEW a, NEW b, Plain(a), Plain(b)
  PROVE  Plain(a \o b)
  <1>1. a \in Seq(Ops) /\ b \in Seq(Ops)
    BY DEF Plain
  <1>2. a \o b \in Seq(Ops)
    BY <1>1
  <1>3. ASSUME NEW i \in DOMAIN (a \o b)
        PROVE  \/ i \in DOMAIN a /\ (a \o b)[i] = a[i]
               \/ i - Len(a) \in DOMAIN b /\ (a \o b)[i] = b[i - Len(a)]
    BY <1>1
  <1> QED BY <1>2, <1>3 DEF Plain

LEMMA OpsOf ==
  /\ \A i \in Indicators : << "ind", i >> \in Ops
  /\ \A p \in Pieces : << "data", p >> \in Ops
  /\ \A d \in DataTypes, good \in BOOLEAN, dcs \in BOOLEAN \union { NONE }, asks \in BOOLEAN :
       << "fcs", d, good, dcs, asks >> \in Ops
  /\ \A x \in Octets : << "inject", x >> \in Ops
  /\ << "end" >> \in Ops /\ << "throw" >> \in Ops
  /\ << "push" >> \in Ops /\ << "pushed" >> \in Ops
  BY DEF Ops

LEMMA FcsOpIs ==
  ASSUME NEW d \in DataTypes, NEW good \in BOOLEAN, NEW end \in BOOLEAN,
         NEW dcs \in BOOLEAN \union { NONE }, NEW op, op = FcsOp(d, good, end, dcs)
  PROVE  /\ op \in Ops /\ op[1] = "fcs" /\ op[2] = d /\ op[3] = good
         /\ op[5] <=> end \/ hdlc.buf[hdlc.in].pieces = << >>
  <1> DEFINE asks == end \/ hdlc.buf[hdlc.in].pieces = << >>
  <1>1. op = << "fcs", d, good, dcs, asks >> /\ asks \in BOOLEAN
    BY DEF FcsOp
  <1>2. asks <=> end \/ hdlc.buf[hdlc.in].pieces = << >>
    OBVIOUS
  <1> HIDE DEF asks
  <1> QED BY <1>1, <1>2, OpsOf

LEMMA MissingPlain ==
  ASSUME NEW d \in DataTypes
  PROVE  /\ Plain(Missing(d))
         /\ Missing(d) = << >> \/ \E i \in Indicators : Missing(d) = << << "ind", i >> >>
  <1>1. Expected(d) \in Indicators
    BY DEF Expected, Indicators
  <1>2. Missing(d) = << >> \/ Missing(d) = << << "ind", Expected(d) >> >>
    BY DEF Missing
  <1>3. Plain(<< << "ind", Expected(d) >> >>)
    <2>1. << "ind", Expected(d) >> \in Ops
      BY <1>1, OpsOf
    <2> QED BY <2>1, PlainOne
  <1> QED BY <1>1, <1>2, <1>3, PlainOne

(* An operation on the queue begins a packet that puts nothing into the    *)
(* buffer.                                                                 *)
LEMMA PlainBegins ==
  ASSUME BufferInv, main.todo = << >>, Plain(main'.todo), UNCHANGED nonEcmVars,
         far'.sig \in NonEcms /\ ~far'.over =>
           (far.sig \in NonEcms /\ ~far.over) \/ Drained
  PROVE  BufferInv'
  <1>1. UNCHANGED << nonEcm, getting, pushing, collided >>
    BY DEF nonEcmVars
  <1>2. ~pushing
    BY DEF BufferInv, Pushes
  <1>3. Ring(nonEcm)' /\ RowsStop' /\ Ending'
    BY <1>1 DEF BufferInv, RowsStop, Ending
  <1>4. Injecting' /\ Pushes'
    BY <1>1, <1>2 DEF Plain, Injecting, Pushes, Paired
  <1>5. GoingOn'
    BY <1>1, <1>2 DEF BufferInv, Plain, GoingOn, ToDo, Drained
  <1> QED BY <1>3, <1>4, <1>5 DEF BufferInv

LEMMA ModedIs ==
  ASSUME nonEcm \in NonEcmTypes, mode \in [image : BOOLEAN, ecm : BOOLEAN]
  PROVE  /\ Moded \in NonEcmTypes
         /\ Moded.data = nonEcm.data /\ Moded.in_ptr = nonEcm.in_ptr
         /\ Moded.out_ptr = nonEcm.out_ptr /\ Moded.latest_eol_ptr = nonEcm.latest_eol_ptr
         /\ Moded.row_bits = nonEcm.row_bits /\ Moded.zeros = nonEcm.zeros
         /\ Moded.input_phase = nonEcm.input_phase
         /\ Moded.data_finished = nonEcm.data_finished
         /\ Moded.stored = nonEcm.stored /\ Moded.due = nonEcm.due
  BY DEF Moded, SetMode, NonEcmTypes

(* set_mode changes nothing that has begun. *)
LEMMA ModedKeeps ==
  ASSUME Types, BufferInv, nonEcm' = Moded, UNCHANGED << getting, pushing, collided >>
  PROVE  Ring(nonEcm') /\ RowsStop' /\ Ending' /\ nonEcm' \in NonEcmTypes
  <1>1. /\ nonEcm' \in NonEcmTypes
        /\ nonEcm'.data = nonEcm.data /\ nonEcm'.in_ptr = nonEcm.in_ptr
        /\ nonEcm'.out_ptr = nonEcm.out_ptr
        /\ nonEcm'.latest_eol_ptr = nonEcm.latest_eol_ptr
        /\ nonEcm'.input_phase = nonEcm.input_phase
        /\ nonEcm'.data_finished = nonEcm.data_finished
        /\ nonEcm'.stored = nonEcm.stored /\ nonEcm'.due = nonEcm.due
    BY ModedIs DEF Types
  <1>2. Ring(nonEcm')
    BY ONLY <1>1, BufferInv DEF BufferInv, Ring
  <1>3. RowsStop' /\ Ending'
    BY <1>1 DEF BufferInv, RowsStop, Stop, Ending
  <1> QED BY <1>1, <1>2, <1>3

(* An octet of a signal that goes on. *)
LEMMA InjectBegins ==
  ASSUME Types, BufferInv, main.todo = << >>, NEW x \in Octets, Room(nonEcm, x),
         main'.todo = Append(Missing("fast"), << "inject", x >>),
         nonEcm' = Moded, UNCHANGED << getting, pushing, collided >>,
         far.sig \in NonEcms, ~far.over, far'.sig = far.sig, far'.over = far.over
  PROVE  BufferInv' /\ nonEcm' \in NonEcmTypes /\ main'.todo \in Seq(Ops)
  <1> DEFINE op == << "inject", x >>
             t  == Append(Missing("fast"), op)
  <1>1. Ring(nonEcm') /\ RowsStop' /\ Ending' /\ nonEcm' \in NonEcmTypes
    BY ModedKeeps
  <1>2. "fast" \in DataTypes
    BY DEF DataTypes
  <1>3. op \in Ops /\ op[1] = "inject" /\ op[2] = x
    BY OpsOf
  <1>4. Plain(Missing("fast"))
    BY <1>2, MissingPlain
  <1> HIDE DEF op
  <1>5. /\ t \in Seq(Ops)
        /\ \A i \in DOMAIN t : \/ t[i] = op /\ i = Len(t)
                               \/ t[i][1] \notin { "inject", "push", "pushed" }
    <2> DEFINE q == Missing("fast")
    <2>1. q \in Seq(Ops) /\ \A i \in DOMAIN q : q[i][1] \notin { "inject", "push", "pushed" }
      BY <1>4 DEF Plain
    <2>2. t = Append(q, op)
      OBVIOUS
    <2> HIDE DEF q, t
    <2>3. /\ t \in Seq(Ops)
          /\ \A i \in DOMAIN t : (i = Len(t) /\ t[i] = op) \/ (i \in DOMAIN q /\ t[i] = q[i])
      BY ONLY <1>3, <2>1, <2>2
    <2> QED BY ONLY <2>1, <2>3
  <1>6. main'.todo = t
    BY DEF op
  <1> HIDE DEF t
  <1>7. Room(nonEcm', x)
    <2>1. /\ nonEcm'.input_phase = nonEcm.input_phase /\ nonEcm'.zeros = nonEcm.zeros
          /\ nonEcm'.row_bits = nonEcm.row_bits /\ nonEcm'.stored = nonEcm.stored
          /\ nonEcm'.due = nonEcm.due
      BY ModedIs DEF Types
    <2>2. nonEcm.due \in Nat /\ nonEcm \in NonEcmTypes /\ x \in Octet
      BY Lengths DEF Types, NonEcmTypes
    <2>3. nonEcm'.due >= nonEcm.due
      BY ONLY <2>1, <2>2
    <2> QED BY <1>1, <2>1, <2>2, <2>3, RoomKept
  <1>8. Injecting'
    BY <1>3, <1>5, <1>6, <1>7 DEF Injecting
  <1>9. ~nonEcm.data_finished /\ ~pushing
    BY DEF BufferInv, GoingOn
  <1>10. \A i \in DOMAIN t : t[i][1] \notin { "push", "pushed" }
    BY <1>3, <1>5
  <1>11. Pushes'
    BY <1>6, <1>9, <1>10 DEF Pushes, Paired
  <1>12. GoingOn'
    <2>1. ~nonEcm'.data_finished
      BY <1>9, ModedIs DEF Types
    <2> QED BY <1>6, <1>9, <1>10, <2>1 DEF GoingOn, ToDo
  <1> QED BY <1>1, <1>5, <1>6, <1>8, <1>11, <1>12 DEF BufferInv

(* The end of a signal, with a push or without one. *)
LEMMA SignalEndIs ==
  ASSUME NEW d \in DataTypes, NEW pushes \in BOOLEAN
  PROVE  LET t == SignalEnd(d, pushes)
         IN  /\ t \in Seq(Ops) /\ Paired(t) /\ t # << >>
             /\ \A i \in DOMAIN t : t[i][1] # "inject"
             /\ ~pushes => Plain(t)
  <1> DEFINE a == << "push" >>
             b == << "pushed" >>
             c == << "throw" >>
             e == << "end" >>
  <1>1. /\ a \in Ops /\ b \in Ops /\ c \in Ops /\ e \in Ops
        /\ a[1] = "push" /\ b[1] = "pushed" /\ c[1] = "throw" /\ e[1] = "end"
    BY OpsOf
  <1>2. PICK m : m = Missing(d) /\ (m = << >> \/ \E i \in Indicators : m = << << "ind", i >> >>)
    BY MissingPlain
  <1>3. SignalEnd(d, pushes) = (m \o (IF pushes THEN << a, b >> ELSE << c >>)) \o << e >>
    BY <1>2 DEF SignalEnd
  <1> HIDE DEF a, b, c, e
  <1>4. CASE ~pushes
    <2>1. Plain(m) /\ Plain(<< c >>) /\ Plain(<< e >>)
      BY <1>1, <1>2, PlainOne, MissingPlain
    <2>2. Plain((m \o << c >>) \o << e >>)
      BY <2>1, PlainBoth
    <2>3. SignalEnd(d, pushes) = (m \o << c >>) \o << e >>
      BY <1>3, <1>4
    <2>4. SignalEnd(d, pushes) # << >>
      <3>1. m \in Seq(Ops)
        BY <2>1 DEF Plain
      <3> QED BY <1>1, <2>3, <3>1
    <2> QED BY <2>2, <2>3, <2>4 DEF Plain, Paired
  <1>5. CASE pushes
    <2> DEFINE q == m \o << a, b >>
               t == q \o << e >>
               n == Len(m)
    <2>1. Plain(m)
      BY <1>2, PlainOne, MissingPlain
    <2>2. m \in Seq(Ops) /\ n \in Nat
      BY <2>1 DEF Plain
    <2>3. /\ q \in Seq(Ops) /\ Len(q) = n + 2
          /\ \A i \in 1 .. n : q[i] = m[i]
          /\ q[n + 1] = a /\ q[n + 2] = b
      <3> DEFINE u == << a, b >>
      <3>1. u \in Seq(Ops) /\ Len(u) = 2 /\ u[1] = a /\ u[2] = b /\ q = m \o u
        BY <1>1
      <3> HIDE DEF u, q
      <3>2. /\ q \in Seq(Ops) /\ Len(q) = n + Len(u)
            /\ \A i \in 1 .. Len(q) : q[i] = IF i <= n THEN m[i] ELSE u[i - n]
        <4>1. /\ m \o u \in Seq(Ops) /\ Len(m \o u) = Len(m) + Len(u)
              /\ \A i \in 1 .. Len(m) + Len(u) :
                   (m \o u)[i] = IF i <= Len(m) THEN m[i] ELSE u[i - Len(m)]
          BY <2>2, <3>1, ConcatProperties, Zenon
        <4> QED BY ONLY <3>1, <4>1 DEF n
      <3> HIDE DEF n
      <3>3. /\ \A i \in 1 .. n : i \in 1 .. Len(q) /\ i <= n
            /\ n + 1 \in 1 .. Len(q) /\ ~(n + 1 <= n) /\ (n + 1) - n = 1
            /\ n + 2 \in 1 .. Len(q) /\ ~(n + 2 <= n) /\ (n + 2) - n = 2
        BY ONLY <2>2, <3>1, <3>2
      <3> QED BY ONLY <3>1, <3>2, <3>3
    <2> HIDE DEF q
    <2>4. /\ t \in Seq(Ops) /\ Len(t) = n + 3
          /\ \A i \in 1 .. n + 2 : t[i] = q[i]
          /\ t[n + 3] = e
      <3> DEFINE u == << e >>
      <3>1. u \in Seq(Ops) /\ Len(u) = 1 /\ u[1] = e /\ t = q \o u
        BY <1>1
      <3> HIDE DEF u, t, n
      <3>2. /\ t \in Seq(Ops) /\ Len(t) = Len(q) + Len(u)
            /\ \A i \in 1 .. Len(t) : t[i] = IF i <= Len(q) THEN q[i] ELSE u[i - Len(q)]
        <4>1. /\ q \o u \in Seq(Ops) /\ Len(q \o u) = Len(q) + Len(u)
              /\ \A i \in 1 .. Len(q) + Len(u) :
                   (q \o u)[i] = IF i <= Len(q) THEN q[i] ELSE u[i - Len(q)]
          BY <2>3, <3>1, ConcatProperties, Zenon
        <4> QED BY ONLY <3>1, <4>1
      <3>3. /\ \A i \in 1 .. n + 2 : i \in 1 .. Len(t) /\ i <= Len(q)
            /\ n + 3 \in 1 .. Len(t) /\ ~(n + 3 <= Len(q)) /\ (n + 3) - Len(q) = 1
        BY ONLY <2>2, <2>3, <3>1, <3>2
      <3>4. Len(t) = n + 3
        BY ONLY <2>2, <2>3, <3>1, <3>2
      <3> QED BY ONLY <3>1, <3>2, <3>3, <3>4
    <2>5. SignalEnd(d, pushes) = t
      BY <1>3, <1>5 DEF q
    <2> HIDE DEF t
    <2>6. /\ DOMAIN t = 1 .. n + 3 /\ t # << >>
          /\ t[n + 1] = a /\ t[n + 2] = b /\ t[n + 3] = e
          /\ \A i \in DOMAIN t : i \in 1 .. n \/ i = n + 1 \/ i = n + 2 \/ i = n + 3
          /\ \A i \in 1 .. n : t[i] = m[i]
      BY ONLY <2>2, <2>3, <2>4
    <2>7. \A i \in 1 .. n : t[i][1] \notin { "inject", "push", "pushed" }
      BY <2>1, <2>2, <2>6 DEF Plain
    <2> HIDE DEF n
    <2>8. \A i \in DOMAIN t :
            /\ t[i][1] # "inject"
            /\ t[i][1] = "push" => i = n + 1
            /\ t[i][1] = "pushed" => i = n + 2
      BY ONLY <1>1, <2>6, <2>7
    <2>9. (n + 1) + 1 = n + 2 /\ (n + 2) - 1 = n + 1 /\ n + 2 \in 1 .. n + 3
      BY ONLY <2>2
    <2>10. Paired(t)
      BY ONLY <1>1, <2>6, <2>8, <2>9 DEF Paired
    <2> QED BY <1>5, <2>4, <2>5, <2>6, <2>8, <2>10
  <1> QED BY <1>4, <1>5

(* A push begins only when the signal is over. *)
LEMMA EndBegins ==
  ASSUME Types, BufferInv, main.todo = << >>, NEW d \in DataTypes, NEW pushes \in BOOLEAN,
         main'.todo = SignalEnd(d, pushes), nonEcm' \in { nonEcm, Moded },
         UNCHANGED << getting, pushing, collided >>, far'.over
  PROVE  BufferInv' /\ nonEcm' \in NonEcmTypes /\ main'.todo \in Seq(Ops)
  <1>1. Ring(nonEcm') /\ RowsStop' /\ Ending' /\ nonEcm' \in NonEcmTypes
    <2>1. CASE nonEcm' = Moded
      BY <2>1, ModedKeeps
    <2>2. CASE nonEcm' = nonEcm
      BY <2>2 DEF Types, BufferInv, RowsStop, Ending
    <2> QED BY <2>1, <2>2
  <1>2. /\ main'.todo \in Seq(Ops) /\ Paired(main'.todo)
        /\ \A i \in DOMAIN main'.todo : main'.todo[i][1] # "inject"
    BY SignalEndIs
  <1>3. ~pushing
    BY DEF BufferInv, Pushes
  <1>4. Injecting' /\ Pushes' /\ GoingOn'
    BY <1>2, <1>3 DEF Injecting, Pushes, GoingOn
  <1> QED BY <1>1, <1>2, <1>4 DEF BufferInv

-----------------------------------------------------------------------------
(* The invariant is kept: by the main thread,                              *)

LEMMA LookKeeps ==
  ASSUME GatewayInv, Look
  PROVE  GatewayInv'
  <1>1. /\ main' = [main EXCEPT !.same = Same] /\ main.todo # << >> /\ Op \in Asking
        /\ UNCHANGED << hdlc, modem, mode, far, hit, left, nonEcmVars >>
    BY DEF Look
  <1>2. main \in MainTypes /\ Same \in BOOLEAN
    BY DEF GatewayInv, Types, Same
  <1>3. main' \in MainTypes /\ main'.todo = main.todo
    BY <1>1, <1>2 DEF MainTypes
  <1>4. Asked'
    BY <1>1, <1>3 DEF Asked, Op
  <1>5. Types'
    BY <1>1, <1>3, <1>4 DEF GatewayInv, Types, nonEcmVars
  <1>6. BufferInv'
    BY <1>1, <1>3, BufferKept DEF GatewayInv
  <1> QED BY <1>5, <1>6 DEF GatewayInv

LEMMA DoneTypes ==
  ASSUME Types, main.todo # << >>, Done(<< >>)
  PROVE  /\ main' = [todo |-> << >> \o Tail(main.todo), same |-> NONE]
         /\ main' \in MainTypes /\ Asked' /\ UNCHANGED << modem, far, left >>
  <1>1. main' = [todo |-> << >> \o Tail(main.todo), same |-> NONE]
    BY Zenon DEF Done
  <1>2. << >> \o Tail(main.todo) \in Seq(Ops)
    BY TailIs DEF Types, MainTypes
  <1>3. main' \in MainTypes
    BY <1>1, <1>2, Zenon DEF MainTypes
  <1>4. main'.same = NONE
    BY <1>1
  <1> QED BY <1>1, <1>3, <1>4 DEF Asked, Done

LEMMA QueuedKeeps ==
  ASSUME GatewayInv, Queued
  PROVE  GatewayInv'
  <1> DEFINE op == Head(main.todo)
  <1>1. main.todo # << >> /\ main.same # NONE /\ Done(<< >>) /\ UNCHANGED nonEcmVars
    BY DEF Queued
  <1>2. Op \in Asking /\ op \in Ops /\ Op = op[1]
    <2>1. main.todo \in Seq(Ops)
      BY DEF GatewayInv, Types, MainTypes
    <2>2. Op \in Asking
      BY <1>1 DEF GatewayInv, Types, Asked
    <2> QED BY <1>1, <2>1, <2>2, TailIs DEF Op
  <1>3. /\ op[1] = "ind" => op[2] \in Indicators
        /\ op[1] = "data" => op[2] \in Pieces
        /\ op[1] = "fcs" => op[2] \in DataTypes /\ op[4] \in BOOLEAN \union { NONE }
    <2> HIDE DEF op
    <2> QED BY <1>2 DEF Ops
  <1>4. /\ main' = [todo |-> << >> \o Tail(main.todo), same |-> NONE]
        /\ main' \in MainTypes /\ Asked' /\ UNCHANGED << modem, far, left >>
    BY <1>1, DoneTypes DEF GatewayInv
  <1>5. Op \notin { "push", "pushed" }
    BY <1>2 DEF Asking
  <1>6. BufferInv'
    <2>1. UNCHANGED << nonEcmVars, far >>
      BY <1>1, <1>4
    <2> QED BY <1>1, <1>4, <1>5, <2>1, Taken DEF GatewayInv
  <1>7. Queue(hdlc')
    <2>0. Queue(hdlc)
      BY DEF GatewayInv, Types
    <2>1. hdlc' = CASE op[1] = "ind"  -> RxIndicator(hdlc, op[2], main.same)
                    [] op[1] = "end"  ->
                         [RxIndicator(hdlc, "no_signal", main.same)
                            EXCEPT !.field_class = "none"]
                    [] op[1] = "data" -> RxData(hdlc, op[2], main.same)
                    [] op[1] = "fcs"  ->
                         IF ~op[3] /\ op[5] /\ hdlc.buf[hdlc.in].pieces = << >>
                         THEN Reused(hdlc)
                         ELSE Finalise(hdlc, op[2], op[3], main.same)
      BY Zenon DEF Queued
    <2> HIDE DEF op
    <2>2. CASE op[1] = "ind"
      <3>1. hdlc' = RxIndicator(hdlc, op[2], main.same)
        BY <2>1, <2>2
      <3> QED BY <1>3, <2>0, <2>2, <3>1, RxIndicatorQueue
    <2>3. CASE op[1] = "end"
      <3> DEFINE h == RxIndicator(hdlc, "no_signal", main.same)
      <3>1. hdlc' = [h EXCEPT !.field_class = "none"]
        BY <2>1, <2>3
      <3>2. Queue(h)
        BY <2>0, RxIndicatorQueue DEF Indicators
      <3> HIDE DEF h
      <3> QED BY <3>1, <3>2, WithClass
    <2>4. CASE op[1] = "data"
      <3>1. hdlc' = RxData(hdlc, op[2], main.same)
        BY <2>1, <2>4
      <3> QED BY <1>3, <2>0, <2>4, <3>1, RxDataQueue
    <2>5. CASE op[1] = "fcs"
      <3>1. \/ hdlc' = Reused(hdlc)
            \/ hdlc' = Finalise(hdlc, op[2], op[3], main.same)
        BY <2>1, <2>5
      <3> QED BY <1>3, <2>0, <2>5, <3>1, ReusedQueue, FinaliseQueue
    <2> QED BY <1>2, <2>2, <2>3, <2>4, <2>5 DEF Asking
  <1>8. mode' \in [image : BOOLEAN, ecm : BOOLEAN]
    <2>1. mode \in [image : BOOLEAN, ecm : BOOLEAN]
      BY DEF GatewayInv, Types
    <2>2. mode' = IF op[1] = "fcs" THEN Monitored(op) ELSE mode
      BY DEF Queued
    <2>3. Monitored(op) = mode
            \/ (Monitored(op) = [image |-> FALSE, ecm |-> op[4]] /\ op[4] # NONE)
      BY DEF Monitored
    <2> HIDE DEF op
    <2>4. CASE mode' = mode
      BY <2>1, <2>4
    <2>5. CASE op[1] = "fcs" /\ mode' = [image |-> FALSE, ecm |-> op[4]] /\ op[4] # NONE
      <3>1. op[4] \in BOOLEAN
        BY <1>3, <2>5
      <3> QED BY <2>5, <3>1
    <2> QED BY <2>2, <2>3, <2>4, <2>5
  <1>9. hit' \subseteq { "missed", "empty", "behind", "starved" }
    <2>1. Hits(op) \subseteq { "missed", "empty" }
      BY DEF Hits
    <2>2. hit' = hit \union Hits(op)
      BY DEF Queued
    <2> QED BY <2>1, <2>2 DEF GatewayInv, Types
  <1>10. Types'
    BY <1>1, <1>4, <1>7, <1>8, <1>9 DEF GatewayInv, Types, nonEcmVars
  <1> QED BY <1>6, <1>10 DEF GatewayInv

LEMMA InjectedOrPushedKeeps ==
  ASSUME GatewayInv, Injected \/ Pushed
  PROVE  GatewayInv'
  <1>1. /\ main.todo # << >> /\ Done(<< >>) /\ UNCHANGED << hit, hdlc, mode >>
    BY DEF Injected, Pushed
  <1>2. main' \in MainTypes /\ Asked' /\ UNCHANGED << modem, far, left >>
    BY <1>1, DoneTypes DEF GatewayInv
  <1>3. BufferInv' /\ nonEcm' \in NonEcmTypes
    BY InjectedKeeps, PushedKeeps DEF GatewayInv
  <1>4. getting' \in { "no", "empty" } /\ pushing' \in BOOLEAN /\ collided' \in BOOLEAN
    BY DEF GatewayInv, Types, Injected, Pushed, PushAll, PushDone
  <1>5. Types'
    BY <1>1, <1>2, <1>3, <1>4 DEF GatewayInv, Types
  <1> QED BY <1>3, <1>5 DEF GatewayInv

LEMMA ThrowKeeps ==
  ASSUME GatewayInv, Throw
  PROVE  GatewayInv'
  <1>1. /\ main.todo # << >> /\ Op = "throw" /\ Done(<< >>)
        /\ hdlc' = ThrownOut(hdlc) /\ UNCHANGED << hit, mode, nonEcmVars >>
    BY DEF Throw
  <1>2. /\ main' = [todo |-> << >> \o Tail(main.todo), same |-> NONE]
        /\ main' \in MainTypes /\ Asked' /\ UNCHANGED << modem, far, left >>
    BY <1>1, DoneTypes DEF GatewayInv
  <1>3. BufferInv'
    <2>1. UNCHANGED << nonEcmVars, far >> /\ Op \notin { "push", "pushed" }
      BY <1>1, <1>2
    <2> QED BY <1>1, <1>2, <2>1, Taken DEF GatewayInv
  <1>4. Queue(hdlc')
    BY <1>1, ReusedQueue DEF GatewayInv, Types
  <1>5. Types'
    BY <1>1, <1>2, <1>4 DEF GatewayInv, Types, nonEcmVars
  <1> QED BY <1>3, <1>5 DEF GatewayInv

LEMMA MainKeeps ==
  ASSUME GatewayInv, Main
  PROVE  GatewayInv'
  BY LookKeeps, QueuedKeeps, InjectedOrPushedKeeps, ThrowKeeps DEF Main

-----------------------------------------------------------------------------
(* by the fax thread, and by the CFR that it hears,                        *)

LEMMA NextTxTypeKeeps ==
  ASSUME GatewayInv, NextTxType
  PROVE  GatewayInv'
  <1> DEFINE i   == hdlc.buf[hdlc.out].contents[2]
             ecm == mode.image /\ mode.ecm
             B   == [hdlc.buf EXCEPT ![hdlc.out] = Cleared]
             o   == Nxt(hdlc.out)
             t   == IF ecm THEN TxInit ELSE hdlc.tx
             h1  == [hdlc EXCEPT !.buf = B, !.out = o, !.tx = t]
  <1>1. Queue(hdlc) /\ hdlc.out \in Bufs
    BY QueueIs DEF GatewayInv, Types
  <1>2. i \in Indicators
    <2>1. hdlc.buf[hdlc.out].contents \in Contents
      BY <1>1, QueueIs DEF BufTypes
    <2>2. hdlc.buf[hdlc.out].contents # NONE /\ hdlc.buf[hdlc.out].contents[1] = "indicator"
      BY DEF NextTxType, IsInd
    <2> DEFINE c == hdlc.buf[hdlc.out].contents
    <2> HIDE DEF c
    <2>3. c \in Contents /\ c # NONE /\ c[1] = "indicator" => c[2] \in Indicators
      BY DEF Contents, DataTypes
    <2> QED BY <2>1, <2>2, <2>3 DEF c
  <1>3. Frames(B) /\ o \in Bufs /\ t \in TxTypes
    BY <1>1, ClearedSized, QueueIs, BufSet, TxTypesKept
  <1> HIDE DEF i
  <1>4. hdlc' = CASE i = "no_signal" -> h1
                  [] i = "v21_preamble" ->
                       [h1 EXCEPT !.tx = [TxInit EXCEPT !.preamble = TRUE],
                                  !.buf[h1.in].pieces = << >>]
                  [] i = "training" -> [h1 EXCEPT !.tx = TxFlags(@)]
    BY Zenon DEF NextTxType, i
  <1> HIDE DEF B, o, t
  <1>5. Queue(h1)
    <2> DEFINE h0 == [hdlc EXCEPT !.buf = B, !.out = o]
    <2>1. Queue(h0)
      BY <1>1, <1>3, WithBufOut
    <2>2. h1 = [h0 EXCEPT !.tx = t]
      BY <1>1 DEF Queue, HdlcTypes
    <2> HIDE DEF h0, h1
    <2> QED BY <1>3, <2>1, <2>2, WithTx
  <1> HIDE DEF h1
  <1>6. Queue(hdlc')
    <2>1. CASE i = "no_signal"
      BY <1>4, <1>5, <2>1
    <2>2. CASE i = "v21_preamble"
      <3> DEFINE u == [TxInit EXCEPT !.preamble = TRUE]
                 s == [h1.buf[h1.in] EXCEPT !.pieces = << >>]
                 C == [h1.buf EXCEPT ![h1.in] = s]
      <3>1. hdlc' = [h1 EXCEPT !.tx = u, !.buf = C]
        BY <1>4, <2>2
      <3>2. u \in TxTypes
        BY <1>1, QueueIs, TxTypesKept DEF TxTypes
      <3>3. Sized(h1.buf[h1.in]) /\ h1.in \in Bufs /\ Frames(h1.buf)
        BY <1>5, QueueIs, QueueFields
      <3>4. Sized(s)
        <4>1. << >> \in Seq(Pieces) /\ Len(<< >>) = 0 /\ 0 <= MaxLen
          BY QueueAssumption
        <4>2. s \in BufTypes /\ s.pieces = << >>
          BY <3>3, <4>1 DEF Sized, BufTypes
        <4> QED BY <4>1, <4>2 DEF Sized
      <3> HIDE DEF s, u
      <3>5. Frames(C)
        BY <3>3, <3>4, BufSet
      <3> HIDE DEF C
      <3>6. [h1 EXCEPT !.tx = u, !.buf = C] = [h1 EXCEPT !.buf = C, !.tx = u]
        BY <1>5 DEF Queue, HdlcTypes
      <3> QED BY <1>5, <3>1, <3>2, <3>5, <3>6, WithBufTx
    <2>3. CASE i = "training"
      <3> DEFINE u == TxFlags(h1.tx)
      <3>1. hdlc' = [h1 EXCEPT !.tx = u]
        BY <1>4, <2>3
      <3>2. u \in TxTypes
        BY <1>5, QueueIs, TxTypesKept
      <3> HIDE DEF u
      <3> QED BY <1>5, <3>1, <3>2, WithTx
    <2> QED BY <1>2, <2>1, <2>2, <2>3 DEF Indicators
  <1>7. modem' \in ModemTypes
    <2> DEFINE n == CASE i = "no_signal" -> NONE
                      [] i = "v21_preamble" -> "fsk"
                      [] i = "training" -> "fast"
               r == CASE i = "no_signal" -> NONE
                      [] i = "v21_preamble" -> "hdlc"
                      [] i = "training" -> IF ecm THEN "hdlc" ELSE "non_ecm"
    <2>1. modem' = [handler |-> "silence", ended |-> FALSE, next |-> n, src |-> r]
      BY Zenon DEF NextTxType, i
    <2>2. n \in { NONE, "fsk", "fast" } /\ r \in { NONE, "hdlc", "non_ecm" }
      BY <1>2 DEF Indicators
    <2> HIDE DEF n, r
    <2> QED BY <2>1, <2>2 DEF ModemTypes
  <1>8. hit' \subseteq { "missed", "empty", "behind", "starved" }
    BY DEF NextTxType, GatewayInv, Types
  <1>9. UNCHANGED << main, mode, far, left, nonEcmVars >>
    BY DEF NextTxType
  <1>10. Types'
    BY <1>6, <1>7, <1>8, <1>9 DEF GatewayInv, Types, Asked, Op, nonEcmVars
  <1>11. BufferInv'
    BY <1>9, BufferKept DEF GatewayInv
  <1> QED BY <1>10, <1>11 DEF GatewayInv

LEMMA HdlcStepsKeep ==
  ASSUME GatewayInv, HdlcFlagsEnd \/ HdlcOctetsEnd \/ HdlcFrameEnd \/ HdlcTxEnd
  PROVE  GatewayInv'
  <1>1. Queue(hdlc) /\ hdlc.tx \in TxTypes /\ modem \in ModemTypes
    BY QueueIs DEF GatewayInv, Types
  <1>2. UNCHANGED << main, mode, far, nonEcmVars >>
    BY DEF HdlcFlagsEnd, HdlcOctetsEnd, HdlcFrameEnd, HdlcTxEnd
  <1>3. Queue(hdlc')
    <2>1. CASE HdlcFlagsEnd
      BY <1>1, <2>1, PreambleDoneQueue DEF HdlcFlagsEnd
    <2>2. CASE HdlcOctetsEnd
      <3> DEFINE t == [hdlc.tx EXCEPT !.crc = TRUE]
      <3>1. hdlc' = [hdlc EXCEPT !.tx = t]
        BY <2>2 DEF HdlcOctetsEnd
      <3>2. t \in TxTypes
        BY <1>1 DEF TxTypes
      <3> HIDE DEF t
      <3> QED BY <1>1, <3>1, <3>2, WithTx
    <2>3. CASE HdlcFrameEnd
      BY <1>1, <2>3, TxDoneQueue DEF HdlcFrameEnd
    <2>4. CASE HdlcTxEnd
      <3> DEFINE t == [hdlc.tx EXCEPT !.tx_end = FALSE]
      <3>1. hdlc' = [hdlc EXCEPT !.tx = t]
        BY <2>4 DEF HdlcTxEnd
      <3>2. t \in TxTypes
        BY <1>1 DEF TxTypes
      <3> HIDE DEF t
      <3> QED BY <1>1, <3>1, <3>2, WithTx
    <2> QED BY <2>1, <2>2, <2>3, <2>4
  <1>4. modem' \in ModemTypes
    BY <1>1 DEF HdlcFlagsEnd, HdlcOctetsEnd, HdlcFrameEnd, HdlcTxEnd, ModemTypes
  <1>5. hit' \subseteq { "missed", "empty", "behind", "starved" }
    BY DEF GatewayInv, Types, HdlcFlagsEnd, HdlcOctetsEnd, HdlcFrameEnd, HdlcTxEnd
  <1>6. Types'
    BY <1>2, <1>3, <1>4, <1>5 DEF GatewayInv, Types, Asked, Op, nonEcmVars
  <1>7. BufferInv'
    BY <1>2, BufferKept DEF GatewayInv
  <1> QED BY <1>6, <1>7 DEF GatewayInv

LEMMA NonEcmBitsKeeps ==
  ASSUME GatewayInv, NonEcmBits
  PROVE  GatewayInv'
  <1>1. UNCHANGED << hdlc, main, mode, far, hit, left >>
    BY DEF NonEcmBits
  <1>2. modem' \in ModemTypes
    BY DEF NonEcmBits, GatewayInv, Types, ModemTypes
  <1>3. GetOctet \/ (FindEmpty \/ GetFill) \/ GetEnd
    BY DEF NonEcmBits
  <1>4. BufferInv' /\ nonEcm' \in NonEcmTypes
    <2>1. Types /\ BufferInv /\ UNCHANGED << main, far >> /\ nonEcm \in NonEcmTypes
      BY <1>1 DEF GatewayInv, Types
    <2>2. FindEmpty \/ GetFill => UNCHANGED nonEcm
      BY DEF FindEmpty, GetFill
    <2> QED BY <1>3, <2>1, <2>2, GetOctetKeeps, FindEmptyKeeps, EndKeeps
  <1>5. getting' \in { "no", "empty" } /\ pushing' \in BOOLEAN /\ collided' \in BOOLEAN
    BY <1>3 DEF GatewayInv, Types, GetOctet, FindEmpty, GetFill, GetEnd
  <1>6. Types'
    BY <1>1, <1>2, <1>4, <1>5 DEF GatewayInv, Types, Asked, Op
  <1> QED BY <1>4, <1>6 DEF GatewayInv

LEMMA FaxKeeps ==
  ASSUME GatewayInv, Fax \/ HearCfr
  PROVE  GatewayInv'
  <1>1. CASE NextHandler
    <2>1. UNCHANGED << hdlc, main, mode, far, hit, left, nonEcmVars >> /\ modem' \in ModemTypes
      BY <1>1 DEF NextHandler, GatewayInv, Types, ModemTypes
    <2>2. Types' /\ BufferInv'
      BY <2>1, BufferKept DEF GatewayInv, Types, Asked, Op, nonEcmVars
    <2> QED BY <2>2 DEF GatewayInv
  <1>2. CASE HearCfr
    <2>1. /\ UNCHANGED << hdlc, main, modem, far, hit, left, nonEcmVars >>
          /\ mode' \in [image : BOOLEAN, ecm : BOOLEAN]
      BY <1>2 DEF HearCfr, GatewayInv, Types
    <2>2. Types' /\ BufferInv'
      BY <2>1, BufferKept DEF GatewayInv, Types, Asked, Op, nonEcmVars
    <2> QED BY <2>2 DEF GatewayInv
  <1> QED BY <1>1, <1>2, NextTxTypeKeeps, HdlcStepsKeep, NonEcmBitsKeeps DEF Fax

-----------------------------------------------------------------------------
(* and by the far end and the network.                                     *)

(* What a packet leaves alone, and what the network makes of it.  A signal *)
(* of data that is not over was not over before, or begins when all that   *)
(* came before has left.                                                   *)
After(after) ==
  /\ after \in FarTypes
  /\ after.sig \in NonEcms /\ ~after.over => (far.sig \in NonEcms /\ ~far.over) \/ Drained

Came(after) ==
  /\ main.todo = << >> /\ UNCHANGED << modem, mode, hit, left, getting, pushing, collided >>
  /\ far' \in FarTypes /\ far'.sig = after.sig /\ far'.over = after.over

LEMMA PacketIs ==
  ASSUME GatewayInv, NEW after \in FarTypes, NEW handled, Packet(after, handled)
  PROVE  Came(after) /\ (handled \/ UNCHANGED << hdlc, main, nonEcm >>)
  <1> DEFINE come == [after EXCEPT !.gap = FALSE]
             k    == after.lost + 1
             gone == [after EXCEPT !.gap = TRUE, !.lost = k,
                                   !.heard = far.heard, !.headless = far.headless]
  <1>1. come \in FarTypes /\ come.sig = after.sig /\ come.over = after.over
    BY DEF FarTypes
  <1>2. gone \in FarTypes /\ gone.sig = after.sig /\ gone.over = after.over
    <2>1. k \in Nat /\ far.heard \in Nat /\ far.headless \in SUBSET Nat
      BY DEF FarTypes, GatewayInv, Types
    <2> HIDE DEF k
    <2> QED BY <2>1 DEF FarTypes
  <1>3. \/ far' = come /\ handled
        \/ far' = gone /\ UNCHANGED << hdlc, main, nonEcm >>
    BY DEF Packet
  <1>4. /\ main.todo = << >>
        /\ UNCHANGED << modem, mode, hit, left, getting, pushing, collided >>
    BY DEF Packet
  <1> HIDE DEF come, gone
  <1> QED BY <1>1, <1>2, <1>3, <1>4 DEF Came

(* A packet that touches the queue only. *)
LEMMA PlainKeeps ==
  ASSUME GatewayInv, NEW after, After(after), Came(after), UNCHANGED nonEcm,
         Queue(hdlc'), main' \in MainTypes, Asked', Plain(main'.todo)
  PROVE  GatewayInv'
  <1>1. UNCHANGED nonEcmVars /\ main.todo = << >>
    BY DEF Came, nonEcmVars
  <1>2. BufferInv'
    <2>1. far'.sig \in NonEcms /\ ~far'.over => (far.sig \in NonEcms /\ ~far.over) \/ Drained
      BY DEF After, Came
    <2> QED BY <1>1, <2>1, PlainBegins DEF GatewayInv
  <1>3. Types'
    BY DEF GatewayInv, Types, Came
  <1> QED BY <1>2, <1>3 DEF GatewayInv

LEMMA LostKeeps ==
  ASSUME GatewayInv, NEW after, After(after), Came(after), UNCHANGED << hdlc, main, nonEcm >>
  PROVE  GatewayInv'
  <1>1. Queue(hdlc') /\ main' \in MainTypes /\ main'.todo = << >>
    BY DEF Came, GatewayInv, Types
  <1>2. Asked'
    BY DEF Asked, Op, GatewayInv, Types
  <1> QED BY <1>1, <1>2, PlainOne, PlainKeeps

LEMMA DoIs ==
  ASSUME NEW ops \in Seq(Ops), ops # << >>, Do(ops)
  PROVE  main' \in MainTypes /\ Asked' /\ main'.todo = ops
  <1>1. main' = [todo |-> ops, same |-> IF Head(ops)[1] \in Asking THEN Same ELSE NONE]
    BY Zenon DEF Do
  <1>2. main'.todo = ops /\ main' \in MainTypes
    BY <1>1 DEF MainTypes, Same
  <1>3. Asked'
    BY <1>1, <1>2 DEF Asked, Op
  <1> QED BY <1>2, <1>3

LEMMA IndicatorKeeps ==
  ASSUME GatewayInv, NEW after, After(after), NEW i \in Indicators, Indicator(after, i)
  PROVE  GatewayInv'
  <1> DEFINE op == << "ind", i >>
             handled == /\ hdlc' = Seen(NONE) /\ UNCHANGED nonEcm
                        /\ IF hdlc.current_rx_indicator = i THEN UNCHANGED main
                           ELSE Do(<< << "ind", i >> >>)
  <1>1. Packet(after, handled)
    BY DEF Indicator
  <1>2. Came(after) /\ (handled \/ UNCHANGED << hdlc, main, nonEcm >>)
    <2> HIDE DEF handled
    <2> QED BY <1>1, PacketIs DEF After
  <1>3. CASE UNCHANGED << hdlc, main, nonEcm >>
    BY <1>2, <1>3, LostKeeps
  <1>4. CASE handled
    <2>1. Queue(hdlc')
      BY <1>4, SeenQueue DEF Packets, GatewayInv, Types
    <2>2. CASE UNCHANGED main
      <3>1. main' \in MainTypes /\ main'.todo = << >> /\ Asked'
        BY <1>2, <2>2 DEF Came, GatewayInv, Types, Asked, Op
      <3> QED BY <1>2, <1>4, <2>1, <3>1, PlainOne, PlainKeeps
    <2>3. CASE Do(<< op >>)
      <3>1. op \in Ops /\ op[1] = "ind"
        BY OpsOf
      <3> HIDE DEF op
      <3>2. Plain(<< op >>) /\ << op >> \in Seq(Ops) /\ << op >> # << >>
        BY <3>1, PlainOne
      <3>3. main' \in MainTypes /\ Asked' /\ main'.todo = << op >>
        BY <2>3, <3>2, DoIs
      <3> QED BY <1>2, <1>4, <2>1, <3>2, <3>3, PlainKeeps
    <2> QED BY <1>4, <2>2, <2>3
  <1> QED BY <1>2, <1>3, <1>4

LEMMA HdlcDataKeeps ==
  ASSUME GatewayInv, NEW after, After(after), NEW p \in Pieces, HdlcData(after, p)
  PROVE  GatewayInv'
  <1> DEFINE op  == << "data", p >>
             ops == Append(Missing(p.d), op)
             handled == /\ hdlc' = [Seen(<< p.d, "data" >>) EXCEPT !.field_class = "hdlc"]
                        /\ Do(Append(Missing(p.d), << "data", p >>))
                        /\ UNCHANGED nonEcm
  <1>1. Packet(after, handled)
    BY DEF HdlcData
  <1>2. Came(after) /\ (handled \/ UNCHANGED << hdlc, main, nonEcm >>)
    <2> HIDE DEF handled
    <2> QED BY <1>1, PacketIs DEF After
  <1>3. CASE UNCHANGED << hdlc, main, nonEcm >>
    BY <1>2, <1>3, LostKeeps
  <1>4. CASE handled
    <2>1. p.d \in DataTypes /\ << p.d, "data" >> \in Packets
      BY DEF Pieces, Packets
    <2>2. Queue(hdlc')
      <3>1. Queue(Seen(<< p.d, "data" >>))
        BY <2>1, SeenQueue DEF GatewayInv, Types
      <3>2. hdlc' = [Seen(<< p.d, "data" >>) EXCEPT !.field_class = "hdlc"]
        BY <1>4
      <3> DEFINE h == Seen(<< p.d, "data" >>)
      <3>3. Queue(h) /\ hdlc' = [h EXCEPT !.field_class = "hdlc"]
        BY <3>1, <3>2
      <3> HIDE DEF h
      <3> QED BY <3>3, WithClass
    <2>3. op \in Ops /\ op[1] = "data"
      BY OpsOf
    <2> HIDE DEF op
    <2>4. Plain(ops) /\ ops \in Seq(Ops) /\ ops # << >>
      <3>1. Plain(Missing(p.d)) /\ Plain(<< op >>)
        BY <2>1, <2>3, PlainOne, MissingPlain
      <3>2. Plain(Missing(p.d) \o << op >>)
        BY <3>1, PlainBoth
      <3>3. Missing(p.d) \in Seq(Ops)
        BY <3>1 DEF Plain
      <3> DEFINE q == Missing(p.d)
      <3> HIDE DEF q
      <3>4. q \in Seq(Ops) => Append(q, op) = q \o << op >> /\ Append(q, op) # << >>
        BY <2>3
      <3> QED BY <3>2, <3>3, <3>4 DEF q, Plain
    <2>5. main' \in MainTypes /\ Asked' /\ main'.todo = ops
      <3>1. Do(ops)
        BY <1>4 DEF op
      <3> HIDE DEF ops
      <3> QED BY <2>4, <3>1, DoIs
    <2>6. Plain(main'.todo)
      BY <2>4, <2>5
    <2> QED BY <1>2, <1>4, <2>2, <2>5, <2>6, PlainKeeps
  <1> QED BY <1>2, <1>3, <1>4

LEMMA HdlcFcsKeeps ==
  ASSUME GatewayInv, NEW after, After(after), NEW d \in DataTypes,
         NEW good \in BOOLEAN, NEW end \in BOOLEAN, NEW dcs \in BOOLEAN \union { NONE },
         HdlcFcs(after, d, good, end, dcs)
  PROVE  GatewayInv'
  <1> DEFINE field == << d, "fcs", good, end >>
             empty == ~good /\ ~end /\ hdlc.buf[hdlc.in].pieces = << >>
             op  == FcsOp(d, good, end, dcs)
             e   == << "end" >>
             m   == IF empty THEN << >> ELSE Missing(d)
             n   == IF end THEN << e >> ELSE << >>
             ops == m \o << op >> \o n
             handled == /\ hdlc' = [Seen(field) EXCEPT !.field_class = "hdlc"]
                        /\ IF hdlc.last = field THEN UNCHANGED main ELSE Do(ops)
                        /\ UNCHANGED nonEcm
  <1>1. Packet(after, handled)
    BY DEF HdlcFcs
  <1>2. Came(after) /\ (handled \/ UNCHANGED << hdlc, main, nonEcm >>)
    <2> HIDE DEF handled
    <2> QED BY <1>1, PacketIs DEF After
  <1>3. CASE UNCHANGED << hdlc, main, nonEcm >>
    BY <1>2, <1>3, LostKeeps
  <1>4. CASE handled
    <2>1. field \in Packets
      BY DEF Packets
    <2>2. op \in Ops /\ op[1] = "fcs" /\ e \in Ops /\ e[1] = "end"
      BY OpsOf, FcsOpIs
    <2>3. hdlc' = [Seen(field) EXCEPT !.field_class = "hdlc"] /\ (UNCHANGED main \/ Do(ops))
      BY <1>4
    <2> HIDE DEF field, op, e, empty
    <2>4. Queue(hdlc')
      <3> DEFINE h == Seen(field)
      <3>1. Queue(h) /\ hdlc' = [h EXCEPT !.field_class = "hdlc"]
        BY <2>1, <2>3, SeenQueue DEF GatewayInv, Types
      <3> HIDE DEF h
      <3> QED BY <3>1, WithClass
    <2>5. Plain(m) /\ Plain(<< op >>) /\ Plain(n)
      <3>1. Plain(<< >>) /\ Plain(Missing(d)) /\ Plain(<< op >>) /\ Plain(<< e >>)
        BY <2>2, PlainOne, MissingPlain
      <3> QED BY ONLY <3>1
    <2> HIDE DEF m, n
    <2>6. Plain(ops) /\ ops \in Seq(Ops) /\ ops # << >>
      <3>1. Plain(m \o << op >>) /\ Plain(ops)
        BY <2>5, PlainBoth
      <3>2. m \in Seq(Ops) /\ n \in Seq(Ops) /\ << op >> \in Seq(Ops) /\ << op >> # << >>
        BY <2>5 DEF Plain
      <3> DEFINE u == << op >>
      <3>3. u \in Seq(Ops) /\ u # << >>
        BY <3>2
      <3>4. ops = (m \o u) \o n
        OBVIOUS
      <3> HIDE DEF u
      <3>5. (m \o u) \o n # << >>
        <4>1. m \o u \in Seq(Ops) /\ m \o u # << >>
          BY <3>2, <3>3, ConcatEqualIffEmpty
        <4> QED BY <3>2, <4>1, ConcatEqualIffEmpty
      <3> QED BY <3>1, <3>4, <3>5 DEF Plain
    <2> HIDE DEF ops
    <2>7. CASE UNCHANGED main
      <3>1. main' \in MainTypes /\ main'.todo = << >> /\ Asked'
        BY <1>2, <2>7 DEF Came, GatewayInv, Types, Asked, Op
      <3> QED BY <1>2, <1>4, <2>4, <3>1, PlainOne, PlainKeeps
    <2>8. CASE Do(ops)
      <3>1. main' \in MainTypes /\ Asked' /\ main'.todo = ops
        BY <2>6, <2>8, DoIs
      <3>2. Plain(main'.todo)
        BY <2>6, <3>1
      <3> QED BY <1>2, <1>4, <2>4, <3>1, <3>2, PlainKeeps
    <2> QED BY <2>3, <2>7, <2>8
  <1> QED BY <1>2, <1>3, <1>4

LEMMA NonEcmDataKeeps ==
  ASSUME GatewayInv, NEW after, After(after), NEW x \in Octets, NonEcmData(after, x),
         far.sig \in NonEcms, ~far.over, after.sig = far.sig, after.over = far.over
  PROVE  GatewayInv'
  <1> DEFINE field == << "fast", "t4" >>
             handled == /\ hdlc' = [Seen(<< "fast", "t4" >>) EXCEPT !.field_class = "non_ecm"]
                        /\ nonEcm' = Moded
                        /\ Do(Append(Missing("fast"), << "inject", x >>))
  <1>1. Packet(after, handled) /\ Room(nonEcm, x)
    BY DEF NonEcmData
  <1>2. Came(after) /\ (handled \/ UNCHANGED << hdlc, main, nonEcm >>)
    <2> HIDE DEF handled
    <2> QED BY <1>1, PacketIs DEF After
  <1>3. CASE UNCHANGED << hdlc, main, nonEcm >>
    BY <1>2, <1>3, LostKeeps
  <1>4. CASE handled
    <2>1. Queue(hdlc')
      <3> DEFINE h == Seen(field)
      <3>1. field \in Packets
        BY DEF Packets, DataTypes
      <3>2. Queue(h) /\ hdlc' = [h EXCEPT !.field_class = "non_ecm"]
        BY <1>4, <3>1, SeenQueue DEF GatewayInv, Types
      <3> HIDE DEF h
      <3> QED BY <3>2, WithClass
    <2> DEFINE op  == << "inject", x >>
               q   == Missing("fast")
               ops == Append(q, op)
    <2>2. ops \in Seq(Ops) /\ ops # << >>
      <3>1. q \in Seq(Ops) /\ op \in Ops
        BY OpsOf, MissingPlain DEF Plain, DataTypes
      <3> HIDE DEF op, q
      <3> QED BY <3>1
    <2>3. main' \in MainTypes /\ Asked' /\ main'.todo = ops
      <3>1. Do(ops)
        BY <1>4
      <3> HIDE DEF ops
      <3> QED BY <2>2, <3>1, DoIs
    <2>4. main.todo = << >> /\ UNCHANGED << getting, pushing, collided >>
          /\ far'.sig = far.sig /\ far'.over = far.over
      BY <1>2 DEF Came
    <2>5. BufferInv' /\ nonEcm' \in NonEcmTypes
      <3>1. nonEcm' = Moded
        BY <1>4
      <3> QED BY <1>1, <2>3, <2>4, <3>1, InjectBegins DEF GatewayInv
    <2>6. Types'
      BY <1>2, <2>1, <2>3, <2>5 DEF GatewayInv, Types, Came
    <2> QED BY <2>5, <2>6 DEF GatewayInv
  <1> QED BY <1>2, <1>3, <1>4

(* The end of a signal, in either of its two forms. *)
LEMMA EndKeepsInv ==
  ASSUME GatewayInv, NEW after, After(after), Came(after), after.over,
         NEW d \in DataTypes, NEW pushes \in BOOLEAN, NEW p \in Packets,
         hdlc' = Seen(p), UNCHANGED main \/ Do(SignalEnd(d, pushes)),
         nonEcm' \in { nonEcm, Moded }
  PROVE  GatewayInv'
  <1>1. Queue(hdlc')
    BY SeenQueue DEF GatewayInv, Types
  <1>2. main.todo = << >> /\ UNCHANGED << getting, pushing, collided >> /\ far'.over
    BY DEF Came
  <1>3. CASE Do(SignalEnd(d, pushes))
    <2>1. main' \in MainTypes /\ Asked' /\ main'.todo = SignalEnd(d, pushes)
      BY <1>3, SignalEndIs, DoIs
    <2>2. BufferInv' /\ nonEcm' \in NonEcmTypes
      BY <1>2, <2>1, EndBegins DEF GatewayInv
    <2> QED BY <1>1, <2>1, <2>2 DEF GatewayInv, Types, Came
  <1>4. CASE UNCHANGED main
    <2>1. /\ main' \in MainTypes /\ Asked' /\ main'.todo = << >>
      BY <1>2, <1>4 DEF GatewayInv, Types, Asked, Op
    <2>2. Ring(nonEcm') /\ RowsStop' /\ Ending' /\ nonEcm' \in NonEcmTypes
      <3>1. CASE nonEcm' = Moded
        BY <1>2, <3>1, ModedKeeps DEF GatewayInv
      <3>2. CASE nonEcm' = nonEcm
        BY <1>2, <3>2 DEF GatewayInv, Types, BufferInv, RowsStop, Ending
      <3> QED BY <3>1, <3>2
    <2>3. ~pushing
      BY <1>2 DEF GatewayInv, BufferInv, Pushes
    <2>4. Injecting' /\ Pushes' /\ GoingOn'
      BY <1>2, <2>1, <2>3 DEF Injecting, Pushes, Paired, GoingOn
    <2> QED BY <1>1, <2>1, <2>2, <2>4 DEF GatewayInv, Types, BufferInv, Came
  <1> QED BY <1>3, <1>4

LEMMA NonEcmEndKeeps ==
  ASSUME GatewayInv, NEW after, After(after), after.over, NonEcmEnd(after)
  PROVE  GatewayInv'
  <1> DEFINE field == << "fast", "t4_end" >>
             pushes == hdlc.field_class = "non_ecm"
             handled == /\ hdlc' = Seen(field) /\ nonEcm' = Moded
                        /\ IF hdlc.last = field THEN UNCHANGED main
                           ELSE Do(SignalEnd("fast", hdlc.field_class = "non_ecm"))
  <1>1. Packet(after, handled)
    BY DEF NonEcmEnd
  <1>2. Came(after) /\ (handled \/ UNCHANGED << hdlc, main, nonEcm >>)
    <2> HIDE DEF handled
    <2> QED BY <1>1, PacketIs DEF After
  <1>3. CASE UNCHANGED << hdlc, main, nonEcm >>
    BY <1>2, <1>3, LostKeeps
  <1>4. CASE handled
    <2>1. field \in Packets /\ "fast" \in DataTypes
      BY DEF Packets, DataTypes
    <2>2. /\ hdlc' = Seen(field) /\ nonEcm' \in { nonEcm, Moded }
          /\ UNCHANGED main \/ Do(SignalEnd("fast", pushes))
      BY <1>4
    <2>3. pushes \in BOOLEAN
      OBVIOUS
    <2> HIDE DEF field, pushes
    <2> QED BY <1>2, <2>1, <2>2, <2>3, EndKeepsInv
  <1> QED BY <1>2, <1>3, <1>4

LEMMA HdlcEndKeeps ==
  ASSUME GatewayInv, NEW after, After(after), after.over, NEW d \in DataTypes,
         HdlcEnd(after, d)
  PROVE  GatewayInv'
  <1> DEFINE field == << d, "sig_end" >>
             pushes == Missing(d) = << >> /\ hdlc.field_class = "non_ecm"
             handled == /\ hdlc' = Seen(field) /\ UNCHANGED nonEcm
                        /\ IF hdlc.last = field THEN UNCHANGED main
                           ELSE Do(SignalEnd(d, Missing(d) = << >>
                                                /\ hdlc.field_class = "non_ecm"))
  <1>1. Packet(after, handled)
    BY DEF HdlcEnd
  <1>2. Came(after) /\ (handled \/ UNCHANGED << hdlc, main, nonEcm >>)
    <2> HIDE DEF handled
    <2> QED BY <1>1, PacketIs DEF After
  <1>3. CASE UNCHANGED << hdlc, main, nonEcm >>
    BY <1>2, <1>3, LostKeeps
  <1>4. CASE handled
    <2>1. field \in Packets
      BY DEF Packets
    <2>2. /\ hdlc' = Seen(field) /\ nonEcm' \in { nonEcm, Moded }
          /\ UNCHANGED main \/ Do(SignalEnd(d, pushes))
      BY <1>4
    <2>3. pushes \in BOOLEAN
      OBVIOUS
    <2> HIDE DEF field, pushes
    <2> QED BY <1>2, <2>1, <2>2, <2>3, EndKeepsInv
  <1> QED BY <1>2, <1>3, <1>4

LEMMA BeginKeeps ==
  ASSUME GatewayInv, Begin
  PROVE  GatewayInv'
  <1>1. PICK sig \in Hdlcs \union NonEcms :
          /\ MaySend(sig)
          /\ Indicator([far EXCEPT !.sig = sig, !.n = @ + 1, !.data = @ + 2, !.k = 0,
                                   !.whole = FALSE, !.over = FALSE, !.heard = far.n + 1,
                                   !.f = IF sig \in Hdlcs THEN @ + 1 ELSE @],
                       Expected(TypeOf(sig)))
    BY DEF Begin
  <1> DEFINE n == far.n + 1
             data == far.data + 2
             f == IF sig \in Hdlcs THEN far.f + 1 ELSE far.f
             after == [far EXCEPT !.sig = sig, !.n = n, !.data = data, !.k = 0,
                                  !.whole = FALSE, !.over = FALSE, !.heard = n, !.f = f]
             i == Expected(TypeOf(sig))
  <1>2. Indicator(after, i)
    BY <1>1
  <1>3. i \in Indicators
    BY DEF Expected, Indicators
  <1>4. far \in FarTypes
    BY DEF GatewayInv, Types
  <1>5. n \in Nat /\ data \in Nat /\ f \in Nat
    BY <1>4 DEF FarTypes
  <1> HIDE DEF n, data, f, i
  <1>6. after \in FarTypes /\ after.sig = sig
    BY <1>4, <1>5 DEF FarTypes
  <1>7. sig \in NonEcms => Drained
    BY <1>1 DEF NonEcms, MaySend
  <1> HIDE DEF after
  <1>8. After(after)
    BY <1>6, <1>7 DEF After
  <1> QED BY <1>2, <1>3, <1>8, IndicatorKeeps

LEMMA SendPieceKeeps ==
  ASSUME GatewayInv, SendPiece
  PROVE  GatewayInv'
  <1>1. PICK last \in BOOLEAN, ff \in BOOLEAN :
          HdlcData([far EXCEPT !.k = @ + 1, !.data = @ + 2, !.whole = last, !.heard = far.n,
                               !.headless = IF ff /\ far.k > 0 /\ far.heard # far.n
                                            THEN @ \union { far.f } ELSE @],
                   [f |-> far.f, k |-> far.k + 1, last |-> last, d |-> TypeOf(far.sig),
                    ff |-> ff])
    BY DEF SendPiece
  <1> DEFINE k == far.k + 1
             data == far.data + 2
             d == TypeOf(far.sig)
             less == IF ff /\ far.k > 0 /\ far.heard # far.n
                     THEN far.headless \union { far.f } ELSE far.headless
             after == [far EXCEPT !.k = k, !.data = data, !.whole = last, !.heard = far.n,
                                  !.headless = less]
             p == [f |-> far.f, k |-> k, last |-> last, d |-> d, ff |-> ff]
  <1>2. HdlcData(after, p) /\ far.sig \in Hdlcs
    BY <1>1 DEF SendPiece
  <1>3. far \in FarTypes
    BY DEF GatewayInv, Types
  <1>4. /\ k \in Nat /\ data \in Nat /\ far.f \in Nat /\ d \in DataTypes
        /\ less \in SUBSET Nat /\ far.n \in Nat
    BY <1>3 DEF FarTypes, TypeOf, DataTypes
  <1> HIDE DEF k, data, d, less
  <1>5. p \in Pieces
    BY <1>4 DEF Pieces
  <1>6. after \in FarTypes /\ after.sig = far.sig
    BY <1>3, <1>4 DEF FarTypes
  <1> HIDE DEF after, p
  <1>7. After(after)
    BY <1>2, <1>6 DEF After, Hdlcs, NonEcms
  <1> QED BY <1>2, <1>5, <1>7, HdlcDataKeeps

LEMMA SendFcsKeeps ==
  ASSUME GatewayInv, SendFcs
  PROVE  GatewayInv'
  <1>1. PICK good, end \in BOOLEAN, dcs \in BOOLEAN \union { NONE } :
          HdlcFcs([far EXCEPT !.k = 0, !.whole = FALSE, !.over = end,
                              !.f = IF end THEN @ ELSE @ + 1,
                              !.spoilt = IF good THEN @ ELSE @ \union { far.f },
                              !.dcs = dcs # NONE],
                  TypeOf(far.sig), good, end, dcs)
    BY DEF SendFcs
  <1> DEFINE f == IF end THEN far.f ELSE far.f + 1
             spoilt == IF good THEN far.spoilt ELSE far.spoilt \union { far.f }
             has == dcs # NONE
             d == TypeOf(far.sig)
             after == [far EXCEPT !.k = 0, !.whole = FALSE, !.over = end, !.f = f,
                                  !.spoilt = spoilt, !.dcs = has]
  <1>2. HdlcFcs(after, d, good, end, dcs) /\ far.sig \in Hdlcs
    BY <1>1 DEF SendFcs
  <1>3. far \in FarTypes
    BY DEF GatewayInv, Types
  <1>4. f \in Nat /\ spoilt \in SUBSET Nat /\ has \in BOOLEAN /\ d \in DataTypes
    BY <1>3 DEF FarTypes, TypeOf, DataTypes
  <1> HIDE DEF f, spoilt, has, d
  <1>5. after \in FarTypes /\ after.sig = far.sig
    BY <1>3, <1>4 DEF FarTypes
  <1> HIDE DEF after
  <1>6. After(after)
    BY <1>2, <1>5 DEF After, Hdlcs, NonEcms
  <1> QED BY <1>2, <1>4, <1>6, HdlcFcsKeeps

LEMMA ContinueKeeps ==
  ASSUME GatewayInv, Continue
  PROVE  GatewayInv'
  <1>1. far \in FarTypes
    BY DEF GatewayInv, Types
  <1>2. CASE SendHdlcEnd \/ SendNonEcmEnd
    <2> DEFINE after == [far EXCEPT !.over = TRUE]
    <2>1. After(after) /\ after.over
      BY <1>1 DEF After, FarTypes
    <2>2. TypeOf(far.sig) \in DataTypes /\ "fast" \in DataTypes
      BY DEF TypeOf, DataTypes
    <2>3. HdlcEnd(after, TypeOf(far.sig)) \/ HdlcEnd(after, "fast") \/ NonEcmEnd(after)
      BY <1>2 DEF SendHdlcEnd, SendNonEcmEnd
    <2> HIDE DEF after
    <2> QED BY <2>1, <2>2, <2>3, HdlcEndKeeps, NonEcmEndKeeps
  <1>3. CASE SendOctet
    <2> DEFINE k == far.k + 1
               data == far.data + 1
               after == [far EXCEPT !.k = k, !.data = data]
    <2>1. PICK x \in Octets : NonEcmData(after, x)
      BY <1>3 DEF SendOctet
    <2>2. k \in Nat /\ data \in Nat /\ far.sig \in NonEcms /\ ~far.over
      BY <1>1, <1>3 DEF FarTypes, SendOctet
    <2> HIDE DEF k, data
    <2>3. after \in FarTypes /\ after.sig = far.sig /\ after.over = far.over
      BY <1>1, <2>2 DEF FarTypes
    <2> HIDE DEF after
    <2>4. After(after)
      BY <2>2, <2>3 DEF After
    <2> QED BY <2>1, <2>2, <2>3, <2>4, NonEcmDataKeeps
  <1>4. CASE SendNoSignal
    <2> DEFINE after == [far EXCEPT !.sig = NONE]
    <2>1. after \in FarTypes /\ after.over
      BY <1>1, <1>4 DEF SendNoSignal, FarTypes
    <2>2. Indicator(after, "no_signal") /\ "no_signal" \in Indicators
      BY <1>4 DEF SendNoSignal, Indicators
    <2> HIDE DEF after
    <2>3. After(after)
      BY <2>1 DEF After
    <2> QED BY <2>2, <2>3, IndicatorKeeps
  <1> QED BY <1>2, <1>3, <1>4, SendPieceKeeps, SendFcsKeeps DEF Continue

-----------------------------------------------------------------------------
(* The theorems.                                                           *)

LEMMA GatewayInvInit == GwInit => GatewayInv
  <1> SUFFICES ASSUME GwInit PROVE GatewayInv
    OBVIOUS
  <1>1. PICK page \in BOOLEAN, ecm \in BOOLEAN :
          mode = [image |-> page, ecm |-> ecm] /\ NonEcmInit(page /\ ~ecm)
    BY DEF GwInit
  <1> DEFINE image == page /\ ~ecm
  <1>2. getting = "no" /\ pushing = FALSE /\ collided = FALSE /\ main = Idle
    BY <1>1 DEF GwInit, NonEcmInit
  <1>3. nonEcm \in NonEcmTypes /\ Ring(nonEcm) /\ RowsStop /\ Ending /\ ~nonEcm.data_finished
    <2> DEFINE data == [i \in Slots |-> [n |-> 0, is |-> "pad"]]
               b == [data |-> data,
                     in_ptr |-> 0, out_ptr |-> 0, latest_eol_ptr |-> 0,
                     row_bits |-> 0, zeros |-> 0, since |-> 0,
                     input_phase |-> "all_ones", data_finished |-> FALSE,
                     image_data_mode |-> image, stored |-> 0, due |-> 0]
    <2>1. nonEcm = Restart(b)
      BY <1>1 DEF NonEcmInit
    <2>2. data \in [Slots -> [n : Nat, is : Kinds]] /\ 0 \in Slots
      BY Lengths DEF Kinds, Slots
    <2> HIDE DEF data
    <2>3. b \in NonEcmTypes
      BY <2>2 DEF NonEcmTypes, Phases
    <2> HIDE DEF b
    <2>4. /\ nonEcm \in NonEcmTypes /\ Ring(nonEcm) /\ nonEcm.input_phase # "in_progress"
          /\ ~nonEcm.data_finished
      BY <2>1, <2>3, RestartIs
    <2> QED BY <1>2, <2>4 DEF RowsStop, Ending
  <1>4. main.todo = << >> /\ main.same = NONE /\ main \in MainTypes
    <2>1. << >> \in Seq(Ops)
      OBVIOUS
    <2> QED BY <1>2, <2>1 DEF Idle, MainTypes
  <1>5. Injecting /\ Pushes /\ GoingOn /\ Asked
    BY <1>2, <1>3, <1>4 DEF Injecting, Pushes, Paired, GoingOn, ToDo, Asked
  <1>6. Queue(hdlc)
    <2> DEFINE B == [i \in Bufs |-> Cleared]
    <2>1. hdlc = [buf |-> B, in |-> 0, out |-> 0, tx |-> TxInit,
                  current_rx_indicator |-> NONE, field_class |-> "none", last |-> NONE]
      BY DEF GwInit, HdlcInit
    <2>2. Frames(B) /\ 0 \in Bufs
      BY ClearedSized, QueueAssumption DEF Frames, Sized, Bufs
    <2>3. TxInit \in TxTypes
      <3>1. << >> \in Seq(Pieces)
        OBVIOUS
      <3> QED BY <3>1 DEF TxInit, TxTypes
    <2>4. NONE \in Packets /\ NONE \in Indicators \union { NONE }
      BY DEF Packets
    <2> HIDE DEF B
    <2> QED BY <2>1, <2>2, <2>3, <2>4, QueueOf
  <1>7. far \in FarTypes
    BY DEF GwInit, FarTypes
  <1>8. /\ modem \in ModemTypes /\ mode \in [image : BOOLEAN, ecm : BOOLEAN]
        /\ hit \subseteq { "missed", "empty", "behind", "starved" }
    BY <1>1 DEF GwInit, ModemTypes
  <1> QED BY <1>2, <1>3, <1>4, <1>5, <1>6, <1>7, <1>8 DEF GatewayInv, Types, BufferInv

LEMMA StutterKeeps == GatewayInv /\ UNCHANGED gwVars => GatewayInv'
  <1> SUFFICES ASSUME GatewayInv, UNCHANGED gwVars PROVE GatewayInv'
    OBVIOUS
  <1>1. UNCHANGED << hdlc, main, modem, mode, far, hit, left, nonEcmVars >>
    BY DEF gwVars
  <1>2. Types' /\ BufferInv'
    BY <1>1, BufferKept DEF GatewayInv, Types, Asked, Op, nonEcmVars
  <1> QED BY <1>2 DEF GatewayInv

(* What the buffer without a lock rests on holds in every state: the        *)
(* pointers are the counts of octets reduced, the octets between them are   *)
(* there, rows are held back, and a push begins only when the signal is over *)
(* and ends before anything else comes.                                     *)
THEOREM GatewayInvariance == GwSpec => []GatewayInv
  <1>1. GwInit => GatewayInv
    BY GatewayInvInit
  <1>2. GatewayInv /\ [GwNext]_gwVars => GatewayInv'
    BY MainKeeps, FaxKeeps, BeginKeeps, ContinueKeeps, StutterKeeps DEF GwNext
  <1> QED BY <1>1, <1>2, PTL DEF GwSpec

(* t38_non_ecm_buffer_inject and t38_non_ecm_buffer_get_bit: the octet the  *)
(* modem takes is the next in the order of arrival, and the modem ends only *)
(* when all of them have left, unless the push came between two reads.      *)
THEOREM OctetsLeaveInOrder == GwSpec => []OctetsInOrder
  <1>1. GatewayInv => OctetsInOrder
    <2> SUFFICES ASSUME GatewayInv PROVE OctetsInOrder
      OBVIOUS
    <2> DEFINE b == nonEcm
    <2>1. /\ BufLen \in Nat /\ BufLen > 3 /\ b.stored \in Nat /\ b.due \in Nat
          /\ b.due <= b.stored /\ b.stored - b.due < BufLen
      BY Counts DEF GatewayInv, Types, BufferInv
    <2>2. /\ b.in_ptr = b.stored % BufLen /\ b.out_ptr = b.due % BufLen
          /\ \E e \in b.due .. b.stored : b.latest_eol_ptr = e % BufLen
          /\ \A n \in b.due .. b.stored - 1 : b.data[n % BufLen].n = n
      BY DEF GatewayInv, BufferInv, Ring
    <2>3. ASSUME b.out_ptr # b.latest_eol_ptr
          PROVE  b.data[b.out_ptr].n = b.due
      <3>1. PICK e \in b.due .. b.stored : b.latest_eol_ptr = e % BufLen
        BY <2>2
      <3>2. e # b.due
        BY <2>2, <2>3, <3>1
      <3>3. b.due \in b.due .. b.stored - 1
        BY ONLY <2>1, <3>2, e \in b.due .. b.stored
      <3> QED BY <2>2, <3>3
    <2>4. ASSUME getting = "empty", b.data_finished, ~collided
          PROVE  b.due = b.stored
      <3>1. b.out_ptr = b.in_ptr
        BY <2>4 DEF GatewayInv, BufferInv, Ending
      <3>2. b.due % BufLen = b.stored % BufLen
        BY <2>2, <3>1
      <3>3. /\ BufLen > 0 /\ b.due \in Int /\ b.stored \in Int
            /\ b.due - b.stored < BufLen /\ b.stored - b.due < BufLen
        BY ONLY <2>1
      <3> HIDE DEF b
      <3> QED BY ONLY <2>1, <3>2, <3>3, RemainderNear
    <2> QED BY <2>3, <2>4 DEF OctetsInOrder
  <1> QED BY <1>1, GatewayInvariance, PTL

(* t38_non_ecm_buffer.c:160: where the modem has to stuff zeros in the      *)
(* image it does so before an EOL or in the fill before one, never in a row. *)
THEOREM RowsAreHeldBack == GwSpec => []RowsHeldBack
  <1>1. GatewayInv => RowsHeldBack
    BY DEF GatewayInv, BufferInv, RowsStop, Ending, Stop, RowsHeldBack, Blocked
  <1> QED BY <1>1, GatewayInvariance, PTL

(* The pointers of queue and buffer stay in their rings, no frame outgrows  *)
(* T38_MAX_HDLC_LEN, and the modems are those of fax_modems_state_t.        *)
THEOREM TypeCorrect == GwSpec => []GwTypeOK
  <1>1. GatewayInv => GwTypeOK
    <2> SUFFICES ASSUME GatewayInv PROVE GwTypeOK
      OBVIOUS
    <2>1. Queue(hdlc) /\ nonEcm \in NonEcmTypes /\ modem \in ModemTypes
          /\ hit \subseteq { "missed", "empty", "behind", "starved" }
      BY DEF GatewayInv, Types
    <2>2. hdlc.in \in Bufs /\ hdlc.out \in Bufs
      BY <2>1, QueueIs
    <2>3. \A b \in Bufs : Len(hdlc.buf[b].pieces) <= MaxLen
      BY <2>1 DEF Queue, Sized
    <2>4. { nonEcm.in_ptr, nonEcm.out_ptr, nonEcm.latest_eol_ptr } \subseteq Slots
      BY <2>1 DEF NonEcmTypes
    <2>5. modem.handler \in { "silence", "fsk", "fast" }
      BY <2>1 DEF ModemTypes
    <2> QED BY <2>1, <2>2, <2>3, <2>4, <2>5 DEF GwTypeOK
  <1> QED BY <1>1, GatewayInvariance, PTL

=============================================================================
