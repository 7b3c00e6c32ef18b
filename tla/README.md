# A model of the FAX BU application

`fax_bu_app` is a T.38 fax gateway. A controller sends it SETUP and RELEASE
over UDP; for every call it opens two UDPTL legs, IN and OUT, each ending in a
SpanDSP T.38 gateway, and a thread carries audio between the two gateways. Its
own code is `src/src/*.c` and `src/include/*.h`; `src/spandsp` and
`src/libtiff` are vendored.

This directory holds TLA+ modules of that code, TLC configurations that check
them on small instances, and TLAPS proofs of the main invariants. `PROJECT.json`
lists components, runs, the lines every definition stands for, the hazards with
the properties that watch them, the theorems and the findings.

## The system and its components

| component | source | state | operations |
|---|---|---|---|
| call control | `app.c`, `session.c`, `main.c` | `cfg->session`, `cfg->pfds`, `session_cnt`, every `session_t`, `app_run` | start, poll loop, `app_procSessions`, SETUP, RELEASE, bad messages, signal, shutdown |
| port and id tables | `app.c`, `session.c` | `port_table`, `session_id_array`, their cursors | get next free, release |
| fax thread | `session.c`, `fax.c` | one detached thread per call; reads `session_t` and spandsp states | start, sleep, pass, usleep, be cancelled |
| UDPTL | `udptl.c`, `fax.c` | sequence numbers and packet rings of either direction, with redundancy or FEC | build a datagram, receive one |
| signalling messages | `msg_proc.c` | none, but for what its buffers still hold | create, compose, parse, print |
| fax parameters | `fax.c` | `fax_params_t` of each session | allocate, set defaults, release |
| local address, trace | `app.c` | none | formatting, one read of the interfaces |
| T.38 gateway | SpanDSP: `t38_core.c`, `t38_gateway.c`, `t38_non_ecm_buffer.c`, `hdlc.c` | the queue of indicators and frames, `hdlc_tx`, the non-ECM buffer, the modem that runs | take a packet from the link, give bits to a modem |
| the rest of SpanDSP, libtiff | vendored | | |

The main thread does everything but the fax passes. It polls the control
socket and one socket per leg; one pass of its loop compacts the session
arrays, hands the datagrams that came to `udptl_rx_packet`, and reads at most
one command. There is no lock anywhere: the fax threads and the main thread
share every `session_t` and what hangs on it. The controller sees only
messages; a message, an answer or a datagram may be lost, and nothing is
acknowledged or repeated by the program itself.

What is hard here, and what each component must get right:

- *Call control.* A RELEASE leaves two holes, the next pass closes them, and a
  session knows its slot by a field that must be rewritten when it moves. Both
  legs of a call, its thread, its ids, ports and sockets must come and go
  together, also when any step of a SETUP fails.
- *Tables.* A free entry must be found whenever there is one; a free entry must
  not wait for ever behind the others.
- *Fax thread.* The thread is created before the legs are linked and cancelled
  after part of what it uses is freed. It must not touch anything that is not
  its call's while the call is up, and it must end.
- *UDPTL.* Losses must be repaired from the secondaries, in order and under the
  right numbers, though datagrams are late or repeated and numbers wrap.
- *Signalling messages.* What is composed must be parsed back; every field
  that is used must have been set.
- *T.38 gateway.* Packets come when they come, a modem takes its bits when it
  needs them, and the two threads share a queue and a buffer. A frame must leave
  whole, in order, and with an FCS that tells the truth about it; a row of a page
  must not be interrupted; the modem must fall silent in the end.

## Modules

| module | models |
|---|---|
| `RoundRobin` | the allocation rule of both tables, as operators |
| `IndexTable` | one table as a state machine, with a history of how long an index has waited |
| `CallTable` | abstract: an ordered list of calls, SETUP appends, RELEASE removes the oldest of a name |
| `CallControl` | the main thread: one action per outcome of a handler, one per iteration of `app_procSessions` |
| `CallControlRefinement` | the mapping from slots and holes to `CallTable` |
| `FaxThreads` | the fax threads, with SETUP, RELEASE and shutdown cut into single writes |
| `IfpStream` | abstract: the receiver understands the sender's packets in order, none missing until more is lost than can be repaired |
| `Udptl` | sender, network and receiver of one direction, with redundancy |
| `OpenType` | the octets of a datagram: lengths, open types, where the decoder stops |
| `UdptlFec` | `Udptl` with a far end that goes over to forward error correction |
| `MsgProc` | composing and parsing the signalling messages, as operators |
| `Signalling` | `CallControl` run by texts: what is parsed is what the handlers get |
| `HdlcQueue` | the ring of indicators and frames between the link and the modems, and `hdlc_tx` |
| `NonEcmBuffer` | the buffer of TCF and page data |
| `GatewayTx` | both, with the packets of a far end on one side and the modems on the other |
| `MC...` | instances for TLC |
| `Ascending` | a finite set of numbers in ascending order, for the refinement |
| `TableLemmas` | lemmas the proofs share: the scan of `RoundRobin`, enumerations in ascending order, remainders and rings |
| `IndexTableProofs`, `CallControlProofs`, `FaxThreadsProofs`, `UdptlProofs`, `SignallingProofs`, `GatewayProofs`, `GatewayQueueProofs` | the theorems |

Beside some definitions stands a variant with a slip a programmer could have
made there (`SkipOneHole`, `WakeAtOnce`, `FreshAll`, ...). They are not
part of any specification; `PROJECT.json` pairs each with the property that
notices it.

### CallControl

`pc` says where the main thread is: before `app_init`, at `poll`, in the loop
of `app_procSessions` ("sessions"), at the command ("cmd"), or ended. The arrays
`session` and `pfds`, `session_cnt`, the cursors and the contents of each
`session_t` (`obj`) are variables under the source's names; `live` is what the
heap holds, `open` the descriptors, `threads` the threads not cancelled,
`answer` the last message sent.

- A handler runs to its end on one thread, so each is one action. `proc_setup`
  has one action for every way out of it: rejected, eight failures, success.
  What the failures have in common (cursors that stay advanced, a socket that
  stays open) is written where the code does it.
- External failures are the constant `Faults`: calloc, the listener socket, the
  fax layer, pthread_create, sendto, and "heap", the writing of slot
  `MaxSessions` where the allocator leaves no slack after the arrays. Running
  out of descriptors needs no fault: `Fds` is finite.
- `Calloc(L)` is the set of addresses an allocation may return: the lowest one,
  or any, so that address reuse is either fixed or arbitrary.
- `sigint_handler` may run between any two actions.
- The arrays have one slot more than `FAX_MAX_SESSIONS`, because the code writes
  there; the finding below is about that slot.

Not in it: what a session does with datagrams (`Udptl`), what its thread does
(`FaxThreads`), the text of messages (`Signalling`). The mode of a SETUP (GG or GT) changes
nothing here but a label, and is left out.

### FaxThreads

The constant addresses `Addr` are the memory; `mem` says which call's session
is at an address, its peer, whether its spandsp state is there and whether its
thread flag is set. A handler puts the writes it has to make into `todo`, and
they are taken from it one by one. A thread goes `asleep`, then through the four
calls of a pass (`tx_in`, `rx_out`, `tx_out`, `rx_in`), then `nap`. In each it
follows the pointers the code follows, at that moment. On memory that is free
or another call's it may find any pointer and go on, or the process may end
(`WorkAstray`). A cancelled thread ends at sleep or usleep, and may end in a
pass, where spandsp may come to `sendto`. `Shutdown`, `DestroyNext` and `Exit`
are the loop of `app_cfgDestroy`, which destroys the sessions slot by slot while
the threads of the calls that are left go on, and the end of the process.

Time is left out, with one exception: a thread does not wake from `sleep(2)`
before the SETUP that created it is finished (`Wake`). Nothing in the code
guarantees this; the comment "Don't remove this sleep()" relies on it, and the
variant `WakeAtOnce` shows what happens otherwise.

### Udptl

IFP packets are named 0, 1, 2, ... in the order they were built. `tx` is the
sender's ring of names, a datagram holds its sixteen-bit number, the primary and
the secondaries read from the ring. `Receive` is the whole of `udptl_rx_packet`
for a well-formed datagram: which packets it hands over, in which order and
under which numbers, and the new `rx_seq_no`. Each packet handed over goes
through `Engine`, the sequence check of SpanDSP's `t38_core_rx_ifp_packet`,
the one external piece; `Given` is the receiver as `Receive` leaves it after the
IFPs it hands over, one after the other. `ReceiveAny` takes any datagram that is not more than
`Delay` packets late, again if it was received before. The history
variables record what was handed over and what the engine took.
`ReceiveInOrder` is a line that keeps the order and loses no more datagrams in a
row than there are secondaries.

A datagram cut by `recvfrom` (256 bytes) or refused as malformed is one the
network lost: in redundancy mode `udptl_rx_packet` changes nothing then that it
reads again.

### OpenType and UdptlFec

The program sends redundancy, but `udptl_rx_packet` accepts FEC from any far
end, and there the receive ring matters: the primary of every datagram stays in
its slot for sixteen numbers (`BufSize`), with the FEC that came with it, and a
later datagram goes back through the slots (`Hunt`) and repairs each row of
which exactly one packet is missing. In `UdptlFec` an IFP or a FEC element is
the set of the names whose XOR it is, and a length. What is repaired has the length of
the FEC element (`udptl.c:331`), that of the longest packet of the row: a shorter one
is handed over with zeros behind it. `t38_core_rx_ifp_packet` hands on the fields of such
data and only then complains (603), but refuses such an indicator (449), the number of
which it has consumed by then; `Understood` are the packets it does not refuse. `Stored`
is what happens before the rest of a datagram is decoded; `Refused` keeps exactly that,
with part of the FEC, for a datagram found malformed later. The far end is
`udptl_build_packet` in its FEC branch, wind-up included.

`Repairs` says when a loss can be repaired: by a secondary, or by a row of which it is
the only one missing and, for an indicator, of which no packet was longer. As long as
all losses can, the engine is to understand everything
(`FecImplementsIfpStream`, with `broken` for the rest); and what it processes is always
a packet that was sent, with all its octets and nothing but zeros behind them
(`TakenIsOriginal`). `WireSound` puts every datagram of the run through `OpenType`,
whole, cut anywhere, and with one octet more.

None of this holds for good. The hunt starts at the datagram that came and goes
back `BufSize` less one span, so if that datagram is late, it reaches slots that
a later one has used again, completes a row of an old round with a new packet,
and leaves the XOR of several packets in the ring, where the next repair finds
it. With a ring of eight, one entry and a span of five, datagrams that arrive as
6 7 8 10 13 12 14 15 17 are enough: the 12 repairs a row whose slot 13 has
taken, and what comes of it is handed over as packet 16 and processed. A malformed
datagram with FEC does the same when it comes behind one at least as late: its
slot keeps the FEC elements of an earlier round where its own were cut off, and
`rx_seq_no` does not go back with it. Of 5 to 11, then 15, a malformed 13, 15
again, 16 and 18, packet 17 is garbage, and processed. `mixed` records that one of
the two has happened (`came` is the latest datagram so far), and from there on
neither property asks anything; `garbled` is what `IfpStream` calls it.
Otherwise what a malformed datagram leaves is harmless: its slot is cleared or
filled anew before a repair reads it (`TakenAreOriginal` proves it).

### MsgProc and Signalling

A text is a sequence of words. `Parse` takes what the receive buffer holds
behind the text (`rest`) and what the stack holds (`stack`), because `sscanf` is
bounded by neither: the buffer is not cleared between messages and a missing
second address is read from `dst_ip_port_str` as it was. `Signalling` feeds
`CallControl` with what comes out and keeps, for each session, the remote
address it was given (`rem`) beside the one the text named (`asked`): the fourth
and the fifth word (`Written`), for a GT SETUP the fourth only (`Given`).

The messages of a controller are `WellFormed`: made by `sig_msgCreate*`, with
hosts and ports there are, 1 to 65534. Of the odd texts only three things are
assumed: that a number in an address fits an `int`, that a text stands for a
sequence of words, and that `CallIds` has the names a text can give a call, also
when a SETUP stops after its first word and the name is read from the rest of
the buffer. `cfg->local_ip` is an address and `PORT_START` leaves room for
`PORT_COUNT` ports below 65535.

What the code does that nobody promises otherwise: a GT SETUP gives the OUT leg
an address from the stack (`msg_proc.c:393`); a GG SETUP with one address takes
the second from an earlier message; port 65535 is refused and a number that
`strtoul` cannot fit in an `int` may pass as a smaller one.

### HdlcQueue, NonEcmBuffer and GatewayTx

A data packet for a buffer that does not hold data of its type is the first of its frame
or comes after a loss; the code goes by its first octet, 0xFF at the beginning of every
frame and, by chance, of later pieces too (`Headed`, 1199). A packet from the link
becomes a list of operations on the queue (`main.todo`):
a missing indicator first, then the data, the FCS, the end. Each operation asks
whether `in` and `out` are the same and acts on the answer in a second step
(`Look`, `Queued`); between any two of them the fax thread may run. What an
operation does after its question is one step. The fax thread's steps are the
callbacks of the modem: the end of the preamble, of the octets at hand, of the
FCS, the end of the transmission, an octet of the non-ECM buffer, and
`set_next_tx_type` whenever a modem has ended.

A V.21 frame is given to `hdlc_tx` while it arrives; an ECM frame when it is
complete. How fast the modem is, is left open: it may be through with a frame at
any time. A piece of a frame carries its frame, its place, whether it is the
last and whether it begins with 0xFF, so that `GoodFcs` can compare what is sent, and
with what FCS, with what the far end meant. An octet of a page is classed by `t38_non_ecm_buffer_inject`
as fill, row, EOL or RTC; bits matter only to find EOLs and to count rows.

Three things are said of the frames. `FramesInOrder`, whatever happens: no piece
leaves twice or before one that came earlier. `OwnModem`, while the threads have
not crossed: V.21 frames leave by V.21, ECM frames by the fast modem. `GoodFcs`: the
FCS is the one the frame deserves. With one exception: the mark of a loss is set in the
buffer at `in` when the next packet comes (1052), and when the indicator was lost with the
first piece, that packet makes the code queue the missing indicator (1082) in the very
buffer that has the mark. If it is a piece that begins with 0xFF, nothing tells that one
came before it, and the frame leaves without its beginning and with a good FCS.
`far.headless` has the frames this may happen to, which takes the loss of the
indicator and of all pieces of the signal before that one; `GoodFcs` asks of these only that the rest is without a gap, and
of all others that they begin with the first piece.

Four things can go wrong without a packet lost, recorded in `hit`; after one of
them `GoodFcs` and `Drains` ask nothing more, and `OwnModem` only after "empty":

- "missed": the test of `in` and `out` is overtaken (`t38_gateway.c:642`, 1074,
  1231); neither thread starts the frame, or the end is not passed on.
- "empty": a signal ends without data; the shutdown depends on the field class
  that only data set (1097), so the modem idles on flags.
- "behind": an indicator is taken when more is queued behind it already (508);
  the frame at `in` loses its length, the one at `out` is dropped at the end of
  the preamble. If the frame at `in` was a V.21 frame that had begun, its flag stays
  and `out` goes past `in`.
- "starved": the modem has sent what there was of a frame, and closes it with a
  good FCS.

Each of them leaves the modem on flags for ever in some behaviour, since
`set_next_tx_type` is only called when it ends. `collided` is the like for the
non-ECM buffer: `t38_non_ecm_buffer_get_bit` finds the buffer empty, the other
thread pushes the tail, and the end is read as the end. Further: `set_mode` does
not restart the buffer, so the first page after a TCF is taken in under the rules
of TCF, without holding back rows; the row after the first EOL is counted eight
bits short; and when a signal ends within a frame that has begun to leave, the
slot is cleared under it (the code's own TODO, 1457).

Left out: CNG, CED and V.8, the rewriting of control messages, RTN, CTR and the
other messages that only change the training, and several fields in one packet,
which are handled like several packets.

## Runs

| run | what it asks | instance |
|---|---|---|
| `index_table` | is every free index found, and is the rotation fair | range of five |
| `call_table` | do slots, sessions and peers agree at every step; is the whole a list of calls; are messages understood, and does every leg send where it was told | 2 names, 3 calls, 6 messages and 15 odd texts |
| `setup_failures` | is a SETUP all or nothing; is anything lost or shared; is it still a list of calls | 2 calls, any address, calloc, pthread_create and sendto fail |
| `all_faults` | do the inductive invariant and the accounting hold under everything; does a signal stop the program and do holes close | 2 calls, all faults, fair |
| `fax_threads` | what may a thread touch, for how long, and does it end; do the handlers free all of a call and nothing twice | 2 calls on 4 addresses, fair |
| `udptl_wrap` | own number and order over wraps; is every gap filled before the first wrap | numbers mod 32, ring of 8, 48 packets, 5 late |
| `udptl_fec` | are repairs true, complete as far as they can be, and in order; is the wire format sound | ring of 8 used again, spans of 2 by 2, one late, one malformed |
| `gateway` | do frames and pages leave as they came, and does it end | 2 signals, 2 frames, 6 octets or 3 pieces, 2 losses, fair; before a call, or after a page with ECM or without |

Four runs show a disagreement between the code and its own comments and logs:

| run | what it shows |
|---|---|
| `overflow` | the call that fills the table writes past both arrays: one capacity check (`session.c:516`) for two sessions and an odd count |
| `dangling_answer` | a SETUP whose IN leg fails in `session_init` is answered OK, from a freed session (`session.c:551`) |
| `listener_crash` | a SETUP whose listener cannot be created ends the process (`fax.c:202`) |
| `udptl_wrap_gap` | at the wrap from 65535 to 0 a lost datagram is not repaired though the next carries it (`udptl.c:231`) |

Three more observations, no run shows: a late datagram sets
`rx_seq_no` back (`udptl.c:361`), so packets are handed over again and only the
engine's check drops them (`InOrder` holds because of it); and after a RELEASE
the fax thread may use freed memory until its next cancellation point
(`SoundWhileUp` and `OnePassLate` bound when and for how long). And what
`finalise_hdlc_frame` calls "the frame in progress at the output"
(`t38_gateway.c:644`) may be an ECM frame while the V.21 modem runs. When the packets
that end a V.21 frame are lost, and its preamble is taken with its first octets at
`in`, their length is cleared (508) but not their flag, and the end of the preamble
takes `out` past `in`; the training indicator that comes next is stored behind `out`
and never seen, and the two meet at the frame after it. TLC finds it with `MaxLost` = 3
and `MaxPieces` = 1 as a violation of `Matching`; `OwnModem`, its form in the run
`gateway`, excludes it by "behind".

### Bounds and why they are enough

- *Call control.* Three calls are the least number with a session below, between
  and above the holes two RELEASEs leave. `MaxSessions` is even as
  `FAX_MAX_SESSIONS` is, so the last call takes the slot past the end. With as
  many ports as sessions the port table is used to the last entry and wraps;
  ids have one spare per direction. Two names allow two calls of one name. With
  failures and arbitrary addresses two calls suffice: a failing SETUP beside a
  call that is up, on memory of one that is gone. The state spaces are finite
  without a constraint.
- *Fax threads.* Two calls, one on the memory the other has just left, in
  either role, or beside it. Each call is set up once.
- *Udptl.* `MaxSent` bounds the behaviour and `Delay` the lateness; the run over
  the wrap goes one and a half times round the numbers. `BoundAssumption` keeps
  a late datagram within what the engine can tell from a new one, as the real
  numbers do by far (2000 of 65536). The runs stop at `MaxSent`, so deadlock is
  not checked there. Symmetry is used for call names and, where the allocator
  returns any of them, for addresses; never in a liveness run.
- *UdptlFec.* Nine packets on a ring of eight use slots again; spans of two with
  two entries give rows that interleave. One datagram is found malformed
  (`MaxRefused`), at any point of its FEC. IFPs have two lengths, of either form
  on the wire, where an octet has sixteen values, and the rows have packets of one
  length or of both; of the two indicators, which are short, one is in a row with a
  longer packet and one in a row of packets as short. `LateAssumption` keeps the
  secondaries of a late datagram out of slots that were used again. Sequence
  numbers do not wrap (`FirstRoundAssumption`): that is `udptl_wrap`.
- *Signalling.* Sixteen port values and sixty-four of an `int`, so that ports are
  refused below and above the range, and some that the cast to sixteen bits would change.
  A number that does not fit an `int` is kept out by `TextAssumption`. A name decides
  the mode.
- *GatewayTx.* Two signals are a command and what follows it, or two pages or
  frames in a row. `MaxData` counts octets and twice the signals and the pieces; six
  octets hold two EOLs, a row and the beginning of an RTC, and wrap a buffer of
  seven. Two pieces are a frame that is partly there; a third shares the buffer
  when an FCS is lost, and does not fit. `StartLevel` is one piece, so V.21 frames
  leave as they come. After a hit no new piece is sent. Rings that are overrun
  are kept out by `Room` and `RoomInRing`: nine seconds of data and 256 entries.
  Two losses (`MaxLost`) are an indicator and the piece behind it, or one packet of
  either signal. A
  packet moves `in` by five at the most and may clear the entry after it, so
  `RoomInRing` asks for six to spare; the run has a ring of eleven. `MaxPieces` is at
  most `MaxLen`: no frame of the far end is longer than `T38_MAX_HDLC_LEN`.

### Fairness

`CallControl!FairSpec` assumes that the main thread takes its next step: `poll`
has a timeout of 40 ms and no handler blocks. No command and no signal is ever
assumed to come. `FaxThreads!FairSpec` assumes that a handler that has begun goes
on and that every fax thread is scheduled; commands are again not forced.
`GwSpec` assumes that the main thread finishes a packet, that the fax thread
keeps calling the modem (it does so every 20 ms), and that a far end that has
begun a signal goes on with it. No signal is forced to begin.

## Proofs

All are checked by TLAPS for every value of the constants that satisfies the
named assumptions.

`TableLemmas`: what `NextFree` returns is free and in range, it returns
`NoEntry` only on a full table, and every free index above the cursor is further
than what it returns. An enumeration of a finite set in ascending order exists
and is the only one; what adding a largest element, removing one, or replacing
them monotonically does to it. Induction over the size is avoided: a least set
size without one would be a contradiction (`WFMin`). Two counts less than a round
apart can be told by their remainders, and moving or comparing the remainders
moves or compares the counts.

`IndexTableProofs`: `TypeCorrect`, `NeverDouble` (an action property),
`WaitBounded` and `RotationFair`. The bound on waiting is not inductive; the
invariant is `WaitInv`: allocations that passed a free index, plus the distance
from the cursor to it, never exceed the size less one. An allocation that passes
an index moves the cursor towards it by at least one.

`CallControlProofs`, first part: `TypeCorrect`, with `Window` (the loop index never
passes `session_cnt`), which bounds the loop of `app_procSessions`; then
`Inductive`, that `IInv` holds, and from it `Consistent`, `Paired` and `Compact`.
What RELEASE relies on cannot be proved alone: it clears the slot named by the
peer's `sidx` and frees what it finds through a pointer, so the slots must hold
exactly the live sessions (`LegsTracked`), each at its own `sidx`
(`TableConsistent`), peers naming each other (`PeersPaired`). During the loop
this holds of the slots already rewritten and those not yet reached (`Scope`);
the slots between are stale. There is one lemma per group of actions, and
within it one step per conjunct.

Second part: `ResourcesInductive` (`RInv`), and from it `Accounted`, `Unshared` and
`AllOrNothing`. The three need each other: RELEASE clears the flag that the
field of a session names, which is right only if no other session names it, and
SETUP gets an entry that is free only if the flags that are set are not more
than the sessions. The latter is a count: slots bound the live sessions, the
peer links pair IN legs with OUT legs, so at a SETUP that is not refused each
direction has fewer legs than ids and both together fewer than ports (`Room`).
`AllOrNothing` assumes that `fax_sessionInit` does not fail, and the run
`dangling_answer` shows why it has to.

Third part: `Refinement`, that `CallControl` implements `CallTable`,
under the same assumption. The invariant it adds is `InFirst`, the IN leg of a
call has the lower slot: then the session RELEASE finds from below is the IN leg
of the oldest call of that name, and its peer leaves the list with it.
Compaction moves sessions down without changing their order, SETUP puts the pair
above all others, and a refusal happens only with the list full or a fault.

`FaxThreadsProofs`: `Invariance` (`FaxInv`), and from it `StraysAreReleased`,
`LateByOnePass`, `NothingIsLeft`, `MainIsSound` and `TypeCorrect`. What a thread may
touch depends on which writes of a handler have been made, so the invariant
names the handler at work and its next step: `Linking` says what holds of the two
sessions of a SETUP before each of its last four writes, `Destroying` the same of the
six writes that take a call down. `Account` says that all other memory in use is
that of the calls in the table, counted, so that nothing is forgotten. A call in
the table (`CallSound`) is whole, and its thread holds pointers to its own two
sessions; it loses that only with the call. `Lateness` adds to the steps a
cancelled thread has made those its pass has left.

`UdptlProofs`: `NumbersOwn`, `StreamInvariance` (`StreamInv`), and from it
`EngineInOrder`, `GapsFilled` and `TypeCorrect`. The ring of the sender and every
datagram underway hold the IFP under its own number (`Ring`, `Built`), from which
follow the number and the name of all that is handed over. That the engine takes
them in order over wraps is an invariant about `top`, the latest IFP taken:
`rx_expected_seq_no` is the remainder of the number after it, the sender is ahead of it by
less than what the engine would take for the past, or else the next datagram
resynchronises it. `Receive` is a `FoldLeft` over what a datagram holds; instead of
induction, the fold is given as the chain of its states (`Given`), and a least
least step without the property would be a contradiction. The two wraps meet in the lemmas about
remainders: the ring divides the range of the numbers.

The same module, second part: `FecInvariance` (`FecInv`), and from it
`FecTypesCorrect` and `TakenAreOriginal`, the latter up to the zeros behind a packet
repaired at the length of a longer one. The sender's half of the invariant: its ring
holds the last `BufSize` numbers (`Keeps`), and a datagram carries the XOR of the
rows of its own number (`Made`). The receiver's half is `TrueRing`: unless `mixed`,
each slot that is not empty holds the packet of the one number among the last
`BufSize` up to `came` that has that slot, and, if that number is below
`rx_seq_no`, either no FEC or all its rows. It is restricted to those because a
malformed datagram leaves its slot half filled and `rx_seq_no` where it was.
`Hunt` reads rows of slots up to one span back; that they are still in
the ring follows from `ReachGrows`: a later datagram reaches no less far back than an earlier
one, so what the hunt of one that was not overtaken reads is recent. A row of which
one packet is missing has the XOR of the whole in the FEC, and with the rest of the
row taken away the missing packet remains (`XorOfRest`); no induction is needed
as the XOR of sets is defined by the parity of a count. The hunt is given as the chain of
its states (`HuntIs`), each of which keeps `TrueRing`.

Third part: `StreamOfFec`, that `UdptlFec` implements `IfpStream`. The invariant it
adds, `FecStreamInv`, says of the engine that it expects the number after the latest IFP
it has had, and, until a packet is missing for good (`broken`), that `udptl_rx_packet`
expects the same number and the recent packets that have come are in the ring. That the engine takes
numbers in order is `EngineRises`; that it then takes all of those it has not had is
`EngineFills`. Not all that it takes it understands: what was repaired lies in the ring with
the length of its FEC element, and an indicator that `Repairs` counts has its own
length there (`HuntRepairs`). `HuntRepairs` is also the other direction of `FecInv`: a row of which one
packet is missing is not only repaired rightly, it is repaired, whatever the hunt did
on its other rows. `HeldStays` says that clearing the slots of the numbers that were
skipped leaves every recent packet where it is, and `HandsRightly` puts these together
for either form of a datagram.

`SignallingProofs`: `SameProgram`, that `Signalling` is `CallControl` with its commands
spelt out, so that every theorem above holds of it; `AddressKept`,
`AnswersAreUnderstood` and `CommandsAreUnderstood`. A text of words that is
concatenated with any other is read back word by word (`ReceivedIs`); an address
is read back because a port is less than half the range of an `int` and the cast
to sixteen bits then changes nothing (`PortIs`). That an OK never names the port
of an exhausted table (`AnswerInv`), which the parser would refuse, rests on
`Room`.

`GatewayProofs`: `GatewayInvariance` (`GatewayInv`), and from it
`OctetsLeaveInOrder`, `RowsAreHeldBack` and `TypeCorrect`. The two threads change the non-ECM
buffer without a lock, so the invariant relates it to what the main thread has
still to do. `Ring`: the three pointers are counts reduced to the ring, in order
and less than a round apart, and the octet at every place between is the one of
that count. `RowsStop`: while a page goes on, the place where the modem has to
stop holds an octet, and no octet of a row. `Pushes`: between the two assignments of a push
the operation that finishes it is next. `Ending`: when the tail is pushed, all may
leave, and `get_bit` has found the buffer empty only if all has left, unless the
push came between its two reads (`collided`). `Injecting` and `GoingOn` are what
the far end owes: no octet after the end of the data, no data of the next signal
before the last has left, and room (`Room` of the model). One lemma on each of the
ways an octet is stored says how far it moves the counts and where the modem then
has to stop; that a row is not read into comes of them (`StoreGrows`, `InjectRowIs`).

`GatewayQueueProofs`: `QueueInvariance` (`OrderInv` and `QueueInv`), and from it
`FramesLeaveInOrder`, `OwnModemPlays` and `FcsIsDeserved`. The two invariants differ in what they have to
stand. `OrderInv` holds whatever the threads do to each other, an indicator taken
with frames behind it included. The pieces in `hdlc_tx`, and those in the ring read from
`out`, lie in the order they came (`InOrder`), and what `hdlc_tx` has yet to be given is
behind what it has and what has left (`Given`), unless `out` has gone past `in` and
nothing is left to give (`Stuck`). The piece in the main thread's hand is later than
all of them (`Recent`, `InHand`), nothing lies behind `in` when it comes there
(`NothingBehind`), and what the main thread saw at `out` is cleared if `out` has moved on
(`SeenEmpty`). `QueueInv` holds while
`hit` has at most "empty", and says what the ring is for: from `out` to `in` there are
indicators and whole frames, each frame behind the indicator of its type or another
frame of it, the buffer at `in` holds what has come of a frame and all others are
clear (`Laid`); the modem at work, or the one that comes next, is that of the
indicator last taken, and `hdlc_tx` has the pieces of the frame at `out`, all of them
or those that came, or none before it is given any (`InModem`, `Plays`); the operations
left to the main thread fit the buffer at `in` and the room in the ring (`Planned`).
That the threads have not crossed is used once for each of them: "missed" where the
main thread acts on an answer that is no longer true, "behind" where the modem takes an
indicator. It is after these that `Laid` is lost, and the modem
with it. The FCS needs the history of the far end too. `Sending` says what the far end owes:
the operations left to the main thread are those of the packet sent last, and of a
frame that goes on the queue has heard, unless a packet was lost after it. `FcsInv`
then relates every buffer of the ring to it (`Faithful`): "MISSING_DATA" is set only
if something was lost, a finished frame is one that the far end is through with, and
is marked corrupt only if it was spoilt or something was lost, and not marked only if it was
sent with a good FCS and has no gap down to its last piece, and begins with its first unless
it is `headless` (`Deserved`); and the buffer at `in` holds the pieces of the frame in
progress up to the last sent, all of them or, of a `headless` frame, the later ones,
unless it has the mark (`AtIn`, `Begun`). That a piece with 0xFF is the first of its frame
when anything was heard of its signal rests on `Tuned`: the indicator of that signal is then
the one queued last, or about to be queued, so that no missing indicator takes the
buffer with the mark. A loss
shows only when the next packet comes, so between the two the buffer has neither the
pieces nor the mark; that `AtIn` asks nothing while there is such a `gap` is what makes it inductive.

Assumptions used, all named in the modules: `MaxSessions` even, from 2 to 254
(`session_cnt` is a `uint8_t`), `PortCount` at least `MaxSessions`, twice
`IdsPerDir` more than `MaxSessions`; `calloc` returns an address that is not in
use, `NULL` is no address, descriptors are positive. For UDPTL, the ring divides
the range of numbers, a datagram is late by less than the engine's
offset, and twice the offset and the lateness fit the range
(`BoundAssumption`; 2000, 65536 and any lateness below 1996 satisfy it). With FEC, a datagram is late by less than the ring holds beyond the
secondaries (`LateAssumption`), a row with all its entries fits the ring and a
packet is no longer than `MaxSize` (`FecAssumption`), the ring is smaller than the
engine's offset (`RingAssumption`; 16 and 2000), and the numbers do not wrap
(`FirstRoundAssumption`). For the messages,
those named under *MsgProc and Signalling*. For the gateway, a ring of more than
two entries, a buffer of more than three octets, no frame longer than a buffer of the
ring (`BoundAssumption`), and a `NONE` that is no value (`NoneAssumption`). There is no bound on calls, addresses, ports,
ids, packets, signals, frames or octets, but that with FEC there are as many packets
as numbers.

Only model-checked:

- `WireSound`, because `Decode` is about sequences of octets of which each part says
  how long the next is, and what it returns for every length is an induction over data;
- all liveness (`SignalStops`, `HolesCollected`, `Drains`, ...), which is out of the
  prover's reach with fairness.

## Not modelled

- The other half of the gateway, from the fax machine to the link
  (`fax_rxAUDIO`, `t38_tx_packet_handler`'s callers): its packets come out of
  the modems' receivers bit by bit, and the state it shares with the main thread
  is `core.image_data_mode` and `core.ecm_mode`, of which `GatewayTx` has the
  writes of a CFR.
- The rest of SpanDSP (signal processing, T.30, image coding) and libtiff, of
  which the program uses nothing else.
- Fragments of 16384 octets or more in an open type; empty ones, which the decoder
  passes over, are in `OpenType`.
- What a datagram or a text can overrun: the sixteen `bufs` and `lengths` of
  `udptl_rx_packet` (`udptl.c:222`), the `fec_len` and `fec` of a slot (287), and the
  buffers of the `%s` of `sscanf` (`msg_proc.c:334`, 555) are taken to hold what comes.
- The fax thread's trace of `call_id` before its `sleep(2)` (`session.c:482`), a read of
  a session that its SETUP is still working on.
- What the octets of an IFP packet mean to `t38_core_rx_ifp_packet`, beyond the
  fields `GatewayTx` has.
- A `malloc` that fails for `udptl_state` only (`fax.c:372`).
- Traces, and the choice of the local address.

## Plan

Done: the tables, call control with its abstract specification and
invariants, the fax threads, UDPTL with redundancy and FEC and its wire format,
the signalling messages, the gateway from the link to the modems.

1. The gateway from the modems to the link, over the same `mode`.
2. `GatewayTx` fed by `Udptl`, so that losses are those UDPTL leaves.
3. The malloc of `udptl_state` that fails alone, in `FaxThreads`.
4. A controller that repeats SETUPs whose answer is lost, over `CallTable`.
