----------------------------- MODULE FaxThreads -----------------------------
(***************************************************************************)
(* The fax threads of src/src/session.c beside the main thread: one        *)
(* detached thread per call, without a lock, stopped by pthread_cancel     *)
(* while proc_release or app_cfgDestroy frees what it works on.            *)
(*                                                                         *)
(* CallControl takes each handler as one action; here a handler is the     *)
(* sequence "todo" of the main thread's remaining writes to memory shared  *)
(* with a fax thread, so that the threads run between any two of them.     *)
(***************************************************************************)
EXTENDS Integers, Sequences, FiniteSets, SequencesExt

CONSTANTS
  Calls,       \* the calls set up during the program's life
  Addr,        \* the addresses a session_t may have
  Calloc(_),   \* the addresses calloc may return, given those in use
  NULL

ASSUME NullAssumption   == NULL \notin Addr \union Calls
ASSUME CallocAssumption == \A L \in SUBSET Addr : Calloc(L) \subseteq Addr \ L

VARIABLES
  mem,         \* what is at each address: FREE, or a session_t
  up,          \* the calls in the table, in slot order: <<call, IN leg>>
  todo,        \* what the main thread still has to do in this handler
  thr,         \* each call's thread: [at, arg, ses], see Where
  cancelled,   \* calls whose thread has a cancellation pending
  late,        \* history: steps a thread took after its cancellation
  stray,       \* history: threads, not gone, that used memory not their call's
  process      \* "runs", "ending", "exited" or "crashed"

mainVars == << mem, up, todo, cancelled >>
histVars == << late, stray >>
vars     == << mainVars, thr, histVars, process >>

FREE == [call |-> NULL, peer |-> NULL, fax |-> FALSE, active |-> FALSE]

(* Where a thread is: not created, in sleep(2), in one of the four calls   *)
(* of a pass (fax_txAUDIO and fax_rxAUDIO for either leg), in usleep, or   *)
(* gone.                                                                   *)
NextAt == [tx_in |-> "rx_out", rx_out |-> "tx_out", tx_out |-> "rx_in",
           rx_in |-> "nap"]
Pass   == DOMAIN NextAt
Where  == { "none", "asleep", "nap", "gone" } \union Pass

Init ==
  /\ mem = [a \in Addr |-> FREE]
  /\ up = << >> /\ todo = << >>
  /\ thr = [c \in Calls |-> [at |-> "none", arg |-> NULL, ses |-> NULL]]
  /\ cancelled = {}
  /\ late = [c \in Calls |-> 0] /\ stray = {}
  /\ process = "runs"

-----------------------------------------------------------------------------
(* The main thread. *)

Alive == process \in { "runs", "ending" }
Idle  == process = "runs" /\ todo = << >>

InUse == { a \in Addr : mem[a] # FREE }

\* A session_destroy that leaves the thread alone.
DestroyOnly(a) == << <<"fax", a>>, <<"free", a>> >>

(* session_destroy: spandsp's states, the cancellation, the session_t.     *)
Destroy(a) == << <<"fax", a>>, <<"cancel", a>>, <<"free", a>> >>

\* The other leg is forgotten, or destroyed twice.
DestroyOneLeg(in, out)  == Destroy(in)
DestroyPeerTwice(in, out) == Destroy(out) \o Destroy(out)

DestroyCall(in, out) == Destroy(out) \o Destroy(in)

\* The IN leg is not told its peer.
LinkOneWay(c, in, out) == << <<"flag", in>>, <<"peer", out, in>>, <<"enter", c, in>> >>

(* The end of proc_setup, with the thread running: the flag, the links of  *)
(* the legs and the two slots.                                             *)
Link(c, in, out) ==
  << <<"flag", in>>, <<"peer", in, out>>, <<"peer", out, in>>, <<"enter", c, in>> >>

(* proc_setup up to pthread_create.                                        *)
Setup(c) ==
  /\ Idle /\ thr[c].at = "none"
  /\ \E in \in Calloc(InUse) : \E out \in Calloc(InUse \union {in}) :
       /\ mem' = [mem EXCEPT ![in]  = [FREE EXCEPT !.call = c, !.fax = TRUE],
                             ![out] = [FREE EXCEPT !.call = c, !.fax = TRUE]]
       /\ todo' = Link(c, in, out)
       /\ thr' = [thr EXCEPT ![c] = [at |-> "asleep", arg |-> in, ses |-> NULL]]
  /\ UNCHANGED << up, cancelled, histVars, process >>

(* proc_release.  The loop finds the IN leg, which has the lower slot.     *)
Release(k) ==
  /\ Idle /\ k \in DOMAIN up
  /\ LET in == up[k][2]
     IN  todo' = DestroyCall(in, mem[in].peer)
  /\ up' = RemoveAt(up, k)
  /\ UNCHANGED << mem, cancelled, thr, histVars, process >>

(* The way out of app_start, to app_cfgDestroy, which goes through the     *)
(* slots upwards; then main returns.                                       *)
Shutdown ==
  /\ Idle
  /\ process' = "ending"
  /\ UNCHANGED << mainVars, thr, histVars >>

DestroyNext ==
  /\ process = "ending" /\ todo = << >> /\ up # << >>
  /\ LET in == up[1][2]
     IN  todo' = Destroy(in) \o Destroy(mem[in].peer)
  /\ up' = RemoveAt(up, 1)
  /\ UNCHANGED << mem, cancelled, thr, histVars, process >>

Exit ==
  /\ process = "ending" /\ todo = << >> /\ up = << >>
  /\ process' = "exited"
  /\ UNCHANGED << mainVars, thr, histVars >>

(* The effect of one step of a handler on memory. *)
MemAfter(op) ==
  CASE op[1] = "flag" -> [mem EXCEPT ![op[2]].active = TRUE]
    [] op[1] = "peer" -> [mem EXCEPT ![op[2]].peer = op[3]]
    [] op[1] = "fax"  -> [mem EXCEPT ![op[2]].fax = FALSE]
    [] op[1] = "free" -> [mem EXCEPT ![op[2]] = FREE]
    [] OTHER          -> mem

Step ==
  /\ Alive /\ todo # << >>
  /\ LET op == Head(todo)
     IN  /\ mem' = MemAfter(op)
         /\ up' = IF op[1] = "enter" THEN Append(up, << op[2], op[3] >>) ELSE up
         /\ cancelled' = cancelled \union
              (IF op[1] = "cancel" /\ mem[op[2]].active THEN {mem[op[2]].call} ELSE {})
  /\ todo' = Tail(todo)
  /\ UNCHANGED << thr, histVars, process >>

MainStep == Step \/ DestroyNext \/ Exit

SettingUp(c) == \E j \in DOMAIN todo : todo[j][1] = "enter" /\ todo[j][2] = c

-----------------------------------------------------------------------------
(* The fax thread of call c.                                               *)

Move(c, at, ses) ==
  /\ thr' = [thr EXCEPT ![c].at = at, ![c].ses = ses]
  /\ late' = [late EXCEPT ![c] = @ + (IF c \in cancelled THEN 1 ELSE 0)]
  /\ UNCHANGED mainVars

Gone(c) ==
  /\ thr' = [thr EXCEPT ![c] = [at |-> "gone", arg |-> NULL, ses |-> NULL]]
  /\ late' = [late EXCEPT ![c] = 0] /\ stray' = stray \ {c}
  /\ UNCHANGED << mainVars, process >>

\* A thread without the sleep(2).
WakeAtOnce(c) ==
  /\ thr[c].at = "asleep" /\ c \notin cancelled
  /\ Move(c, "tx_in", NULL)
  /\ UNCHANGED << stray, process >>

(* Time is left out, except here: proc_setup takes less than two seconds   *)
(* from pthread_create to its end.                                         *)
Wake(c) ==
  /\ thr[c].at = "asleep" /\ c \notin cancelled
  /\ ~SettingUp(c)
  /\ Move(c, "tx_in", NULL)
  /\ UNCHANGED << stray, process >>

(* A call of the pass starts from a session_t, the argument of the thread  *)
(* or the peer it found in tx_out, and works on the spandsp state of that  *)
(* session or of its peer.                                                 *)
Base(c) == IF thr[c].at = "rx_in" THEN thr[c].ses ELSE thr[c].arg

Target(c) == IF thr[c].at = "tx_in" THEN Base(c) ELSE mem[Base(c)].peer

Sound(c) ==
  /\ Base(c) \in Addr /\ mem[Base(c)].call = c
  /\ Target(c) \in Addr /\ mem[Target(c)].call = c /\ mem[Target(c)].fax

Work(c) ==
  /\ thr[c].at \in Pass /\ Sound(c)
  /\ Move(c, NextAt[thr[c].at], IF thr[c].at = "tx_out" THEN Target(c) ELSE NULL)
  /\ UNCHANGED << stray, process >>

(* On memory that was freed, or belongs to another call by now, it finds   *)
(* any pointer and goes on, or the process ends.                           *)
WorkAstray(c) ==
  /\ thr[c].at \in Pass /\ ~Sound(c)
  /\ \E any \in IF thr[c].at = "tx_out" THEN Addr \union {NULL} ELSE {NULL} :
       Move(c, NextAt[thr[c].at], any)
  /\ stray' = stray \union {c}
  /\ process' \in { process, "crashed" }

\* A usleep that is no cancellation point.
NapThrough(c) ==
  /\ thr[c].at = "nap"
  /\ Move(c, "tx_in", NULL)
  /\ UNCHANGED << stray, process >>

Nap(c) ==
  /\ thr[c].at = "nap" /\ c \notin cancelled
  /\ Move(c, "tx_in", NULL)
  /\ UNCHANGED << stray, process >>

(* sleep and usleep are cancellation points, and so is the sendto that     *)
(* spandsp may or may not come to in a pass.                               *)
Cancelled(c) ==
  /\ c \in cancelled /\ thr[c].at \notin { "none", "gone" }
  /\ Gone(c)

Thread(c) ==
  /\ Alive
  /\ Wake(c) \/ Work(c) \/ WorkAstray(c) \/ Nap(c) \/ Cancelled(c)

(* The process is gone. *)
Ended == ~Alive /\ UNCHANGED vars

Main == \/ \E c \in Calls : Setup(c)
        \/ \E k \in DOMAIN up : Release(k)
        \/ Shutdown \/ MainStep

Next == Main \/ (\E c \in Calls : Thread(c)) \/ Ended

Spec == Init /\ [][Next]_vars

(* The scheduler runs every thread again and again; nothing forces a       *)
(* command to come, but a handler that has begun goes on.                  *)
FairSpec == Spec /\ WF_vars(MainStep) /\ \A c \in Calls : WF_vars(Thread(c))

-----------------------------------------------------------------------------
(* Properties. *)

Legs(in) == { in, mem[in].peer }

Released(c) ==
  /\ thr[c].at # "none" /\ ~SettingUp(c)
  /\ \A k \in DOMAIN up : up[k][1] # c

\* Types; neither the table nor a handler holds half a call.
TypeOK ==
  /\ mem \in [Addr -> [call : Calls \union {NULL}, peer : Addr \union {NULL},
                       fax : BOOLEAN, active : BOOLEAN]]
  /\ \A k \in DOMAIN up : up[k] \in Calls \X Addr /\ mem[up[k][2]].peer \in Addr
  /\ \A j \in DOMAIN todo :
       \/ todo[j][1] \in { "flag", "peer", "fax", "cancel", "free" } /\ todo[j][2] \in Addr
       \/ todo[j][1] = "enter" /\ todo[j][2] \in Calls
  /\ thr \in [Calls -> [at : Where, arg : Addr \union {NULL},
                        ses : Addr \union {NULL}]]
  /\ cancelled \subseteq Calls /\ stray \subseteq Calls
  /\ process \in { "runs", "ending", "exited", "crashed" }

\* A thread uses only the sessions of its own call, linked and with their
\* spandsp states, for as long as the call is up: memory is freed under a
\* thread, and an address reused, only by the release of that very call.
\* "Don't remove this sleep()" (src/src/session.c:487) is what keeps a new
\* thread from the links that proc_setup writes after pthread_create
\* (src/src/session.c:580-598).
SoundWhileUp == \A c \in stray : Released(c)

\* pthread_cancel stops a thread within the pass it is in: after it, the
\* thread makes at most the four calls of one pass
\* (src/src/session.c:489-495).
OnePassLate == \A c \in Calls : late[c] <= Cardinality(Pass)

\* Between two handlers, the memory in use is the legs of the calls in the
\* table, two each and linked both ways, and the threads that are not told to
\* end are those of these calls; by RELEASE and by shutdown, whatever the
\* order they destroy the legs in (src/src/session.c:199-216, 668-676,
\* src/src/app.c:287-292).
NothingLeft ==
  process # "crashed" /\ todo = << >> =>
    /\ InUse = UNION { Legs(up[k][2]) : k \in DOMAIN up }
    /\ Cardinality(InUse) = 2 * Len(up)
    /\ \A k \in DOMAIN up : mem[mem[up[k][2]].peer].peer = up[k][2]
    /\ { c \in Calls : thr[c].at # "none" } \ cancelled
         = { up[k][1] : k \in DOMAIN up }

\* The main thread never works on a session it has freed.
MainSound ==
  todo # << >> /\ Head(todo)[1] # "enter" =>
    mem[Head(todo)[2]] # FREE

\* The thread of a released call ends.
ThreadEnds ==
  \A c \in Calls : Released(c) ~> thr[c].at = "gone" \/ ~Alive

=============================================================================
