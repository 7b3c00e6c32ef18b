---------------------------- MODULE CallControl ----------------------------
(***************************************************************************)
(* The main thread of the FAX BU application: the poll loop of             *)
(* src/src/app.c and the signalling handlers of src/src/session.c.         *)
(*                                                                         *)
(* A call is two sessions ("legs"), IN and OUT, that sit in neighbouring   *)
(* slots of the arrays cfg->session and cfg->pfds.  SETUP appends a call,  *)
(* RELEASE leaves two holes, and the next pass of app_procSessions moves   *)
(* the sessions above the holes down and shrinks session_cnt.              *)
(*                                                                         *)
(* Every command handler runs to completion on the main thread and is one  *)
(* action; app_procSessions is one action per loop iteration.              *)
(*                                                                         *)
(* A few definitions stand beside a slip a programmer could have made in   *)
(* the same place (SkipOneHole, PollForever, ...).  They are no part of    *)
(* Next: they exist to show that the properties would notice.              *)
(***************************************************************************)
EXTENDS RoundRobin, FiniteSets

CONSTANTS
  Sess,          \* the addresses a session_t may have
  Calloc(_),     \* the addresses calloc may return, given those in use
  CallIds,       \* call identifiers used by the controller
  NULL,          \* the null pointer
  MaxSessions,   \* FAX_MAX_SESSIONS
  PortCount,     \* PORT_COUNT; port number PORT_START + p is written p
  IdsPerDir,     \* SESSION_ID_OUT: ids of one direction
  Fds,           \* the descriptors the process may open
  Faults         \* the external failures that may happen

FaultNames == { "calloc", "listener", "fax", "pthread", "send", "heap" }

(* session_cnt is a uint8_t and may reach MaxSessions + 1.  Both tables    *)
(* are large enough for every session of a full call table.                *)
ASSUME MaxAssumption   == MaxSessions \in 2 .. 254 /\ MaxSessions % 2 = 0
ASSUME TableAssumption == /\ PortCount \in Nat /\ PortCount >= MaxSessions
                          /\ IdsPerDir \in Nat /\ 2 * IdsPerDir > MaxSessions
ASSUME CallocAssumption == \A L \in SUBSET Sess : Calloc(L) \subseteq Sess \ L
ASSUME FdAssumption    == Fds \subseteq Nat \ {0}
ASSUME NullAssumption  == NULL \notin Sess /\ NULL \notin CallIds
ASSUME FaultAssumption == Faults \subseteq FaultNames

(* The arrays have MaxSessions elements, numbered from 0; slot MaxSessions *)
(* is the memory just above them, which proc_setup writes too.             *)
Slots == 0 .. MaxSessions
CtrlSlot == 0                    \* FAX_CTRL_FD_IDX
NoFd == -1

(* loc_port values outside the managed range: FAX_CONTROL_PORT, and        *)
(* app_portGetFree's -1 stored into a uint16_t.                            *)
CtrlPort == PortCount
WrapPort == PortCount + 1
Uint16(k) == IF k = NoEntry THEN WrapPort ELSE k

VARIABLES
  pc,            \* where the main thread is
  app_run,       \* cleared by the signal handler
  idx, skip_sessions,    \* i and skip_sessions of app_procSessions
  session,       \* cfg->session
  pfds,          \* cfg->pfds[].fd
  session_cnt,   \* cfg->session_cnt
  live,          \* the addresses that hold an allocated session_t
  obj,           \* the contents of each session_t
  ports, port_idx,       \* port_table, port_idx_static
  ids, id_in, id_out,    \* session_id_array, ses_id_static_in/out
  open,          \* open descriptors
  threads,       \* sessions whose fax thread exists and is not cancelled
  answer         \* the message sent in reply to the last command

loopVars   == << idx, skip_sessions >>
tableVars  == << session, pfds, session_cnt >>
memVars    == << live, obj, ids, ports, open, threads >>
cursorVars == << port_idx, id_in, id_out >>
vars == << pc, app_run, loopVars, tableVars, memVars, cursorVars, answer >>

NoAnswer == [type |-> "NONE", call_id |-> NULL, port |-> WrapPort]
Error(c) == [type |-> "ERROR", call_id |-> c, port |-> WrapPort]
Ok(c, p) == [type |-> "OK", call_id |-> c, port |-> p]

(* Contents of a session_t that has not been allocated. *)
Blank == [kind |-> "FREE", ses_id |-> NoEntry, sidx |-> 0, call_id |-> NULL,
          loc_port |-> WrapPort, fds |-> NoFd, peer_ses |-> NULL,
          thread_active |-> FALSE]

(* What session_create and session_init put into a session_t; the thread   *)
(* flag and the peer are set by proc_setup.                                *)
NewSession(kind, id, sidx, c, port, fd, peer) ==
  [kind |-> kind, ses_id |-> id, sidx |-> sidx, call_id |-> c,
   loc_port |-> port, fds |-> fd, peer_ses |-> peer,
   thread_active |-> kind = "IN"]

Init ==
  /\ pc = "init" /\ app_run = TRUE
  /\ idx = 1 /\ skip_sessions = 0
  /\ session = [i \in Slots |-> NULL]
  /\ pfds = [i \in Slots |-> 0]
  /\ session_cnt = 0
  /\ live = {} /\ obj = [s \in Sess |-> Blank]
  /\ ports = {} /\ port_idx = 0
  /\ ids = {} /\ id_in = 0 /\ id_out = IdsPerDir
  /\ open = {} /\ threads = {}
  /\ answer = NoAnswer

-----------------------------------------------------------------------------
(* Allocation. *)

InId    == NextFree(ids, id_in, 0, IdsPerDir)
OutId   == NextFree(ids, id_out, IdsPerDir, 2 * IdsPerDir)
InPort  == NextFree(ports, port_idx, 0, PortCount)
OutPortTakenTwice == NextFree(ports, port_idx, 0, PortCount)

OutPort == NextFree(UsedAfter(ports, InPort), CursorAfter(port_idx, InPort),
                    0, PortCount)

(* socket() returns the lowest free descriptor, or fails when none is. *)
FreeFds == Fds \ open
Lowest(fd, S) == fd \in S /\ \A g \in S : fd <= g

(* session_create and session_init of the IN leg, seen from the cursors,   *)
(* which stay where they are when the leg is destroyed again.              *)
InCursors ==
  /\ id_in'    = CursorAfter(id_in, InId)
  /\ port_idx' = CursorAfter(port_idx, InPort)

BothCursors ==
  /\ id_in'    = CursorAfter(id_in, InId)
  /\ id_out'   = CursorAfter(id_out, OutId)
  /\ port_idx' = CursorAfter(CursorAfter(port_idx, InPort), OutPort)

(* session_destroy of every session in gone; first without the call of     *)
(* app_portRelease.                                                        *)
SessionDestroyKeepingPort(gone) ==
  /\ live'    = live \ gone
  /\ obj'     = [s \in Sess |-> IF s \in gone THEN Blank ELSE obj[s]]
  /\ ids'     = ids \ { obj[s].ses_id : s \in gone }
  /\ open'    = open \ { obj[s].fds : s \in gone }
  /\ threads' = threads \ { s \in gone : obj[s].thread_active }
  /\ UNCHANGED ports

SessionDestroy(gone) ==
  /\ live'    = live \ gone
  /\ obj'     = [s \in Sess |-> IF s \in gone THEN Blank ELSE obj[s]]
  /\ ids'     = ids \ { obj[s].ses_id : s \in gone }
  /\ ports'   = ports \ { obj[s].loc_port : s \in gone }
  /\ open'    = open \ { obj[s].fds : s \in gone }
  /\ threads' = threads \ { s \in gone : obj[s].thread_active }

-----------------------------------------------------------------------------
(* main(), app_init and app_cfgInit. *)

AppInit ==
  /\ pc = "init"
  /\ \E s \in Calloc(live), fd \in FreeFds :
       /\ Lowest(fd, FreeFds)
       /\ live' = {s}
       /\ obj' = [obj EXCEPT ![s] =
                    NewSession("CTRL", InId, CtrlSlot, NULL, CtrlPort, fd, NULL)]
       /\ session' = [session EXCEPT ![CtrlSlot] = s]
       /\ pfds' = [pfds EXCEPT ![CtrlSlot] = fd]
       /\ open' = {fd}
  /\ session_cnt' = 1
  /\ ids' = UsedAfter(ids, InId) /\ id_in' = CursorAfter(id_in, InId)
  /\ pc' = "poll"
  /\ UNCHANGED << app_run, loopVars, ports, port_idx, id_out, threads, answer >>

AppInitFails ==
  /\ pc = "init"
  /\ Faults \cap { "calloc", "listener" } # {} \/ FreeFds = {}
  /\ pc' = "failed"
  /\ UNCHANGED << app_run, loopVars, tableVars, memVars, cursorVars, answer >>

(* sigint_handler, at any moment of the program's life. *)
Signal ==
  /\ app_run /\ pc \in { "init", "poll", "sessions", "cmd" }
  /\ app_run' = FALSE
  /\ UNCHANGED << pc, loopVars, tableVars, memVars, cursorVars, answer >>

-----------------------------------------------------------------------------
(* app_start and app_procSessions. *)

PollUntilReset ==
  /\ pc = "poll" /\ app_run
  /\ pc' = "sessions" /\ idx' = CtrlSlot + 1
  /\ answer' = NoAnswer
  /\ UNCHANGED << app_run, skip_sessions, tableVars, memVars, cursorVars >>

PollForever ==
  /\ pc = "poll"
  /\ pc' = "sessions" /\ idx' = CtrlSlot + 1 /\ skip_sessions' = 0
  /\ answer' = NoAnswer
  /\ UNCHANGED << app_run, tableVars, memVars, cursorVars >>

Poll ==
  /\ pc = "poll" /\ app_run
  /\ pc' = "sessions" /\ idx' = CtrlSlot + 1 /\ skip_sessions' = 0
  /\ answer' = NoAnswer
  /\ UNCHANGED << app_run, tableVars, memVars, cursorVars >>

SkipOneHole ==
  /\ pc = "sessions" /\ idx < session_cnt /\ pfds[idx] = NoFd
  /\ skip_sessions' = 1 /\ idx' = idx + 1
  /\ UNCHANGED << pc, app_run, tableVars, memVars, cursorVars, answer >>

SkipHole ==
  /\ pc = "sessions" /\ idx < session_cnt /\ pfds[idx] = NoFd
  /\ skip_sessions' = skip_sessions + 1 /\ idx' = idx + 1
  /\ UNCHANGED << pc, app_run, tableVars, memVars, cursorVars, answer >>

(* session_proc, which may follow in both cases, changes nothing here.     *)
KeepSession ==
  /\ pc = "sessions" /\ idx < session_cnt /\ pfds[idx] # NoFd
  /\ skip_sessions = 0 /\ session[idx] \in live
  /\ idx' = idx + 1
  /\ UNCHANGED << pc, app_run, skip_sessions, tableVars, memVars, cursorVars,
                  answer >>

ShiftDownKeepingSidx(to) ==
  /\ session' = [session EXCEPT ![to] = session[idx]]
  /\ pfds' = [pfds EXCEPT ![to] = pfds[idx]]
  /\ UNCHANGED obj

ShiftDown(to) ==
  /\ session' = [session EXCEPT ![to] = session[idx]]
  /\ pfds' = [pfds EXCEPT ![to] = pfds[idx]]
  /\ obj' = [obj EXCEPT ![session[idx]].sidx = to]

MoveSession ==
  /\ pc = "sessions" /\ idx < session_cnt /\ pfds[idx] # NoFd
  /\ skip_sessions > 0 /\ session[idx] \in live
  /\ idx' = idx + 1
  /\ ShiftDown(idx - skip_sessions)
  /\ UNCHANGED << pc, app_run, skip_sessions, session_cnt, live, ids, ports,
                  open, threads, cursorVars, answer >>

EndSessionsKeepingCount ==
  /\ pc = "sessions" /\ idx >= session_cnt
  /\ pc' = "cmd"
  /\ UNCHANGED << app_run, loopVars, tableVars, memVars, cursorVars, answer >>

EndSessions ==
  /\ pc = "sessions" /\ idx >= session_cnt
  /\ session_cnt' = session_cnt - skip_sessions
  /\ pc' = "cmd"
  /\ UNCHANGED << app_run, loopVars, session, pfds, memVars, cursorVars, answer >>

-----------------------------------------------------------------------------
(* app_procCMD and session_procCMD.  The control socket has at most one    *)
(* command read per pass of the loop.                                      *)

Commanded == pc = "cmd" /\ pc' = "poll" /\ UNCHANGED << app_run, loopVars >>

(* The answer is lost when sig_msgCreate* finds no memory or sendto fails. *)
Reply(m) ==
  \/ answer' = m
  \/ Faults \cap { "calloc", "send" } # {} /\ answer' = NoAnswer

(* poll timed out or failed, recvfrom failed, or the message is an OK or   *)
(* an ERROR.                                                               *)
NoCommand ==
  /\ Commanded
  /\ UNCHANGED << tableVars, memVars, cursorVars, answer >>

(* ERROR_CALL_ID is no call's identifier; it is written NULL. *)
BadMessage ==
  /\ Commanded
  /\ Reply(Error(NULL))
  /\ UNCHANGED << tableVars, memVars, cursorVars >>

(* A SETUP that ends the process with a segmentation fault. *)
Crash ==
  /\ pc = "cmd" /\ pc' = "crashed"
  /\ UNCHANGED << app_run, loopVars, tableVars, memVars, cursorVars, answer >>

SetupRejected(c) ==
  /\ Commanded /\ session_cnt >= MaxSessions
  /\ Reply(Error(c))
  /\ UNCHANGED << tableVars, memVars, cursorVars >>

SetupInNoMemory(c) ==
  /\ Commanded /\ session_cnt < MaxSessions
  /\ "calloc" \in Faults
  /\ Reply(Error(c))
  /\ UNCHANGED << tableVars, memVars, cursorVars >>

(* session_init gives up before fax_sessionInit; session_destroy then      *)
(* follows fax_params.session, which is still NULL (src/src/fax.c:202-204) *)
SetupInListenerFails(c) ==
  /\ session_cnt < MaxSessions
  /\ "listener" \in Faults \/ FreeFds = {}
  /\ Crash

(* session_init closes nothing: the socket is not yet in session->fds.     *)
(* in_session is freed but not cleared, so the answer is built from it.    *)
SetupInFaxFails(c) ==
  /\ Commanded /\ session_cnt < MaxSessions
  /\ "fax" \in Faults
  /\ \E fd \in FreeFds : Lowest(fd, FreeFds) /\ open' = open \union {fd}
  /\ InCursors /\ UNCHANGED id_out
  /\ Reply(Ok(c, Uint16(InPort)))
  /\ UNCHANGED << tableVars, live, obj, ids, ports, threads >>

(* fax_initGW clears t38_gw_state without asking whether fax_paramsInit    *)
(* could allocate it (src/src/fax.c:144, 371).                             *)
SetupFaxCrashes(c) ==
  /\ session_cnt < MaxSessions
  /\ "fax" \in Faults /\ FreeFds # {}
  /\ Crash

SetupOutNoMemory(c) ==
  /\ Commanded /\ session_cnt < MaxSessions
  /\ "calloc" \in Faults /\ FreeFds # {}
  /\ InCursors /\ UNCHANGED id_out
  /\ Reply(Error(c))
  /\ UNCHANGED << tableVars, memVars >>

SetupOutListenerFails(c) ==
  /\ session_cnt < MaxSessions
  /\ FreeFds # {}
  /\ "listener" \in Faults \/ \E fd \in FreeFds : FreeFds = {fd}
  /\ Crash

SetupOutFaxFails(c) ==
  /\ Commanded /\ session_cnt < MaxSessions
  /\ "fax" \in Faults
  /\ \E fd1, fd2 \in FreeFds :
       /\ Lowest(fd1, FreeFds) /\ Lowest(fd2, FreeFds \ {fd1})
       /\ open' = open \union {fd2}
  /\ BothCursors
  /\ Reply(Error(c))
  /\ UNCHANGED << tableVars, live, obj, ids, ports, threads >>

SetupThreadFailsAnsweringOk(c) ==
  /\ Commanded /\ session_cnt < MaxSessions
  /\ "pthread" \in Faults /\ \E fd1, fd2 \in FreeFds : fd1 # fd2
  /\ BothCursors
  /\ Reply(Ok(c, Uint16(InPort)))
  /\ UNCHANGED << tableVars, memVars >>

SetupThreadFails(c) ==
  /\ Commanded /\ session_cnt < MaxSessions
  /\ "pthread" \in Faults /\ \E fd1, fd2 \in FreeFds : fd1 # fd2
  /\ BothCursors
  /\ Reply(Error(c))
  /\ UNCHANGED << tableVars, memVars >>

AddCallOneWay(c, in, out, fd1, fd2) ==
  /\ live' = live \union {in, out}
  /\ obj' = [obj EXCEPT
       ![in]  = NewSession("IN", InId, session_cnt, c, Uint16(InPort), fd1, out),
       ![out] = NewSession("OUT", OutId, session_cnt + 1, c, Uint16(OutPort),
                           fd2, NULL)]
  /\ open' = open \union {fd1, fd2}
  /\ threads' = threads \union {in}
  /\ session' = [session EXCEPT ![session_cnt] = in, ![session_cnt + 1] = out]
  /\ pfds' = [pfds EXCEPT ![session_cnt] = fd1, ![session_cnt + 1] = fd2]

AddCall(c, in, out, fd1, fd2) ==
  /\ live' = live \union {in, out}
  /\ obj' = [obj EXCEPT
       ![in]  = NewSession("IN", InId, session_cnt, c, Uint16(InPort), fd1, out),
       ![out] = NewSession("OUT", OutId, session_cnt + 1, c, Uint16(OutPort),
                           fd2, in)]
  /\ open' = open \union {fd1, fd2}
  /\ threads' = threads \union {in}
  /\ session' = [session EXCEPT ![session_cnt] = in, ![session_cnt + 1] = out]
  /\ pfds' = [pfds EXCEPT ![session_cnt] = fd1, ![session_cnt + 1] = fd2]

SetupDone(c) ==
  /\ Commanded /\ session_cnt < MaxSessions
  /\ \E in \in Calloc(live) : \E out \in Calloc(live \union {in}) :
     \E fd1, fd2 \in FreeFds :
       /\ Lowest(fd1, FreeFds) /\ Lowest(fd2, FreeFds \ {fd1})
       /\ AddCall(c, in, out, fd1, fd2)
  /\ session_cnt' = session_cnt + 2
  /\ ids' = UsedAfter(UsedAfter(ids, InId), OutId)
  /\ ports' = UsedAfter(UsedAfter(ports, InPort), OutPort)
  /\ BothCursors
  /\ Reply(Ok(c, Uint16(InPort)))

(* The call that fills the table writes the slot past the end of both      *)
(* arrays.  Where the allocator leaves slack there (glibc on 64 bits) the  *)
(* slot works, as in SetupDone; elsewhere it holds heap metadata.          *)
SetupOverrun(c) ==
  /\ session_cnt = MaxSessions - 1 /\ "heap" \in Faults
  /\ Crash

\* The loop without its break finds the last match.
MatchesNewest(c) ==
  { i \in CtrlSlot + 1 .. session_cnt - 1 :
      /\ session[i] # NULL /\ obj[session[i]].call_id = c
      /\ \A j \in i + 1 .. session_cnt - 1 :
           session[j] # NULL => obj[session[j]].call_id # c }

Matches(c) == { i \in CtrlSlot + 1 .. session_cnt - 1 :
                  session[i] # NULL /\ obj[session[i]].call_id = c }

Release(c) ==
  /\ Commanded
  /\ \E i \in Matches(c) :
       LET cs   == session[i]
           peer == obj[cs].peer_ses
           pidx == obj[peer].sidx
       IN  /\ Lowest(i, Matches(c))
           /\ peer \in Sess
           /\ session' = [session EXCEPT ![i] = NULL, ![pidx] = NULL]
           /\ pfds' = [pfds EXCEPT ![i] = NoFd, ![pidx] = NoFd]
           /\ SessionDestroy({cs, peer})
  /\ UNCHANGED << session_cnt, cursorVars, answer >>

ReleaseUnknown(c) ==
  /\ Commanded /\ Matches(c) = {}
  /\ UNCHANGED << tableVars, memVars, cursorVars, answer >>

-----------------------------------------------------------------------------
(* app_cfgDestroy. *)

AppDestroy ==
  /\ pc = "poll" /\ ~app_run
  /\ LET used == 0 .. session_cnt - 1
     IN  /\ SessionDestroy({ session[i] : i \in used } \ {NULL})
         /\ session' = [i \in Slots |-> IF i \in used THEN NULL ELSE session[i]]
         /\ pfds' = [i \in Slots |-> IF i \in used THEN NoFd ELSE pfds[i]]
  /\ pc' = "done"
  /\ UNCHANGED << app_run, loopVars, session_cnt, cursorVars, answer >>

(* The process is gone. *)
Ended ==
  /\ pc \in { "done", "failed", "crashed" }
  /\ UNCHANGED vars

(* proc_setup. *)
Setup(c) ==
  \/ SetupRejected(c) \/ SetupDone(c) \/ SetupOverrun(c)
  \/ SetupInNoMemory(c) \/ SetupInListenerFails(c) \/ SetupInFaxFails(c)
  \/ SetupFaxCrashes(c)
  \/ SetupOutNoMemory(c) \/ SetupOutListenerFails(c) \/ SetupOutFaxFails(c)
  \/ SetupThreadFails(c)

Command(c) == Setup(c) \/ Release(c) \/ ReleaseUnknown(c)

MainThread ==
  \/ AppInit \/ AppInitFails
  \/ Poll \/ SkipHole \/ KeepSession \/ MoveSession \/ EndSessions
  \/ NoCommand \/ BadMessage \/ \E c \in CallIds : Command(c)
  \/ AppDestroy

Next == MainThread \/ Signal \/ Ended

Spec == Init /\ [][Next]_vars

(* poll() returns within POLL_TIMEOUT and no handler blocks, so the main   *)
(* thread always takes its next step; nothing forces a signal to come.     *)
FairSpec == Spec /\ WF_vars(MainThread)

-----------------------------------------------------------------------------
(* Properties. *)

SessionRec ==
  [kind : { "FREE", "CTRL", "IN", "OUT" },
   ses_id : { NoEntry } \union (0 .. 2 * IdsPerDir - 1),
   sidx : Slots, call_id : CallIds \union {NULL},
   loc_port : 0 .. WrapPort, fds : Fds \union {NoFd},
   peer_ses : Sess \union {NULL}, thread_active : BOOLEAN]

AnswerRec ==
  [type : { "NONE", "OK", "ERROR" }, call_id : CallIds \union {NULL},
   port : 0 .. WrapPort]

\* The types of all variables, and the bounds of the loop variables: the
\* loop of app_procSessions never leaves the table and never counts a
\* session it has not passed.
TypeOK ==
  /\ pc \in { "init", "poll", "sessions", "cmd", "done", "failed", "crashed" }
  /\ app_run \in BOOLEAN
  /\ idx \in 1 .. MaxSessions + 1 /\ skip_sessions \in 0 .. idx - 1
  /\ session \in [Slots -> Sess \union {NULL}]
  /\ pfds \in [Slots -> Fds \union {NoFd, 0}]
  /\ session_cnt \in 0 .. MaxSessions + 1
  /\ live \subseteq Sess /\ threads \subseteq Sess
  /\ obj \in [Sess -> SessionRec]
  /\ ports \subseteq 0 .. PortCount - 1 /\ port_idx \in 0 .. PortCount
  /\ ids \subseteq 0 .. 2 * IdsPerDir - 1
  /\ id_in \in 0 .. IdsPerDir /\ id_out \in IdsPerDir .. 2 * IdsPerDir
  /\ open \subseteq Fds
  /\ answer \in AnswerRec

(* The slots that count.  While app_procSessions runs, these are the slots *)
(* already rewritten and the slots not yet reached.                        *)
Scope ==
  IF pc = "sessions"
  THEN (1 .. idx - skip_sessions - 1) \union (idx .. session_cnt - 1)
  ELSE 1 .. session_cnt - 1

Legs == { session[i] : i \in Scope } \ {NULL}

\* The two arrays and the sessions agree: a slot is a hole in both arrays, or
\* it holds an allocated session that knows its own slot and whose descriptor
\* is the one polled.  app_procSessions and proc_release follow these links
\* without checking them (src/src/app.c:228-235, src/src/session.c:671-675).
TableConsistent ==
  \A i \in Scope :
    IF pfds[i] = NoFd THEN session[i] = NULL
    ELSE /\ session[i] \in live
         /\ obj[session[i]].sidx = i
         /\ obj[session[i]].fds = pfds[i]
         /\ obj[session[i]].kind \in { "IN", "OUT" }

\* Both legs of a call are up or neither is: each names the other, they share
\* the call's identifier, and the call has one fax thread, owned by the IN
\* leg.  Releasing a call by either leg relies on it
\* (src/src/session.c:668-675).
PeersPaired ==
  /\ threads \subseteq Legs
  /\ \A s \in Legs :
       LET p == obj[s].peer_ses
       IN  /\ p \in Legs /\ obj[p].peer_ses = s
           /\ obj[p].call_id = obj[s].call_id
           /\ obj[p].kind # obj[s].kind
           /\ obj[s].thread_active = (obj[s].kind = "IN")
           /\ (s \in threads) = (obj[s].kind = "IN")

\* When a command is handled the table has no holes, so that the capacity
\* check of proc_setup counts sessions (src/src/session.c:516).
CompactAtCommand ==
  pc = "cmd" => \A i \in Scope : session[i] # NULL

\* Nothing outlives the table, across every failure path of proc_setup and
\* the shutdown: each allocated session, port, id and socket belongs to a
\* session in the table.  A socket is lost when fax_sessionInit fails
\* (src/src/session.c:327-343), so sockets are counted where it cannot.
ResourcesAccounted ==
  /\ live = Legs \union ({session[CtrlSlot]} \ {NULL})
  /\ ports = { obj[s].loc_port : s \in Legs }
  /\ ids = { obj[s].ses_id : s \in live }
  /\ { obj[s].fds : s \in live } \subseteq open
  /\ "fax" \notin Faults => open = { obj[s].fds : s \in live }

\* No two sessions share an id, a port or a descriptor, and the tables never
\* run out: no session gets the -1 that session_create and session_init would
\* store unchecked (src/src/session.c:179, 301).
NothingShared ==
  \A s, t \in live :
    /\ obj[s].ses_id # NoEntry /\ obj[s].loc_port # WrapPort
    /\ s # t => /\ obj[s].ses_id # obj[t].ses_id
                /\ obj[s].loc_port # obj[t].loc_port
                /\ obj[s].fds # obj[t].fds

(* What the invariants above rest on. *)
Window ==
  /\ pc \in { "init", "failed" } => session_cnt = 0 /\ live = {} /\ threads = {}
  /\ pc \notin { "init", "failed" } => session_cnt >= 1
  /\ pc = "sessions" => idx <= session_cnt

CtrlTracked ==
  /\ pc \in { "poll", "sessions", "cmd", "crashed" } =>
       session[CtrlSlot] \in live /\ obj[session[CtrlSlot]].kind = "CTRL"
  /\ pc = "done" => live = {}

LegsTracked ==
  \A s \in live \ {session[CtrlSlot]} :
    obj[s].sidx \in Scope /\ session[obj[s].sidx] = s

NoHolePassed ==
  pc = "sessions" => \A i \in 1 .. idx - skip_sessions - 1 : session[i] # NULL

\* The inductive invariant of the call table: beside the properties above, a
\* session that is not the control session is in the table, at its own sidx.
IInv ==
  /\ TypeOK /\ Window
  /\ CtrlTracked /\ LegsTracked
  /\ TableConsistent /\ PeersPaired
  /\ NoHolePassed /\ CompactAtCommand

\* A SETUP is all or nothing: OK names a call that is now in the table, at
\* the port the IN leg listens on; ERROR leaves every session, port, id,
\* socket and thread as it was (src/src/session.c:616-648).
SetupAllOrNothing ==
  [][pc = "cmd" /\ answer' # NoAnswer =>
       IF answer'.type = "OK"
       THEN \E i \in 1 .. session_cnt' - 1 :
              LET s == session'[i]
              IN  /\ s \in live' \ live
                  /\ obj'[s].kind = "IN"
                  /\ obj'[s].call_id = answer'.call_id
                  /\ obj'[s].loc_port = answer'.port
       ELSE UNCHANGED << tableVars, memVars >>]_vars

\* "Processed successfully" (src/src/session.c:634): an OK answers a SETUP
\* whose call is in the table.
OkMeansProcessed ==
  [][pc = "cmd" /\ answer'.type = "OK" =>
       \E s \in live' \ live : obj'[s].call_id = answer'.call_id]_vars

\* "Maximum session count is reached. Reject setup" (src/src/session.c:518):
\* the arrays of FAX_MAX_SESSIONS elements (src/src/app.c:155, 163) are never
\* indexed at or above their length.
SessionCntFits == session_cnt <= MaxSessions

\* "Processing failed" (src/src/session.c:624): a SETUP that cannot be
\* carried out is answered with an ERROR and the program goes on.
SetupSurvivesFailure == pc # "crashed"

\* A termination signal stops the program: the loop condition is read within
\* one pass of the poll loop (src/src/app.c:263).
SignalStops == ~app_run ~> pc \in { "done", "failed", "crashed" }

\* The holes a RELEASE leaves are closed, however many RELEASEs follow: the
\* program comes back to poll() with none in the part of the table it polls,
\* so that released slots can be used by later calls (src/src/app.c:217-239).
HolesCollected ==
  (\E i \in 1 .. session_cnt - 1 : pfds[i] = NoFd)
     ~> \/ pc = "poll" /\ \A i \in 1 .. session_cnt - 1 : pfds[i] # NoFd
        \/ pc \in { "done", "crashed" }

=============================================================================
