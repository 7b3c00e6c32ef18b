------------------------- MODULE CallControlProofs --------------------------
(***************************************************************************)
(* Proofs about the main thread for any number of slots, ports, ids,       *)
(* descriptors and calls, and for any set of failures; and of its          *)
(* refinement of the list of calls.                                        *)
(***************************************************************************)
EXTENDS CallControlRefinement, TableLemmas

(* What the three allocations of a SETUP return: an index that was free,   *)
(* or NoEntry; the cursors stay in range.                                     *)
LEMMA Allocations ==
  ASSUME TypeOK
  PROVE  /\ InId = NoEntry \/ InId \in (0 .. IdsPerDir - 1) \ ids
         /\ OutId = NoEntry \/ OutId \in (IdsPerDir .. 2 * IdsPerDir - 1) \ ids
         /\ InPort = NoEntry \/ InPort \in (0 .. PortCount - 1) \ ports
         /\ OutPort = NoEntry
              \/ OutPort \in (0 .. PortCount - 1) \ UsedAfter(ports, InPort)
         /\ CursorAfter(id_in, InId) \in 0 .. IdsPerDir
         /\ CursorAfter(id_out, OutId) \in IdsPerDir .. 2 * IdsPerDir
         /\ CursorAfter(port_idx, InPort) \in 0 .. PortCount
         /\ CursorAfter(CursorAfter(port_idx, InPort), OutPort) \in 0 .. PortCount
  <1> USE TableAssumption
  <1>0. /\ 0 \in Nat /\ IdsPerDir \in Nat /\ 2 * IdsPerDir \in Nat
        /\ PortCount \in Nat
        /\ id_in \in 0 .. IdsPerDir /\ id_out \in IdsPerDir .. 2 * IdsPerDir
        /\ port_idx \in 0 .. PortCount
    BY DEF TypeOK
  <1>1. /\ InId \in (0 .. IdsPerDir - 1) \ ids \/ InId = NoEntry
        /\ CursorAfter(id_in, InId) \in 0 .. IdsPerDir
    BY <1>0, NextFreeSound DEF InId
  <1>2. /\ OutId \in (IdsPerDir .. 2 * IdsPerDir - 1) \ ids \/ OutId = NoEntry
        /\ CursorAfter(id_out, OutId) \in IdsPerDir .. 2 * IdsPerDir
    BY <1>0, NextFreeSound DEF OutId
  <1>3. /\ InPort \in (0 .. PortCount - 1) \ ports \/ InPort = NoEntry
        /\ CursorAfter(port_idx, InPort) \in 0 .. PortCount
    BY <1>0, NextFreeSound DEF InPort
  <1>4. /\ \/ OutPort \in (0 .. PortCount - 1) \ UsedAfter(ports, InPort)
           \/ OutPort = NoEntry
        /\ CursorAfter(CursorAfter(port_idx, InPort), OutPort) \in 0 .. PortCount
    BY <1>0, <1>3, NextFreeSound DEF OutPort
  <1> QED BY <1>1, <1>2, <1>3, <1>4

(* Advancing the cursors keeps them in range. *)
LEMMA CursorTypes ==
  ASSUME TypeOK, (InCursors /\ UNCHANGED id_out) \/ BothCursors
  PROVE  /\ port_idx' \in 0 .. PortCount
         /\ id_in' \in 0 .. IdsPerDir
         /\ id_out' \in IdsPerDir .. 2 * IdsPerDir
  BY Allocations DEF TypeOK, InCursors, BothCursors

(* Destroying sessions keeps every part of the memory well typed. *)
LEMMA DestroyTypes ==
  ASSUME TypeOK, NEW gone, SessionDestroy(gone)
  PROVE  /\ live' \subseteq Sess /\ threads' \subseteq Sess
         /\ obj' \in [Sess -> SessionRec]
         /\ ids' \subseteq 0 .. 2 * IdsPerDir - 1
         /\ ports' \subseteq 0 .. PortCount - 1
         /\ open' \subseteq Fds
  <1>1. Blank \in SessionRec
    BY MaxAssumption, TableAssumption
       DEF Blank, SessionRec, Slots, WrapPort, NoEntry, NoFd
  <1>2. obj' \in [Sess -> SessionRec]
    BY <1>1 DEF TypeOK, SessionDestroy
  <1> QED BY <1>2 DEF TypeOK, SessionDestroy

(* A session built by proc_setup or app_InitControlFD is well typed. *)
LEMMA SessionTypes ==
  ASSUME NEW kind \in { "CTRL", "IN", "OUT" },
         NEW id \in {NoEntry} \union (0 .. 2 * IdsPerDir - 1),
         NEW sidx \in Slots, NEW c \in CallIds \union {NULL},
         NEW port \in 0 .. WrapPort, NEW fd \in Fds,
         NEW peer \in Sess \union {NULL}
  PROVE  NewSession(kind, id, sidx, c, port, fd, peer) \in SessionRec
  BY DEF NewSession, SessionRec

(* loc_port keeps what app_portGetFree returns, as a uint16_t. *)
LEMMA PortTypes ==
  ASSUME TypeOK
  PROVE  Uint16(InPort) \in 0 .. WrapPort /\ Uint16(OutPort) \in 0 .. WrapPort
  <1> USE TableAssumption
  <1>1. ASSUME NEW k \in (0 .. PortCount - 1) \union {NoEntry}
        PROVE  Uint16(k) \in 0 .. WrapPort
    <2>1. CASE k = NoEntry
      BY <2>1 DEF Uint16, WrapPort
    <2>2. CASE k \in 0 .. PortCount - 1 /\ k # NoEntry
      BY <2>2 DEF Uint16, WrapPort
    <2> QED BY <2>1, <2>2
  <1>2. /\ InPort \in (0 .. PortCount - 1) \union {NoEntry}
        /\ OutPort \in (0 .. PortCount - 1) \union {NoEntry}
    BY Allocations
  <1> QED BY <1>1, <1>2

-----------------------------------------------------------------------------
(* Types.  The loop variables of app_procSessions stay inside the table    *)
(* only because session_cnt counts the control session, which is never a   *)
(* hole: hence Window beside TypeOK.                                       *)

LEMMA InitTypes == Init => TypeOK /\ Window
  <1> SUFFICES ASSUME Init PROVE TypeOK /\ Window
    OBVIOUS
  <1> USE MaxAssumption, TableAssumption
  <1>1. Blank \in SessionRec
    BY DEF Blank, SessionRec, Slots, WrapPort, NoEntry, NoFd
  <1>2. NoAnswer \in AnswerRec
    BY DEF NoAnswer, AnswerRec, WrapPort
  <1>3. obj \in [Sess -> SessionRec]
    BY <1>1 DEF Init
  <1> QED BY <1>2, <1>3 DEF Init, TypeOK, Window

LEMMA AppInitTypes == TypeOK /\ Window /\ AppInit => TypeOK' /\ Window'
  <1> SUFFICES ASSUME TypeOK, Window, AppInit PROVE TypeOK' /\ Window'
    OBVIOUS
  <1> USE MaxAssumption, TableAssumption
  <1>1. PICK s \in Calloc(live), fd \in FreeFds :
          /\ live' = {s}
          /\ obj' = [obj EXCEPT ![s] = NewSession("CTRL", InId, CtrlSlot, NULL,
                                                  CtrlPort, fd, NULL)]
          /\ session' = [session EXCEPT ![CtrlSlot] = s]
          /\ pfds' = [pfds EXCEPT ![CtrlSlot] = fd]
          /\ open' = {fd}
    BY DEF AppInit
  <1>2. s \in Sess /\ fd \in Fds /\ CtrlSlot \in Slots
    BY CallocAssumption DEF TypeOK, FreeFds, CtrlSlot, Slots
  <1>3. InId \in {NoEntry} \union (0 .. 2 * IdsPerDir - 1)
    BY Allocations
  <1>4. NewSession("CTRL", InId, CtrlSlot, NULL, CtrlPort, fd, NULL) \in SessionRec
    <2>1. CtrlPort \in 0 .. WrapPort
      BY DEF CtrlPort, WrapPort
    <2> QED BY <1>2, <1>3, <2>1, SessionTypes
  <1>5. obj' \in [Sess -> SessionRec]
    BY <1>1, <1>2, <1>4 DEF TypeOK
  <1>6. ids' \subseteq 0 .. 2 * IdsPerDir - 1
    BY <1>3 DEF AppInit, TypeOK, UsedAfter
  <1>7. id_in' \in 0 .. IdsPerDir
    BY Allocations DEF AppInit
  <1>8. session' \in [Slots -> Sess \union {NULL}]
    BY <1>1, <1>2 DEF TypeOK
  <1>9. pfds' \in [Slots -> Fds \union {NoFd, 0}]
    BY <1>1, <1>2 DEF TypeOK
  <1>10. TypeOK'
    BY <1>1, <1>2, <1>5, <1>6, <1>7, <1>8, <1>9 DEF AppInit, TypeOK, loopVars
  <1> QED BY <1>10 DEF AppInit, Window

LEMMA LoopTypes ==
  TypeOK /\ Window /\ (Poll \/ SkipHole \/ KeepSession \/ MoveSession \/ EndSessions)
    => TypeOK' /\ Window'
  <1> SUFFICES ASSUME TypeOK, Window,
                      Poll \/ SkipHole \/ KeepSession \/ MoveSession \/ EndSessions
               PROVE  TypeOK' /\ Window'
    OBVIOUS
  <1> USE MaxAssumption, TableAssumption
          DEF loopVars, tableVars, memVars, cursorVars
  <1>1. CASE Poll
    <2>1. NoAnswer \in AnswerRec
      BY DEF NoAnswer, AnswerRec, WrapPort
    <2> QED BY <1>1, <2>1 DEF Poll, TypeOK, Window, CtrlSlot
  <1>2. CASE SkipHole
    BY <1>2 DEF SkipHole, TypeOK, Window
  <1>3. CASE KeepSession
    BY <1>3 DEF KeepSession, TypeOK, Window
  <1>4. CASE MoveSession
    <2> DEFINE to == idx - skip_sessions
    <2>0. /\ idx \in 1 .. MaxSessions + 1 /\ skip_sessions \in 0 .. idx - 1
          /\ session_cnt \in 0 .. MaxSessions + 1 /\ idx < session_cnt
          /\ session[idx] \in live /\ live \subseteq Sess
      BY <1>4 DEF MoveSession, TypeOK
    <2>1. /\ to \in Slots /\ idx \in Slots /\ idx < session_cnt
          /\ session[idx] \in Sess
      BY <2>0 DEF Slots
    <2>2. /\ session' = [session EXCEPT ![to] = session[idx]]
          /\ pfds' = [pfds EXCEPT ![to] = pfds[idx]]
          /\ obj' = [obj EXCEPT ![session[idx]].sidx = to]
      BY <1>4 DEF MoveSession, ShiftDown
    <2>3. obj' \in [Sess -> SessionRec]
      BY <2>1, <2>2 DEF TypeOK, SessionRec
    <2>4. /\ session' \in [Slots -> Sess \union {NULL}]
          /\ pfds' \in [Slots -> Fds \union {NoFd, 0}]
      BY <2>1, <2>2 DEF TypeOK
    <2> HIDE DEF to
    <2> QED BY <1>4, <2>1, <2>3, <2>4 DEF MoveSession, TypeOK, Window
  <1>5. CASE EndSessions
    BY <1>5 DEF EndSessions, TypeOK, Window
  <1> QED BY <1>1, <1>2, <1>3, <1>4, <1>5

(* A reply that may be lost is well typed if it is when it is sent. *)
LEMMA ReplyTypes ==
  ASSUME NEW m \in AnswerRec, Reply(m)
  PROVE  answer' \in AnswerRec
  BY TableAssumption DEF Reply, NoAnswer, AnswerRec, WrapPort

LEMMA SetupDoneTypes ==
  ASSUME TypeOK, Window, NEW c \in CallIds, SetupDone(c)
  PROVE  TypeOK' /\ Window'
  <1> USE MaxAssumption, TableAssumption
  <1>1. PICK in \in Calloc(live) : \E out \in Calloc(live \union {in}) :
        \E fd1, fd2 \in FreeFds : AddCall(c, in, out, fd1, fd2)
    BY DEF SetupDone
  <1>2. in \in Sess
    BY CallocAssumption DEF TypeOK
  <1>3. PICK out \in Calloc(live \union {in}), fd1 \in FreeFds, fd2 \in FreeFds :
          AddCall(c, in, out, fd1, fd2)
    BY <1>1
  <1>4. out \in Sess /\ fd1 \in Fds /\ fd2 \in Fds
    BY <1>2, CallocAssumption DEF TypeOK, FreeFds
  <1>5. /\ pc = "cmd" /\ pc' = "poll" /\ session_cnt < MaxSessions
        /\ session_cnt' = session_cnt + 2
        /\ ids' = UsedAfter(UsedAfter(ids, InId), OutId)
        /\ ports' = UsedAfter(UsedAfter(ports, InPort), OutPort)
        /\ BothCursors /\ Reply(Ok(c, Uint16(InPort)))
        /\ UNCHANGED << app_run, idx, skip_sessions >>
    BY DEF SetupDone, Commanded, loopVars
  <1>6. /\ session_cnt \in Int /\ session_cnt >= 1
        /\ session_cnt \in Slots /\ session_cnt + 1 \in Slots
    BY <1>5 DEF Window, TypeOK, Slots
  <1>7. obj' \in [Sess -> SessionRec]
    <2>1. /\ InId \in {NoEntry} \union (0 .. 2 * IdsPerDir - 1)
          /\ OutId \in {NoEntry} \union (0 .. 2 * IdsPerDir - 1)
      BY Allocations
    <2>2. /\ NewSession("IN", InId, session_cnt, c, Uint16(InPort), fd1, out)
               \in SessionRec
          /\ NewSession("OUT", OutId, session_cnt + 1, c, Uint16(OutPort), fd2, in)
               \in SessionRec
      BY <1>2, <1>4, <1>6, <2>1, PortTypes, SessionTypes
    <2> QED BY <1>2, <1>3, <1>4, <2>2 DEF AddCall, TypeOK
  <1>8. session' \in [Slots -> Sess \union {NULL}]
    BY <1>2, <1>3, <1>4, <1>6 DEF AddCall, TypeOK
  <1>9. pfds' \in [Slots -> Fds \union {NoFd, 0}]
    BY <1>3, <1>4, <1>6 DEF AddCall, TypeOK
  <1>10. ids' \subseteq 0 .. 2 * IdsPerDir - 1
    <2>1. /\ InId = NoEntry \/ InId \in 0 .. 2 * IdsPerDir - 1
          /\ OutId = NoEntry \/ OutId \in 0 .. 2 * IdsPerDir - 1
      BY Allocations
    <2> QED BY <1>5, <2>1 DEF TypeOK, UsedAfter
  <1>11. ports' \subseteq 0 .. PortCount - 1
    <2>1. /\ InPort = NoEntry \/ InPort \in 0 .. PortCount - 1
          /\ OutPort = NoEntry \/ OutPort \in 0 .. PortCount - 1
      BY Allocations
    <2> QED BY <1>5, <2>1 DEF TypeOK, UsedAfter
  <1>12. /\ port_idx' \in 0 .. PortCount
         /\ id_in' \in 0 .. IdsPerDir
         /\ id_out' \in IdsPerDir .. 2 * IdsPerDir
    BY <1>5, CursorTypes
  <1>13. answer' \in AnswerRec
    <2>1. Ok(c, Uint16(InPort)) \in AnswerRec
      BY PortTypes DEF Ok, AnswerRec
    <2> QED BY <1>5, <2>1, ReplyTypes
  <1>14. /\ live' \subseteq Sess /\ threads' \subseteq Sess /\ open' \subseteq Fds
    BY <1>2, <1>3, <1>4 DEF AddCall, TypeOK
  <1>15. /\ session_cnt' \in 0 .. MaxSessions + 1
         /\ app_run' \in BOOLEAN /\ pc' = "poll"
         /\ idx' \in 1 .. MaxSessions + 1 /\ skip_sessions' \in 0 .. idx' - 1
    BY <1>5 DEF TypeOK
  <1>16. TypeOK'
    BY <1>7, <1>8, <1>9, <1>10, <1>11, <1>12, <1>13, <1>14, <1>15 DEF TypeOK
  <1> QED BY <1>5, <1>6, <1>16 DEF Window

(* A command that leaves the call table as it is: every refused or failed  *)
(* SETUP, an unknown RELEASE, an unreadable message, no message at all.    *)
LEMMA NoChangeTypes ==
  ASSUME TypeOK, Window,
         Commanded, UNCHANGED << tableVars, live, obj, ids, ports, threads >>,
         open' \subseteq Fds, answer' \in AnswerRec,
         UNCHANGED cursorVars \/ (InCursors /\ UNCHANGED id_out) \/ BothCursors
  PROVE  TypeOK' /\ Window'
  <1>1. /\ port_idx' \in 0 .. PortCount
        /\ id_in' \in 0 .. IdsPerDir
        /\ id_out' \in IdsPerDir .. 2 * IdsPerDir
    BY CursorTypes DEF TypeOK, cursorVars
  <1>2. pc = "cmd" /\ pc' = "poll" /\ UNCHANGED << app_run, idx, skip_sessions >>
    BY DEF Commanded, loopVars
  <1>3. UNCHANGED << session, pfds, session_cnt, live, obj, ids, ports, threads >>
    BY DEF tableVars
  <1> QED BY <1>1, <1>2, <1>3 DEF TypeOK, Window

LEMMA SetupFailsTypes ==
  ASSUME TypeOK, Window, NEW c \in CallIds,
         \/ SetupRejected(c) \/ SetupInNoMemory(c) \/ SetupInFaxFails(c)
         \/ SetupOutNoMemory(c) \/ SetupOutFaxFails(c) \/ SetupThreadFails(c)
  PROVE  TypeOK' /\ Window'
  <1>1. Error(c) \in AnswerRec /\ Ok(c, Uint16(InPort)) \in AnswerRec
    BY PortTypes, TableAssumption DEF Error, Ok, AnswerRec, WrapPort
  <1>2. /\ Commanded /\ UNCHANGED << tableVars, live, obj, ids, ports, threads >>
        /\ answer' \in AnswerRec
    BY <1>1, ReplyTypes
       DEF SetupRejected, SetupInNoMemory, SetupInFaxFails,
           SetupOutNoMemory, SetupOutFaxFails, SetupThreadFails, memVars
  <1>3. open' \subseteq Fds
    <2>1. CASE SetupInFaxFails(c)
      BY <2>1 DEF SetupInFaxFails, TypeOK, FreeFds
    <2>2. CASE SetupOutFaxFails(c)
      BY <2>2 DEF SetupOutFaxFails, TypeOK, FreeFds
    <2>3. CASE \/ SetupRejected(c) \/ SetupInNoMemory(c)
               \/ SetupOutNoMemory(c) \/ SetupThreadFails(c)
      BY <2>3 DEF SetupRejected, SetupInNoMemory, SetupOutNoMemory,
                  SetupThreadFails, memVars, TypeOK
    <2> QED BY <2>1, <2>2, <2>3
  <1>4. UNCHANGED cursorVars \/ (InCursors /\ UNCHANGED id_out) \/ BothCursors
    BY DEF SetupRejected, SetupInNoMemory, SetupInFaxFails,
           SetupOutNoMemory, SetupOutFaxFails, SetupThreadFails
  <1> QED BY <1>2, <1>3, <1>4, NoChangeTypes

LEMMA ReleaseTypes ==
  ASSUME TypeOK, Window, NEW c \in CallIds, Release(c)
  PROVE  TypeOK' /\ Window'
  <1>1. PICK i, cs, peer, pidx :
          /\ i \in Matches(c) /\ cs = session[i] /\ peer = obj[cs].peer_ses /\ pidx = obj[peer].sidx
          /\ peer \in Sess
          /\ session' = [session EXCEPT ![i] = NULL, ![pidx] = NULL]
          /\ pfds' = [pfds EXCEPT ![i] = NoFd, ![pidx] = NoFd]
          /\ SessionDestroy({cs, peer})
    BY DEF Release
  <1>2. session' \in [Slots -> Sess \union {NULL}]
    BY <1>1 DEF TypeOK
  <1>3. pfds' \in [Slots -> Fds \union {NoFd, 0}]
    BY <1>1 DEF TypeOK
  <1>4. /\ live' \subseteq Sess /\ threads' \subseteq Sess
        /\ obj' \in [Sess -> SessionRec]
        /\ ids' \subseteq 0 .. 2 * IdsPerDir - 1
        /\ ports' \subseteq 0 .. PortCount - 1
        /\ open' \subseteq Fds
    BY <1>1, DestroyTypes
  <1>5. /\ pc = "cmd" /\ pc' = "poll"
        /\ UNCHANGED << app_run, idx, skip_sessions, session_cnt, port_idx,
                        id_in, id_out, answer >>
    BY DEF Release, Commanded, loopVars, cursorVars
  <1> QED BY <1>2, <1>3, <1>4, <1>5 DEF TypeOK, Window

LEMMA AppDestroyTypes ==
  ASSUME TypeOK, Window, AppDestroy
  PROVE  TypeOK' /\ Window'
  <1>1. PICK used, gone :
          /\ SessionDestroy(gone)
          /\ session' = [i \in Slots |-> IF i \in used THEN NULL ELSE session[i]]
          /\ pfds' = [i \in Slots |-> IF i \in used THEN NoFd ELSE pfds[i]]
    BY DEF AppDestroy
  <1>2. /\ live' \subseteq Sess /\ threads' \subseteq Sess
        /\ obj' \in [Sess -> SessionRec]
        /\ ids' \subseteq 0 .. 2 * IdsPerDir - 1
        /\ ports' \subseteq 0 .. PortCount - 1
        /\ open' \subseteq Fds
    BY <1>1, DestroyTypes
  <1>3. /\ session' \in [Slots -> Sess \union {NULL}]
        /\ pfds' \in [Slots -> Fds \union {NoFd, 0}]
    BY <1>1 DEF TypeOK
  <1>4. /\ pc = "poll" /\ pc' = "done"
        /\ UNCHANGED << app_run, idx, skip_sessions, session_cnt, port_idx,
                        id_in, id_out, answer >>
    BY DEF AppDestroy, loopVars, cursorVars
  <1> QED BY <1>2, <1>3, <1>4 DEF TypeOK, Window

LEMMA NextTypes == TypeOK /\ Window /\ [Next]_vars => TypeOK' /\ Window'
  <1> SUFFICES ASSUME TypeOK, Window, [Next]_vars PROVE TypeOK' /\ Window'
    OBVIOUS
  <1> USE DEF vars, loopVars, tableVars, memVars, cursorVars
  <1>1. CASE AppInit
    BY <1>1, AppInitTypes
  <1>2. CASE AppInitFails
    BY <1>2 DEF AppInitFails, TypeOK, Window
  <1>3. CASE Poll \/ SkipHole \/ KeepSession \/ MoveSession \/ EndSessions
    BY <1>3, LoopTypes
  <1>4. CASE NoCommand
    BY <1>4, NoChangeTypes DEF NoCommand, TypeOK
  <1>5. CASE BadMessage
    <2>1. Error(NULL) \in AnswerRec
      BY TableAssumption DEF Error, AnswerRec, WrapPort
    <2> QED BY <1>5, <2>1, ReplyTypes, NoChangeTypes DEF BadMessage, TypeOK
  <1>6. ASSUME NEW c \in CallIds, Command(c) PROVE TypeOK' /\ Window'
    <2>1. CASE SetupDone(c)
      BY <2>1, SetupDoneTypes
    <2>2. CASE \/ SetupOverrun(c) \/ SetupFaxCrashes(c)
               \/ SetupInListenerFails(c) \/ SetupOutListenerFails(c)
      BY <2>2 DEF SetupOverrun, SetupFaxCrashes, SetupInListenerFails,
                  SetupOutListenerFails, Crash, TypeOK, Window
    <2>3. CASE \/ SetupRejected(c) \/ SetupInNoMemory(c) \/ SetupInFaxFails(c)
               \/ SetupOutNoMemory(c) \/ SetupOutFaxFails(c) \/ SetupThreadFails(c)
      BY <2>3, SetupFailsTypes
    <2>4. CASE Release(c)
      BY <2>4, ReleaseTypes
    <2>5. CASE ReleaseUnknown(c)
      BY <2>5, NoChangeTypes DEF ReleaseUnknown, TypeOK
    <2> QED BY <1>6, <2>1, <2>2, <2>3, <2>4, <2>5 DEF Command, Setup
  <1>7. CASE AppDestroy
    BY <1>7, AppDestroyTypes
  <1>8. CASE Signal
    BY <1>8 DEF Signal, TypeOK, Window
  <1>9. CASE Ended \/ UNCHANGED vars
    BY <1>9 DEF Ended, TypeOK, Window
  <1> QED BY <1>1, <1>2, <1>3, <1>4, <1>5, <1>6, <1>7, <1>8, <1>9
          DEF Next, MainThread

(* Every variable of the main thread keeps its type, and the loop of       *)
(* app_procSessions stays inside the table, for every table size, every    *)
(* sequence of commands and every failure.                                 *)
THEOREM TypeCorrect == Spec => []TypeOK
  <1>1. Spec => [](TypeOK /\ Window)
    BY InitTypes, NextTypes, PTL DEF Spec
  <1> QED BY <1>1, PTL

-----------------------------------------------------------------------------
(***************************************************************************)
(* The inductive invariant of the call table.  TableInv ties four places   *)
(* together: the two arrays, the sidx and peer_ses fields of the sessions, *)
(* the set of allocated sessions, and the fax threads.  None of them can   *)
(* be proved consistent alone: proc_release clears the slot its peer's     *)
(* sidx names, app_procSessions rewrites that sidx, and the sessions it    *)
(* destroys must be the ones those slots held.                             *)
(***************************************************************************)

TableInv == CtrlTracked /\ LegsTracked /\ TableConsistent /\ PeersPaired

(* A slot below session_cnt is a slot of the arrays, and not slot 0. *)
LEMMA ScopeInSlots ==
  ASSUME TypeOK, Window
  PROVE  /\ Scope \subseteq Slots /\ CtrlSlot \notin Scope /\ CtrlSlot \in Slots
         /\ Legs \subseteq Sess
  <1>1. Scope \subseteq Slots /\ CtrlSlot \notin Scope /\ CtrlSlot \in Slots
    BY MaxAssumption DEF TypeOK, Window, Scope, Slots, CtrlSlot
  <1> QED BY <1>1 DEF Legs, TypeOK

(* A step that touches no session and only drops holes from the scope      *)
(* keeps the table consistent.                                             *)
LEMMA FrameTable ==
  ASSUME TypeOK, Window, TableInv,
         UNCHANGED << session, pfds, live, obj, threads >>,
         Scope' \subseteq Scope,
         \A i \in Scope \ Scope' : session[i] = NULL,
         pc' \in { "poll", "sessions", "cmd", "crashed" } =>
           pc \in { "poll", "sessions", "cmd", "crashed" },
         pc' = "done" => pc = "done"
  PROVE  TableInv' /\ Legs' = Legs
  <1>1. Legs' = Legs
    BY DEF Legs
  <1>2. CtrlTracked'
    BY DEF TableInv, CtrlTracked
  <1>3. LegsTracked'
    BY NullAssumption DEF TableInv, LegsTracked, TypeOK
  <1>4. TableConsistent'
    BY DEF TableInv, TableConsistent
  <1>5. PeersPaired'
    BY <1>1 DEF TableInv, PeersPaired
  <1> QED BY <1>1, <1>2, <1>3, <1>4, <1>5 DEF TableInv

(* app_procSessions, before and after each of its steps but the move. *)
LEMMA LoopTable ==
  ASSUME TypeOK, Window, TableInv,
         Poll \/ SkipHole \/ KeepSession \/ EndSessions
  PROVE  TableInv' /\ Legs' = Legs
  <1> USE DEF loopVars, tableVars, memVars, cursorVars
  <1>0. UNCHANGED << session, pfds, live, obj, threads >>
    BY DEF Poll, SkipHole, KeepSession, EndSessions
  <1>1. /\ idx \in Int /\ skip_sessions \in Int /\ session_cnt \in Int
        /\ 1 <= idx /\ 0 <= skip_sessions /\ skip_sessions < idx
        /\ 1 <= session_cnt
        /\ pc = "sessions" => idx <= session_cnt
    BY MaxAssumption
       DEF TypeOK, Window, Poll, SkipHole, KeepSession, EndSessions
  <1>2. CASE Poll
    <2>1. Scope' = Scope
      BY <1>1, <1>2 DEF Poll, Scope, CtrlSlot
    <2> QED BY <1>0, <1>2, <2>1, FrameTable DEF Poll
  <1>3. CASE SkipHole
    <2>1. /\ Scope' \subseteq Scope /\ \A i \in Scope \ Scope' : i = idx
          /\ idx \in Scope
      BY <1>1, <1>3 DEF SkipHole, Scope
    <2>2. session[idx] = NULL
      BY <1>3, <2>1 DEF SkipHole, TableInv, TableConsistent
    <2> QED BY <1>0, <1>3, <2>1, <2>2, FrameTable DEF SkipHole
  <1>4. CASE KeepSession
    <2>1. Scope' = Scope
      BY <1>1, <1>4 DEF KeepSession, Scope
    <2> QED BY <1>0, <1>4, <2>1, FrameTable DEF KeepSession
  <1>5. CASE EndSessions
    <2>1. Scope' = Scope
      BY <1>1, <1>5 DEF EndSessions, Scope
    <2> QED BY <1>0, <1>5, <2>1, FrameTable DEF EndSessions
  <1> QED BY <1>2, <1>3, <1>4, <1>5

(* The move of a session over the holes below it.  No other session can be *)
(* the one moved, because each is in the slot its sidx names.              *)
LEMMA MoveTable ==
  ASSUME TypeOK, Window, TableInv, MoveSession
  PROVE  TableInv' /\ Legs' = Legs
  <1> DEFINE to == idx - skip_sessions
             m  == session[idx]
  <1>1. /\ idx \in Int /\ skip_sessions \in Int /\ session_cnt \in Int
        /\ skip_sessions > 0 /\ skip_sessions < idx /\ idx < session_cnt
        /\ pc = "sessions" /\ pc' = "sessions"
        /\ idx' = idx + 1 /\ UNCHANGED << skip_sessions, session_cnt >>
    BY MaxAssumption DEF TypeOK, MoveSession
  <1>2. /\ session' = [session EXCEPT ![to] = m]
        /\ pfds' = [pfds EXCEPT ![to] = pfds[idx]]
        /\ obj' = [obj EXCEPT ![m].sidx = to]
        /\ UNCHANGED << live, threads >>
        /\ m \in live
    BY DEF MoveSession, ShiftDown
  <1>3. /\ to \in Int /\ 1 <= to /\ to < idx
        /\ to \notin Scope /\ idx \in Scope
        /\ Scope' = (Scope \ {idx}) \union {to}
    BY <1>1 DEF Scope
  <1>4. /\ to \in Slots /\ idx \in Slots /\ CtrlSlot \in Slots
        /\ Scope \subseteq Slots /\ CtrlSlot \notin Scope /\ to # CtrlSlot
    <2>1. session_cnt <= MaxSessions + 1 /\ MaxSessions \in Nat
      BY MaxAssumption DEF TypeOK
    <2>2. to \in Slots /\ idx \in Slots
      BY <1>1, <1>3, <2>1 DEF Slots
    <2> QED BY <1>3, <2>2, ScopeInSlots DEF CtrlSlot
  <1> HIDE DEF to, m
  <1>5. /\ m \in Sess /\ m # NULL
        /\ obj[m].sidx = idx /\ obj[m].kind # "CTRL"
        /\ session[idx] = m
    <2>1. session[idx] = m
      BY DEF m
    <2>2. m \in Sess /\ m # NULL
      BY <1>2, NullAssumption DEF TypeOK
    <2> QED BY <1>3, <2>1, <2>2 DEF TableInv, TableConsistent
  <1>6. /\ session'[to] = m /\ pfds'[to] = pfds[idx]
        /\ \A i \in Slots : i # to => session'[i] = session[i] /\ pfds'[i] = pfds[i]
    BY <1>2, <1>4 DEF TypeOK
  <1>7. /\ obj'[m].sidx = to
        /\ \A s \in Sess : s # m => obj'[s] = obj[s]
        /\ \A s \in Sess : /\ obj'[s].kind = obj[s].kind
                           /\ obj'[s].fds = obj[s].fds
                           /\ obj'[s].peer_ses = obj[s].peer_ses
                           /\ obj'[s].call_id = obj[s].call_id
                           /\ obj'[s].thread_active = obj[s].thread_active
    BY <1>2, <1>5 DEF TypeOK, SessionRec
  <1>8. \A i \in Scope \ {idx} : session[i] # m
    BY <1>3, <1>5 DEF TableInv, TableConsistent
  <1>9. Legs' = Legs
    <2>1. ASSUME NEW i \in Scope PROVE \E j \in Scope' : session'[j] = session[i]
      <3>1. CASE i = idx
        BY <1>3, <1>5, <1>6, <3>1
      <3>2. CASE i # idx
        BY <1>3, <1>4, <1>6, <3>2
      <3> QED BY <3>1, <3>2
    <2>2. ASSUME NEW j \in Scope' PROVE \E i \in Scope : session'[j] = session[i]
      <3>1. CASE j = to
        BY <1>3, <1>5, <1>6, <3>1
      <3>2. CASE j # to
        BY <1>3, <1>4, <1>6, <3>2
      <3> QED BY <3>1, <3>2
    <2> QED BY <2>1, <2>2 DEF Legs
  <1>10. CtrlTracked'
    BY <1>1, <1>2, <1>4, <1>6, <1>7 DEF TableInv, CtrlTracked, TypeOK
  <1>11. LegsTracked'
    <2> SUFFICES ASSUME NEW s \in live, s # session[CtrlSlot]
                 PROVE  obj'[s].sidx \in Scope' /\ session'[obj'[s].sidx] = s
      BY <1>2, <1>4, <1>6 DEF LegsTracked
    <2>1. s \in Sess
      BY DEF TypeOK
    <2>2. CASE s = m
      BY <1>3, <1>6, <1>7, <2>2
    <2>3. CASE s # m
      <3>1. /\ obj'[s].sidx = obj[s].sidx
            /\ obj[s].sidx \in Scope /\ session[obj[s].sidx] = s
        BY <1>7, <2>1, <2>3 DEF TableInv, LegsTracked
      <3>2. obj[s].sidx # idx /\ obj[s].sidx # to
        BY <1>3, <1>5, <2>3, <3>1
      <3> QED BY <1>3, <1>4, <1>6, <3>1, <3>2
    <2> QED BY <2>2, <2>3
  <1>12. TableConsistent'
    <2> SUFFICES ASSUME NEW i \in Scope'
                 PROVE  IF pfds'[i] = NoFd THEN session'[i] = NULL
                        ELSE /\ session'[i] \in live
                             /\ obj'[session'[i]].sidx = i
                             /\ obj'[session'[i]].fds = pfds'[i]
                             /\ obj'[session'[i]].kind \in { "IN", "OUT" }
      BY <1>2 DEF TableConsistent
    <2>1. CASE i = to
      <3>1. /\ pfds[idx] # NoFd
            /\ obj[m].fds = pfds[idx] /\ obj[m].kind \in { "IN", "OUT" }
        BY <1>3, <1>5 DEF MoveSession, TableInv, TableConsistent
      <3> QED BY <1>2, <1>5, <1>6, <1>7, <2>1, <3>1
    <2>2. CASE i # to
      <3>1. /\ i \in Scope /\ i # idx /\ i \in Slots
            /\ session'[i] = session[i] /\ pfds'[i] = pfds[i]
        BY <1>3, <1>4, <1>6, <2>2
      <3>2. CASE pfds[i] = NoFd
        BY <3>1, <3>2 DEF TableInv, TableConsistent
      <3>3. CASE pfds[i] # NoFd
        <4>1. /\ session[i] \in live /\ session[i] # m /\ session[i] \in Sess
              /\ obj[session[i]].sidx = i /\ obj[session[i]].fds = pfds[i]
              /\ obj[session[i]].kind \in { "IN", "OUT" }
          BY <1>8, <3>1, <3>3 DEF TableInv, TableConsistent, TypeOK
        <4> QED BY <1>7, <3>1, <3>3, <4>1
      <3> QED BY <3>2, <3>3
    <2> QED BY <2>1, <2>2
  <1>13. PeersPaired'
    <2>1. Legs \subseteq Sess
      BY ScopeInSlots
    <2>2. \A s \in Legs : obj[s].peer_ses \in Sess
      BY <2>1 DEF TableInv, PeersPaired
    <2> QED BY <1>2, <1>7, <1>9, <2>1, <2>2 DEF TableInv, PeersPaired
  <1> QED BY <1>9, <1>10, <1>11, <1>12, <1>13 DEF TableInv

(* A SETUP that succeeds: two sessions that were not allocated enter two   *)
(* slots that were not in scope.                                           *)
LEMMA SetupDoneTable ==
  ASSUME TypeOK, Window, TableInv, NEW c \in CallIds, SetupDone(c)
  PROVE  TableInv'
  <1>1. PICK in \in Calloc(live) : \E out \in Calloc(live \union {in}) :
        \E fd1, fd2 \in FreeFds : AddCall(c, in, out, fd1, fd2)
    BY DEF SetupDone
  <1>2. in \in Sess /\ in \notin live
    BY CallocAssumption DEF TypeOK
  <1>3. PICK out \in Calloc(live \union {in}), fd1 \in FreeFds, fd2 \in FreeFds :
          AddCall(c, in, out, fd1, fd2)
    BY <1>1
  <1>4. /\ out \in Sess /\ out \notin live /\ out # in
        /\ fd1 # NoFd /\ fd2 # NoFd
        /\ in # NULL /\ out # NULL
    <2>1. live \union {in} \in SUBSET Sess
      BY <1>2 DEF TypeOK
    <2>2. out \in Sess \ (live \union {in})
      BY <2>1, CallocAssumption
    <2> QED BY <1>2, <2>2, FdAssumption, NullAssumption DEF FreeFds, NoFd
  <1> DEFINE a == session_cnt
             b == session_cnt + 1
  <1>5. /\ pc = "cmd" /\ pc' = "poll" /\ session_cnt' = session_cnt + 2
        /\ session_cnt \in Int /\ session_cnt >= 1 /\ session_cnt < MaxSessions
    BY DEF SetupDone, Commanded, Window, TypeOK
  <1>6. /\ Scope' = Scope \union {a, b}
        /\ a \notin Scope /\ b \notin Scope /\ a # b
        /\ a \in Slots /\ b \in Slots /\ a # CtrlSlot /\ b # CtrlSlot
        /\ Scope \subseteq Slots /\ CtrlSlot \notin Scope /\ CtrlSlot \in Slots
    BY <1>5, MaxAssumption DEF Scope, Slots, CtrlSlot
  <1> HIDE DEF a, b
  <1>7. /\ session'[a] = in /\ session'[b] = out
        /\ pfds'[a] = fd1 /\ pfds'[b] = fd2
        /\ \A i \in Slots \ {a, b} : session'[i] = session[i] /\ pfds'[i] = pfds[i]
    BY <1>3, <1>6 DEF AddCall, TypeOK, a, b
  <1>8. /\ obj'[in] = NewSession("IN", InId, a, c, Uint16(InPort), fd1, out)
        /\ obj'[out] = NewSession("OUT", OutId, b, c, Uint16(OutPort), fd2, in)
        /\ \A s \in Sess \ {in, out} : obj'[s] = obj[s]
    BY <1>2, <1>3, <1>4 DEF AddCall, TypeOK, a, b
  <1>9. /\ live' = live \union {in, out} /\ threads' = threads \union {in}
    BY <1>3 DEF AddCall
  <1>10. /\ Legs \subseteq live
         /\ \A i \in Scope : session[i] # NULL => session[i] \in live
    BY NullAssumption DEF TableInv, TableConsistent, Legs
  <1>11. Legs' = Legs \union {in, out}
    <2>1. \A i \in Scope : session'[i] = session[i]
      BY <1>6, <1>7
    <2>2. { session'[i] : i \in Scope' } = { session[i] : i \in Scope } \union {in, out}
      <3>1. { session'[i] : i \in Scope' }
              \subseteq { session[i] : i \in Scope } \union {in, out}
        BY <1>6, <1>7, <2>1
      <3>2. { session[i] : i \in Scope } \union {in, out}
              \subseteq { session'[i] : i \in Scope' }
        BY <1>6, <1>7, <2>1
      <3> QED BY <3>1, <3>2
    <2> QED BY <1>4, <2>2 DEF Legs
  <1>12. /\ live \subseteq Sess
         /\ session[CtrlSlot] \in live /\ obj[session[CtrlSlot]].kind = "CTRL"
    BY <1>5 DEF TableInv, CtrlTracked, TypeOK
  <1>13. CtrlTracked'
    <2>1. session'[CtrlSlot] = session[CtrlSlot]
      BY <1>6, <1>7
    <2>2. obj'[session[CtrlSlot]] = obj[session[CtrlSlot]]
      BY <1>2, <1>4, <1>8, <1>12
    <2> QED BY <1>5, <1>9, <1>12, <2>1, <2>2 DEF CtrlTracked
  <1>14. LegsTracked'
    <2> SUFFICES ASSUME NEW s \in live', s # session'[CtrlSlot]
                 PROVE  obj'[s].sidx \in Scope' /\ session'[obj'[s].sidx] = s
      BY DEF LegsTracked
    <2>1. CASE s = in
      BY <1>6, <1>7, <1>8, <2>1 DEF NewSession
    <2>2. CASE s = out
      BY <1>6, <1>7, <1>8, <2>2 DEF NewSession
    <2>3. CASE s \notin {in, out}
      <3>1. s \in live /\ s \in Sess /\ s # session[CtrlSlot]
        BY <1>6, <1>7, <1>9, <1>12, <2>3
      <3>2. obj[s].sidx \in Scope /\ session[obj[s].sidx] = s
        BY <3>1 DEF TableInv, LegsTracked
      <3> QED BY <1>6, <1>7, <1>8, <2>3, <3>1, <3>2
    <2> QED BY <2>1, <2>2, <2>3
  <1>15. TableConsistent'
    <2> SUFFICES ASSUME NEW i \in Scope'
                 PROVE  IF pfds'[i] = NoFd THEN session'[i] = NULL
                        ELSE /\ session'[i] \in live'
                             /\ obj'[session'[i]].sidx = i
                             /\ obj'[session'[i]].fds = pfds'[i]
                             /\ obj'[session'[i]].kind \in { "IN", "OUT" }
      BY DEF TableConsistent
    <2>1. CASE i = a
      BY <1>4, <1>7, <1>8, <1>9, <2>1 DEF NewSession
    <2>2. CASE i = b
      BY <1>4, <1>7, <1>8, <1>9, <2>2 DEF NewSession
    <2>3. CASE i \in Scope
      <3>1. session'[i] = session[i] /\ pfds'[i] = pfds[i]
        BY <1>6, <1>7, <2>3
      <3>2. CASE pfds[i] = NoFd
        BY <2>3, <3>1, <3>2 DEF TableInv, TableConsistent
      <3>3. CASE pfds[i] # NoFd
        <4>1. /\ session[i] \in live
              /\ obj[session[i]].sidx = i /\ obj[session[i]].fds = pfds[i]
              /\ obj[session[i]].kind \in { "IN", "OUT" }
          BY <2>3, <3>3 DEF TableInv, TableConsistent
        <4>2. obj'[session[i]] = obj[session[i]]
          BY <1>2, <1>4, <1>8, <1>12, <4>1
        <4> QED BY <1>9, <3>1, <3>3, <4>1, <4>2
      <3> QED BY <3>2, <3>3
    <2> QED BY <1>6, <2>1, <2>2, <2>3
  <1>16. PeersPaired'
    <2>1. threads' \subseteq Legs'
      BY <1>9, <1>11 DEF TableInv, PeersPaired
    <2> SUFFICES ASSUME NEW s \in Legs'
                 PROVE  LET p == obj'[s].peer_ses
                        IN  /\ p \in Legs' /\ obj'[p].peer_ses = s
                            /\ obj'[p].call_id = obj'[s].call_id
                            /\ obj'[p].kind # obj'[s].kind
                            /\ obj'[s].thread_active = (obj'[s].kind = "IN")
                            /\ (s \in threads') = (obj'[s].kind = "IN")
      BY <2>1 DEF PeersPaired
    <2>2. out \notin threads
      BY <1>4, <1>10 DEF TableInv, PeersPaired
    <2>3. CASE s = in
      BY <1>4, <1>8, <1>9, <1>11, <2>3 DEF NewSession
    <2>4. CASE s = out
      BY <1>4, <1>8, <1>9, <1>11, <2>2, <2>4 DEF NewSession
    <2>5. CASE s \in Legs
      <3> DEFINE p == obj[s].peer_ses
      <3>1. /\ p \in Legs /\ obj[p].peer_ses = s
            /\ obj[p].call_id = obj[s].call_id
            /\ obj[p].kind # obj[s].kind
            /\ obj[s].thread_active = (obj[s].kind = "IN")
            /\ (s \in threads) = (obj[s].kind = "IN")
        BY <2>5 DEF TableInv, PeersPaired
      <3> HIDE DEF p
      <3>2. /\ obj'[s] = obj[s] /\ obj'[p] = obj[p] /\ s # in
        BY <1>2, <1>4, <1>8, <1>10, <1>12, <2>5, <3>1
      <3>3. obj'[s].peer_ses = p
        BY <3>2 DEF p
      <3> QED BY <1>9, <1>11, <3>1, <3>2, <3>3
    <2> QED BY <1>11, <2>3, <2>4, <2>5
  <1> QED BY <1>13, <1>14, <1>15, <1>16 DEF TableInv

(* A RELEASE: the two sessions destroyed are exactly those of the slots    *)
(* turned into holes, and no third session is left with a freed peer.      *)
LEMMA ReleaseTable ==
  ASSUME TypeOK, Window, TableInv, NEW c \in CallIds, Release(c)
  PROVE  TableInv'
  <1>1. PICK i, cs, peer, pidx :
          /\ i \in Matches(c) /\ cs = session[i] /\ peer = obj[cs].peer_ses /\ pidx = obj[peer].sidx
          /\ session' = [session EXCEPT ![i] = NULL, ![pidx] = NULL]
          /\ pfds' = [pfds EXCEPT ![i] = NoFd, ![pidx] = NoFd]
          /\ SessionDestroy({cs, peer})
    BY DEF Release
  <1> DEFINE gone == {cs, peer}
             holes == {i, pidx}
  <1>2. /\ pc = "cmd" /\ pc' = "poll" /\ UNCHANGED session_cnt
        /\ Scope' = Scope
    BY DEF Release, Commanded, Scope
  <1>3. /\ i \in Scope /\ cs \in Legs
        /\ Scope \subseteq Slots /\ CtrlSlot \notin Scope /\ CtrlSlot \in Slots
        /\ live \subseteq Sess /\ NULL \notin live
    BY <1>1, <1>2, ScopeInSlots, NullAssumption
       DEF Matches, Scope, CtrlSlot, Legs, TypeOK
  <1>4. \A j \in Scope : session[j] # NULL =>
           /\ session[j] \in live /\ pfds[j] # NoFd
           /\ obj[session[j]].sidx = j /\ obj[session[j]].fds = pfds[j]
           /\ obj[session[j]].kind \in { "IN", "OUT" }
    BY <1>3 DEF TableInv, TableConsistent
  <1>5. /\ Legs \subseteq live
        /\ \A s \in Legs : /\ obj[s].sidx \in Scope /\ session[obj[s].sidx] = s
                           /\ obj[s].kind \in { "IN", "OUT" }
    BY <1>4 DEF Legs
  <1>6. /\ peer \in Legs /\ obj[peer].peer_ses = cs
        /\ obj[peer].kind # obj[cs].kind
    BY <1>1, <1>3 DEF TableInv, PeersPaired
  <1>7. /\ pidx \in Scope /\ session[pidx] = peer /\ session[i] = cs
        /\ obj[cs].sidx = i /\ obj[peer].sidx = pidx
        /\ gone \subseteq Legs
    BY <1>1, <1>3, <1>4, <1>5, <1>6 DEF Matches
  <1> HIDE DEF gone, holes
  <1>8. /\ \A j \in holes : session'[j] = NULL /\ pfds'[j] = NoFd
        /\ \A j \in Slots \ holes : session'[j] = session[j] /\ pfds'[j] = pfds[j]
        /\ holes \subseteq Scope
    BY <1>1, <1>3, <1>7 DEF TypeOK, holes
  <1>9. /\ live' = live \ gone
        /\ threads' = threads \ { s \in gone : obj[s].thread_active }
        /\ \A s \in Sess \ gone : obj'[s] = obj[s]
    BY <1>1 DEF SessionDestroy, gone
  <1>10. \A s \in Legs \ gone : obj[s].sidx \in Scope \ holes
    BY <1>5, <1>7 DEF gone, holes
  <1>11. \A j \in Scope \ holes : session[j] \notin gone
    <2>1. \A j \in Scope : session[j] = cs => j = i
      BY <1>3, <1>4, <1>5, <1>7
    <2>2. \A j \in Scope : session[j] = peer => j = pidx
      BY <1>3, <1>4, <1>5, <1>6, <1>7
    <2> QED BY <2>1, <2>2 DEF gone, holes
  <1>12. Legs' = Legs \ gone
    <2>1. Legs' \subseteq Legs \ gone
      BY <1>2, <1>3, <1>8, <1>11 DEF Legs
    <2>2. Legs \ gone \subseteq Legs'
      <3> SUFFICES ASSUME NEW s \in Legs \ gone PROVE s \in Legs'
        OBVIOUS
      <3>1. /\ obj[s].sidx \in Scope' /\ session'[obj[s].sidx] = s
            /\ s # NULL
        BY <1>2, <1>3, <1>5, <1>8, <1>10
      <3> QED BY <3>1 DEF Legs
    <2> QED BY <2>1, <2>2
  <1>13. CtrlTracked'
    <2>1. /\ session[CtrlSlot] \in live
          /\ obj[session[CtrlSlot]].kind = "CTRL"
      BY <1>2 DEF TableInv, CtrlTracked
    <2>2. session[CtrlSlot] \notin gone /\ CtrlSlot \notin holes
      BY <1>3, <1>5, <1>7, <1>8, <2>1
    <2> QED BY <1>2, <1>3, <1>8, <1>9, <2>1, <2>2 DEF CtrlTracked
  <1>14. LegsTracked'
    <2> SUFFICES ASSUME NEW s \in live', s # session'[CtrlSlot]
                 PROVE  obj'[s].sidx \in Scope' /\ session'[obj'[s].sidx] = s
      BY DEF LegsTracked
    <2>1. s \in live /\ s \notin gone /\ s \in Sess /\ s # session[CtrlSlot]
      BY <1>3, <1>8, <1>9
    <2>2. obj[s].sidx \in Scope /\ session[obj[s].sidx] = s
      BY <2>1 DEF TableInv, LegsTracked
    <2>3. s \in Legs
      BY <1>3, <2>1, <2>2 DEF Legs
    <2> QED BY <1>2, <1>3, <1>8, <1>9, <1>10, <2>1, <2>2, <2>3
  <1>15. TableConsistent'
    <2> SUFFICES ASSUME NEW j \in Scope
                 PROVE  IF pfds'[j] = NoFd THEN session'[j] = NULL
                        ELSE /\ session'[j] \in live'
                             /\ obj'[session'[j]].sidx = j
                             /\ obj'[session'[j]].fds = pfds'[j]
                             /\ obj'[session'[j]].kind \in { "IN", "OUT" }
      BY <1>2 DEF TableConsistent
    <2>1. CASE j \in holes
      BY <1>8, <2>1
    <2>2. CASE j \notin holes
      <3>1. session'[j] = session[j] /\ pfds'[j] = pfds[j] /\ session[j] \notin gone
        BY <1>3, <1>8, <1>11, <2>2
      <3>2. CASE session[j] = NULL
        BY <1>3, <3>1, <3>2 DEF TableInv, TableConsistent
      <3>3. CASE session[j] # NULL
        BY <1>3, <1>4, <1>9, <3>1, <3>3
      <3> QED BY <3>2, <3>3
    <2> QED BY <2>1, <2>2
  <1>16. PeersPaired'
    <2>1. threads' \subseteq Legs'
      <3> SUFFICES ASSUME NEW s \in threads' PROVE s \in Legs \ gone
        BY <1>12
      <3>1. s \in threads /\ s \in Legs
        BY <1>9 DEF TableInv, PeersPaired
      <3>2. obj[s].thread_active = (obj[s].kind = "IN") /\ obj[s].kind = "IN"
        BY <3>1 DEF TableInv, PeersPaired
      <3> QED BY <1>9, <3>1, <3>2
    <2> SUFFICES ASSUME NEW s \in Legs'
                 PROVE  LET p == obj'[s].peer_ses
                        IN  /\ p \in Legs' /\ obj'[p].peer_ses = s
                            /\ obj'[p].call_id = obj'[s].call_id
                            /\ obj'[p].kind # obj'[s].kind
                            /\ obj'[s].thread_active = (obj'[s].kind = "IN")
                            /\ (s \in threads') = (obj'[s].kind = "IN")
      BY <2>1 DEF PeersPaired
    <2> DEFINE p == obj[s].peer_ses
    <2>2. /\ s \in Legs /\ s \notin gone
          /\ p \in Legs /\ obj[p].peer_ses = s
          /\ obj[p].call_id = obj[s].call_id
          /\ obj[p].kind # obj[s].kind
          /\ obj[s].thread_active = (obj[s].kind = "IN")
          /\ (s \in threads) = (obj[s].kind = "IN")
      BY <1>12 DEF TableInv, PeersPaired
    <2>3. p \notin gone
      BY <1>1, <1>6, <2>2 DEF gone
    <2>4. p = obj[s].peer_ses
      OBVIOUS
    <2> HIDE DEF p
    <2>5. obj'[s] = obj[s] /\ obj'[p] = obj[p]
      BY <1>3, <1>5, <1>9, <2>2, <2>3
    <2>6. (s \in threads') = (s \in threads)
      BY <1>9, <2>2
    <2> QED BY <1>12, <2>2, <2>3, <2>4, <2>5, <2>6
  <1> QED BY <1>13, <1>14, <1>15, <1>16 DEF TableInv

(* app_cfgDestroy frees every session there is. *)
LEMMA AppDestroyTable ==
  ASSUME TypeOK, Window, TableInv, AppDestroy
  PROVE  TableInv'
  <1> DEFINE used == 0 .. session_cnt - 1
             gone == { session[i] : i \in used } \ {NULL}
  <1>1. /\ pc = "poll" /\ pc' = "done" /\ UNCHANGED session_cnt
        /\ SessionDestroy(gone)
        /\ session' = [i \in Slots |-> IF i \in used THEN NULL ELSE session[i]]
        /\ pfds' = [i \in Slots |-> IF i \in used THEN NoFd ELSE pfds[i]]
    BY DEF AppDestroy
  <1>2. /\ Scope' = Scope /\ Scope \subseteq used /\ CtrlSlot \in used
        /\ used \subseteq Slots
    <2>1. /\ session_cnt \in Int /\ 1 <= session_cnt
          /\ session_cnt <= MaxSessions + 1 /\ MaxSessions \in Nat
      BY <1>1, MaxAssumption DEF Window, TypeOK
    <2> QED BY <1>1, <2>1 DEF Scope, Slots, CtrlSlot
  <1>3. Legs \subseteq gone
    BY <1>2 DEF Legs
  <1>4. live \subseteq gone
    <2> SUFFICES ASSUME NEW s \in live PROVE s \in gone
      OBVIOUS
    <2>1. s # NULL
      BY NullAssumption DEF TypeOK
    <2>2. CASE s = session[CtrlSlot]
      BY <1>2, <2>1, <2>2
    <2>3. CASE s # session[CtrlSlot]
      BY <1>2, <2>1, <2>3 DEF TableInv, LegsTracked
    <2> QED BY <2>2, <2>3
  <1> HIDE DEF used, gone
  <1>5. live' = {}
    BY <1>1, <1>4 DEF SessionDestroy
  <1>6. threads' = {}
    <2>1. \A s \in threads : s \in gone /\ obj[s].thread_active
      BY <1>3 DEF TableInv, PeersPaired
    <2> QED BY <1>1, <2>1 DEF SessionDestroy
  <1>7. \A i \in Scope' : session'[i] = NULL /\ pfds'[i] = NoFd
    BY <1>1, <1>2
  <1>8. Legs' = {}
    BY <1>7 DEF Legs
  <1> QED BY <1>1, <1>5, <1>6, <1>7, <1>8
          DEF TableInv, CtrlTracked, LegsTracked, TableConsistent, PeersPaired

LEMMA StartTable ==
  /\ Init => TableInv
  /\ TypeOK /\ Window /\ AppInit => TableInv'
  <1>1. Init => TableInv
    <2> SUFFICES ASSUME Init PROVE TableInv
      OBVIOUS
    <2>1. Scope = {} /\ Legs = {}
      BY DEF Init, Scope, Legs
    <2> QED BY <2>1 DEF Init, TableInv, CtrlTracked, LegsTracked,
                        TableConsistent, PeersPaired
  <1>2. ASSUME TypeOK, Window, AppInit PROVE TableInv'
    <2>1. PICK s \in Calloc(live), fd \in FreeFds :
            /\ live' = {s}
            /\ obj' = [obj EXCEPT ![s] = NewSession("CTRL", InId, CtrlSlot, NULL,
                                                    CtrlPort, fd, NULL)]
            /\ session' = [session EXCEPT ![CtrlSlot] = s]
      BY <1>2 DEF AppInit
    <2>2. s \in Sess /\ CtrlSlot \in Slots
      BY <1>2, CallocAssumption, MaxAssumption DEF TypeOK, CtrlSlot, Slots
    <2>3. /\ session'[CtrlSlot] = s
          /\ obj'[s] = NewSession("CTRL", InId, CtrlSlot, NULL, CtrlPort, fd, NULL)
      BY <1>2, <2>1, <2>2 DEF TypeOK
    <2>4. /\ pc' = "poll" /\ session_cnt' = 1 /\ threads' = {}
      BY <1>2 DEF AppInit, Window
    <2>5. Scope' = {} /\ Legs' = {}
      BY <2>4 DEF Scope, Legs
    <2> QED BY <2>1, <2>3, <2>4, <2>5
            DEF TableInv, CtrlTracked, LegsTracked, TableConsistent, PeersPaired,
                NewSession
  <1> QED BY <1>1, <1>2

(* Every step keeps the table consistent. *)
LEMMA NextTable ==
  ASSUME TypeOK, Window, TableInv, [Next]_vars
  PROVE  TableInv'
  <1> USE DEF loopVars, tableVars, memVars, cursorVars
  <1> DEFINE Same == UNCHANGED << session, pfds, live, obj, threads >>
  <1>1. ASSUME Same, Scope' = Scope,
               pc' = pc \/ (pc = "cmd" /\ pc' \in { "poll", "crashed" })
        PROVE  TableInv'
    BY <1>1, FrameTable
  <1>2. ASSUME UNCHANGED << idx, skip_sessions, session_cnt >>,
               pc' = pc \/ (pc = "cmd" /\ pc' \in { "poll", "crashed" })
        PROVE  Scope' = Scope
    BY <1>2 DEF Scope
  <1>3. CASE AppInitFails
    <2>1. Scope = {} /\ Scope' = {} /\ Same /\ pc' = "failed"
      BY <1>3 DEF AppInitFails, Scope, Window
    <2> QED BY <2>1, FrameTable
  <1>4. CASE UNCHANGED vars \/ Signal \/ Ended
    <2>1. Same /\ UNCHANGED << pc, idx, skip_sessions, session_cnt >>
      BY <1>4 DEF vars, Signal, Ended
    <2> QED BY <1>1, <1>2, <2>1
  <1>5. CASE NoCommand \/ BadMessage
    <2>1. Same /\ UNCHANGED << idx, skip_sessions, session_cnt >>
          /\ pc = "cmd" /\ pc' = "poll"
      BY <1>5 DEF NoCommand, BadMessage, Commanded
    <2> QED BY <1>1, <1>2, <2>1
  <1>6. ASSUME NEW c \in CallIds, Command(c) PROVE TableInv'
    <2>1. CASE \/ SetupRejected(c) \/ SetupInNoMemory(c) \/ SetupInFaxFails(c)
               \/ SetupOutNoMemory(c) \/ SetupOutFaxFails(c)
               \/ SetupThreadFails(c) \/ ReleaseUnknown(c)
      <3>1. Same /\ UNCHANGED << idx, skip_sessions, session_cnt >>
            /\ pc = "cmd" /\ pc' = "poll"
        BY <2>1 DEF SetupRejected, SetupInNoMemory, SetupInFaxFails,
                    SetupOutNoMemory, SetupOutFaxFails, SetupThreadFails,
                    ReleaseUnknown, Commanded
      <3> QED BY <1>1, <1>2, <3>1
    <2>2. CASE \/ SetupOverrun(c) \/ SetupFaxCrashes(c) \/ SetupInListenerFails(c)
               \/ SetupOutListenerFails(c)
      <3>1. Same /\ UNCHANGED << idx, skip_sessions, session_cnt >>
            /\ pc = "cmd" /\ pc' = "crashed"
        BY <2>2 DEF SetupOverrun, SetupFaxCrashes, SetupInListenerFails,
                    SetupOutListenerFails, Crash
      <3> QED BY <1>1, <1>2, <3>1
    <2> QED BY <1>6, <2>1, <2>2, SetupDoneTable, ReleaseTable DEF Command, Setup
  <1> QED BY <1>3, <1>4, <1>5, <1>6, LoopTable, MoveTable, AppDestroyTable,
             StartTable
          DEF Next, MainThread

(* A pass of app_procSessions moves every session it meets below the holes *)
(* it has met, so that the holes are gone from the table when it ends.     *)
LEMMA NextCompact ==
  ASSUME TypeOK, Window, TableInv, NoHolePassed, CompactAtCommand, [Next]_vars
  PROVE  NoHolePassed' /\ CompactAtCommand'
  <1> USE DEF loopVars, tableVars, memVars, cursorVars
  <1>1. /\ idx \in Int /\ skip_sessions \in Int /\ session_cnt \in Int
        /\ 0 <= skip_sessions /\ skip_sessions < idx
        /\ session_cnt <= MaxSessions + 1 /\ MaxSessions \in Nat
        /\ pc = "sessions" => idx <= session_cnt
    BY MaxAssumption DEF TypeOK, Window
  <1>2. CASE Poll
    BY <1>2 DEF Poll, NoHolePassed, CompactAtCommand, CtrlSlot
  <1>3. CASE SkipHole
    BY <1>1, <1>3 DEF SkipHole, NoHolePassed, CompactAtCommand
  <1>4. CASE KeepSession
    <2>1. session[idx] # NULL
      BY <1>4, NullAssumption DEF KeepSession, TypeOK
    <2> QED BY <1>1, <1>4, <2>1 DEF KeepSession, NoHolePassed, CompactAtCommand
  <1>5. CASE MoveSession
    <2> DEFINE to == idx - skip_sessions
    <2>1. /\ session[idx] # NULL /\ to \in Slots
          /\ session' = [session EXCEPT ![to] = session[idx]]
      BY <1>1, <1>5, NullAssumption DEF MoveSession, ShiftDown, TypeOK, Slots
    <2>2. \A i \in 1 .. to : session'[i] # NULL
      BY <1>1, <1>5, <2>1
         DEF MoveSession, NoHolePassed, TypeOK, Slots
    <2> QED BY <1>1, <1>5, <2>2 DEF MoveSession, NoHolePassed, CompactAtCommand
  <1>6. CASE EndSessions
    <2>1. /\ pc = "sessions" /\ pc' = "cmd" /\ session' = session
          /\ idx = session_cnt /\ session_cnt' = session_cnt - skip_sessions
      BY <1>1, <1>6 DEF EndSessions
    <2>2. Scope' = 1 .. idx - skip_sessions - 1
      BY <1>1, <2>1 DEF Scope
    <2> QED BY <2>1, <2>2 DEF NoHolePassed, CompactAtCommand
  <1>7. CASE pc' \notin { "sessions", "cmd" }
    BY <1>7 DEF NoHolePassed, CompactAtCommand
  <1>8. CASE UNCHANGED vars \/ Signal \/ Ended
    BY <1>8 DEF vars, Signal, Ended, NoHolePassed, CompactAtCommand, Scope
  <1>9. ASSUME AppInit \/ AppInitFails \/ NoCommand \/ BadMessage \/ AppDestroy
               \/ \E c \in CallIds : Command(c)
        PROVE  pc' \notin { "sessions", "cmd" }
    BY <1>9 DEF AppInit, AppInitFails, NoCommand, BadMessage, AppDestroy,
                Command, Setup, SetupRejected, SetupDone, SetupOverrun, SetupFaxCrashes,
                SetupInNoMemory, SetupInListenerFails, SetupInFaxFails,
                SetupOutNoMemory, SetupOutListenerFails, SetupOutFaxFails,
                SetupThreadFails, Release, ReleaseUnknown, Commanded, Crash
  <1> QED BY <1>2, <1>3, <1>4, <1>5, <1>6, <1>7, <1>8, <1>9
          DEF Next, MainThread

(* The inductive invariant holds, whatever fails and whatever calloc       *)
(* returns: the call table stays consistent through every SETUP, RELEASE,  *)
(* compaction and failed SETUP of src/src/session.c and src/src/app.c.     *)
THEOREM Inductive == Spec => []IInv
  <1>1. Init => IInv
    <2> SUFFICES ASSUME Init PROVE IInv
      OBVIOUS
    <2>1. Window /\ NoHolePassed /\ CompactAtCommand
      BY DEF Init, Window, NoHolePassed, CompactAtCommand
    <2> QED BY <2>1, InitTypes, StartTable DEF IInv, TableInv
  <1>2. IInv /\ [Next]_vars => IInv'
    <2> SUFFICES ASSUME IInv, [Next]_vars PROVE IInv'
      OBVIOUS
    <2>1. /\ TypeOK /\ Window /\ TableInv /\ NoHolePassed /\ CompactAtCommand
      BY DEF IInv, TableInv
    <2> QED BY <2>1, NextTypes, NextTable, NextCompact
            DEF IInv, TableInv
  <1> QED BY <1>1, <1>2, PTL DEF Spec

(* The arrays and the sessions agree, in every slot, at every step. *)
THEOREM Consistent == Spec => []TableConsistent
  BY Inductive, PTL DEF IInv

(* Both legs of a call are up or neither, and the fax thread with them. *)
THEOREM Paired == Spec => []PeersPaired
  BY Inductive, PTL DEF IInv

(* No command is handled with a hole in the table. *)
THEOREM Compact == Spec => []CompactAtCommand
  BY Inductive, PTL DEF IInv

-----------------------------------------------------------------------------
(***************************************************************************)
(* What the sessions hold: ports, session ids and sockets.  Two places     *)
(* keep each of them, the table of its kind and a field of the session_t,  *)
(* and a SETUP and a RELEASE write them one after the other.  That they    *)
(* agree, that no two sessions share one, and that the tables never run    *)
(* out need one another: a RELEASE clears the flag its own field names,    *)
(* which frees the entry of another session if two share it, and a SETUP   *)
(* finds a free entry because the flags set are not more than the sessions *)
(* that capacity admits.                                                   *)
(***************************************************************************)

Up == pc \in { "poll", "sessions", "cmd", "crashed" }

(* The ranges the two directions of session_idGetNext and app_portGetFree  *)
(* hand out, and the two values of the control session.                    *)
InRange ==
  \A s \in live :
    /\ obj[s].fds # NoFd
    /\ obj[s].kind = "CTRL" =>
         obj[s].loc_port = CtrlPort /\ obj[s].ses_id \in 0 .. IdsPerDir - 1
    /\ obj[s].kind = "IN" =>
         /\ obj[s].loc_port \in 0 .. PortCount - 1
         /\ obj[s].ses_id \in 0 .. IdsPerDir - 1
    /\ obj[s].kind = "OUT" =>
         /\ obj[s].loc_port \in 0 .. PortCount - 1
         /\ obj[s].ses_id \in IdsPerDir .. 2 * IdsPerDir - 1

RInv == ResourcesAccounted /\ NothingShared /\ InRange

(* The sessions allocated are the legs in the table and, while the         *)
(* application is up, the control session, which is no leg.                *)
LEMMA LegsAre ==
  TypeOK /\ Window /\ TableInv =>
    /\ Legs \subseteq live
    /\ \A s \in Legs : s \in Sess /\ obj[s].kind \in { "IN", "OUT" }
    /\ Up => /\ session[CtrlSlot] \in live /\ obj[session[CtrlSlot]].kind = "CTRL"
             /\ Legs = live \ {session[CtrlSlot]}
  <1> SUFFICES ASSUME TypeOK, Window, TableInv
               PROVE  /\ Legs \subseteq live
                      /\ \A s \in Legs : s \in Sess /\ obj[s].kind \in { "IN", "OUT" }
                      /\ Up => /\ session[CtrlSlot] \in live
                               /\ obj[session[CtrlSlot]].kind = "CTRL"
                               /\ Legs = live \ {session[CtrlSlot]}
    OBVIOUS
  <1>1. \A i \in Scope : session[i] # NULL =>
          session[i] \in live /\ obj[session[i]].kind \in { "IN", "OUT" }
    BY DEF TableInv, TableConsistent
  <1>2. \A s \in Legs : s \in live /\ obj[s].kind \in { "IN", "OUT" }
    BY <1>1 DEF Legs
  <1>3. live \subseteq Sess /\ NULL \notin live
    BY NullAssumption DEF TypeOK
  <1>4. live \ {session[CtrlSlot]} \subseteq Legs
    BY <1>3 DEF TableInv, LegsTracked, Legs
  <1>5. Up => session[CtrlSlot] \in live /\ obj[session[CtrlSlot]].kind = "CTRL"
    BY DEF Up, TableInv, CtrlTracked
  <1> QED BY <1>2, <1>3, <1>4, <1>5

(* A surjection from a finite set. *)
LEMMA ImageSize ==
  ASSUME NEW S, IsFiniteSet(S), NEW T, NEW f \in [S -> T],
         \A t \in T : \E s \in S : f[s] = t
  PROVE  IsFiniteSet(T) /\ Cardinality(T) <= Cardinality(S)
  <1>1. f \in Surjection(S, T)
    BY Fun_IsSurj
  <1> QED BY <1>1, FS_Surjection

InLegs  == { s \in Legs : obj[s].kind = "IN" }
OutLegs == { s \in Legs : obj[s].kind = "OUT" }

(* There are no more legs than slots in use, and half of the legs are IN   *)
(* legs.                                                                   *)
LEMMA LegsCount ==
  ASSUME TypeOK, Window, TableInv, pc = "cmd"
  PROVE  /\ IsFiniteSet(Legs) /\ Cardinality(Legs) <= session_cnt - 1
         /\ IsFiniteSet(InLegs) /\ IsFiniteSet(OutLegs)
         /\ Cardinality(Legs) = 2 * Cardinality(InLegs)
         /\ Cardinality(Legs) = 2 * Cardinality(OutLegs)
  <1> DEFINE W == { i \in Scope : session[i] # NULL }
             f == [i \in W |-> session[i]]
             g == [s \in InLegs |-> obj[s].peer_ses]
  <1>0. session_cnt \in Nat /\ session_cnt >= 1
    BY DEF Window, TypeOK
  <1>1. IsFiniteSet(W) /\ Cardinality(W) <= session_cnt - 1
    <2>1. Scope = 1 .. session_cnt - 1
      BY DEF Scope
    <2>2. IsFiniteSet(Scope) /\ Cardinality(Scope) = session_cnt - 1
      <3>1. /\ IsFiniteSet(1 .. session_cnt - 1)
            /\ Cardinality(1 .. session_cnt - 1)
                 = IF 1 > session_cnt - 1 THEN 0 ELSE session_cnt - 1 - 1 + 1
        BY <1>0, FS_Interval
      <3> QED BY <1>0, <2>1, <3>1
    <2>3. W \in SUBSET Scope
      OBVIOUS
    <2>4. IsFiniteSet(W) /\ Cardinality(W) <= Cardinality(Scope)
      <3> HIDE DEF W
      <3> QED BY <2>2, <2>3, FS_Subset
    <2>5. Cardinality(W) \in Nat
      BY <2>4, FS_CardinalityType
    <2> HIDE DEF W
    <2> QED BY <1>0, <2>2, <2>4, <2>5
  <1>2. f \in [W -> Legs] /\ \A t \in Legs : \E i \in W : f[i] = t
    BY DEF Legs
  <1>3. IsFiniteSet(Legs) /\ Cardinality(Legs) <= Cardinality(W)
    <2> HIDE DEF f, W
    <2> QED BY <1>1, <1>2, ImageSize
  <1>4. /\ Cardinality(Legs) \in Nat /\ Cardinality(W) \in Nat
        /\ Cardinality(Legs) <= session_cnt - 1
    <2>1. Cardinality(Legs) \in Nat /\ Cardinality(W) \in Nat
      BY <1>1, <1>3, FS_CardinalityType
    <2> HIDE DEF W
    <2> QED BY <1>0, <1>1, <1>3, <2>1
  <1>5. /\ IsFiniteSet(InLegs) /\ IsFiniteSet(OutLegs)
        /\ Cardinality(InLegs) \in Nat /\ Cardinality(OutLegs) \in Nat
    <2>1. InLegs \in SUBSET Legs /\ OutLegs \in SUBSET Legs
      BY DEF InLegs, OutLegs
    <2>2. IsFiniteSet(InLegs) /\ IsFiniteSet(OutLegs)
      BY <1>3, <2>1, FS_Subset
    <2> QED BY <2>2, FS_CardinalityType
  <1>6. \A s \in Legs : obj[s].kind \in { "IN", "OUT" }
    BY LegsAre
  <1>7. g \in Bijection(InLegs, OutLegs)
    <2>1. \A s \in Legs : /\ obj[s].peer_ses \in Legs
                          /\ obj[obj[s].peer_ses].peer_ses = s
                          /\ obj[obj[s].peer_ses].kind # obj[s].kind
      BY DEF TableInv, PeersPaired
    <2>2. g \in [InLegs -> OutLegs]
      BY <1>6, <2>1 DEF InLegs, OutLegs
    <2>3. \A s, t \in InLegs : g[s] = g[t] => s = t
      BY <2>1 DEF InLegs
    <2>4. \A t \in OutLegs : \E s \in InLegs : g[s] = t
      <3> SUFFICES ASSUME NEW t \in OutLegs
                   PROVE  g[obj[t].peer_ses] = t /\ obj[t].peer_ses \in InLegs
        OBVIOUS
      <3>1. obj[t].peer_ses \in InLegs
        BY <1>6, <2>1 DEF InLegs, OutLegs
      <3>2. obj[obj[t].peer_ses].peer_ses = t
        BY <2>1 DEF OutLegs
      <3> QED BY <3>1, <3>2
    <2> HIDE DEF g
    <2> QED BY <2>2, <2>3, <2>4, Fun_IsBij
  <1>8. Cardinality(OutLegs) = Cardinality(InLegs)
    <2>1. ExistsBijection(InLegs, OutLegs)
      BY <1>7 DEF ExistsBijection
    <2> QED BY <1>5, <2>1, FS_Bijection
  <1>9. Cardinality(Legs) = Cardinality(InLegs) + Cardinality(OutLegs)
    <2>1. Legs = InLegs \cup OutLegs /\ InLegs \cap OutLegs = {}
      BY <1>6 DEF InLegs, OutLegs
    <2>2. Cardinality(InLegs \cup OutLegs)
            = Cardinality(InLegs) + Cardinality(OutLegs)
                - Cardinality(InLegs \cap OutLegs)
      BY <1>5, FS_Union
    <2>3. Cardinality(InLegs \cap OutLegs) = 0
      BY <2>1, FS_EmptySet
    <2> QED BY <1>5, <2>1, <2>2, <2>3
  <1> QED BY <1>3, <1>4, <1>5, <1>8, <1>9

(* When a SETUP passes the capacity check, each table has the entries it   *)
(* needs: session_idGetNext and app_portGetFree do not return -1.          *)
LEMMA Room ==
  ASSUME TypeOK, Window, TableInv, RInv, pc = "cmd", session_cnt < MaxSessions
  PROVE  /\ InId \in (0 .. IdsPerDir - 1) \ ids
         /\ OutId \in (IdsPerDir .. 2 * IdsPerDir - 1) \ ids
         /\ InPort \in (0 .. PortCount - 1) \ ports
         /\ OutPort \in (0 .. PortCount - 1) \ (ports \union {InPort})
  <1> DEFINE ctrl == session[CtrlSlot]
             InIds == 0 .. IdsPerDir - 1
             OutIds == IdsPerDir .. 2 * IdsPerDir - 1
             Ports == 0 .. PortCount - 1
  <1>0. /\ MaxSessions \in Nat /\ PortCount \in Nat /\ PortCount >= MaxSessions
        /\ IdsPerDir \in Nat /\ 2 * IdsPerDir > MaxSessions
    BY MaxAssumption, TableAssumption
  <1>1. /\ IsFiniteSet(Legs) /\ IsFiniteSet(InLegs) /\ IsFiniteSet(OutLegs)
        /\ Cardinality(Legs) <= MaxSessions - 2
        /\ Cardinality(Legs) = 2 * Cardinality(InLegs)
        /\ Cardinality(Legs) = 2 * Cardinality(OutLegs)
        /\ Cardinality(Legs) \in Nat
        /\ Cardinality(InLegs) \in Nat /\ Cardinality(OutLegs) \in Nat
    <2>1. /\ IsFiniteSet(Legs) /\ IsFiniteSet(InLegs) /\ IsFiniteSet(OutLegs)
          /\ Cardinality(Legs) <= session_cnt - 1
          /\ Cardinality(Legs) = 2 * Cardinality(InLegs)
          /\ Cardinality(Legs) = 2 * Cardinality(OutLegs)
      BY LegsCount
    <2>2. /\ Cardinality(Legs) \in Nat /\ Cardinality(InLegs) \in Nat
          /\ Cardinality(OutLegs) \in Nat
      BY <2>1, FS_CardinalityType
    <2>3. session_cnt \in Int /\ session_cnt < MaxSessions
      BY DEF TypeOK
    <2> QED BY <1>0, <2>1, <2>2, <2>3
  <1>2. /\ ctrl \in live /\ obj[ctrl].kind = "CTRL" /\ ctrl \notin Legs
        /\ live = Legs \union {ctrl}
        /\ \A s \in Legs : obj[s].kind \in { "IN", "OUT" }
    BY LegsAre DEF Up
  <1>3. /\ \A s \in InLegs \union {ctrl} : obj[s].ses_id \in InIds
        /\ \A s \in OutLegs : obj[s].ses_id \in OutIds
        /\ ids = { obj[s].ses_id : s \in live }
        /\ ports = { obj[s].loc_port : s \in Legs }
    BY <1>2 DEF RInv, InRange, ResourcesAccounted, InLegs, OutLegs
  <1>4. InIds \cap OutIds = {}
    BY <1>0
  <1>5. ~ (InIds \subseteq ids)
    <2> SUFFICES ASSUME InIds \subseteq ids PROVE FALSE
      OBVIOUS
    <2> DEFINE D == InLegs \union {ctrl}
               f == [s \in D |-> obj[s].ses_id]
    <2>1. IsFiniteSet(D) /\ Cardinality(D) = Cardinality(InLegs) + 1
      <3>1. ctrl \notin InLegs
        BY <1>2 DEF InLegs
      <3> QED BY <1>1, <3>1, FS_AddElement
    <2>2. f \in [D -> InIds]
      BY <1>3
    <2>3. ASSUME NEW k \in InIds PROVE \E s \in D : f[s] = k
      <3>1. PICK s \in live : obj[s].ses_id = k
        BY <1>3
      <3>2. s \notin OutLegs
        BY <1>3, <1>4, <3>1
      <3>3. s \in D
        BY <1>2, <3>2 DEF InLegs, OutLegs
      <3> QED BY <3>1, <3>3
    <2>4. Cardinality(InIds) = IdsPerDir
      BY <1>0, FS_Interval
    <2>5. Cardinality(InIds) <= Cardinality(D)
      <3> HIDE DEF f, D, InIds
      <3> QED BY <2>1, <2>2, <2>3, ImageSize
    <2> HIDE DEF f, D, InIds
    <2> QED BY <1>0, <1>1, <2>1, <2>4, <2>5
  <1>6. ~ (OutIds \subseteq ids)
    <2> SUFFICES ASSUME OutIds \subseteq ids PROVE FALSE
      OBVIOUS
    <2> DEFINE f == [s \in OutLegs |-> obj[s].ses_id]
    <2>1. f \in [OutLegs -> OutIds]
      BY <1>3
    <2>2. ASSUME NEW k \in OutIds PROVE \E s \in OutLegs : f[s] = k
      <3>1. PICK s \in live : obj[s].ses_id = k
        BY <1>3
      <3>2. s \notin InLegs \union {ctrl}
        BY <1>3, <1>4, <3>1
      <3>3. s \in OutLegs
        BY <1>2, <3>2 DEF InLegs, OutLegs
      <3> QED BY <3>1, <3>3
    <2>3. Cardinality(OutIds) = IdsPerDir
      <3>1. IdsPerDir \in Int /\ 2 * IdsPerDir - 1 \in Int
        BY <1>0
      <3>2. Cardinality(OutIds) = IF IdsPerDir > 2 * IdsPerDir - 1 THEN 0
                                  ELSE 2 * IdsPerDir - 1 - IdsPerDir + 1
        BY <3>1, FS_Interval
      <3> QED BY <1>0, <3>2
    <2>4. Cardinality(OutIds) <= Cardinality(OutLegs)
      <3> HIDE DEF f, OutIds
      <3> QED BY <1>1, <2>1, <2>2, ImageSize
    <2> HIDE DEF f, OutIds
    <2> QED BY <1>0, <1>1, <2>3, <2>4
  <1>7. ASSUME NEW p, Ports \subseteq ports \union {p} PROVE FALSE
    <2> DEFINE f == [s \in Legs |-> obj[s].loc_port]
    <2>1. f \in [Legs -> ports] /\ \A k \in ports : \E s \in Legs : f[s] = k
      BY <1>3
    <2>2. IsFiniteSet(ports) /\ Cardinality(ports) <= Cardinality(Legs)
      <3> HIDE DEF f
      <3> QED BY <1>1, <2>1, ImageSize
    <2>3. /\ IsFiniteSet(ports \union {p})
          /\ Cardinality(ports \union {p}) <= Cardinality(ports) + 1
          /\ Cardinality(ports) \in Nat /\ Cardinality(ports \union {p}) \in Nat
      <3>1. /\ IsFiniteSet(ports \union {p})
            /\ Cardinality(ports \union {p})
                 = IF p \in ports THEN Cardinality(ports) ELSE Cardinality(ports) + 1
        BY <2>2, FS_AddElement
      <3>2. Cardinality(ports) \in Nat /\ Cardinality(ports \union {p}) \in Nat
        BY <2>2, <3>1, FS_CardinalityType
      <3> QED BY <3>1, <3>2
    <2>4. Ports \in SUBSET (ports \union {p})
      BY <1>7
    <2>5. Cardinality(Ports) = PortCount
      BY <1>0, FS_Interval
    <2>6. Cardinality(Ports) <= Cardinality(ports \union {p})
      <3> HIDE DEF Ports
      <3> QED BY <2>3, <2>4, FS_Subset
    <2> HIDE DEF Ports
    <2> QED BY <1>0, <1>1, <2>2, <2>3, <2>5, <2>6
  <1>8. /\ 0 \in Nat /\ 2 * IdsPerDir \in Nat
        /\ id_in \in 0 .. IdsPerDir /\ id_out \in IdsPerDir .. 2 * IdsPerDir
        /\ port_idx \in 0 .. PortCount
    BY <1>0 DEF TypeOK
  <1>9. /\ InId \in InIds \ ids \/ InIds \subseteq ids
        /\ OutId \in OutIds \ ids \/ OutIds \subseteq ids
        /\ InPort \in Ports \ ports \/ Ports \subseteq ports
    BY <1>0, <1>8, NextFreeSound DEF InId, OutId, InPort
  <1>10. InPort \in Ports \ ports
    BY <1>7, <1>9
  <1>11. /\ UsedAfter(ports, InPort) = ports \union {InPort}
         /\ CursorAfter(port_idx, InPort) \in 0 .. PortCount
    BY <1>10, Allocations DEF UsedAfter, NoEntry
  <1>12. OutPort \in Ports \ (ports \union {InPort})
    <2>1. \/ OutPort \in Ports \ UsedAfter(ports, InPort)
          \/ Ports \subseteq UsedAfter(ports, InPort)
      BY <1>0, <1>8, <1>11, NextFreeSound DEF OutPort
    <2> QED BY <1>7, <1>11, <2>1
  <1> QED BY <1>5, <1>6, <1>9, <1>10, <1>12

(* A step that touches neither the table's sessions nor what they hold     *)
(* keeps the accounts; it may lose a socket where fax_sessionInit can fail.*)
LEMMA FrameResources ==
  ASSUME RInv, UNCHANGED << live, ids, ports >>,
         Legs \subseteq live, Legs' = Legs,
         session'[CtrlSlot] = session[CtrlSlot],
         \A s \in live : /\ obj'[s].kind = obj[s].kind
                         /\ obj'[s].ses_id = obj[s].ses_id
                         /\ obj'[s].loc_port = obj[s].loc_port
                         /\ obj'[s].fds = obj[s].fds,
         \/ UNCHANGED open
         \/ "fax" \in Faults /\ open \subseteq open'
  PROVE  RInv'
  <1>1. ResourcesAccounted'
    BY DEF RInv, ResourcesAccounted
  <1>2. NothingShared'
    BY DEF RInv, NothingShared
  <1>3. InRange'
    BY DEF RInv, InRange
  <1> QED BY <1>1, <1>2, <1>3 DEF RInv

(* The application starts with nothing, then with the control session.     *)
LEMMA StartResources ==
  /\ Init => RInv
  /\ TypeOK /\ Window /\ TableInv /\ RInv /\ AppInit => RInv'
  /\ TypeOK /\ Window /\ TableInv /\ RInv /\ AppInitFails => RInv'
  <1>1. Init => RInv
    <2> SUFFICES ASSUME Init PROVE RInv
      OBVIOUS
    <2>1. Legs = {}
      BY DEF Init, Scope, Legs
    <2>2. session[CtrlSlot] = NULL
      BY MaxAssumption DEF Init, Slots, CtrlSlot
    <2> QED BY <2>1, <2>2
            DEF Init, RInv, ResourcesAccounted, NothingShared, InRange
  <1>2. ASSUME TypeOK, Window, TableInv, RInv, AppInit PROVE RInv'
    <2> USE TableAssumption, MaxAssumption
    <2>1. PICK s \in Calloc(live), fd \in FreeFds :
            /\ live' = {s}
            /\ obj' = [obj EXCEPT ![s] = NewSession("CTRL", InId, CtrlSlot, NULL,
                                                    CtrlPort, fd, NULL)]
            /\ session' = [session EXCEPT ![CtrlSlot] = s]
            /\ open' = {fd}
      BY <1>2 DEF AppInit
    <2>2. s \in Sess /\ s # NULL /\ CtrlSlot \in Slots /\ fd # NoFd
      BY <1>2, CallocAssumption, FdAssumption, NullAssumption
         DEF TypeOK, CtrlSlot, Slots, FreeFds, NoFd
    <2>3. /\ session'[CtrlSlot] = s
          /\ obj'[s] = NewSession("CTRL", InId, CtrlSlot, NULL, CtrlPort, fd, NULL)
      BY <1>2, <2>1, <2>2 DEF TypeOK
    <2>4. Legs' = {}
      BY <1>2 DEF AppInit, Scope, Legs
    <2>5. live = {} /\ pc = "init" /\ Legs = {} /\ ids = {} /\ ports = {}
      <3>1. pc = "init" /\ live = {} /\ session_cnt = 0
        BY <1>2 DEF AppInit, Window
      <3>2. Legs = {}
        BY <3>1 DEF Legs, Scope
      <3> QED BY <1>2, <3>1, <3>2 DEF RInv, ResourcesAccounted
    <2>6. InId \in 0 .. IdsPerDir - 1
      <3>1. /\ IdsPerDir \in Nat /\ IdsPerDir > 0 /\ 0 \in Nat
            /\ id_in \in 0 .. IdsPerDir
        BY <1>2 DEF TypeOK
      <3>2. InId \in 0 .. IdsPerDir - 1 \/ 0 .. IdsPerDir - 1 \subseteq ids
        BY <3>1, NextFreeSound DEF InId
      <3> QED BY <2>5, <3>1, <3>2
    <2>7. /\ ids' = {InId} /\ ports' = {}
          /\ obj'[s].ses_id = InId /\ obj'[s].loc_port = CtrlPort
          /\ obj'[s].fds = fd /\ obj'[s].kind = "CTRL"
      BY <1>2, <2>3, <2>5, <2>6 DEF AppInit, UsedAfter, NoEntry, NewSession
    <2>8. ResourcesAccounted'
      BY <2>1, <2>2, <2>3, <2>4, <2>7 DEF ResourcesAccounted
    <2>9. NothingShared'
      <3>1. InId # NoEntry /\ CtrlPort # WrapPort
        BY <2>6 DEF NoEntry, CtrlPort, WrapPort
      <3> QED BY <2>1, <2>7, <3>1 DEF NothingShared
    <2>10. InRange'
      BY <2>1, <2>2, <2>6, <2>7 DEF InRange
    <2> QED BY <2>8, <2>9, <2>10 DEF RInv
  <1>3. ASSUME TypeOK, Window, TableInv, RInv, AppInitFails PROVE RInv'
    <2> USE DEF tableVars, memVars
    <2>1. /\ UNCHANGED << session, pfds, session_cnt, live, obj, ids, ports, open >>
          /\ Legs = {} /\ Legs' = {}
      BY <1>3 DEF AppInitFails, Window, Legs, Scope
    <2> QED BY <1>3, <2>1, FrameResources
  <1> QED BY <1>1, <1>2, <1>3

(* A SETUP that succeeds takes what was free. *)
LEMMA SetupDoneResources ==
  ASSUME TypeOK, Window, TableInv, RInv, TypeOK', Window', TableInv',
         NEW c \in CallIds, SetupDone(c)
  PROVE  RInv'
  <1> USE TableAssumption, MaxAssumption
  <1>1. PICK in \in Calloc(live) : \E out \in Calloc(live \union {in}) :
        \E fd1, fd2 \in FreeFds :
          /\ Lowest(fd2, FreeFds \ {fd1})
          /\ AddCall(c, in, out, fd1, fd2)
    BY DEF SetupDone
  <1>2. in \in Sess /\ in \notin live
    BY CallocAssumption DEF TypeOK
  <1>3. PICK out \in Calloc(live \union {in}), fd1 \in FreeFds, fd2 \in FreeFds :
          /\ Lowest(fd2, FreeFds \ {fd1})
          /\ AddCall(c, in, out, fd1, fd2)
    BY <1>1
  <1>4. /\ out \in Sess /\ out \notin live /\ out # in /\ fd1 # fd2
        /\ fd1 \notin open /\ fd2 \notin open /\ fd1 # NoFd /\ fd2 # NoFd
    <2>1. live \union {in} \in SUBSET Sess
      BY <1>2 DEF TypeOK
    <2>2. out \in Sess \ (live \union {in})
      BY <2>1, CallocAssumption
    <2> QED BY <1>3, <2>2, FdAssumption DEF FreeFds, NoFd, Lowest
  <1>5. /\ pc = "cmd" /\ pc' = "poll" /\ session_cnt < MaxSessions
        /\ ids' = UsedAfter(UsedAfter(ids, InId), OutId)
        /\ ports' = UsedAfter(UsedAfter(ports, InPort), OutPort)
    BY DEF SetupDone, Commanded
  <1>6. /\ InId \in (0 .. IdsPerDir - 1) \ ids
        /\ OutId \in (IdsPerDir .. 2 * IdsPerDir - 1) \ ids
        /\ InPort \in (0 .. PortCount - 1) \ ports
        /\ OutPort \in (0 .. PortCount - 1) \ (ports \union {InPort})
    BY <1>5, Room
  <1>7. /\ InId # NoEntry /\ OutId # NoEntry /\ InId # OutId
        /\ InPort # NoEntry /\ OutPort # NoEntry /\ InPort # OutPort
        /\ Uint16(InPort) = InPort /\ Uint16(OutPort) = OutPort
        /\ InPort # WrapPort /\ OutPort # WrapPort
        /\ InPort # CtrlPort /\ OutPort # CtrlPort
    BY <1>6 DEF NoEntry, Uint16, WrapPort, CtrlPort
  <1>8. /\ ids' = ids \union {InId, OutId}
        /\ ports' = ports \union {InPort, OutPort}
    BY <1>5, <1>7 DEF UsedAfter
  <1>9. /\ live' = live \union {in, out} /\ open' = open \union {fd1, fd2}
        /\ session'[CtrlSlot] = session[CtrlSlot]
    <2>1. /\ session' = [session EXCEPT ![session_cnt] = in, ![session_cnt + 1] = out]
          /\ session_cnt \in Nat /\ session_cnt >= 1
      BY <1>3, <1>5 DEF AddCall, TypeOK, Window
    <2>2. CtrlSlot \in Slots /\ CtrlSlot # session_cnt /\ CtrlSlot # session_cnt + 1
      BY <2>1 DEF CtrlSlot, Slots
    <2>3. session'[CtrlSlot] = session[CtrlSlot]
      BY <2>1, <2>2 DEF TypeOK
    <2> QED BY <1>3, <2>3 DEF AddCall
  <1>10. /\ session[CtrlSlot] \in live /\ Legs = live \ {session[CtrlSlot]}
         /\ obj[session[CtrlSlot]].kind = "CTRL"
         /\ \A s \in Legs : obj[s].kind \in { "IN", "OUT" }
    BY <1>5, LegsAre DEF Up
  <1>11. Legs' = Legs \union {in, out}
    <2>1. (TypeOK /\ Window /\ TableInv =>
             (Up => Legs = live \ {session[CtrlSlot]}))'
      BY LegsAre, PTL
    <2>2. Up'
      BY <1>5 DEF Up
    <2> QED BY <1>2, <1>4, <1>9, <1>10, <2>1, <2>2
  <1>12. /\ obj'[in].ses_id = InId /\ obj'[out].ses_id = OutId
         /\ obj'[in].loc_port = InPort /\ obj'[out].loc_port = OutPort
         /\ obj'[in].fds = fd1 /\ obj'[out].fds = fd2
         /\ obj'[in].kind = "IN" /\ obj'[out].kind = "OUT"
         /\ \A s \in live : obj'[s] = obj[s]
    <2>1. /\ obj'[in] = NewSession("IN", InId, session_cnt, c, Uint16(InPort), fd1, out)
          /\ obj'[out] = NewSession("OUT", OutId, session_cnt + 1, c, Uint16(OutPort),
                                    fd2, in)
          /\ \A s \in live : obj'[s] = obj[s]
      BY <1>2, <1>3, <1>4 DEF AddCall, TypeOK
    <2> QED BY <1>7, <2>1 DEF NewSession
  <1>13. /\ \A s \in live : obj[s].ses_id \in ids /\ obj[s].fds \in open
         /\ \A s \in Legs : obj[s].loc_port \in ports
         /\ obj[session[CtrlSlot]].loc_port = CtrlPort
    BY <1>10 DEF RInv, ResourcesAccounted, InRange
  <1>14. ResourcesAccounted'
    <2>1. live' = Legs' \union ({session'[CtrlSlot]} \ {NULL})
      <3>1. session[CtrlSlot] # NULL
        BY <1>10, NullAssumption DEF TypeOK
      <3> QED BY <1>9, <1>10, <1>11, <3>1
    <2>2. ports' = { obj'[s].loc_port : s \in Legs' }
      <3>1. ports = { obj'[s].loc_port : s \in Legs }
        BY <1>10, <1>12 DEF RInv, ResourcesAccounted
      <3> QED BY <1>8, <1>11, <1>12, <3>1
    <2>3. ids' = { obj'[s].ses_id : s \in live' }
      <3>1. ids = { obj'[s].ses_id : s \in live }
        BY <1>12 DEF RInv, ResourcesAccounted
      <3> QED BY <1>8, <1>9, <1>12, <3>1
    <2>4. { obj'[s].fds : s \in live' } = { obj[s].fds : s \in live } \union {fd1, fd2}
      <3>1. { obj'[s].fds : s \in live } = { obj[s].fds : s \in live }
        BY <1>12
      <3> QED BY <1>9, <1>12, <3>1
    <2> QED BY <1>9, <2>1, <2>2, <2>3, <2>4 DEF RInv, ResourcesAccounted
  <1>15. NothingShared'
    <2>1. \A s \in live : obj[s].loc_port \notin {InPort, OutPort}
      BY <1>6, <1>7, <1>10, <1>13
    <2>2. \A s \in live : obj[s].ses_id \notin {InId, OutId}
      BY <1>6, <1>13
    <2>3. \A s \in live : obj[s].fds \notin {fd1, fd2}
      BY <1>4, <1>13
    <2> QED BY <1>4, <1>7, <1>9, <1>12, <2>1, <2>2, <2>3 DEF RInv, NothingShared
  <1>16. InRange'
    BY <1>4, <1>6, <1>9, <1>12 DEF RInv, InRange
  <1> QED BY <1>14, <1>15, <1>16 DEF RInv

(* Sessions destroyed give back what they held and nothing else. *)
LEMMA DestroyResources ==
  ASSUME TypeOK, RInv, NEW gone, gone \subseteq Legs, Legs \subseteq live,
         SessionDestroy(gone),
         session[CtrlSlot] \in live, Legs = live \ {session[CtrlSlot]},
         session'[CtrlSlot] = session[CtrlSlot], Legs' = Legs \ gone
  PROVE  RInv'
  <1>1. /\ live' = live \ gone
        /\ \A s \in live' : obj'[s] = obj[s]
        /\ ids' = ids \ { obj[s].ses_id : s \in gone }
        /\ ports' = ports \ { obj[s].loc_port : s \in gone }
        /\ open' = open \ { obj[s].fds : s \in gone }
    BY DEF SessionDestroy, TypeOK
  <1>2. \A s, t \in live : s # t => /\ obj[s].ses_id # obj[t].ses_id
                                    /\ obj[s].loc_port # obj[t].loc_port
                                    /\ obj[s].fds # obj[t].fds
    BY DEF RInv, NothingShared
  <1>3. ResourcesAccounted'
    <2>1. live' = Legs' \union ({session'[CtrlSlot]} \ {NULL})
      <3>1. session[CtrlSlot] # NULL
        BY NullAssumption DEF TypeOK
      <3> QED BY <1>1, <3>1
    <2>2. ports' = { obj'[s].loc_port : s \in Legs' }
      <3>1. ports = { obj[s].loc_port : s \in Legs }
        BY DEF RInv, ResourcesAccounted
      <3>2. { obj'[s].loc_port : s \in Legs' } = { obj[s].loc_port : s \in Legs \ gone }
        BY <1>1
      <3> QED BY <1>1, <1>2, <3>1, <3>2
    <2>3. ids' = { obj'[s].ses_id : s \in live' }
      <3>1. ids = { obj[s].ses_id : s \in live }
        BY DEF RInv, ResourcesAccounted
      <3>2. { obj'[s].ses_id : s \in live' } = { obj[s].ses_id : s \in live \ gone }
        BY <1>1
      <3> QED BY <1>1, <1>2, <3>1, <3>2
    <2>4. { obj'[s].fds : s \in live' }
            = { obj[s].fds : s \in live } \ { obj[s].fds : s \in gone }
      <3>1. { obj'[s].fds : s \in live' } = { obj[s].fds : s \in live \ gone }
        BY <1>1
      <3> QED BY <1>2, <3>1
    <2> QED BY <1>1, <2>1, <2>2, <2>3, <2>4 DEF RInv, ResourcesAccounted
  <1>4. NothingShared'
    BY <1>1 DEF RInv, NothingShared
  <1>5. InRange'
    BY <1>1 DEF RInv, InRange
  <1> QED BY <1>3, <1>4, <1>5 DEF RInv

LEMMA ReleaseResources ==
  ASSUME TypeOK, Window, TableInv, RInv, TypeOK', Window', TableInv',
         NEW c \in CallIds, Release(c)
  PROVE  RInv'
  <1>1. PICK i, cs, peer, pidx :
          /\ i \in Matches(c) /\ cs = session[i] /\ peer = obj[cs].peer_ses
          /\ pidx = obj[peer].sidx
          /\ session' = [session EXCEPT ![i] = NULL, ![pidx] = NULL]
          /\ SessionDestroy({cs, peer})
    BY DEF Release
  <1>2. pc = "cmd" /\ pc' = "poll"
    BY DEF Release, Commanded
  <1>3. i \in Scope /\ cs \in Legs
    BY <1>1, <1>2 DEF Matches, Scope, CtrlSlot, Legs
  <1>4. /\ session[CtrlSlot] \in live /\ Legs = live \ {session[CtrlSlot]}
        /\ Legs \subseteq live
    BY <1>2, LegsAre DEF Up
  <1>5. peer \in Legs
    BY <1>1, <1>3 DEF TableInv, PeersPaired
  <1>6. pidx \in Scope
    BY <1>1, <1>4, <1>5 DEF TableInv, LegsTracked
  <1>7. session'[CtrlSlot] = session[CtrlSlot]
    <2>1. CtrlSlot \notin Scope /\ CtrlSlot \in Slots
      BY ScopeInSlots
    <2> QED BY <1>1, <1>3, <1>6, <2>1 DEF TypeOK
  <1>8. Legs' = Legs \ {cs, peer}
    <2>1. (TypeOK /\ Window /\ TableInv =>
             (Up => Legs = live \ {session[CtrlSlot]}))'
      BY LegsAre, PTL
    <2>2. Legs' = live' \ {session'[CtrlSlot]}
      BY <1>2, <2>1 DEF Up
    <2>3. live' = live \ {cs, peer}
      BY <1>1 DEF SessionDestroy
    <2> QED BY <1>4, <1>7, <2>2, <2>3
  <1>9. {cs, peer} \subseteq Legs
    BY <1>3, <1>5
  <1> QED BY <1>1, <1>4, <1>7, <1>8, <1>9, DestroyResources

(* At the end nothing is left, but for sockets lost before. *)
LEMMA AppDestroyResources ==
  ASSUME TypeOK, Window, TableInv, RInv, TypeOK', Window', TableInv', AppDestroy
  PROVE  RInv'
  <1> DEFINE used == 0 .. session_cnt - 1
             gone == { session[i] : i \in used } \ {NULL}
  <1>1. /\ pc = "poll" /\ pc' = "done" /\ SessionDestroy(gone)
        /\ session' = [i \in Slots |-> IF i \in used THEN NULL ELSE session[i]]
    BY DEF AppDestroy
  <1>2. CtrlSlot \in used /\ CtrlSlot \in Slots
    <2>1. session_cnt \in Nat /\ session_cnt >= 1 /\ MaxSessions \in Nat
      BY <1>1, MaxAssumption DEF Window, TypeOK
    <2> QED BY <2>1 DEF CtrlSlot, Slots
  <1>3. live' = {}
    BY <1>1 DEF TableInv, CtrlTracked
  <1>4. live \subseteq gone
    BY <1>1, <1>3 DEF SessionDestroy
  <1> HIDE DEF used, gone
  <1>5. Legs' = {} /\ session'[CtrlSlot] = NULL
    <2>1. (TypeOK /\ Window /\ TableInv => Legs \subseteq live)'
      BY LegsAre, PTL
    <2> QED BY <1>1, <1>2, <1>3, <2>1
  <1>6. Legs \subseteq live
    BY LegsAre
  <1>7. ids' = {} /\ ports' = {}
    <2>1. ids \subseteq { obj[s].ses_id : s \in gone }
      BY <1>4 DEF RInv, ResourcesAccounted
    <2>2. ports \subseteq { obj[s].loc_port : s \in gone }
      BY <1>4, <1>6 DEF RInv, ResourcesAccounted
    <2> QED BY <1>1, <2>1, <2>2 DEF SessionDestroy
  <1>8. "fax" \notin Faults => open' = {}
    BY <1>1, <1>4 DEF RInv, ResourcesAccounted, SessionDestroy
  <1>9. ResourcesAccounted'
    BY <1>3, <1>5, <1>7, <1>8 DEF ResourcesAccounted
  <1> QED BY <1>3, <1>9 DEF RInv, NothingShared, InRange

(* Every step keeps the accounts. *)
LEMMA NextResources ==
  ASSUME TypeOK, Window, TableInv, RInv, TypeOK', Window', TableInv', [Next]_vars
  PROVE  RInv'
  <1> USE DEF loopVars, tableVars, memVars, cursorVars
  <1>0. Legs \subseteq live
    BY LegsAre
  <1>1. ASSUME UNCHANGED << session, session_cnt, idx, skip_sessions >>,
               UNCHANGED << live, obj, ids, ports >>,
               pc' = pc \/ (pc = "cmd" /\ pc' \in { "poll", "crashed" }),
               \/ UNCHANGED open
               \/ "fax" \in Faults /\ open \subseteq open'
        PROVE  RInv'
    <2>1. Legs' = Legs
      BY <1>1 DEF Legs, Scope
    <2> QED BY <1>0, <1>1, <2>1, FrameResources
  <1>2. CASE Poll \/ SkipHole \/ KeepSession \/ EndSessions
    <2>1. Legs' = Legs
      BY <1>2, LoopTable
    <2>2. UNCHANGED << session, live, obj, ids, ports, open >>
      BY <1>2 DEF Poll, SkipHole, KeepSession, EndSessions
    <2> QED BY <1>0, <2>1, <2>2, FrameResources
  <1>3. CASE MoveSession
    <2> DEFINE to == idx - skip_sessions
    <2>1. Legs' = Legs
      BY <1>3, MoveTable
    <2>2. /\ UNCHANGED << live, ids, ports, open >>
          /\ session' = [session EXCEPT ![to] = session[idx]]
          /\ obj' = [obj EXCEPT ![session[idx]].sidx = to]
      BY <1>3 DEF MoveSession, ShiftDown
    <2>3. to # CtrlSlot /\ CtrlSlot \in Slots
      BY MaxAssumption DEF TypeOK, CtrlSlot, Slots
    <2>4. session'[CtrlSlot] = session[CtrlSlot]
      BY <2>2, <2>3 DEF TypeOK
    <2>5. \A s \in live : /\ obj'[s].kind = obj[s].kind
                          /\ obj'[s].ses_id = obj[s].ses_id
                          /\ obj'[s].loc_port = obj[s].loc_port
                          /\ obj'[s].fds = obj[s].fds
      BY <2>2 DEF TypeOK, SessionRec
    <2> QED BY <1>0, <2>1, <2>2, <2>4, <2>5, FrameResources
  <1>4. CASE UNCHANGED vars \/ Signal \/ Ended
    BY <1>1, <1>4 DEF vars, Signal, Ended
  <1>5. CASE NoCommand \/ BadMessage
    BY <1>1, <1>5 DEF NoCommand, BadMessage, Commanded
  <1>6. ASSUME NEW c \in CallIds, Command(c) PROVE RInv'
    <2>1. CASE \/ SetupRejected(c) \/ SetupInNoMemory(c) \/ SetupOutNoMemory(c)
               \/ SetupThreadFails(c) \/ ReleaseUnknown(c)
      BY <1>1, <2>1 DEF SetupRejected, SetupInNoMemory, SetupOutNoMemory,
                        SetupThreadFails, ReleaseUnknown, Commanded
    <2>2. CASE SetupInFaxFails(c) \/ SetupOutFaxFails(c)
      BY <1>1, <2>2 DEF SetupInFaxFails, SetupOutFaxFails, Commanded
    <2>3. CASE \/ SetupOverrun(c) \/ SetupFaxCrashes(c) \/ SetupInListenerFails(c)
               \/ SetupOutListenerFails(c)
      BY <1>1, <2>3 DEF SetupOverrun, SetupFaxCrashes, SetupInListenerFails,
                        SetupOutListenerFails, Crash
    <2> QED BY <1>6, <2>1, <2>2, <2>3, SetupDoneResources, ReleaseResources
            DEF Command, Setup
  <1> QED BY <1>2, <1>3, <1>4, <1>5, <1>6, StartResources, AppDestroyResources
          DEF Next, MainThread

(* Each allocated session, port, id and socket belongs to a session in the *)
(* table, no two sessions share one, and every session got a valid one,    *)
(* for every number of sessions, ports, ids and descriptors, every         *)
(* allocator and every set of failures of src/src/session.c and            *)
(* src/src/app.c that the model knows.                                     *)
THEOREM ResourcesInductive == Spec => [](IInv /\ RInv)
  <1>1. Init => RInv
    BY StartResources
  <1>2. IInv /\ IInv' /\ RInv /\ [Next]_vars => RInv'
    BY NextResources DEF IInv, TableInv
  <1> QED BY <1>1, <1>2, Inductive, PTL DEF Spec

(* Nothing outlives the table: a port, an id or a socket in use is the     *)
(* port, id or socket of a session in the table, and conversely.           *)
THEOREM Accounted == Spec => []ResourcesAccounted
  BY ResourcesInductive, PTL DEF RInv

(* No two sessions share a port, an id or a socket, and no session holds   *)
(* the -1 of a table that ran out (src/src/session.c:179, 301).            *)
THEOREM Unshared == Spec => []NothingShared
  BY ResourcesInductive, PTL DEF RInv

-----------------------------------------------------------------------------
(* The answers.  app_start clears the last one before the next command can *)
(* come, so that an answer seen after a command is the answer to it.       *)
Quiet == pc \in { "sessions", "cmd" } => answer = NoAnswer

LEMMA AnswerFresh == Spec => []Quiet
  <1> USE DEF loopVars, tableVars, memVars, cursorVars
  <1>1. Init => Quiet
    BY DEF Init, Quiet
  <1>2. Quiet /\ [Next]_vars => Quiet'
    <2> SUFFICES ASSUME Quiet, [Next]_vars PROVE Quiet'
      OBVIOUS
    <2>1. CASE Poll \/ SkipHole \/ KeepSession \/ MoveSession \/ EndSessions
      BY <2>1 DEF Poll, SkipHole, KeepSession, MoveSession, EndSessions, Quiet
    <2>2. CASE UNCHANGED vars \/ Signal \/ Ended
      BY <2>2 DEF vars, Signal, Ended, Quiet
    <2>3. ASSUME AppInit \/ AppInitFails \/ NoCommand \/ BadMessage \/ AppDestroy
                 \/ \E c \in CallIds : Command(c)
          PROVE  pc' \notin { "sessions", "cmd" }
      BY <2>3 DEF AppInit, AppInitFails, NoCommand, BadMessage, AppDestroy,
                  Command, Setup, SetupRejected, SetupDone, SetupOverrun,
                  SetupFaxCrashes, SetupInNoMemory, SetupInListenerFails,
                  SetupInFaxFails, SetupOutNoMemory, SetupOutListenerFails,
                  SetupOutFaxFails, SetupThreadFails, Release, ReleaseUnknown,
                  Commanded, Crash
    <2> QED BY <2>1, <2>2, <2>3 DEF Next, MainThread, Quiet
  <1> QED BY <1>1, <1>2, PTL DEF Spec

(* A SETUP that succeeds puts the call it is answered with into the table. *)
LEMMA SetupDoneEnters ==
  ASSUME TypeOK, Window, NEW c \in CallIds, SetupDone(c), answer' # NoAnswer
  PROVE  /\ answer' = Ok(c, Uint16(InPort))
         /\ \E i \in 1 .. session_cnt' - 1 :
              /\ session'[i] \in live' \ live
              /\ obj'[session'[i]].kind = "IN"
              /\ obj'[session'[i]].call_id = c
              /\ obj'[session'[i]].loc_port = Uint16(InPort)
  <1>1. PICK in \in Calloc(live) : \E out \in Calloc(live \union {in}) :
        \E fd1, fd2 \in FreeFds : AddCall(c, in, out, fd1, fd2)
    BY DEF SetupDone
  <1>2. in \in Sess /\ in \notin live
    BY CallocAssumption DEF TypeOK
  <1>3. PICK out \in Calloc(live \union {in}), fd1 \in FreeFds, fd2 \in FreeFds :
          AddCall(c, in, out, fd1, fd2)
    BY <1>1
  <1>4. out \in Sess /\ out # in
    <2>1. live \union {in} \in SUBSET Sess
      BY <1>2 DEF TypeOK
    <2> QED BY <2>1, CallocAssumption
  <1>5. /\ session_cnt \in 1 .. session_cnt' - 1
        /\ session_cnt \in Slots /\ session_cnt + 1 \in Slots
        /\ session_cnt # session_cnt + 1
    <2>1. /\ session_cnt \in Nat /\ session_cnt >= 1 /\ session_cnt < MaxSessions
          /\ session_cnt' = session_cnt + 2 /\ MaxSessions \in Nat
      BY MaxAssumption DEF SetupDone, Commanded, Window, TypeOK
    <2> QED BY <2>1 DEF Slots
  <1>6. session'[session_cnt] = in /\ in \in live' \ live
    BY <1>2, <1>3, <1>5 DEF AddCall, TypeOK
  <1>7. obj'[in] = NewSession("IN", InId, session_cnt, c, Uint16(InPort), fd1, out)
    BY <1>2, <1>3, <1>4 DEF AddCall, TypeOK
  <1>8. answer' = Ok(c, Uint16(InPort))
    BY DEF SetupDone, Reply
  <1> QED BY <1>5, <1>6, <1>7, <1>8 DEF NewSession

(* A SETUP is all or nothing unless fax_sessionInit fails: an OK names a   *)
(* call that is now in the table, at the port its IN leg listens on; an    *)
(* ERROR left everything as it was (src/src/session.c:616-648).  The       *)
(* assumption is needed: the run "dangling_answer" shows what happens      *)
(* without it.                                                             *)
THEOREM AllOrNothing ==
  ASSUME "fax" \notin Faults
  PROVE  Spec => SetupAllOrNothing
  <1> USE DEF loopVars, tableVars, memVars, cursorVars
  <1> DEFINE Entered == \E i \in 1 .. session_cnt' - 1 :
               LET s == session'[i]
               IN  /\ s \in live' \ live
                   /\ obj'[s].kind = "IN"
                   /\ obj'[s].call_id = answer'.call_id
                   /\ obj'[s].loc_port = answer'.port
             Kept == UNCHANGED << tableVars, memVars >>
             Step == pc = "cmd" /\ answer' # NoAnswer =>
                       IF answer'.type = "OK" THEN Entered ELSE Kept
  <1>1. TypeOK /\ Window /\ Quiet /\ [Next]_vars => [Step]_vars
    <2> SUFFICES ASSUME TypeOK, Window, Quiet, Next,
                        pc = "cmd", answer' # NoAnswer
                 PROVE  IF answer'.type = "OK" THEN Entered ELSE Kept
      OBVIOUS
    <2>1. answer = NoAnswer
      BY DEF Quiet
    <2>2. CASE BadMessage
      BY <2>1, <2>2 DEF BadMessage, Reply, Error
    <2>3. ASSUME NEW c \in CallIds, Command(c)
          PROVE  IF answer'.type = "OK" THEN Entered ELSE Kept
      <3>1. CASE SetupDone(c)
        BY <3>1, SetupDoneEnters DEF Ok
      <3>2. CASE \/ SetupRejected(c) \/ SetupInNoMemory(c)
                 \/ SetupOutNoMemory(c) \/ SetupThreadFails(c)
        <4>1. answer' = Error(c) /\ Kept
          BY <3>2 DEF SetupRejected, SetupInNoMemory, SetupOutNoMemory,
                      SetupThreadFails, Reply
        <4> QED BY <4>1 DEF Error
      <3>3. ASSUME \/ SetupInFaxFails(c) \/ SetupOutFaxFails(c)
                   \/ SetupFaxCrashes(c)
            PROVE  FALSE
        BY <3>3 DEF SetupInFaxFails, SetupOutFaxFails, SetupFaxCrashes
      <3>4. ASSUME \/ SetupOverrun(c) \/ SetupInListenerFails(c)
                   \/ SetupOutListenerFails(c) \/ Release(c) \/ ReleaseUnknown(c)
            PROVE  UNCHANGED answer
        BY <3>4 DEF SetupOverrun, SetupInListenerFails, SetupOutListenerFails,
                    Crash, Release, ReleaseUnknown
      <3> QED BY <2>1, <2>3, <3>1, <3>2, <3>3, <3>4 DEF Command, Setup
    <2>4. ASSUME \/ AppInit \/ AppInitFails
                 \/ Poll \/ SkipHole \/ KeepSession \/ MoveSession \/ AppDestroy
          PROVE  FALSE
      BY <2>4 DEF AppInit, AppInitFails, Poll, SkipHole, KeepSession, MoveSession,
                  AppDestroy
    <2>5. ASSUME EndSessions \/ NoCommand \/ Signal \/ Ended PROVE UNCHANGED answer
      BY <2>5 DEF EndSessions, NoCommand, Signal, Ended, vars
    <2> QED BY <2>1, <2>2, <2>3, <2>4, <2>5 DEF Next, MainThread
  <1>2. IInv => TypeOK /\ Window
    BY DEF IInv
  <1> QED BY <1>1, <1>2, Inductive, AnswerFresh, PTL DEF Spec, SetupAllOrNothing

-----------------------------------------------------------------------------
(* The refinement of CallTable.  Every step of the main thread is a step of *)
(* CallTable or none.  The compaction of app_procSessions and the lookup of *)
(* proc_release rest on one more invariant: the IN leg of a call sits below *)
(* its OUT leg, so that the slots in order give the calls in order and      *)
(* RELEASE finds the oldest call of a name by the leg that stands for it.   *)
InFirst ==
  \A s \in Legs : obj[s].kind = "IN" => obj[s].sidx < obj[obj[s].peer_ses].sidx

(* What proc_setup writes when it succeeds. *)
LEMMA SetupDoneIs ==
  ASSUME TypeOK, Window, TableInv, RInv, NEW c \in CallIds, SetupDone(c)
  PROVE  /\ pc = "cmd" /\ pc' = "poll" /\ session_cnt' = session_cnt + 2
         /\ session_cnt \in Nat /\ session_cnt >= 1 /\ session_cnt < MaxSessions
         /\ InPort \in (0 .. PortCount - 1) \ ports
         /\ OutPort \in (0 .. PortCount - 1) \ (ports \union {InPort})
         /\ Reply(Ok(c, InPort))
         /\ \E in, out \in Sess \ live :
              /\ in # out /\ live' = live \union {in, out}
              /\ Legs' = Legs \union {in, out}
              /\ session'[session_cnt] = in /\ session'[session_cnt + 1] = out
              /\ \A i \in Scope : session'[i] = session[i]
              /\ \A s \in live : obj'[s] = obj[s]
              /\ obj'[in].kind = "IN" /\ obj'[in].sidx = session_cnt
              /\ obj'[in].call_id = c /\ obj'[in].loc_port = InPort
              /\ obj'[in].peer_ses = out
              /\ obj'[out].kind = "OUT" /\ obj'[out].sidx = session_cnt + 1
              /\ obj'[out].loc_port = OutPort
  <1>1. PICK in \in Calloc(live) : \E out \in Calloc(live \union {in}) :
        \E fd1, fd2 \in FreeFds : AddCall(c, in, out, fd1, fd2)
    BY DEF SetupDone
  <1>2. in \in Sess \ live
    BY CallocAssumption DEF TypeOK
  <1>3. PICK out \in Calloc(live \union {in}), fd1 \in FreeFds, fd2 \in FreeFds :
          AddCall(c, in, out, fd1, fd2)
    BY <1>1
  <1>4. out \in Sess \ live /\ out # in
    <2>1. live \union {in} \in SUBSET Sess
      BY <1>2 DEF TypeOK
    <2>2. out \in Sess \ (live \union {in})
      BY <2>1, CallocAssumption
    <2> QED BY <2>2
  <1>5. /\ pc = "cmd" /\ pc' = "poll" /\ session_cnt' = session_cnt + 2
        /\ session_cnt \in Nat /\ session_cnt >= 1 /\ session_cnt < MaxSessions
        /\ MaxSessions \in Nat
        /\ Reply(Ok(c, Uint16(InPort)))
    BY MaxAssumption DEF SetupDone, Commanded, Window, TypeOK
  <1>6. /\ InPort \in (0 .. PortCount - 1) \ ports
        /\ OutPort \in (0 .. PortCount - 1) \ (ports \union {InPort})
    BY <1>5, Room
  <1>7. Uint16(InPort) = InPort /\ Uint16(OutPort) = OutPort
    BY <1>6, TableAssumption DEF Uint16, NoEntry
  <1>8. /\ Scope = 1 .. session_cnt - 1 /\ Scope' = 1 .. session_cnt + 1
        /\ session_cnt \in Slots /\ session_cnt + 1 \in Slots
        /\ Scope \subseteq Slots
    BY <1>5 DEF Scope, Slots
  <1>9. /\ session'[session_cnt] = in /\ session'[session_cnt + 1] = out
        /\ \A i \in Scope : session'[i] = session[i]
    <2>1. session' = [session EXCEPT ![session_cnt] = in, ![session_cnt + 1] = out]
      BY <1>3 DEF AddCall
    <2>2. session \in [Slots -> Sess \union {NULL}]
      BY DEF TypeOK
    <2>3. \A i \in Scope : i # session_cnt /\ i # session_cnt + 1 /\ i \in Slots
      BY <1>5, <1>8
    <2> QED BY <1>5, <1>8, <2>1, <2>2, <2>3
  <1>10. /\ obj'[in] = NewSession("IN", InId, session_cnt, c, InPort, fd1, out)
         /\ obj'[out] = NewSession("OUT", OutId, session_cnt + 1, c, OutPort, fd2, in)
         /\ \A s \in live : obj'[s] = obj[s]
         /\ live' = live \union {in, out}
    BY <1>2, <1>3, <1>4, <1>7 DEF AddCall, TypeOK
  <1>11. Legs' = Legs \union {in, out}
    <2>1. in # NULL /\ out # NULL
      BY <1>2, <1>4, NullAssumption
    <2>2. { session'[i] : i \in Scope' } = { session[i] : i \in Scope } \union {in, out}
      <3>1. Scope' = Scope \union {session_cnt, session_cnt + 1}
        BY <1>5, <1>8
      <3> QED BY <1>9, <3>1
    <2> QED BY <2>1, <2>2 DEF Legs
  <1> QED BY <1>2, <1>4, <1>5, <1>6, <1>7, <1>9, <1>10, <1>11 DEF NewSession

(* What proc_release writes. *)
LEMMA ReleaseIs ==
  ASSUME TypeOK, Window, TableInv, TypeOK', Window', TableInv',
         NEW c \in CallIds, Release(c)
  PROVE  /\ pc = "cmd" /\ pc' = "poll" /\ UNCHANGED << session_cnt, answer >>
         /\ \E i \in Scope, j \in Scope : \E in, out \in Legs :
              /\ in = session[i] /\ out = session[j] /\ out = obj[in].peer_ses
              /\ obj[in].sidx = i /\ obj[out].sidx = j
              /\ obj[in].call_id = c
              /\ \A k \in Scope : session[k] # NULL /\ obj[session[k]].call_id = c => i <= k
              /\ live' = live \ {in, out} /\ Legs' = Legs \ {in, out}
              /\ session'[i] = NULL /\ session'[j] = NULL
              /\ \A k \in Scope \ {i, j} : session'[k] = session[k]
              /\ \A s \in live' : obj'[s] = obj[s]
  <1>1. PICK i, in, out, j :
          /\ i \in Matches(c) /\ in = session[i] /\ out = obj[in].peer_ses
          /\ j = obj[out].sidx /\ Lowest(i, Matches(c))
          /\ session' = [session EXCEPT ![i] = NULL, ![j] = NULL]
          /\ SessionDestroy({in, out})
    BY DEF Release
  <1>2. pc = "cmd" /\ pc' = "poll" /\ UNCHANGED << session_cnt, answer >>
    BY DEF Release, Commanded
  <1>3. Scope = 1 .. session_cnt - 1 /\ Scope \subseteq Slots
    BY <1>2, ScopeInSlots DEF Scope
  <1>4. /\ i \in Scope /\ in \in Legs /\ obj[in].call_id = c
        /\ \A k \in Scope : session[k] # NULL /\ obj[session[k]].call_id = c => i <= k
    BY <1>1, <1>3 DEF Matches, Lowest, Legs, CtrlSlot
  <1>5. /\ session[CtrlSlot] \in live /\ Legs = live \ {session[CtrlSlot]}
        /\ Legs \subseteq live
    BY <1>2, LegsAre DEF Up
  <1>6. out \in Legs
    BY <1>1, <1>4 DEF TableInv, PeersPaired
  <1>7. j \in Scope /\ session[j] = out /\ obj[in].sidx = i
    <2>1. j \in Scope /\ session[j] = out
      <3>1. out \in live \ {session[CtrlSlot]}
        BY <1>5, <1>6
      <3>2. obj[out].sidx \in Scope /\ session[obj[out].sidx] = out
        BY <3>1 DEF TableInv, LegsTracked
      <3> QED BY <1>1, <3>2
    <2>2. obj[in].sidx = i
      <3>1. session[i] # NULL
        BY <1>1 DEF Matches
      <3>2. obj[session[i]].sidx = i
        BY <1>4, <3>1 DEF TableInv, TableConsistent
      <3> QED BY <1>1, <3>2
    <2> QED BY <2>1, <2>2
  <1>8. /\ session'[i] = NULL /\ session'[j] = NULL
        /\ \A k \in Slots \ {i, j} : session'[k] = session[k]
    BY <1>1, <1>3, <1>4, <1>7 DEF TypeOK
  <1>9. /\ live' = live \ {in, out}
        /\ \A s \in live' : obj'[s] = obj[s]
    BY <1>1 DEF SessionDestroy, TypeOK
  <1>10. Legs' = Legs \ {in, out}
    <2>1. (TypeOK /\ Window /\ TableInv =>
             (Up => Legs = live \ {session[CtrlSlot]}))'
      BY LegsAre, PTL
    <2>2. Legs' = live' \ {session'[CtrlSlot]}
      BY <1>2, <2>1 DEF Up
    <2>3. session'[CtrlSlot] = session[CtrlSlot]
      BY <1>4, <1>7, <1>8, ScopeInSlots
    <2> QED BY <1>5, <1>9, <2>2, <2>3
  <1>11. /\ in = session[i] /\ out = session[j] /\ out = obj[in].peer_ses
         /\ obj[in].sidx = i /\ obj[out].sidx = j
         /\ \A k \in Scope \ {i, j} : session'[k] = session[k]
    BY <1>1, <1>3, <1>7, <1>8
  <1>12. \E s, t \in Legs :
           /\ s = session[i] /\ t = session[j] /\ t = obj[s].peer_ses
           /\ obj[s].sidx = i /\ obj[t].sidx = j
           /\ obj[s].call_id = c
           /\ live' = live \ {s, t} /\ Legs' = Legs \ {s, t}
    BY <1>4, <1>6, <1>9, <1>10, <1>11
  <1> QED BY <1>2, <1>4, <1>7, <1>8, <1>9, <1>11, <1>12

-----------------------------------------------------------------------------
(* The IN leg of a call sits below its OUT leg. *)

LEMMA FrameInFirst ==
  ASSUME TypeOK, Window, TableInv, InFirst, Legs' \subseteq Legs,
         \A s \in Legs' : obj'[s] = obj[s] /\ obj[s].peer_ses \in Legs'
  PROVE  InFirst'
  BY DEF InFirst

LEMMA MoveInFirst ==
  ASSUME TypeOK, Window, TableInv, InFirst, MoveSession
  PROVE  InFirst'
  <1> DEFINE to == idx - skip_sessions
             m  == session[idx]
  <1>1. /\ idx \in Int /\ skip_sessions \in Int /\ session_cnt \in Int
        /\ skip_sessions > 0 /\ skip_sessions < idx /\ idx < session_cnt
        /\ pc = "sessions" /\ m \in live
        /\ obj' = [obj EXCEPT ![m].sidx = to]
    BY MaxAssumption DEF TypeOK, MoveSession, ShiftDown
  <1>2. /\ Scope = (1 .. to - 1) \union (idx .. session_cnt - 1)
        /\ to < idx /\ to \in Int /\ idx \in Scope
    BY <1>1 DEF Scope
  <1>3. m \in Legs /\ m \in Sess /\ obj[m].sidx = idx
    BY <1>1, <1>2, NullAssumption DEF TableInv, TableConsistent, Legs, TypeOK
  <1>4. Legs' = Legs
    BY MoveTable
  <1>5. \A s \in Legs : /\ s \in Sess /\ obj[s].sidx \in Scope
                        /\ session[obj[s].sidx] = s
                        /\ obj[s].peer_ses \in Legs
    BY LegsAre, ScopeInSlots, <1>1
       DEF TableInv, LegsTracked, PeersPaired, Up
  <1> HIDE DEF to, m
  <1>6. /\ obj'[m].sidx = to
        /\ \A s \in Sess : s # m => obj'[s] = obj[s]
        /\ \A s \in Sess : /\ obj'[s].kind = obj[s].kind
                           /\ obj'[s].peer_ses = obj[s].peer_ses
    BY <1>1, <1>3 DEF TypeOK, SessionRec
  <1> SUFFICES ASSUME NEW s \in Legs, obj[s].kind = "IN"
               PROVE  obj'[s].sidx < obj'[obj[s].peer_ses].sidx
    BY <1>4, <1>5, <1>6 DEF InFirst
  <1> DEFINE p == obj[s].peer_ses
  <1>7. /\ obj[s].sidx < obj[p].sidx /\ obj[s].sidx \in Scope /\ obj[p].sidx \in Scope
        /\ p \in Sess /\ s \in Sess
    BY <1>5 DEF InFirst
  <1> HIDE DEF p
  <1>8. CASE s = m
    <2>1. p # m
      BY <1>2, <1>7, <1>8
    <2>2. obj'[p].sidx = obj[p].sidx /\ obj'[s].sidx = to /\ obj[s].sidx = idx
      BY <1>3, <1>6, <1>7, <1>8, <2>1
    <2>3. to < obj[p].sidx
      BY <1>1, <1>2, <1>7, <2>2
    <2> QED BY <2>2, <2>3 DEF p
  <1>9. CASE s # m /\ p = m
    <2>1. /\ obj'[s].sidx = obj[s].sidx /\ obj'[p].sidx = to
          /\ obj[s].sidx < idx
      BY <1>3, <1>6, <1>7, <1>9
    <2>2. obj[s].sidx < to
      BY <1>1, <1>2, <1>7, <2>1
    <2> QED BY <2>1, <2>2 DEF p
  <1>10. CASE s # m /\ p # m
    BY <1>6, <1>7, <1>10 DEF p
  <1> QED BY <1>8, <1>9, <1>10

LEMMA NextInFirst ==
  ASSUME TypeOK, Window, TableInv, RInv, TypeOK', Window', TableInv',
         InFirst, [Next]_vars
  PROVE  InFirst'
  <1> USE DEF loopVars, tableVars, memVars, cursorVars
  <1>0. /\ Legs \subseteq live
        /\ \A s \in Legs : obj[s].peer_ses \in Legs /\ obj[obj[s].peer_ses].peer_ses = s
    BY LegsAre DEF TableInv, PeersPaired
  <1>1. ASSUME UNCHANGED << session, session_cnt, idx, skip_sessions, obj >>,
               pc' = pc \/ (pc = "cmd" /\ pc' \in { "poll", "crashed" })
        PROVE  InFirst'
    <2>1. Legs' = Legs
      BY <1>1 DEF Legs, Scope
    <2> QED BY <1>0, <1>1, <2>1, FrameInFirst
  <1>2. CASE Poll \/ SkipHole \/ KeepSession \/ EndSessions
    <2>1. Legs' = Legs
      BY <1>2, LoopTable
    <2>2. obj' = obj
      BY <1>2 DEF Poll, SkipHole, KeepSession, EndSessions
    <2> QED BY <1>0, <2>1, <2>2, FrameInFirst
  <1>3. CASE UNCHANGED vars \/ Signal \/ Ended
    BY <1>1, <1>3 DEF vars, Signal, Ended
  <1>4. CASE NoCommand \/ BadMessage
    BY <1>1, <1>4 DEF NoCommand, BadMessage, Commanded
  <1>5. CASE AppInit \/ AppInitFails \/ AppDestroy
    <2>1. Legs' = {}
      <3>1. CASE AppInit \/ AppInitFails
        <4>1. (session_cnt' = 0 \/ session_cnt' = 1) /\ pc' # "sessions"
          BY <3>1 DEF AppInit, AppInitFails, Window
        <4>2. Scope' = {}
          BY <4>1 DEF Scope
        <4> QED BY <4>2 DEF Legs
      <3>2. CASE AppDestroy
        <4>1. (TypeOK /\ Window /\ TableInv => Legs \subseteq live)'
          BY LegsAre, PTL
        <4>2. live' = {}
          BY <3>2 DEF AppDestroy, TableInv, CtrlTracked
        <4> QED BY <4>1, <4>2
      <3> QED BY <1>5, <3>1, <3>2
    <2> QED BY <2>1 DEF InFirst
  <1>6. ASSUME NEW c \in CallIds, Command(c) PROVE InFirst'
    <2>1. CASE \/ SetupRejected(c) \/ SetupInNoMemory(c) \/ SetupOutNoMemory(c)
               \/ SetupInFaxFails(c) \/ SetupOutFaxFails(c)
               \/ SetupThreadFails(c) \/ ReleaseUnknown(c)
      BY <1>1, <2>1 DEF SetupRejected, SetupInNoMemory, SetupOutNoMemory,
                        SetupInFaxFails, SetupOutFaxFails,
                        SetupThreadFails, ReleaseUnknown, Commanded
    <2>2. CASE \/ SetupOverrun(c) \/ SetupFaxCrashes(c) \/ SetupInListenerFails(c)
               \/ SetupOutListenerFails(c)
      BY <1>1, <2>2 DEF SetupOverrun, SetupFaxCrashes, SetupInListenerFails,
                        SetupOutListenerFails, Crash
    <2>3. CASE SetupDone(c)
      <3>1. PICK in \in Sess \ live, out \in Sess \ live :
              /\ in # out /\ Legs' = Legs \union {in, out}
              /\ \A s \in live : obj'[s] = obj[s]
              /\ obj'[in].sidx = session_cnt /\ obj'[in].peer_ses = out
              /\ obj'[out].kind = "OUT" /\ obj'[out].sidx = session_cnt + 1
        BY <2>3, SetupDoneIs
      <3>2. session_cnt < session_cnt + 1
        BY DEF TypeOK
      <3>3. \A s \in Legs : obj'[s] = obj[s] /\ obj'[obj[s].peer_ses] = obj[obj[s].peer_ses]
        BY <1>0, <3>1
      <3> QED BY <3>1, <3>2, <3>3 DEF InFirst
    <2>4. CASE Release(c)
      <3>1. PICK in \in Legs, out \in Legs :
              /\ out = obj[in].peer_ses /\ Legs' = Legs \ {in, out}
              /\ live' = live \ {in, out}
              /\ \A s \in live' : obj'[s] = obj[s]
        BY <2>4, ReleaseIs
      <3>2. \A s \in Legs' : obj'[s] = obj[s] /\ obj[s].peer_ses \in Legs'
        BY <1>0, <3>1
      <3> QED BY <3>1, <3>2, FrameInFirst
    <2> QED BY <1>6, <2>1, <2>2, <2>3, <2>4 DEF Command, Setup
  <1> QED BY <1>2, <1>3, <1>4, <1>5, <1>6, MoveInFirst DEF Next, MainThread

-----------------------------------------------------------------------------
(* The list of calls. *)

Entry(sess, o, i) ==
  [call_id |-> o[sess[i]].call_id, in_port |-> o[sess[i]].loc_port,
   out_port |-> o[o[sess[i]].peer_ses].loc_port]

(* The slots of the IN legs have an order, and each is its leg's sidx. *)
LEMMA SlotsAre ==
  ASSUME TypeOK, Window, TableInv
  PROVE  /\ InSlots \in SUBSET Nat /\ IsFiniteSet(InSlots)
         /\ Cardinality(InSlots) \in Nat
         /\ Enumerates(Ascending(InSlots), InSlots)
         /\ \A i \in InSlots :
              /\ i \in Scope /\ session[i] \in Legs /\ session[i] \in live
              /\ obj[session[i]].kind = "IN" /\ obj[session[i]].sidx = i
              /\ obj[session[i]].peer_ses \in Legs
              /\ obj[session[i]].peer_ses \in live
  <1>1. Scope \subseteq 0 .. MaxSessions /\ MaxSessions \in Nat
    BY ScopeInSlots, MaxAssumption DEF Slots
  <1>2. InSlots \in SUBSET (0 .. MaxSessions)
    BY <1>1 DEF InSlots
  <1>3. IsFiniteSet(InSlots) /\ Enumerates(Ascending(InSlots), InSlots)
    BY <1>1, <1>2, EnumerationExists
  <1>4. InSlots \in SUBSET Nat
    BY <1>1, <1>2
  <1>5. ASSUME NEW i \in InSlots
        PROVE  /\ i \in Scope /\ session[i] \in Legs /\ session[i] \in live
               /\ obj[session[i]].kind = "IN" /\ obj[session[i]].sidx = i
               /\ obj[session[i]].peer_ses \in Legs
    BY NullAssumption DEF InSlots, Legs, TypeOK, TableInv, TableConsistent, PeersPaired
  <1>6. Legs \subseteq live
    BY LegsAre
  <1> QED BY <1>3, <1>4, <1>5, <1>6, FS_CardinalityType

LEMMA CallsAre ==
  /\ Calls = [k \in 1 .. Cardinality(InSlots) |->
                Entry(session, obj, Ascending(InSlots)[k])]
  /\ Calls' = [k \in 1 .. Cardinality(InSlots') |->
                 Entry(session', obj', Ascending(InSlots')[k])]
  BY DEF Calls, CallOf, Entry, Ascending

LEMMA CallsSeq ==
  ASSUME TypeOK, Window, TableInv
  PROVE  /\ Calls \in Seq({ Entry(session, obj, i) : i \in InSlots })
         /\ Len(Calls) = Cardinality(InSlots)
         /\ DOMAIN Calls = 1 .. Cardinality(InSlots)
         /\ \A k \in DOMAIN Calls :
              /\ Ascending(InSlots)[k] \in InSlots
              /\ Calls[k] = Entry(session, obj, Ascending(InSlots)[k])
  <1> DEFINE V == { Entry(session, obj, i) : i \in InSlots }
             n == Cardinality(InSlots)
  <1>1. n \in Nat /\ Ascending(InSlots) \in [1 .. n -> InSlots]
    BY SlotsAre DEF Enumerates
  <1>2. Calls = [k \in 1 .. n |-> Entry(session, obj, Ascending(InSlots)[k])]
    BY CallsAre
  <1> HIDE DEF n
  <1>3. Calls \in [1 .. n -> V] /\ DOMAIN Calls = 1 .. n
    BY <1>1, <1>2
  <1>4. Calls \in Seq(V)
    <2> HIDE DEF V
    <2> QED BY <1>1, <1>3, SeqDef
  <1>5. Len(Calls) = n
    BY <1>1, <1>3, <1>4, LenProperties
  <1> QED BY <1>1, <1>2, <1>3, <1>4, <1>5 DEF n

(* A step that leaves the IN legs in their slots, and what they and their  *)
(* peers hold, changes no call.                                            *)
LEMMA SameCalls ==
  ASSUME TypeOK, Window, TableInv, InSlots' = InSlots,
         \A i \in InSlots : Entry(session', obj', i) = Entry(session, obj, i)
  PROVE  Calls' = Calls
  <1>1. \A k \in 1 .. Cardinality(InSlots) : Ascending(InSlots)[k] \in InSlots
    BY SlotsAre DEF Enumerates
  <1> QED BY <1>1, CallsAre

(* With the same legs in the same slots there is nothing to show. *)
LEMMA FrameCalls ==
  ASSUME TypeOK, Window, TableInv, UNCHANGED << session, live, obj >>,
         Scope' \subseteq Scope, \A i \in Scope \ Scope' : session[i] = NULL
  PROVE  Calls' = Calls
  <1>1. NULL \notin live
    BY NullAssumption DEF TypeOK
  <1>2. InSlots' = InSlots
    BY <1>1 DEF InSlots
  <1> QED BY <1>2, SameCalls

(* app_procSessions: moving a session down over holes keeps the order. *)
LEMMA MoveCalls ==
  ASSUME TypeOK, Window, TableInv, TypeOK', Window', TableInv', MoveSession
  PROVE  Calls' = Calls
  <1> DEFINE to == idx - skip_sessions
             m  == session[idx]
  <1>1. /\ idx \in Int /\ skip_sessions \in Int /\ session_cnt \in Int
        /\ skip_sessions > 0 /\ skip_sessions < idx /\ idx < session_cnt
        /\ session_cnt <= MaxSessions + 1
        /\ pc = "sessions" /\ pc' = "sessions"
        /\ idx' = idx + 1 /\ UNCHANGED << skip_sessions, session_cnt, live >>
        /\ m \in live
        /\ session' = [session EXCEPT ![to] = m]
        /\ obj' = [obj EXCEPT ![m].sidx = to]
    BY MaxAssumption DEF TypeOK, MoveSession, ShiftDown
  <1>2. /\ Scope = (1 .. to - 1) \union (idx .. session_cnt - 1)
        /\ to < idx /\ to \in Nat /\ idx \in Scope /\ to \notin Scope
        /\ Scope' = (Scope \ {idx}) \union {to}
        /\ to \in Slots /\ Scope \subseteq Slots
    <2>1. /\ Scope = (1 .. to - 1) \union (idx .. session_cnt - 1)
          /\ to < idx /\ to \in Nat /\ idx \in Scope /\ to \notin Scope
          /\ Scope' = (Scope \ {idx}) \union {to}
      BY <1>1 DEF Scope
    <2>2. to \in Slots
      BY <1>1, MaxAssumption DEF Slots
    <2> QED BY <2>1, <2>2, ScopeInSlots
  <1>3. \A z \in Scope \ {idx} : z < idx <=> z < to
    BY <1>1, <1>2
  <1> HIDE DEF to, m
  <1>4. /\ session'[to] = m /\ session[idx] = m
        /\ \A i \in Scope : session'[i] = session[i]
    BY <1>1, <1>2 DEF TypeOK, m
  <1>5. \A s \in Sess : /\ obj'[s].kind = obj[s].kind
                        /\ obj'[s].call_id = obj[s].call_id
                        /\ obj'[s].loc_port = obj[s].loc_port
                        /\ obj'[s].peer_ses = obj[s].peer_ses
    BY <1>1 DEF TypeOK, SessionRec
  <1>6. live \subseteq Sess
    BY DEF TypeOK
  <1>7. \A i \in Scope : session[i] \in live =>
          Entry(session', obj', i) = Entry(session, obj, i)
    <2>1. \A s \in Legs : obj[s].peer_ses \in Sess
      BY ScopeInSlots DEF TableInv, PeersPaired
    <2>2. \A i \in Scope : session[i] \in live => session[i] \in Legs
      BY <1>6, NullAssumption DEF Legs
    <2> QED BY <1>4, <1>5, <1>6, <2>1, <2>2 DEF Entry
  <1>8. Entry(session', obj', to) = Entry(session, obj, idx)
    BY <1>1, <1>2, <1>4, <1>7 DEF Entry
  <1>9. CASE obj[m].kind # "IN"
    <2>1. InSlots' = InSlots
      BY <1>1, <1>2, <1>4, <1>5, <1>6, <1>9 DEF InSlots
    <2> QED BY <1>7, <2>1, SameCalls DEF InSlots
  <1>10. CASE obj[m].kind = "IN"
    <2> DEFINE n == Cardinality(InSlots)
               q == Ascending(InSlots)
               r == [k \in 1 .. n |-> IF q[k] = idx THEN to ELSE q[k]]
    <2>1. InSlots' = (InSlots \ {idx}) \union {to} /\ idx \in InSlots
      BY <1>1, <1>2, <1>4, <1>5, <1>6, <1>10 DEF InSlots
    <2>2. /\ InSlots \in SUBSET Nat /\ IsFiniteSet(InSlots)
          /\ Enumerates(q, InSlots) /\ q \in [1 .. n -> InSlots]
      BY SlotsAre DEF Enumerates
    <2>3. \A z \in InSlots \ {idx} : z < idx <=> z < to
      BY <1>3 DEF InSlots
    <2>4. to \in Nat \ InSlots
      BY <1>2 DEF InSlots
    <2> HIDE DEF q
    <2>5. /\ Enumerates(r, InSlots') /\ Cardinality(InSlots') = n
          /\ IsFiniteSet(InSlots') /\ InSlots' \in SUBSET Nat
      BY <2>1, <2>2, <2>3, <2>4, ReplaceEnumeration
    <2>6. Ascending(InSlots') = r
      BY <2>5, TheEnumeration
    <2>7. \A k \in 1 .. n : Entry(session', obj', r[k]) = Entry(session, obj, q[k])
      <3>1. \A i \in InSlots : Entry(session', obj', i) = Entry(session, obj, i)
        BY <1>7 DEF InSlots
      <3> QED BY <1>8, <2>2, <3>1
    <2> QED BY <2>5, <2>6, <2>7, CallsAre DEF q
  <1> QED BY <1>9, <1>10

(* Half of the legs are IN legs, and a table without holes has a leg in    *)
(* every slot; so the capacity check of proc_setup counts calls.           *)
LEMMA CallCount ==
  ASSUME TypeOK, Window, TableInv, pc = "cmd"
  PROVE  /\ 2 * Cardinality(InSlots) <= session_cnt - 1
         /\ CompactAtCommand => 2 * Cardinality(InSlots) = session_cnt - 1
  <1>1. /\ IsFiniteSet(InSlots) /\ Cardinality(InSlots) \in Nat
        /\ \A i \in InSlots : /\ session[i] \in Legs /\ obj[session[i]].kind = "IN"
                              /\ obj[session[i]].sidx = i
    BY SlotsAre
  <1>2. /\ IsFiniteSet(Legs) /\ Cardinality(Legs) <= session_cnt - 1
        /\ Cardinality(Legs) = 2 * Cardinality(InLegs)
    BY LegsCount
  <1>3. \A s \in Legs : s \in live /\ obj[s].sidx \in Scope /\ session[obj[s].sidx] = s
    BY LegsAre DEF Up, TableInv, LegsTracked
  <1>4. Cardinality(InLegs) = Cardinality(InSlots)
    <2> DEFINE f == [i \in InSlots |-> session[i]]
    <2>1. f \in [InSlots -> InLegs]
      BY <1>1 DEF InLegs
    <2>2. \A i, j \in InSlots : f[i] = f[j] => i = j
      BY <1>1
    <2>3. \A s \in InLegs : \E i \in InSlots : f[i] = s
      <3> SUFFICES ASSUME NEW s \in InLegs
                   PROVE  obj[s].sidx \in InSlots /\ session[obj[s].sidx] = s
        OBVIOUS
      <3> QED BY <1>3 DEF InLegs, InSlots
    <2>4. f \in Bijection(InSlots, InLegs)
      <3> HIDE DEF f
      <3> QED BY <2>1, <2>2, <2>3, Fun_IsBij
    <2>5. ExistsBijection(InSlots, InLegs)
      BY <2>4 DEF ExistsBijection
    <2> QED BY <1>1, <2>5, FS_Bijection
  <1>5. ASSUME CompactAtCommand PROVE Cardinality(Legs) = session_cnt - 1
    <2> DEFINE f == [i \in Scope |-> session[i]]
    <2>1. \A i \in Scope : session[i] \in Legs /\ obj[session[i]].sidx = i
      BY <1>5 DEF CompactAtCommand, Legs, TableInv, TableConsistent
    <2>2. f \in [Scope -> Legs] /\ \A i, j \in Scope : f[i] = f[j] => i = j
      BY <2>1
    <2>3. \A s \in Legs : \E i \in Scope : f[i] = s
      BY <1>3
    <2>4. f \in Bijection(Scope, Legs)
      <3> HIDE DEF f
      <3> QED BY <2>2, <2>3, Fun_IsBij
    <2>5. ExistsBijection(Scope, Legs)
      BY <2>4 DEF ExistsBijection
    <2>6. session_cnt \in Nat /\ session_cnt >= 1 /\ Scope = 1 .. session_cnt - 1
      BY DEF Window, TypeOK, Scope
    <2>7. IsFiniteSet(Scope) /\ Cardinality(Scope) = session_cnt - 1
      <3>1. /\ IsFiniteSet(1 .. session_cnt - 1)
            /\ Cardinality(1 .. session_cnt - 1)
                 = IF 1 > session_cnt - 1 THEN 0 ELSE session_cnt - 1 - 1 + 1
        BY <2>6, FS_Interval
      <3> QED BY <2>6, <3>1
    <2> QED BY <2>5, <2>7, FS_Bijection
  <1> QED BY <1>2, <1>4, <1>5

(* An answer, and an answer that is lost, as the controller sees them. *)
LEMMA ReplyRefines ==
  /\ \A c \in CallIds : Reply(Error(c)) => CT!Replied(<< "ERROR", c >>)
  /\ Reply(Error(NULL)) => CT!Replied(<< "ERROR" >>)
  /\ \A c \in CallIds : \A p : Reply(Ok(c, p)) => CT!Replied(<< "OK", c, p >>)
  /\ answer' = answer => ReplySeen' = ReplySeen
  <1>1. Faults \cap { "calloc", "send" } # {} => Faults # {}
    OBVIOUS
  <1>2. \A c \in CallIds : c # NULL
    BY NullAssumption
  <1> QED BY <1>1, <1>2 DEF Reply, CT!Replied, ReplySeen, Error, Ok, NoAnswer

(* proc_setup appends a call. *)
LEMMA SetupRefines ==
  ASSUME TypeOK, Window, TableInv, RInv, TypeOK', Window', TableInv',
         NEW c \in CallIds, SetupDone(c)
  PROVE  CT!Setup(c)
  <1>1. /\ pc = "cmd" /\ pc' = "poll" /\ session_cnt' = session_cnt + 2
        /\ session_cnt \in Nat /\ session_cnt >= 1 /\ session_cnt < MaxSessions
        /\ InPort \in (0 .. PortCount - 1) \ ports
        /\ OutPort \in (0 .. PortCount - 1) \ (ports \union {InPort})
        /\ Reply(Ok(c, InPort))
    BY SetupDoneIs
  <1>2. PICK in, out \in Sess \ live :
          /\ in # out /\ live' = live \union {in, out}
          /\ session'[session_cnt] = in /\ session'[session_cnt + 1] = out
          /\ \A i \in Scope : session'[i] = session[i]
          /\ \A s \in live : obj'[s] = obj[s]
          /\ obj'[in].kind = "IN"
          /\ obj'[in].call_id = c /\ obj'[in].loc_port = InPort
          /\ obj'[in].peer_ses = out
          /\ obj'[out].kind = "OUT"
          /\ obj'[out].loc_port = OutPort
    BY SetupDoneIs
  <1> DEFINE n == Cardinality(InSlots)
             q == Ascending(InSlots)
             e == [call_id |-> c, in_port |-> InPort, out_port |-> OutPort]
             r == [k \in 1 .. n + 1 |-> IF k = n + 1 THEN session_cnt ELSE q[k]]
  <1>3. /\ InSlots \in SUBSET Nat /\ IsFiniteSet(InSlots) /\ n \in Nat
        /\ Enumerates(q, InSlots) /\ q \in [1 .. n -> InSlots]
        /\ \A i \in InSlots : /\ i \in Scope /\ session[i] \in Legs
                              /\ session[i] \in live
                              /\ obj[session[i]].peer_ses \in Legs
                              /\ obj[session[i]].peer_ses \in live
    BY SlotsAre DEF Enumerates
  <1>4. Scope = 1 .. session_cnt - 1 /\ Scope' = Scope \union {session_cnt, session_cnt + 1}
    BY <1>1 DEF Scope
  <1>5. InSlots' = InSlots \union {session_cnt}
    <2>1. \A i \in Scope : session'[i] \in live' /\ obj'[session'[i]].kind = "IN"
                            <=> session[i] \in live /\ obj[session[i]].kind = "IN"
      <3>1. \A i \in Scope : session[i] # NULL => session[i] \in live
        BY LegsAre DEF Legs
      <3>2. NULL \notin Sess
        BY NullAssumption
      <3> QED BY <1>2, <3>1, <3>2
    <2> QED BY <1>2, <1>4, <2>1 DEF InSlots
  <1>6. \A i \in InSlots : i < session_cnt
    BY <1>1, <1>3, <1>4
  <1> HIDE DEF q
  <1>7. /\ Enumerates(r, InSlots') /\ Cardinality(InSlots') = n + 1
        /\ IsFiniteSet(InSlots') /\ InSlots' \in SUBSET Nat
    BY <1>1, <1>3, <1>5, <1>6, AppendEnumeration
  <1>8. Ascending(InSlots') = r
    BY <1>7, TheEnumeration
  <1>9. /\ \A i \in InSlots : Entry(session', obj', i) = Entry(session, obj, i)
        /\ Entry(session', obj', session_cnt) = e
    BY <1>2, <1>3 DEF Entry
  <1>10. Calls' = Append(Calls, e)
    <2>1. /\ Calls \in Seq({ Entry(session, obj, i) : i \in InSlots })
          /\ Len(Calls) = n
          /\ \A k \in 1 .. n : Calls[k] = Entry(session, obj, q[k]) /\ q[k] \in InSlots
      BY CallsSeq DEF q
    <2>2. Append(Calls, e) = [k \in 1 .. n + 1 |-> IF k = n + 1 THEN e ELSE Calls[k]]
      BY <2>1, AppendIs
    <2>3. Calls' = [k \in 1 .. n + 1 |-> Entry(session', obj', r[k])]
      BY <1>7, <1>8, CallsAre
    <2>4. \A k \in 1 .. n + 1 : Entry(session', obj', r[k])
                                  = IF k = n + 1 THEN e ELSE Calls[k]
      <3> SUFFICES ASSUME NEW k \in 1 .. n + 1
                   PROVE  Entry(session', obj', r[k])
                            = IF k = n + 1 THEN e ELSE Calls[k]
        OBVIOUS
      <3>1. CASE k = n + 1
        <4>1. r[k] = session_cnt
          BY <3>1
        <4> QED BY <1>9, <3>1, <4>1
      <3>2. CASE k # n + 1
        <4>1. k \in 1 .. n /\ r[k] = q[k]
          BY <1>3, <3>2
        <4>2. Calls[k] = Entry(session, obj, q[k]) /\ q[k] \in InSlots
          BY <2>1, <4>1
        <4> QED BY <1>9, <3>2, <4>1, <4>2
      <3> QED BY <3>1, <3>2
    <2> QED BY <2>2, <2>3, <2>4
  <1>11. Len(Calls) < MaxSessions \div 2
    <2>1. Len(Calls) = n /\ 2 * n <= session_cnt - 1
      BY <1>1, CallsSeq, CallCount
    <2>2. MaxSessions \in Nat /\ MaxSessions % 2 = 0
      BY MaxAssumption
    <2> QED BY <1>1, <1>3, <2>1, <2>2
  <1>12. CT!PortsUsed \subseteq ports
    <2>1. \A s \in Legs : obj[s].loc_port \in ports
      BY DEF RInv, ResourcesAccounted
    <2>2. \A k \in DOMAIN Calls : Calls[k].in_port \in ports /\ Calls[k].out_port \in ports
      <3> SUFFICES ASSUME NEW k \in DOMAIN Calls
                   PROVE  Calls[k].in_port \in ports /\ Calls[k].out_port \in ports
        OBVIOUS
      <3>1. PICK i \in InSlots : Calls[k] = Entry(session, obj, i)
        BY CallsSeq
      <3> QED BY <1>3, <2>1, <3>1 DEF Entry
    <2> QED BY <2>2 DEF CT!PortsUsed
  <1>13. CT!Replied(<< "OK", c, InPort >>)
    BY <1>1, ReplyRefines
  <1> QED BY <1>1, <1>10, <1>11, <1>12, <1>13 DEF CT!Setup

(* proc_release takes out the oldest call of that name.  The lowest slot   *)
(* that matches is an IN leg, since the other leg of its call matches too. *)
LEMMA ReleaseRefines ==
  ASSUME TypeOK, Window, TableInv, InFirst, TypeOK', Window', TableInv',
         NEW c \in CallIds, Release(c)
  PROVE  CT!Release(c)
  <1>1. pc = "cmd" /\ pc' = "poll" /\ UNCHANGED << session_cnt, answer >>
    BY ReleaseIs
  <1>2. PICK i \in Scope, j \in Scope, in \in Legs, out \in Legs :
          /\ in = session[i] /\ out = session[j] /\ out = obj[in].peer_ses
          /\ obj[in].sidx = i /\ obj[out].sidx = j
          /\ obj[in].call_id = c
          /\ \A k \in Scope : session[k] # NULL /\ obj[session[k]].call_id = c => i <= k
          /\ live' = live \ {in, out} /\ Legs' = Legs \ {in, out}
          /\ session'[i] = NULL /\ session'[j] = NULL
          /\ \A k \in Scope \ {i, j} : session'[k] = session[k]
          /\ \A s \in live' : obj'[s] = obj[s]
    BY ReleaseIs
  <1>3. /\ \A s \in Legs : /\ obj[s].peer_ses \in Legs /\ s \in live /\ s # NULL
                           /\ obj[obj[s].peer_ses].peer_ses = s
                           /\ obj[obj[s].peer_ses].call_id = obj[s].call_id
                           /\ obj[obj[s].peer_ses].kind # obj[s].kind
                           /\ obj[s].kind \in { "IN", "OUT" }
        /\ Scope' = Scope /\ Scope \subseteq Nat
    <2>1. Scope' = Scope /\ Scope \subseteq Nat
      BY <1>1 DEF Scope, TypeOK
    <2> QED BY <2>1, LegsAre DEF TableInv, PeersPaired, Legs
  <1>4. obj[in].kind = "IN" /\ obj[out].kind = "OUT"
    <2> SUFFICES ASSUME obj[in].kind # "IN" PROVE FALSE
      BY <1>2, <1>3
    <2>1. obj[out].kind = "IN" /\ obj[out].peer_ses = in /\ obj[out].call_id = c
      BY <1>2, <1>3
    <2>2. j < i
      BY <1>2, <2>1 DEF InFirst
    <2>3. i <= j
      <3>1. session[j] # NULL /\ obj[session[j]].call_id = c
        BY <1>2, <1>3, <2>1
      <3> QED BY <1>2, <3>1
    <2> QED BY <1>3, <2>2, <2>3
  <1> DEFINE n == Cardinality(InSlots)
             q == Ascending(InSlots)
  <1>5. /\ InSlots \in SUBSET Nat /\ IsFiniteSet(InSlots) /\ n \in Nat
        /\ Enumerates(q, InSlots)
        /\ \A k \in InSlots : /\ k \in Scope /\ session[k] \in Legs
                              /\ session[k] \in live
                              /\ obj[session[k]].kind = "IN"
                              /\ obj[session[k]].sidx = k
    BY SlotsAre
  <1>6. /\ q \in [1 .. n -> InSlots]
        /\ \A x \in InSlots : \E k \in 1 .. n : q[k] = x
        /\ \A k, l \in 1 .. n : k < l => q[k] < q[l]
    BY <1>5 DEF Enumerates
  <1>7. i \in InSlots
    BY <1>2, <1>3, <1>4 DEF InSlots
  <1>8. PICK p \in 1 .. n : q[p] = i
    BY <1>6, <1>7
  <1>9. InSlots' = InSlots \ {i}
    <2>1. \A k \in InSlots \ {i} : k # j /\ session[k] \notin {in, out}
      BY <1>2, <1>4, <1>5
    <2>2. InSlots \ {i} \subseteq InSlots'
      BY <1>2, <1>3, <1>5, <2>1 DEF InSlots
    <2>3. NULL \notin live'
      BY <1>2, NullAssumption DEF TypeOK
    <2>4. InSlots' \subseteq InSlots \ {i}
      <3> SUFFICES ASSUME NEW k \in InSlots' PROVE k \in InSlots \ {i}
        OBVIOUS
      <3>1. k \in Scope /\ session'[k] \in live' /\ obj'[session'[k]].kind = "IN"
        BY <1>3 DEF InSlots
      <3>2. k # i /\ k # j /\ session'[k] = session[k]
        BY <1>2, <2>3, <3>1
      <3> QED BY <1>2, <3>1, <3>2 DEF InSlots
    <2> QED BY <2>2, <2>4
  <1> DEFINE r == [k \in 1 .. n - 1 |-> IF k < p THEN q[k] ELSE q[k + 1]]
  <1> HIDE DEF q
  <1>10. /\ Enumerates(r, InSlots') /\ Cardinality(InSlots') = n - 1
         /\ IsFiniteSet(InSlots') /\ InSlots' \in SUBSET Nat
    BY <1>5, <1>8, <1>9, RemoveEnumeration
  <1>11. Ascending(InSlots') = r
    BY <1>10, TheEnumeration
  <1>12. \A k \in InSlots \ {i} : Entry(session', obj', k) = Entry(session, obj, k)
    <2> SUFFICES ASSUME NEW k \in InSlots \ {i}
                 PROVE  Entry(session', obj', k) = Entry(session, obj, k)
      OBVIOUS
    <2> DEFINE s == session[k]
    <2>1. s \in Legs /\ s \notin {in, out} /\ k # j
      BY <1>2, <1>4, <1>5
    <2>2. obj[s].peer_ses \in Legs /\ obj[s].peer_ses \notin {in, out}
      BY <1>2, <1>3, <2>1
    <2>3. session'[k] = s /\ obj'[s] = obj[s]
          /\ obj'[obj[s].peer_ses] = obj[obj[s].peer_ses]
      BY <1>2, <1>3, <1>5, <2>1, <2>2
    <2> QED BY <2>3 DEF Entry
  <1>13. /\ Calls \in Seq({ Entry(session, obj, k) : k \in InSlots })
         /\ Len(Calls) = n /\ DOMAIN Calls = 1 .. n
         /\ \A k \in 1 .. n : Calls[k] = Entry(session, obj, q[k])
    BY CallsSeq DEF q
  <1>14. Calls' = RemoveAt(Calls, p)
    <2>1. RemoveAt(Calls, p)
            = [k \in 1 .. n - 1 |-> IF k < p THEN Calls[k] ELSE Calls[k + 1]]
      BY <1>8, <1>13, RemoveAtIs
    <2>2. Calls' = [k \in 1 .. n - 1 |-> Entry(session', obj', r[k])]
      BY <1>10, <1>11, CallsAre
    <2>3. ASSUME NEW k \in 1 .. n - 1
          PROVE  Entry(session', obj', r[k]) = IF k < p THEN Calls[k] ELSE Calls[k + 1]
      <3>1. k \in 1 .. n /\ k + 1 \in 1 .. n /\ r[k] = IF k < p THEN q[k] ELSE q[k + 1]
        BY <1>5
      <3>2. r[k] \in InSlots \ {i}
        BY <1>9, <1>10 DEF Enumerates
      <3> QED BY <1>12, <1>13, <3>1, <3>2
    <2> QED BY <2>1, <2>2, <2>3
  <1>15. Calls[p].call_id = c
    BY <1>2, <1>8, <1>13 DEF Entry
  <1>16. \A k \in 1 .. p - 1 : Calls[k].call_id # c
    <2> SUFFICES ASSUME NEW k \in 1 .. p - 1 PROVE Calls[k].call_id # c
      OBVIOUS
    <2>1. k \in 1 .. n /\ k < p
      BY <1>5
    <2>2. q[k] < i /\ q[k] \in InSlots /\ q[k] \in Nat /\ i \in Nat
      BY <1>3, <1>5, <1>6, <1>8, <2>1
    <2>3. obj[session[q[k]]].call_id # c
      <3>1. q[k] \in Scope /\ session[q[k]] # NULL
        BY <1>3, <1>5, <2>2
      <3>2. ~ (i <= q[k])
        BY <2>2
      <3> QED BY <1>2, <3>1, <3>2
    <2> QED BY <1>13, <2>1, <2>3 DEF Entry
  <1>17. ReplySeen' = ReplySeen
    BY <1>1, ReplyRefines
  <1>18. \E k \in DOMAIN Calls :
           /\ Calls[k].call_id = c
           /\ \A l \in 1 .. k - 1 : Calls[l].call_id # c
           /\ Calls' = RemoveAt(Calls, k)
    BY <1>8, <1>13, <1>14, <1>15, <1>16
  <1> QED BY <1>17, <1>18 DEF CT!Release, CT!RemoveAt, RemoveAt

(* A SETUP that is refused changes no call, and is refused because the     *)
(* list is full or because something failed.                               *)
LEMMA RefuseRefines ==
  ASSUME TypeOK, Window, TableInv, CompactAtCommand, NEW c \in CallIds,
         Calls' = Calls,
         \/ SetupRejected(c) \/ SetupInNoMemory(c) \/ SetupOutNoMemory(c)
         \/ SetupThreadFails(c)
  PROVE  CT!Refuse(c)
  <1>1. CT!Replied(<< "ERROR", c >>)
    <2>1. Reply(Error(c))
      BY DEF SetupRejected, SetupInNoMemory, SetupOutNoMemory, SetupThreadFails
    <2> QED BY <2>1, ReplyRefines
  <1>2. CASE SetupRejected(c)
    <2>1. /\ pc = "cmd" /\ session_cnt >= MaxSessions
          /\ session_cnt \in 0 .. MaxSessions + 1
          /\ MaxSessions \in Nat /\ MaxSessions % 2 = 0
      BY <1>2, MaxAssumption DEF SetupRejected, Commanded, TypeOK
    <2>2. Len(Calls) \in Nat /\ 2 * Len(Calls) = session_cnt - 1
      BY <2>1, CallsSeq, CallCount, SlotsAre
    <2>3. Len(Calls) = MaxSessions \div 2
      BY <2>1, <2>2
    <2> QED BY <1>1, <2>3 DEF CT!Refuse
  <1>3. CASE \/ SetupInNoMemory(c) \/ SetupOutNoMemory(c) \/ SetupThreadFails(c)
    <2>1. Faults # {}
      BY <1>3 DEF SetupInNoMemory, SetupOutNoMemory, SetupThreadFails
    <2> QED BY <1>1, <2>1 DEF CT!Refuse
  <1> QED BY <1>2, <1>3

LEMMA InitRefines == Init => CT!Init
  <1> SUFFICES ASSUME Init PROVE CT!Init
    OBVIOUS
  <1>1. InSlots = {}
    BY DEF Init, InSlots, Scope
  <1>2. Cardinality(InSlots) = 0
    BY <1>1, FS_EmptySet
  <1>3. Calls = << >>
    BY <1>2, CallsAre
  <1>4. ReplySeen = << >>
    BY DEF Init, ReplySeen, NoAnswer
  <1> QED BY <1>3, <1>4 DEF CT!Init

(* Without a fax_sessionInit that fails, every step of the main thread is  *)
(* a step of CallTable or leaves the list and the reply as they were.      *)
LEMMA NextRefines ==
  ASSUME "fax" \notin Faults,
         TypeOK, Window, TableInv, RInv, InFirst, CompactAtCommand,
         TypeOK', Window', TableInv', [Next]_vars
  PROVE  [CT!Next]_(CT!vars)
  <1> USE DEF loopVars, tableVars, memVars, cursorVars
  <1>1. ASSUME UNCHANGED << session, session_cnt, idx, skip_sessions, live, obj >>,
               pc' = pc \/ (pc = "cmd" /\ pc' \in { "poll", "crashed" })
        PROVE  Calls' = Calls
    <2>1. Scope' = Scope
      BY <1>1 DEF Scope
    <2> QED BY <1>1, <2>1, FrameCalls
  <1>2. ASSUME Calls' = Calls, answer' = answer
        PROVE  UNCHANGED CT!vars
    BY <1>2, ReplyRefines DEF CT!vars
  <1>3. CASE Poll \/ SkipHole \/ KeepSession \/ EndSessions
    <2>1. Calls' = Calls
      <3>1. /\ idx \in Int /\ skip_sessions \in Int /\ session_cnt \in Int
            /\ 1 <= idx /\ 0 <= skip_sessions /\ skip_sessions < idx
            /\ 1 <= session_cnt
            /\ pc = "sessions" => idx <= session_cnt
        BY <1>3, MaxAssumption
           DEF TypeOK, Window, Poll, SkipHole, KeepSession, EndSessions
      <3>2. UNCHANGED << session, live, obj >>
        BY <1>3 DEF Poll, SkipHole, KeepSession, EndSessions
      <3>3. Scope' \subseteq Scope /\ \A i \in Scope \ Scope' : session[i] = NULL
        <4>1. CASE Poll
          BY <3>1, <4>1 DEF Poll, Scope, CtrlSlot
        <4>2. CASE SkipHole
          <5>1. Scope' \subseteq Scope /\ idx \in Scope /\ \A i \in Scope \ Scope' : i = idx
            BY <3>1, <4>2 DEF SkipHole, Scope
          <5>2. session[idx] = NULL
            BY <4>2, <5>1 DEF SkipHole, TableInv, TableConsistent
          <5> QED BY <5>1, <5>2
        <4>3. CASE KeepSession
          BY <3>1, <4>3 DEF KeepSession, Scope
        <4>4. CASE EndSessions
          BY <3>1, <4>4 DEF EndSessions, Scope
        <4> QED BY <1>3, <4>1, <4>2, <4>3, <4>4
      <3> QED BY <3>2, <3>3, FrameCalls
    <2>2. CASE Poll
      <3>1. ReplySeen' = << >>
        BY <2>2 DEF Poll, ReplySeen, NoAnswer
      <3> QED BY <2>1, <3>1 DEF CT!Next, CT!Forget, CT!vars
    <2>3. CASE SkipHole \/ KeepSession \/ EndSessions
      <3>1. answer' = answer
        BY <2>3 DEF SkipHole, KeepSession, EndSessions
      <3> QED BY <1>2, <2>1, <3>1
    <2> QED BY <1>3, <2>2, <2>3
  <1>4. CASE MoveSession
    <2>1. answer' = answer
      BY <1>4 DEF MoveSession
    <2> QED BY <1>2, <1>4, <2>1, MoveCalls
  <1>5. CASE UNCHANGED vars \/ Signal \/ Ended
    <2>1. /\ UNCHANGED << session, session_cnt, idx, skip_sessions, live, obj, pc >>
          /\ answer' = answer
      BY <1>5 DEF vars, Signal, Ended
    <2> QED BY <1>1, <1>2, <2>1
  <1>6. CASE AppInit \/ AppInitFails
    <2>1. /\ InSlots = {} /\ InSlots' = {} /\ answer' = answer
      <3>1. /\ session_cnt = 0 /\ pc = "init" /\ pc' # "sessions"
            /\ (session_cnt' = 0 \/ session_cnt' = 1) /\ answer' = answer
        BY <1>6 DEF AppInit, AppInitFails, Window
      <3>2. Scope = {} /\ Scope' = {}
        BY <3>1 DEF Scope
      <3> QED BY <3>1, <3>2 DEF InSlots
    <2>2. Calls' = Calls
      <3>1. Cardinality({}) = 0
        BY FS_EmptySet
      <3> QED BY <2>1, <3>1, CallsAre
    <2> QED BY <1>2, <2>1, <2>2
  <1>7. CASE AppDestroy
    <2>1. InSlots' = {} /\ answer' = answer
      <3>1. live' = {}
        BY <1>7 DEF AppDestroy, TableInv, CtrlTracked
      <3> QED BY <1>7, <3>1 DEF AppDestroy, InSlots
    <2>2. Calls' = << >>
      <3>1. Cardinality({}) = 0
        BY FS_EmptySet
      <3> QED BY <2>1, <3>1, CallsAre
    <2> QED BY <2>1, <2>2, ReplyRefines DEF CT!Next, CT!Shutdown
  <1>8. CASE NoCommand \/ BadMessage
    <2>1. Calls' = Calls
      BY <1>1, <1>8 DEF NoCommand, BadMessage, Commanded
    <2>2. CASE NoCommand
      BY <1>2, <2>1, <2>2 DEF NoCommand
    <2>3. CASE BadMessage
      BY <2>1, <2>3, ReplyRefines DEF BadMessage, CT!Next, CT!BadMessage
    <2> QED BY <1>8, <2>2, <2>3
  <1>9. ASSUME NEW c \in CallIds, Command(c) PROVE [CT!Next]_(CT!vars)
    <2>1. CASE \/ SetupRejected(c) \/ SetupInNoMemory(c) \/ SetupOutNoMemory(c)
               \/ SetupThreadFails(c)
      <3>1. Calls' = Calls
        BY <1>1, <2>1 DEF SetupRejected, SetupInNoMemory, SetupOutNoMemory,
                          SetupThreadFails, Commanded
      <3>2. CT!Refuse(c)
        BY <2>1, <3>1, RefuseRefines
      <3> QED BY <3>2 DEF CT!Next
    <2>2. CASE \/ SetupOverrun(c) \/ SetupInListenerFails(c)
               \/ SetupOutListenerFails(c) \/ ReleaseUnknown(c)
      <3>1. Calls' = Calls /\ answer' = answer
        BY <1>1, <2>2 DEF SetupOverrun, SetupInListenerFails,
                          SetupOutListenerFails, Crash, ReleaseUnknown, Commanded
      <3> QED BY <1>2, <3>1
    <2>3. ASSUME SetupInFaxFails(c) \/ SetupOutFaxFails(c) \/ SetupFaxCrashes(c)
          PROVE  FALSE
      BY <2>3 DEF SetupInFaxFails, SetupOutFaxFails, SetupFaxCrashes
    <2>4. CASE SetupDone(c)
      BY <2>4, SetupRefines DEF CT!Next
    <2>5. CASE Release(c)
      BY <2>5, ReleaseRefines DEF CT!Next
    <2> QED BY <1>9, <2>1, <2>2, <2>3, <2>4, <2>5 DEF Command, Setup
  <1> QED BY <1>3, <1>4, <1>5, <1>6, <1>7, <1>8, <1>9 DEF Next, MainThread

(* The signalling side of the program is an ordered list of calls: slots,  *)
(* holes, legs, compaction and the peer links are invisible, a SETUP       *)
(* appends a call on ports of its own or is refused and changes nothing,   *)
(* RELEASE removes the oldest call of that name (src/src/app.c:209-242,    *)
(* src/src/session.c:505-688).  When fax_sessionInit fails this is not so: *)
(* the run "dangling_answer" has an OK without a call.                     *)
THEOREM Refinement ==
  ASSUME "fax" \notin Faults
  PROVE  Spec => ImplementsCallTable
  <1>1. Init => InFirst
    BY DEF Init, InFirst, Legs, Scope
  <1>2. IInv /\ IInv' /\ RInv /\ InFirst /\ [Next]_vars => InFirst'
    BY NextInFirst DEF IInv, TableInv
  <1>3. IInv /\ IInv' /\ RInv /\ InFirst /\ [Next]_vars => [CT!Next]_(CT!vars)
    BY NextRefines DEF IInv, TableInv
  <1> QED BY <1>1, <1>2, <1>3, InitRefines, ResourcesInductive, PTL
          DEF Spec, ImplementsCallTable, CT!Spec

=============================================================================
