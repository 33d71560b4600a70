------------------------ MODULE SessionInvariant ------------------------
(***************************************************************************)
(* The inductive invariant of SessionBridge, and the proofs that every     *)
(* step keeps the types and what a session's own goroutines rely on; what  *)
(* the goroutines of a session do to the state that others see of it; and  *)
(* that the steps of a caller keep what the callers rely on.               *)
(***************************************************************************)
EXTENDS SessionBridge, TLAPS

\* Bridge has not spawned its goroutines; Bridge has spawned them, once.
Before  == {"new", "authorized", "dialed", "register", "registered"}
Spawned == {"stream", "drain", "deregister", "mark", "done", "crashed"}

\* Nothing of the bridge exists before the goroutines are spawned.
Fresh ==
    \A s \in Sessions : hpc[s] \in Before =>
        /\ stdin[s] = "off" /\ stdout[s] = "off" /\ ka[s] = "off"
        /\ missed[s] = 0 /\ endedBy[s] = "none" /\ ~ctxDone[s]

\* The keepalive loop goes on only while pings are left to miss.
PingBudget ==
    \A s \in Sessions : ka[s] \in {"select", "ping"} => missed[s] < MaxMiss

\* The copiers run only until wg.Wait returns, and Bridge has not returned
\* and the recording is open until then.
CopiersInside ==
    \A s \in Sessions :
        /\ stdin[s] \in {"copy", "send"} \/ stdout[s] \in {"copy", "write"}
              => hpc[s] \in {"stream", "drain"}
        /\ hpc[s] \in Before \cup {"stream", "drain"}
              => audit[s] # "final" /\ result[s] = "none"

\* What a caller terminates has a row and has been spawned, and its context
\* is cancelled before anything else is done to it.
InOrder(c) ==
    /\ cpc[c] \in {"cancel", "close", "deregister", "mark"}
          => cur[c] \in Sessions /\ hpc[cur[c]] \in Spawned /\ row[cur[c]] # "none"
    /\ cpc[c] \in {"close", "deregister", "mark"} => ctxDone[cur[c]]

CallersInOrder == \A c \in Callers : InOrder(c)

\* A connection closed by a kill belongs to a cancelled session.
CancelledFirst ==
    \A s \in Sessions :
        /\ backend[s] = "killed" => ctxDone[s]
        /\ endedBy[s] = "kill" => ctxDone[s]

\* No handler runs on a node that is down.
DownIsQuiet ==
    \A s \in Sessions : ~up[Home[s]] => hpc[s] \in {"new", "done", "crashed"}

\* There is no row before its INSERT, nobody writes it between that and the
\* registration of the handle, and none is written that is not there.
RegisteredActive ==
    \A s \in Sessions :
        /\ hpc[s] \in Before \ {"registered"} => row[s] = "none"
        /\ hpc[s] = "registered" => row[s] = "active"
        /\ ka[s] # "off" => row[s] # "none"

\* A doomed session waits in the caller's list, is the one being cancelled,
\* is cancelled, or has left Bridge.
Tracked(c) ==
    /\ \A s \in doomed[c] :
          /\ Home[s] = At[c] /\ hpc[s] \in Spawned
          /\ \/ s \in todo[c]
             \/ cur[c] = s /\ cpc[c] = "cancel"
             \/ ctxDone[s]
             \/ hpc[s] \in {"mark", "done", "crashed"}
    /\ cpc[c] \in {"done", "notfound"} => todo[c] = {}

\* A gRPC call has one session to terminate, and only such a call writes the
\* kill status or reports that the session was not found.
Single(c) ==
    /\ cpc[c] \in {"mark", "notfound"} => c \in Rpcs
    /\ c \in Rpcs => \E s \in Sessions \cup {NoSession} : todo[c] \subseteq {s}
    /\ c \in Rpcs /\ cpc[c] \notin {"next", "crashed"} => todo[c] = {}

\* The inductive invariant: types, what a session does by itself, the shared
\* tables, the callers.
SessionInv ==
    /\ Fresh /\ PingBudget /\ CopiersInside /\ CancelledFirst
    /\ SealedAfterLastWrite /\ KillIsReported

TableInv ==
    /\ DownIsQuiet /\ RegisteredActive /\ HandlesHaveBridges
    /\ LiveSessionKillable /\ LiveSessionListed /\ NoOrphanRows

CallerInv == \A c \in Callers : InOrder(c) /\ Single(c) /\ Tracked(c)

Inductive == TypeOK /\ SessionInv /\ TableInv /\ CallerInv

-----------------------------------------------------------------------------
(* Typing.                                                                 *)

LEMMA TerminateType ==
  ASSUME TypeOK, NEW s \in Sessions, NEW st \in Statuses, Terminate(s, st)
  PROVE  /\ row' \in [Sessions -> Statuses] /\ lost' \subseteq Sessions
         /\ dbFails' \in 0..MaxDbFails /\ granted' \subseteq Grants
<1>1. /\ row \in [Sessions -> Statuses] /\ lost \subseteq Sessions
      /\ dbFails \in 0..MaxDbFails /\ granted \subseteq Grants
  BY DEF TypeOK
<1>2. row' = [row EXCEPT ![s] = st] \/ row' = row
  BY DEF Terminate
<1>3. lost' = lost \cup {s} \/ lost' = lost
  BY DEF Terminate
<1>4. (dbFails < MaxDbFails /\ dbFails' = dbFails + 1) \/ dbFails' = dbFails
  BY DEF Terminate
<1>5. granted' = granted
  BY DEF Terminate
<1>6. dbFails' \in 0..MaxDbFails
  BY <1>1, <1>4, ConstantsAssumption
<1> QED
  BY <1>1, <1>2, <1>3, <1>5, <1>6

LEMMA TypeStep ==
  ASSUME TypeOK, PingBudget, CallersInOrder, [Next]_vars
  PROVE  TypeOK'
<1> USE ConstantsAssumption
<1> USE DEF TypeOK, HandlerPCs, Statuses, CallerPCs, Goto, goVars, peerVars,
            outVars, nodeVars, dbVars, callVars, bridgeVars, sharedVars
<1>1. ASSUME NEW s \in Sessions, Handler(s) PROVE TypeOK'
  <2>1. CASE Connect(s)
    BY <2>1 DEF Connect
  <2>2. CASE ConnectFails(s)
    BY <2>2 DEF ConnectFails
  <2>11. CASE OpenShell(s)
    BY <2>11 DEF OpenShell
  <2>10. CASE OpenShellFails(s)
    BY <2>10 DEF OpenShellFails, BridgeFails, CloseShell
  <2>3. CASE StoreRegister(s)
    BY <2>3, Zenon DEF StoreRegister
  <2>4. CASE StoreRegisterFails(s)
    BY <2>4 DEF StoreRegisterFails, BridgeFails, CloseShell
  <2>5. CASE ManagerRegister(s)
    BY <2>5 DEF ManagerRegister
  <2>6. CASE FirstExit(s)
    BY <2>6 DEF FirstExit
  <2>7. CASE Drained(s)
    BY <2>7 DEF Drained
  <2>8. CASE BridgeDeregister(s)
    BY <2>8, Zenon DEF BridgeDeregister
  <2>9. CASE BridgeMark(s)
    BY TerminateType, <2>9 DEF BridgeMark, CloseShell
  <2> HIDE DEF TypeOK
  <2> QED
    BY <1>1, <2>1, <2>2, <2>3, <2>4, <2>5, <2>6, <2>7, <2>8, <2>9,
       <2>10, <2>11, Zenon DEF Handler
<1>2. ASSUME NEW s \in Sessions, CopierExit(s) \/ CopierTraffic(s)
      PROVE  TypeOK'
  <2>1. CASE StdinReads(s)
    BY <2>1 DEF StdinReads, StdinMoves
  <2>7. CASE StdinSent(s)
    BY <2>7 DEF StdinSent, StdinMoves
  <2>2. CASE StdinReadFails(s)
    BY <2>2 DEF StdinReadFails, StdinMoves, NoteEnd
  <2>5. CASE StdinWriteFails(s)
    BY <2>5 DEF StdinWriteFails, StdinMoves, NoteEnd, BackendCause
  <2>3. CASE StdoutReads(s)
    BY <2>3 DEF StdoutReads, StdoutMoves
  <2>8. CASE StdoutWritten(s)
    BY <2>8, Zenon DEF StdoutWritten, StdoutMoves
  <2>4. CASE StdoutWriteFails(s)
    BY <2>4, Zenon DEF StdoutWriteFails, StdoutMoves, NoteEnd
  <2>6. CASE StdoutReadFails(s)
    BY <2>6 DEF StdoutReadFails, StdoutMoves, NoteEnd, BackendCause
  <2> HIDE DEF TypeOK
  <2> QED
    BY <1>2, <2>1, <2>2, <2>3, <2>4, <2>5, <2>6, <2>7, <2>8
       DEF CopierExit, CopierTraffic
<1>3. ASSUME NEW s \in Sessions, Keepalive(s) PROVE TypeOK'
  <2> USE DEF KeepaliveMoves
  <2>1. CASE KeepaliveCancelled(s)
    BY <2>1 DEF KeepaliveCancelled
  <2>6. CASE KeepaliveTick(s)
    BY <2>6 DEF KeepaliveTick
  <2>2. CASE KeepalivePong(s)
    BY <2>2 DEF KeepalivePong
  <2>3. CASE KeepaliveMissed(s)
    BY <2>3 DEF KeepaliveMissed, PingBudget
  <2>4. CASE KeepaliveStamp(s)
    BY TerminateType, <2>4 DEF KeepaliveStamp
  <2>5. CASE KeepaliveClose(s)
    BY <2>5 DEF KeepaliveClose, CloseLink
  <2> HIDE DEF TypeOK
  <2> QED
    BY <1>3, <2>1, <2>2, <2>3, <2>4, <2>5, <2>6, Zenon DEF Keepalive
<1>4. ASSUME NEW s \in Sessions,
             Authorize(s) \/ Deny(s) \/ ClientMoves(s) \/ BackendMoves(s)
      PROVE  TypeOK'
  <2>1. CASE Authorize(s)
    BY <2>1 DEF Authorize
  <2>4. CASE Deny(s)
    BY <2>4, Zenon DEF Deny
  <2>2. CASE ClientMoves(s)
    BY <2>2 DEF ClientMoves
  <2>3. CASE BackendMoves(s)
    BY <2>3 DEF BackendMoves
  <2> HIDE DEF TypeOK
  <2> QED
    BY <1>4, <2>1, <2>2, <2>3, <2>4
<1>5. ASSUME NEW c \in Callers, Kill(c) PROVE TypeOK'
  <2> USE DEF CallerMoves
  <2>1. ASSUME NEW s \in Sessions, Lookup(c, s) PROVE TypeOK'
    BY <2>1 DEF Lookup
  <2>2. CASE KillCancel(c)
    BY <2>2, Zenon DEF KillCancel
  <2>3. CASE KillClose(c)
    BY <2>3, Zenon DEF KillClose, CloseLink
  <2>4. CASE KillDeregister(c)
    BY <2>4 DEF KillDeregister
  <2>5. CASE KillMark(c)
    <3>1. cur[c] \in Sessions
      BY <2>5, Zenon DEF KillMark, CallersInOrder, InOrder
    <3> QED
      BY TerminateType, <2>5, <3>1, Zenon DEF KillMark
  <2>6. CASE RevokeDone(c)
    BY <2>6, Zenon DEF RevokeDone
  <2> HIDE DEF TypeOK
  <2> QED
    BY <1>5, <2>1, <2>2, <2>3, <2>4, <2>5, <2>6, Zenon DEF Kill
<1>6. ASSUME NEW c \in Callers, NEW s \in Sessions, RpcStart(c, s)
      PROVE  TypeOK'
  BY <1>6 DEF RpcStart, CallerMoves
<1>7. ASSUME NEW c \in Callers, NEW g \in Grants, RevokeStart(c, g)
      PROVE  TypeOK'
  BY <1>7 DEF RevokeStart, CallerMoves
<1>8. ASSUME NEW n \in Nodes, Crash(n) PROVE TypeOK'
  BY <1>8 DEF Crash
<1>9. ASSUME NEW n \in Nodes, Restart(n) PROVE TypeOK'
  BY <1>9 DEF Restart, CleanupOrphanedSessions, Here
<1>10. CASE UNCHANGED vars
  BY <1>10, SMTT(30) DEF vars
<1> HIDE DEF TypeOK
<1> QED
  BY <1>1, <1>2, <1>3, <1>4, <1>5, <1>6, <1>7, <1>8, <1>9, <1>10
     DEF Next, Environment

-----------------------------------------------------------------------------
(* A session by itself.                                                    *)

(* A step that touches nothing of SessionInv.                              *)
LEMMA SessionFrame ==
  ASSUME SessionInv, UNCHANGED <<hpc, goVars, backend, ctxDone, outVars>>
  PROVE  SessionInv'
BY DEF SessionInv, Fresh, PingBudget, CopiersInside, CancelledFirst,
       SealedAfterLastWrite, KillIsReported, Before, goVars, outVars

LEMMA SessionStep ==
  ASSUME TypeOK, SessionInv, CallersInOrder, [Next]_vars
  PROVE  SessionInv'
<1> USE ConstantsAssumption
<1> USE DEF TypeOK, SessionInv, Fresh, PingBudget, CopiersInside, CancelledFirst,
            SealedAfterLastWrite, KillIsReported, HandlerPCs, Before, Goto,
            goVars, peerVars, outVars, nodeVars, dbVars, callVars, bridgeVars,
            sharedVars
<1>1. ASSUME NEW s \in Sessions, Handler(s) PROVE SessionInv'
  <2>1. CASE Connect(s)
    BY <2>1 DEF Connect
  <2>2. CASE ConnectFails(s)
    BY <2>2 DEF ConnectFails
  <2>11. CASE OpenShell(s)
    BY <2>11 DEF OpenShell
  <2>10. CASE OpenShellFails(s)
    BY <2>10 DEF OpenShellFails, BridgeFails, CloseShell
  <2>3. CASE StoreRegister(s)
    BY <2>3 DEF StoreRegister
  <2>4. CASE StoreRegisterFails(s)
    BY <2>4 DEF StoreRegisterFails, BridgeFails, CloseShell
  <2>5. CASE ManagerRegister(s)
    BY <2>5 DEF ManagerRegister
  <2>6. CASE FirstExit(s)
    BY <2>6 DEF FirstExit
  <2>7. CASE Drained(s)
    BY <2>7 DEF Drained
  <2>8. CASE BridgeDeregister(s)
    BY <2>8 DEF BridgeDeregister
  <2>9. CASE BridgeMark(s)
    BY <2>9 DEF BridgeMark, Terminate, CloseShell
  <2> HIDE DEF TypeOK, SessionInv
  <2> QED
    BY <1>1, <2>1, <2>2, <2>3, <2>4, <2>5, <2>6, <2>7, <2>8, <2>9,
       <2>10, <2>11, Zenon DEF Handler
<1>2. ASSUME NEW s \in Sessions, CopierExit(s) \/ CopierTraffic(s)
      PROVE  SessionInv'
  <2>1. CASE StdinReads(s) \/ StdinSent(s)
    BY <2>1 DEF StdinReads, StdinSent, StdinMoves
  <2>2. CASE StdinReadFails(s)
    BY <2>2 DEF StdinReadFails, StdinMoves, NoteEnd
  <2>5. CASE StdinWriteFails(s)
    BY <2>5 DEF StdinWriteFails, StdinMoves, NoteEnd, BackendCause
  <2>3. CASE StdoutReads(s)
    BY <2>3 DEF StdoutReads, StdoutMoves
  <2>7. CASE StdoutWritten(s)
    BY <2>7 DEF StdoutWritten, StdoutMoves
  <2>4. CASE StdoutWriteFails(s)
    BY <2>4 DEF StdoutWriteFails, StdoutMoves, NoteEnd
  <2>6. CASE StdoutReadFails(s)
    BY <2>6 DEF StdoutReadFails, StdoutMoves, NoteEnd, BackendCause
  <2> HIDE DEF TypeOK, SessionInv
  <2> QED
    BY <1>2, <2>1, <2>2, <2>3, <2>4, <2>5, <2>6, <2>7, Zenon
       DEF CopierExit, CopierTraffic
<1>3. ASSUME NEW s \in Sessions, Keepalive(s) PROVE SessionInv'
  <2> USE DEF KeepaliveMoves
  <2>1. CASE KeepaliveCancelled(s) \/ KeepaliveTick(s)
    BY <2>1 DEF KeepaliveCancelled, KeepaliveTick
  <2>2. CASE KeepalivePong(s)
    BY <2>2 DEF KeepalivePong
  <2>3. CASE KeepaliveMissed(s)
    BY <2>3 DEF KeepaliveMissed
  <2>4. CASE KeepaliveStamp(s)
    BY <2>4 DEF KeepaliveStamp, Terminate
  <2>5. CASE KeepaliveClose(s)
    BY <2>5 DEF KeepaliveClose, CloseLink
  <2> HIDE DEF TypeOK, SessionInv
  <2> QED
    BY <1>3, <2>1, <2>2, <2>3, <2>4, <2>5, Zenon DEF Keepalive
<1>4. ASSUME NEW s \in Sessions,
             Authorize(s) \/ Deny(s) \/ ClientMoves(s) \/ BackendMoves(s)
      PROVE  SessionInv'
  <2>1. CASE Authorize(s) \/ Deny(s)
    BY <2>1 DEF Authorize, Deny
  <2>2. CASE ClientMoves(s)
    BY <2>2, Zenon DEF ClientMoves
  <2>3. CASE BackendMoves(s)
    BY <2>3 DEF BackendMoves
  <2> HIDE DEF TypeOK, SessionInv
  <2> QED
    BY <1>4, <2>1, <2>2, <2>3, Zenon
<1>5. ASSUME NEW c \in Callers, Kill(c) PROVE SessionInv'
  <2> USE DEF CallerMoves
  <2>1. CASE KillCancel(c)
    <3>0. ctxDone \in [Sessions -> BOOLEAN] /\ ctxDone' = [ctxDone EXCEPT ![cur[c]] = TRUE]
      BY <2>1, Zenon DEF KillCancel
    <3>1. cur[c] \in Sessions /\ hpc[cur[c]] \notin Before
      BY <2>1, Zenon DEF KillCancel, CallersInOrder, InOrder, Spawned
    <3> HIDE DEF TypeOK, SessionInv, Before
    <3>2. /\ \A s \in Sessions : ctxDone[s] => ctxDone'[s]
          /\ \A s \in Sessions : hpc[s] \in Before => ctxDone'[s] = ctxDone[s]
      BY <3>0, <3>1, Zenon
    <3>3. UNCHANGED <<hpc, goVars, backend, outVars>>
      BY <2>1, Zenon DEF KillCancel
    <3> USE DEF SessionInv
    <3> QED
      BY <3>2, <3>3
  <2>2. CASE KillClose(c)
    BY <2>2 DEF KillClose, CloseLink, CallersInOrder, InOrder
  <2> HIDE DEF TypeOK, SessionInv
  <2>3. CASE (\E s \in Sessions : Lookup(c, s)) \/ KillDeregister(c) \/ KillMark(c)
               \/ RevokeDone(c)
    <3>1. UNCHANGED <<hpc, goVars, backend, ctxDone, outVars>>
      BY <2>3, Zenon DEF Lookup, KillDeregister, KillMark, RevokeDone
    <3> QED
      BY <3>1, SessionFrame, Zenon
  <2> QED
    BY <1>5, <2>1, <2>2, <2>3, Zenon DEF Kill
<1>6. ASSUME NEW n \in Nodes, Crash(n) PROVE SessionInv'
  BY <1>6 DEF Crash
<1> HIDE DEF TypeOK, SessionInv
<1>7. ASSUME NEW c \in Callers,
             (\E s \in Sessions : RpcStart(c, s)) \/ (\E g \in Grants : RevokeStart(c, g))
      PROVE  SessionInv'
  BY <1>7, SessionFrame DEF RpcStart, RevokeStart, CallerMoves
<1>8. ASSUME NEW n \in Nodes, Restart(n) PROVE SessionInv'
  BY <1>8, SessionFrame DEF Restart
<1>9. CASE UNCHANGED vars
  BY <1>9, SessionFrame DEF vars
<1> QED
  BY <1>1, <1>2, <1>3, <1>4, <1>5, <1>6, <1>7, <1>8, <1>9
     DEF Next, Environment

-----------------------------------------------------------------------------
(* The steps of one session.                                               *)

\* What a step does to one session, and that it does nothing to the others.
Alone(s) ==
    \A t \in Sessions \ {s} :
        /\ hpc'[t] = hpc[t] /\ ctxDone'[t] = ctxDone[t]
        /\ ka'[t] = ka[t] /\ row'[t] = row[t]

Moves(s, from, to) == hpc[s] = from /\ hpc'[s] = to
Idle(s)            == hpc'[s] = hpc[s]
KeepsRow(s)        == row'[s] = row[s]
KeepsContext(s)    == ctxDone'[s] = ctxDone[s]
KeepsLoop(s)       == ka'[s] = ka[s]

\* What the steps of one session's goroutines do to what others see of it.
HandlerMoves(s) ==
    /\ Alone(s) /\ KeepsContext(s) /\ UNCHANGED <<cpc, cur>>
    /\ \/ /\ KeepsLoop(s) /\ KeepsRow(s)
          /\ \/ Moves(s, "new", "authorized") \/ Moves(s, "new", "done")
             \/ Moves(s, "authorized", "dialed") \/ Moves(s, "authorized", "done")
             \/ Moves(s, "dialed", "register") \/ Moves(s, "dialed", "done")
             \/ Moves(s, "stream", "drain") \/ Moves(s, "drain", "deregister")
             \/ Moves(s, "deregister", "mark")
       \/ KeepsLoop(s) /\ Moves(s, "register", "registered") /\ row'[s] = "active"
       \/ KeepsLoop(s) /\ Moves(s, "register", "done") /\ row'[s] \in {"none", "active"}
       \/ ka'[s] = "select" /\ KeepsRow(s) /\ Moves(s, "registered", "stream")
       \/ /\ KeepsLoop(s) /\ Moves(s, "mark", "done")
          /\ row'[s] \in {row[s], "terminated"}

KeepaliveSteps(s) ==
    /\ Alone(s) /\ Idle(s) /\ KeepsContext(s) /\ UNCHANGED <<cpc, cur>>
    /\ \/ /\ KeepsRow(s) /\ ka[s] \in {"select", "ping"}
          /\ ka'[s] \in {"select", "ping", "stamp"}
       \/ KeepsRow(s) /\ ka[s] = "select" /\ ctxDone[s] /\ ka'[s] = "done"
       \/ KeepsRow(s) /\ ka[s] = "close" /\ ka'[s] = "done"
       \/ /\ ka[s] = "stamp" /\ ka'[s] = "close"
          /\ row'[s] \in {row[s], "terminated-timeout"}

LEMMA HandlerSteps ==
  ASSUME TypeOK, NEW s \in Sessions, Handler(s) \/ Authorize(s) \/ Deny(s)
  PROVE  HandlerMoves(s)
<1>1. /\ hpc \in [Sessions -> HandlerPCs] /\ ka \in [Sessions -> {"off", "select",
                                             "ping", "stamp", "close", "done"}]
      /\ row \in [Sessions -> Statuses]
  BY Zenon DEF TypeOK
<1> USE <1>1 DEF Goto, goVars, peerVars, outVars, nodeVars, dbVars, callVars, bridgeVars,
                 sharedVars, HandlerMoves, Alone, Moves, KeepsRow, KeepsContext, KeepsLoop
<1>2. CASE Authorize(s)
  BY <1>2, Zenon DEF Authorize
<1>3. CASE Deny(s)
  BY <1>3, Zenon DEF Deny
<1>4. CASE Connect(s)
  BY <1>4 DEF Connect
<1>5. CASE ConnectFails(s)
  BY <1>5, Zenon DEF ConnectFails
<1>6. CASE OpenShell(s)
  BY <1>6, Zenon DEF OpenShell
<1>7. CASE OpenShellFails(s)
  BY <1>7, Zenon DEF OpenShellFails
<1>8. CASE StoreRegister(s)
  BY <1>8, Zenon DEF StoreRegister
<1>9. CASE StoreRegisterFails(s)
  BY <1>9, Zenon DEF StoreRegisterFails
<1>10. CASE ManagerRegister(s)
  BY <1>10, Zenon DEF ManagerRegister
<1>11. CASE FirstExit(s)
  BY <1>11, Zenon DEF FirstExit
<1>12. CASE Drained(s)
  BY <1>12, Zenon DEF Drained
<1>13. CASE BridgeDeregister(s)
  BY <1>13, Zenon DEF BridgeDeregister
<1>14. CASE BridgeMark(s)
  BY <1>14 DEF BridgeMark, Terminate
<1> HIDE DEF HandlerMoves
<1> QED
  BY <1>2, <1>3, <1>4, <1>5, <1>6, <1>7, <1>8, <1>9, <1>10, <1>11, <1>12, <1>13, <1>14, Zenon
     DEF Handler

LEMMA KeepaliveMove ==
  ASSUME TypeOK, NEW s \in Sessions, Keepalive(s)
  PROVE  KeepaliveSteps(s)
<1>1. /\ ka \in [Sessions -> {"off", "select", "ping", "stamp", "close", "done"}]
      /\ row \in [Sessions -> Statuses]
  BY DEF TypeOK
<1> USE <1>1 DEF goVars, peerVars, outVars, nodeVars, dbVars, callVars, KeepaliveMoves,
                 KeepaliveSteps, Alone, Idle, KeepsRow, KeepsContext
<1>2. CASE KeepaliveCancelled(s)
  BY <1>2, Zenon DEF KeepaliveCancelled
<1>3. CASE KeepaliveTick(s)
  BY <1>3, Zenon DEF KeepaliveTick
<1>4. CASE KeepalivePong(s)
  BY <1>4, Zenon DEF KeepalivePong
<1>5. CASE KeepaliveMissed(s)
  BY <1>5, Zenon DEF KeepaliveMissed
<1>6. CASE KeepaliveStamp(s)
  BY <1>6, Zenon DEF KeepaliveStamp, Terminate
<1>7. CASE KeepaliveClose(s)
  BY <1>7 DEF KeepaliveClose
<1> HIDE DEF KeepaliveSteps
<1> QED
  BY <1>2, <1>3, <1>4, <1>5, <1>6, <1>7, Zenon DEF Keepalive

-----------------------------------------------------------------------------
(* The callers of ConnectionManager.Terminate by themselves.               *)

\* A row that is there stays there.
RowsStay == \A s \in Sessions : row[s] # "none" => row'[s] # "none"

(* A step of one caller: it has to show its own part.                      *)
LEMMA OneCaller ==
  ASSUME TypeOK, CallerInv, NEW c \in Callers,
         UNCHANGED hpc, RowsStay, \A s \in Sessions : ctxDone[s] => ctxDone'[s],
         \A d \in Callers \ {c} :
            cpc'[d] = cpc[d] /\ cur'[d] = cur[d] /\ todo'[d] = todo[d]
            /\ doomed'[d] = doomed[d],
         InOrder(c)', Single(c)', Tracked(c)'
  PROVE  CallerInv'
<1> SUFFICES ASSUME NEW d \in Callers \ {c}
             PROVE  (InOrder(d) /\ Single(d) /\ Tracked(d))'
  BY DEF CallerInv
<1>1. InOrder(d) /\ Single(d) /\ Tracked(d)
  BY Zenon DEF CallerInv
<1>2. doomed[d] \subseteq Sessions
  BY DEF TypeOK
<1>6. cpc'[d] = cpc[d] /\ cur'[d] = cur[d]
  BY Zenon
<1>3. InOrder(d)'
  BY <1>1, <1>6, Zenon DEF InOrder, RowsStay
<1>4. Single(d)'
  BY <1>1, Zenon DEF Single
<1>5. Tracked(d)'
  BY <1>1, <1>2, Zenon DEF Tracked
<1> QED
  BY <1>3, <1>4, <1>5, Zenon

LEMMA CallerActs ==
  ASSUME TypeOK, TableInv, CallerInv, NEW c \in Callers,
         \/ Kill(c) \/ (\E s \in Sessions : RpcStart(c, s))
         \/ (\E g \in Grants : RevokeStart(c, g))
  PROVE  CallerInv'
<1> USE ConstantsAssumption
<1>0. /\ cpc \in [Callers -> CallerPCs] /\ cur \in [Callers -> Sessions \cup {NoSession}]
      /\ todo \in [Callers -> SUBSET Sessions]
      /\ doomed \in [Callers -> SUBSET Sessions]
      /\ ctxDone \in [Sessions -> BOOLEAN]
      /\ reg \in [Nodes -> SUBSET Sessions] /\ row \in [Sessions -> Statuses]
  BY DEF TypeOK
<1>3. \A n \in Nodes : \A s \in reg[n] :
         Home[s] = n /\ hpc[s] \in Spawned /\ row[s] # "none"
  <2> SUFFICES ASSUME NEW n \in Nodes, NEW s \in reg[n]
               PROVE  Home[s] = n /\ hpc[s] \in Spawned /\ row[s] # "none"
    OBVIOUS
  <2>1. s \in Sessions
    BY <1>0
  <2>2. Home[s] = n /\ hpc[s] \in {"stream", "drain", "deregister"}
    BY Zenon DEF TableInv, HandlesHaveBridges
  <2>3. row[s] # "none"
    BY <2>1, <2>2, Zenon DEF TableInv, LiveSessionListed, Bridging
  <2> QED
    BY <2>2, <2>3, Zenon DEF Spawned
<1>4. \A s \in Sessions : \/ hpc[s] \notin Spawned \/ ctxDone[s] \/ s \in reg[Home[s]]
                         \/ hpc[s] \in {"mark", "done", "crashed"}
  BY Zenon DEF TableInv, LiveSessionKillable, Spawned
<1>5. CASE Kill(c)
  <2> USE <1>0 DEF CallerMoves, RowsStay, dbVars
  <2>0. InOrder(c) /\ Single(c) /\ Tracked(c)
    BY DEF CallerInv
  <2>1. ASSUME NEW s \in Sessions, Lookup(c, s) PROVE CallerInv'
    <3> USE <2>1 DEF Lookup
    <3>1. InOrder(c)'
      BY <1>3 DEF InOrder
    <3>2. Single(c)'
      BY <2>0, Zenon DEF Single
    <3>3. Tracked(c)'
      <4>1. ASSUME NEW t \in doomed[c]
            PROVE  \/ t \in todo'[c]
                   \/ cur'[c] = t /\ cpc'[c] = "cancel"
                   \/ ctxDone[t]
                   \/ hpc[t] \in {"mark", "done", "crashed"}
        BY <2>0, <1>4, Zenon DEF Tracked
      <4>2. cpc'[c] \in {"done", "notfound"} => todo'[c] = {}
        BY <2>0, Zenon DEF Single
      <4> QED
        BY <2>0, <4>1, <4>2, Zenon DEF Tracked
    <3> QED
      BY <3>1, <3>2, <3>3, OneCaller, Zenon
  <2>2. CASE KillCancel(c)
    <3> USE <2>2 DEF KillCancel
    <3>1. InOrder(c)'
      BY <2>0, Zenon DEF InOrder
    <3>2. Single(c)'
      BY <2>0, Zenon DEF Single
    <3>3. Tracked(c)'
      BY <2>0, Zenon DEF Tracked, InOrder
    <3> QED
      BY <3>1, <3>2, <3>3, OneCaller, Zenon
  <2>3. ASSUME NEW to \in {"deregister", "mark", "next", "done"},
               cpc' = [cpc EXCEPT ![c] = to],
               RowsStay, UNCHANGED <<hpc, ctxDone, cur, todo, doomed>>,
               cpc[c] # "cancel",
               to \in {"deregister", "mark"} => cpc[c] \in {"close", "deregister"},
               to = "mark" => c \in Rpcs,
               to = "next" => c \notin Rpcs,
               to = "done" => todo[c] = {},
               c \in Rpcs => todo[c] = {}
        PROVE  CallerInv'
    <3>1. InOrder(c)'
      BY <2>0, <2>3, Zenon DEF InOrder
    <3>2. Single(c)'
      BY <2>0, <2>3, Zenon DEF Single
    <3>3. Tracked(c)'
      BY <2>0, <2>3, Zenon DEF Tracked
    <3> QED
      BY <2>3, <3>1, <3>2, <3>3, OneCaller, Zenon
  <2>4. CASE KillClose(c)
    BY <2>0, <2>3, <2>4, Zenon DEF KillClose, Single
  <2>5. CASE KillDeregister(c)
    BY <2>0, <2>3, <2>5, Zenon DEF KillDeregister, Single
  <2>6. CASE KillMark(c)
    BY <2>0, <2>3, <2>6, Zenon DEF KillMark, Terminate, Single
  <2>7. CASE RevokeDone(c)
    BY <2>0, <2>3, <2>7, Zenon DEF RevokeDone
  <2> QED
    BY <1>5, <2>1, <2>2, <2>4, <2>5, <2>6, <2>7, Zenon DEF Kill
<1>6. ASSUME NEW S \in SUBSET Sessions,
             cpc[c] = "idle", cpc' = [cpc EXCEPT ![c] = "next"],
             todo' = [todo EXCEPT ![c] = S],
             doomed' = [doomed EXCEPT ![c] = S \cap reg[At[c]]],
             c \in Rpcs => \E s \in Sessions : S = {s},
             UNCHANGED <<hpc, ctxDone, cur, row>>
      PROVE  CallerInv'
  <2>1. InOrder(c)'
    BY <1>0, <1>6 DEF InOrder
  <2>2. Single(c)'
    BY <1>0, <1>6, Zenon DEF Single
  <2>3. Tracked(c)'
    BY <1>0, <1>3, <1>6 DEF Tracked
  <2> QED
    BY <1>0, <1>6, <2>1, <2>2, <2>3, OneCaller, Zenon DEF RowsStay
<1>7. ASSUME NEW s \in Sessions, RpcStart(c, s)
      PROVE  CallerInv'
  <2>1. /\ todo'   = [todo EXCEPT ![c] = {s}]
        /\ doomed' = [doomed EXCEPT ![c] = {s} \cap reg[At[c]]]
        /\ cpc[c] = "idle" /\ cpc' = [cpc EXCEPT ![c] = "next"]
        /\ UNCHANGED <<hpc, ctxDone, cur, row>>
    BY <1>7 DEF RpcStart, CallerMoves, dbVars
  <2>2. {s} \in SUBSET Sessions
    OBVIOUS
  <2>3. c \in Rpcs => \E t \in Sessions : {s} = {t}
    OBVIOUS
  <2> QED
    BY <1>6, <2>1, <2>2, <2>3, Zenon
<1>8. ASSUME NEW g \in Grants, RevokeStart(c, g)
      PROVE  CallerInv'
  <2> DEFINE S == {s \in Sessions : GrantOf[s] = g /\ row[s] = "active"}
  <2>3. /\ todo' = [todo EXCEPT ![c] = S]
        /\ doomed' = [doomed EXCEPT ![c] = todo'[c] \cap reg[At[c]]]
        /\ cpc[c] = "idle" /\ cpc' = [cpc EXCEPT ![c] = "next"]
        /\ UNCHANGED <<hpc, ctxDone, cur, row>> /\ c \in Admins
    BY <1>8, Zenon DEF RevokeStart, CallerMoves
  <2>4. c \notin Rpcs
    BY <2>3
  <2>2. S \in SUBSET Sessions
    OBVIOUS
  <2> HIDE DEF S
  <2>1. doomed' = [doomed EXCEPT ![c] = S \cap reg[At[c]]]
    BY <1>0, <2>3
  <2> QED
    BY <1>6, <2>1, <2>2, <2>3, <2>4, Zenon
<1> QED
  BY <1>5, <1>7, <1>8
=============================================================================
