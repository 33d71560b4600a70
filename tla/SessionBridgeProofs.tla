------------------------ MODULE SessionBridgeProofs ------------------------
(***************************************************************************)
(* Proofs that the safety invariants of SessionBridge hold for every set   *)
(* of sessions, nodes, grants and callers.                                 *)
(*                                                                         *)
(* The argument is one inductive invariant, Inductive of SessionInvariant. *)
(* Each of its parts has a lemma <name>Step, which shows that a step keeps *)
(* it: types and sessions in SessionInvariant, the tables and the callers  *)
(* here.                                                                   *)
(***************************************************************************)
EXTENDS SessionInvariant

-----------------------------------------------------------------------------
(* The ConnectionManagers and the active_sessions table.                   *)

(* Most steps leave the tables and the handlers alone; of the goroutines   *)
(* TableInv only asks whether the keepalive loop has started and whether   *)
(* it is past its stamp.                                                   *)
LEMMA TableFrame ==
  ASSUME TypeOK, TableInv,
         UNCHANGED <<hpc, nodeVars, row, lost, ctxDone>>,
         \A s \in Sessions :
            /\ ka[s] \in {"close", "done"} => ka'[s] \in {"close", "done"}
            /\ ka[s] = "off" => ka'[s] = "off"
  PROVE  TableInv'
<1> USE DEF TableInv, nodeVars
<1>1. DownIsQuiet' /\ RegisteredActive'
  BY DEF DownIsQuiet, RegisteredActive
<1>2. HandlesHaveBridges' /\ LiveSessionKillable'
  BY DEF HandlesHaveBridges, LiveSessionKillable
<1>3. LiveSessionListed'
  BY DEF LiveSessionListed, Bridging
<1>4. NoOrphanRows'
  BY DEF NoOrphanRows, Bridging
<1> QED
  BY <1>1, <1>2, <1>3, <1>4

LEMMA TableStep ==
  ASSUME TypeOK, SessionInv, TableInv, CallersInOrder, [Next]_vars
  PROVE  TableInv'
<1>0. /\ hpc \in [Sessions -> HandlerPCs] /\ ctxDone \in [Sessions -> BOOLEAN]
      /\ ka \in [Sessions -> {"off", "select", "ping", "stamp", "close", "done"}]
      /\ up \in [Nodes -> BOOLEAN] /\ reg \in [Nodes -> SUBSET Sessions]
      /\ row \in [Sessions -> Statuses] /\ lost \subseteq Sessions
      /\ \A s \in Sessions : hpc[s] \in Before => ka[s] = "off"
  BY DEF TypeOK, SessionInv, Fresh
<1> USE <1>0, ConstantsAssumption
<1> USE DEF TableInv, DownIsQuiet, RegisteredActive, HandlesHaveBridges,
            LiveSessionKillable, LiveSessionListed, NoOrphanRows, Bridging, HandlerPCs,
            Before, Spawned, Goto, goVars, peerVars, outVars, nodeVars, dbVars, callVars,
            bridgeVars, sharedVars
<1>1. ASSUME NEW s \in Sessions, Handler(s) PROVE TableInv'
  <2>1. CASE Connect(s)
    BY <2>1 DEF Connect
  <2>2. CASE ConnectFails(s)
    BY <2>2 DEF ConnectFails
  <2>11. CASE OpenShell(s)
    BY <2>11 DEF OpenShell
  <2>10. CASE OpenShellFails(s)
    BY <2>10 DEF OpenShellFails, BridgeFails, CloseShell
  <2>3. CASE StoreRegister(s)
    BY <2>3 DEF StoreRegister
  <2>4. CASE StoreRegisterFails(s)
    BY <2>4 DEF StoreRegisterFails, BridgeFails, CloseShell
  <2>5. CASE ManagerRegister(s)
    BY <2>5 DEF ManagerRegister
  <2>6. CASE FirstExit(s)
    BY <2>6 DEF FirstExit
  <2>7. CASE Drained(s)
    BY <2>7 DEF Drained
  <2>8. CASE BridgeDeregister(s)
    BY <2>8 DEF BridgeDeregister
  <2>9. CASE BridgeMark(s)
    BY <2>9 DEF BridgeMark, Terminate, CloseShell
  <2> HIDE DEF TableInv
  <2> QED
    BY <1>1, <2>1, <2>2, <2>3, <2>4, <2>5, <2>6, <2>7, <2>8, <2>9,
       <2>10, <2>11, Zenon DEF Handler
<1>2. ASSUME NEW s \in Sessions,
             \/ CopierExit(s) \/ CopierTraffic(s) \/ ClientMoves(s) \/ BackendMoves(s)
      PROVE  TableInv'
  <2> HIDE DEF TableInv
  <2>1. CASE CopierExit(s) \/ CopierTraffic(s)
    <3>1. \E to \in {"copy", "send", "write", "done"} : StdinMoves(s, to) \/ StdoutMoves(s, to)
      BY <2>1, Zenon
         DEF CopierExit, CopierTraffic, StdinReads, StdinSent, StdinReadFails,
             StdinWriteFails, StdoutReads, StdoutWritten, StdoutWriteFails, StdoutReadFails
    <3>2. UNCHANGED <<hpc, nodeVars, row, lost, ctxDone, ka>>
      BY <3>1 DEF StdinMoves, StdoutMoves
    <3> QED
      BY <3>2, TableFrame
  <2>2. CASE ClientMoves(s) \/ BackendMoves(s)
    BY <2>2, TableFrame DEF ClientMoves, BackendMoves
  <2> QED
    BY <1>2, <2>1, <2>2
<1>3. ASSUME NEW s \in Sessions, Keepalive(s) PROVE TableInv'
  <2> USE DEF KeepaliveMoves
  <2>1. CASE KeepaliveStamp(s)
    <3>1. ka'[s] = "close" /\ \A t \in Sessions \ {s} : ka'[t] = ka[t]
      BY <2>1 DEF KeepaliveStamp
    <3>2. hpc[s] \notin Before
      BY <2>1, Zenon DEF KeepaliveStamp
    <3>3. CASE row' = [row EXCEPT ![s] = "terminated-timeout"] /\ UNCHANGED lost
      <4>1. DownIsQuiet' /\ HandlesHaveBridges' /\ LiveSessionKillable'
        BY <2>1, Zenon DEF KeepaliveStamp
      <4>2. RegisteredActive' /\ NoOrphanRows'
        BY <2>1, <3>2, <3>3 DEF KeepaliveStamp
      <4>3. LiveSessionListed'
        BY <2>1, <3>1, <3>3 DEF KeepaliveStamp
      <4> QED
        BY <4>1, <4>2, <4>3, Zenon
    <3>4. CASE UNCHANGED row /\ lost' = lost \cup {s}
      <4>1. DownIsQuiet' /\ HandlesHaveBridges' /\ LiveSessionKillable' /\ RegisteredActive'
        BY <2>1, <3>4 DEF KeepaliveStamp
      <4>2. NoOrphanRows'
        BY <2>1, <3>4, Zenon DEF KeepaliveStamp
      <4>3. LiveSessionListed'
        BY <2>1, <3>1, <3>4 DEF KeepaliveStamp
      <4> QED
        BY <4>1, <4>2, <4>3, Zenon
    <3> QED
      BY <2>1, <3>3, <3>4, Zenon DEF KeepaliveStamp, Terminate
  <2> HIDE DEF TableInv
  <2>2. CASE KeepaliveClose(s)
    BY <2>2, TableFrame, Zenon DEF KeepaliveClose
  <2>3. CASE KeepaliveCancelled(s) \/ KeepaliveTick(s) \/ KeepalivePong(s)
    BY <2>3, TableFrame DEF KeepaliveCancelled, KeepaliveTick, KeepalivePong
  <2>4. CASE KeepaliveMissed(s)
    BY <2>4, TableFrame DEF KeepaliveMissed
  <2> QED
    BY <1>3, <2>1, <2>2, <2>3, <2>4, Zenon DEF Keepalive
<1>4. ASSUME NEW s \in Sessions, Authorize(s) \/ Deny(s) PROVE TableInv'
  <2>1. CASE Authorize(s)
    BY <2>1 DEF Authorize
  <2>2. CASE Deny(s)
    BY <2>2 DEF Deny
  <2> HIDE DEF TableInv
  <2> QED
    BY <1>4, <2>1, <2>2, Zenon
<1>5. ASSUME NEW c \in Callers, Kill(c) PROVE TableInv'
  <2>0. InOrder(c)
    BY Zenon DEF CallersInOrder
  <2> USE DEF CallerMoves
  <2>1. CASE (\E s \in Sessions : Lookup(c, s)) \/ KillClose(c) \/ RevokeDone(c)
    <3> HIDE DEF TableInv
    <3> QED
      BY <2>1, TableFrame, Zenon DEF Lookup, KillClose, RevokeDone
  <2>2. CASE KillCancel(c)
    <3> HIDE DEF TableInv
    <3>1. \A s \in Sessions : ctxDone[s] => ctxDone'[s]
      BY <2>2, Zenon DEF KillCancel
    <3>2. UNCHANGED <<hpc, up, reg, row, lost, ka>>
      BY <2>2, Zenon DEF KillCancel
    <3> USE DEF TableInv
    <3>3. DownIsQuiet' /\ HandlesHaveBridges' /\ RegisteredActive' /\ NoOrphanRows'
      BY <3>2, Zenon
    <3>4. LiveSessionKillable' /\ LiveSessionListed'
      BY <3>1, <3>2, Zenon
    <3> QED
      BY <3>3, <3>4, Zenon
  <2>4. CASE KillDeregister(c)
    <3>1. cur[c] \in Sessions /\ ctxDone[cur[c]]
      BY <2>0, <2>4, Zenon DEF KillDeregister, InOrder
    <3>2. /\ reg' = [reg EXCEPT ![At[c]] = @ \ {cur[c]}]
          /\ UNCHANGED <<hpc, up, row, lost, ka, ctxDone>>
      BY <2>4, Zenon DEF KillDeregister
    <3>3. DownIsQuiet' /\ RegisteredActive' /\ NoOrphanRows' /\ LiveSessionListed'
      BY <3>2, Zenon
    <3>4. HandlesHaveBridges'
      BY <3>2
    <3>5. LiveSessionKillable'
      BY <3>1, <3>2
    <3> QED
      BY <3>3, <3>4, <3>5, Zenon
  <2>5. CASE KillMark(c)
    <3>1. cur[c] \in Sessions /\ ctxDone[cur[c]] /\ hpc[cur[c]] \in Spawned
      BY <2>0, <2>5, Zenon DEF KillMark, InOrder
    <3>2. UNCHANGED <<hpc, up, reg, ka, ctxDone>>
      BY <2>5, Zenon DEF KillMark
    <3>3. DownIsQuiet' /\ HandlesHaveBridges' /\ LiveSessionKillable'
      BY <3>2, Zenon
    <3>4. CASE row' = [row EXCEPT ![cur[c]] = "terminated-kill"] /\ UNCHANGED lost
      <4>1. RegisteredActive' /\ NoOrphanRows'
        BY <3>1, <3>2, <3>4
      <4>2. LiveSessionListed'
        BY <3>1, <3>2, <3>4
      <4> QED
        BY <3>3, <4>1, <4>2, Zenon
    <3>5. CASE UNCHANGED row /\ lost' = lost \cup {cur[c]}
      <4>1. RegisteredActive' /\ NoOrphanRows' /\ LiveSessionListed'
        BY <3>2, <3>5, Zenon
      <4> QED
        BY <3>3, <4>1, Zenon
    <3> QED
      BY <2>5, <3>4, <3>5, Zenon DEF KillMark, Terminate
  <2> HIDE DEF TableInv
  <2> QED
    BY <1>5, <2>1, <2>2, <2>4, <2>5, Zenon DEF Kill
<1>6. ASSUME NEW c \in Callers, NEW s \in Sessions, RpcStart(c, s)
      PROVE  TableInv'
  <2> HIDE DEF TableInv
  <2> QED
    BY <1>6, TableFrame, Zenon DEF RpcStart, CallerMoves
<1>7. ASSUME NEW c \in Callers, NEW g \in Grants, RevokeStart(c, g)
      PROVE  TableInv'
  <2> HIDE DEF TableInv
  <2> QED
    BY <1>7, TableFrame, Zenon DEF RevokeStart, CallerMoves
<1>8. ASSUME NEW n \in Nodes, Crash(n) PROVE TableInv'
  <2>1. DownIsQuiet'
    BY <1>8 DEF Crash, Here
  <2>2. RegisteredActive'
    <3>1. /\ \A s \in Sessions : hpc'[s] = hpc[s] \/ hpc'[s] = "crashed"
          /\ \A s \in Sessions : ka'[s] = ka[s] \/ ka'[s] = "off"
          /\ row' = row
      BY <1>8, Zenon DEF Crash
    <3>2. RegisteredActive
      BY Zenon
    <3> QED
      BY <3>1, <3>2
  <2>3. HandlesHaveBridges'
    BY <1>8 DEF Crash, Here
  <2>4. LiveSessionKillable'
    BY <1>8 DEF Crash, Here
  <2>5. LiveSessionListed'
    BY <1>8 DEF Crash, Here
  <2>6. NoOrphanRows'
    BY <1>8 DEF Crash, Here
  <2> QED
    BY <2>1, <2>2, <2>3, <2>4, <2>5, <2>6, Zenon
<1>9. ASSUME NEW n \in Nodes, Restart(n) PROVE TableInv'
  <2>1. \A s \in Sessions : Home[s] = n => hpc[s] \in {"new", "done", "crashed"}
    BY <1>9 DEF Restart
  <2>2. CASE row' = [s \in Sessions |->
                       IF s \in {t \in Here(n) : row[t] = "active"}
                       THEN "terminated" ELSE row[s]] /\ UNCHANGED lost
    <3>1. \A s \in Sessions : Home[s] = n => row'[s] # "active"
      BY <2>2, Zenon DEF Here
    <3>2. \A s \in Sessions : Home[s] # n => row'[s] = row[s] /\ up'[Home[s]] = up[Home[s]]
      BY <1>9, <2>2 DEF Restart, Here
    <3>3. UNCHANGED <<hpc, reg, ctxDone, ka>>
      BY <1>9, Zenon DEF Restart
    <3>4. DownIsQuiet' /\ HandlesHaveBridges' /\ LiveSessionKillable'
      BY <2>1, <3>2, <3>3, Zenon
    <3>5. ASSUME NEW s \in Sessions, hpc[s] = "registered" \/ Bridging(s)
          PROVE  row'[s] = row[s]
      <4>1. hpc[s] \notin {"new", "done", "crashed"}
        BY <3>5, Zenon
      <4>2. Home[s] # n
        BY <2>1, <4>1, Zenon
      <4> QED
        BY <3>2, <4>2, Zenon
    <3>7. RegisteredActive'
      <4>1. \A s \in Sessions : row'[s] # row[s] => row[s] = "active" /\ row'[s] # "none"
        BY <2>2, Zenon
      <4> QED
        BY <3>3, <3>5, <4>1
    <3>8. LiveSessionListed'
      BY <3>3, <3>5
    <3>6. NoOrphanRows'
      BY <2>2, <3>1, <3>2, <3>3, Zenon
    <3> QED
      BY <3>4, <3>6, <3>7, <3>8, Zenon
  <2>3. CASE UNCHANGED row /\ lost' = lost \cup {t \in Here(n) : row[t] = "active"}
    BY <1>9, <2>1, <2>3 DEF Restart, Here
  <2> HIDE DEF TableInv
  <2> QED
    BY <1>9, <2>2, <2>3, Zenon DEF Restart, CleanupOrphanedSessions
<1>10. CASE UNCHANGED vars
  BY <1>10 DEF vars
<1> HIDE DEF TableInv
<1> QED
  BY <1>1, <1>2, <1>3, <1>4, <1>5, <1>6, <1>7, <1>8, <1>9, <1>10, Zenon
     DEF Next, Environment

-----------------------------------------------------------------------------
(* The callers of ConnectionManager.Terminate.                             *)

\* No handler goes back: neither to before its goroutines were spawned nor,
\* once its handle is removed, to where it had one.
Onward ==
    \A s \in Sessions :
        /\ hpc[s] \in Spawned => hpc'[s] \in Spawned
        /\ hpc[s] \in {"mark", "done", "crashed"}
              => hpc'[s] \in {"mark", "done", "crashed"}

(* A step of anyone else keeps what the callers rely on.                   *)
LEMMA CallerFrame ==
  ASSUME CallerInv, Onward, RowsStay, UNCHANGED <<callVars, ctxDone>>, TypeOK
  PROVE  CallerInv'
<1> SUFFICES ASSUME NEW c \in Callers PROVE (InOrder(c) /\ Single(c) /\ Tracked(c))'
  BY DEF CallerInv
<1>1. InOrder(c) /\ Single(c) /\ Tracked(c)
  BY DEF CallerInv
<1>2. doomed[c] \subseteq Sessions
  BY DEF TypeOK
<1> USE DEF Onward, callVars
<1>3. InOrder(c)'
  BY <1>1, Zenon DEF InOrder, RowsStay
<1>4. Single(c)'
  BY <1>1 DEF Single
<1>5. Tracked(c)'
  BY <1>1, <1>2 DEF Tracked
<1> QED
  BY <1>3, <1>4, <1>5

LEMMA CallerStep ==
  ASSUME TypeOK, TableInv, CallerInv, [Next]_vars
  PROVE  CallerInv'
<1>0. doomed \in [Callers -> SUBSET Sessions] /\ row \in [Sessions -> Statuses]
  BY DEF TypeOK
<1>1. ASSUME NEW s \in Sessions, Handler(s) \/ Authorize(s) \/ Deny(s)
      PROVE  CallerInv'
  <2>1. HandlerMoves(s)
    BY <1>1, HandlerSteps
  <2>2. hpc[s] \in Before \ {"registered"} => row[s] = "none"
    BY Zenon DEF TableInv, RegisteredActive
  <2>3. Onward
    BY <2>1, Zenon DEF Onward, HandlerMoves, Alone, Moves, Before, Spawned
  <2>5. RowsStay
    BY <2>1, <2>2 DEF RowsStay, HandlerMoves, Alone, Moves, KeepsRow, Before
  <2>4. UNCHANGED <<callVars, ctxDone>>
    BY <1>1, Zenon DEF Handler, Authorize, Deny, Connect, ConnectFails, OpenShell, OpenShellFails,
       StoreRegister, StoreRegisterFails, ManagerRegister, FirstExit, Drained,
       BridgeDeregister, BridgeMark, bridgeVars, sharedVars
  <2> QED
    BY <2>3, <2>4, <2>5, CallerFrame
<1>2. ASSUME NEW s \in Sessions,
             \/ CopierExit(s) \/ CopierTraffic(s) \/ Keepalive(s)
             \/ ClientMoves(s) \/ BackendMoves(s)
      PROVE  CallerInv'
  <2>0. RowsStay /\ UNCHANGED <<hpc, callVars, ctxDone>> => CallerInv'
    BY CallerFrame DEF Onward
  <2>1. CASE CopierExit(s) \/ CopierTraffic(s)
    <3>1. \E to \in {"copy", "send", "write", "done"} : StdinMoves(s, to) \/ StdoutMoves(s, to)
      BY <2>1, Zenon
         DEF CopierExit, CopierTraffic, StdinReads, StdinSent, StdinReadFails,
             StdinWriteFails, StdoutReads, StdoutWritten, StdoutWriteFails, StdoutReadFails
    <3> QED
      BY <2>0, <3>1 DEF StdinMoves, StdoutMoves, sharedVars, dbVars, RowsStay
  <2>2. CASE Keepalive(s)
    <3>1. ka[s] # "off" => row[s] # "none"
      BY Zenon DEF TableInv, RegisteredActive
    <3>2. RowsStay
      BY <2>2, <3>1, KeepaliveMove, Zenon DEF RowsStay, KeepaliveSteps, Alone, KeepsRow
    <3> QED
      BY <2>2, <2>0, <3>2
         DEF Keepalive, KeepaliveCancelled, KeepaliveTick, KeepalivePong,
             KeepaliveMissed, KeepaliveStamp, KeepaliveClose, KeepaliveMoves
  <2>3. CASE ClientMoves(s) \/ BackendMoves(s)
    BY <2>3, <2>0 DEF ClientMoves, BackendMoves, sharedVars, dbVars, RowsStay
  <2> QED
    BY <1>2, <2>1, <2>2, <2>3
<1>3. ASSUME NEW c \in Callers,
             \/ Kill(c) \/ (\E s \in Sessions : RpcStart(c, s))
             \/ (\E g \in Grants : RevokeStart(c, g))
      PROVE  CallerInv'
  BY <1>3, CallerActs
<1>4. ASSUME NEW n \in Nodes, Crash(n) PROVE CallerInv'
  <2> SUFFICES ASSUME NEW c \in Callers
               PROVE  (InOrder(c) /\ Single(c) /\ Tracked(c))'
    BY DEF CallerInv
  <2>0. InOrder(c) /\ Single(c) /\ Tracked(c)
    BY DEF CallerInv
  <2>7. Onward
    BY <1>4, Zenon DEF Crash, Onward, Spawned
  <2>8. /\ UNCHANGED <<ctxDone, cur, todo, doomed, row>>
        /\ \/ cpc'[c] = cpc[c]
           \/ cpc'[c] = "crashed" /\ cpc[c] \notin {"idle", "done", "notfound"}
    BY <1>4 DEF Crash, dbVars
  <2>1. /\ Onward /\ UNCHANGED <<ctxDone, cur, todo, doomed, row>>
        /\ \/ cpc'[c] = cpc[c]
           \/ cpc'[c] = "crashed" /\ cpc[c] \notin {"idle", "done", "notfound"}
    BY <2>7, <2>8
  <2>3. cpc'[c] = "crashed" => \A s \in doomed[c] :
          \/ s \in todo[c] \/ ctxDone[s] \/ hpc'[s] \in {"mark", "done", "crashed"}
    <3> SUFFICES ASSUME cpc'[c] = "crashed", NEW s \in doomed[c],
                        s \notin todo[c], ~ctxDone[s]
                 PROVE  hpc'[s] \in {"mark", "done", "crashed"}
      OBVIOUS
    <3>1. /\ s \in Sessions /\ Home[s] = At[c] /\ hpc[s] \in Spawned
          /\ (cur[c] = s /\ cpc[c] = "cancel") \/ hpc[s] \in {"mark", "done", "crashed"}
      BY <2>0, <1>0 DEF Tracked
    <3>2. CASE hpc[s] \in {"mark", "done", "crashed"}
      BY <2>1, <3>1, <3>2 DEF Onward
    <3>3. CASE cpc[c] = "cancel"
      <4>1. At[c] = n
        BY <1>4, <3>3, SMTT(30) DEF Crash
      <4>2. hpc'[s] = IF hpc[s] \notin {"new", "done"} THEN "crashed" ELSE hpc[s]
        BY <1>4, <3>1, <4>1, SMTT(30) DEF Crash, Here
      <4> QED
        BY <3>1, <4>2, Zenon DEF Spawned
    <3> QED
      BY <3>1, <3>2, <3>3
  <2>4. InOrder(c)'
    BY <2>0, <2>1, <1>0, SMTT(30) DEF InOrder, Onward
  <2>5. Single(c)'
    <3>1. todo'[c] = todo[c] /\ (cpc'[c] = cpc[c] \/ cpc'[c] = "crashed")
      BY <2>8
    <3>2. /\ cpc[c] \in {"mark", "notfound"} => c \in Rpcs
          /\ c \in Rpcs => \E s \in Sessions \cup {NoSession} : todo[c] \subseteq {s}
          /\ c \in Rpcs /\ cpc[c] \notin {"next", "crashed"} => todo[c] = {}
      BY <2>0 DEF Single
    <3>3. cpc'[c] \in {"mark", "notfound"} => c \in Rpcs
      BY <3>1, <3>2
    <3>4. c \in Rpcs /\ cpc'[c] \notin {"next", "crashed"} => todo'[c] = {}
      BY <3>1, <3>2
    <3>5. c \in Rpcs => \E s \in Sessions \cup {NoSession} : todo'[c] \subseteq {s}
      BY <3>1, <3>2, Zenon
    <3> QED
      BY <3>3, <3>4, <3>5 DEF Single
  <2>6. Tracked(c)'
    BY <2>0, <2>1, <2>3, <1>0 DEF Tracked, Onward
  <2> QED
    BY <2>4, <2>5, <2>6
<1>5. ASSUME NEW n \in Nodes, Restart(n) PROVE CallerInv'
  <2>1. RowsStay
    BY <1>0, <1>5, Zenon DEF Restart, CleanupOrphanedSessions, RowsStay
  <2> QED
    BY <1>5, <2>1, CallerFrame DEF Restart, bridgeVars, Onward
<1>6. CASE UNCHANGED vars
  BY <1>6, CallerFrame DEF vars, bridgeVars, sharedVars, dbVars, Onward, RowsStay
<1> QED
  BY <1>1, <1>2, <1>3, <1>4, <1>5, <1>6 DEF Next, Environment

-----------------------------------------------------------------------------
(* The theorems.                                                           *)

LEMMA InductiveInvariant == Spec => []Inductive
<1>1. Init => Inductive
  <2> SUFFICES ASSUME Init PROVE Inductive
    OBVIOUS
  <2> USE ConstantsAssumption DEF Init
  <2>1. TypeOK
    BY DEF TypeOK, HandlerPCs, Statuses, CallerPCs
  <2>2. SessionInv
    BY Zenon DEF SessionInv, Fresh, PingBudget, CopiersInside, CancelledFirst,
       SealedAfterLastWrite, KillIsReported, Before
  <2>3. TableInv
    BY Zenon DEF TableInv, DownIsQuiet, RegisteredActive, HandlesHaveBridges,
       LiveSessionKillable, LiveSessionListed, NoOrphanRows, Bridging, Before
  <2>4. CallerInv
    BY DEF CallerInv, InOrder, Single, Tracked
  <2> QED
    BY <2>1, <2>2, <2>3, <2>4 DEF Inductive
<1>2. Inductive /\ [Next]_vars => Inductive'
  BY TypeStep, SessionStep, TableStep, CallerStep
     DEF Inductive, SessionInv, CallerInv, CallersInOrder
<1> QED
  BY <1>1, <1>2, PTL DEF Spec

(* The state of handlers, goroutines, tables and callers keeps its type;   *)
(* in particular missedPings never passes maxMiss.                         *)
THEOREM TypeCorrect == Spec => []TypeOK
BY InductiveInvariant, PTL DEF Inductive

(* A session that Bridge serves and nobody has cancelled is always found   *)
(* by ConnectionManager.Terminate on its node, whatever crashes, kills and *)
(* revocations interleave with it.                                         *)
THEOREM LiveSessionsKillable == Spec => []LiveSessionKillable
BY InductiveInvariant, PTL DEF Inductive, TableInv

(* A ConnectionManager only holds handles of Bridges that run on its node: *)
(* no exit, kill or crash leaves one behind.                               *)
THEOREM NoHandleLeaks == Spec => []HandlesHaveBridges
BY InductiveInvariant, PTL DEF Inductive, TableInv

(* The active_sessions row of a session that is being served is 'active'   *)
(* unless a kill or the keepalive loop has stamped it.                     *)
THEOREM LiveSessionsListed == Spec => []LiveSessionListed
BY InductiveInvariant, PTL DEF Inductive, TableInv

(* CleanupOrphanedSessions and the deferred Terminate leave no 'active'    *)
(* row without a handler, unless a database write failed.                  *)
THEOREM OrphansCleaned == Spec => []NoOrphanRows
BY InductiveInvariant, PTL DEF Inductive, TableInv

(* Finalize runs only after the copier that writes the recording exited.   *)
THEOREM RecordingSealedLast == Spec => []SealedAfterLastWrite
BY InductiveInvariant, PTL DEF Inductive, SessionInv

(* When the closing of the connection by a kill is what ended a session,   *)
(* Bridge reports the revocation.                                          *)
THEOREM KillsReported == Spec => []KillIsReported
BY InductiveInvariant, PTL DEF Inductive, SessionInv

(* A kill or revocation that has reported has cancelled every session whose *)
(* handle it could find when it began, or that session had left Bridge.    *)
THEOREM KillsReachHandles == Spec => []KillReachesHandle
<1>1. Inductive => KillReachesHandle
  BY Zenon DEF Inductive, CallerInv, Tracked, KillReachesHandle
<1> QED
  BY <1>1, InductiveInvariant, PTL

-----------------------------------------------------------------------------
(* The refinement of SessionLedger.                                        *)

Busy == {"cancel", "close", "deregister", "mark"}

\* The part of Inductive these proofs look at.
LEMMA LedgerFacts ==
  ASSUME Inductive
  PROVE  /\ hpc \in [Sessions -> HandlerPCs] /\ ctxDone \in [Sessions -> BOOLEAN]
         /\ ka \in [Sessions -> {"off", "select", "ping", "stamp", "close", "done"}]
         /\ row \in [Sessions -> Statuses]
         /\ \A s \in Sessions : hpc[s] \in Before => ka[s] = "off" /\ ~ctxDone[s]
         /\ \A s \in Sessions : hpc[s] \in Before \ {"registered"} => row[s] = "none"
         /\ \A s \in Sessions : ka[s] # "off" => row[s] # "none"
         /\ \A s \in Sessions : ~up[Home[s]] => hpc[s] \in {"new", "done", "crashed"}
         /\ \A c \in Callers : cpc[c] \in Busy =>
                cur[c] \in Sessions /\ hpc[cur[c]] \in Spawned /\ row[cur[c]] # "none"
         /\ \A c \in Callers : cpc[c] \in Busy \ {"cancel"} => ctxDone[cur[c]]
<1>1. /\ hpc \in [Sessions -> HandlerPCs] /\ ctxDone \in [Sessions -> BOOLEAN]
      /\ ka \in [Sessions -> {"off", "select", "ping", "stamp", "close", "done"}]
      /\ row \in [Sessions -> Statuses]
  BY DEF Inductive, TypeOK
<1>2. \A s \in Sessions : hpc[s] \in Before => ka[s] = "off" /\ ~ctxDone[s]
  BY DEF Inductive, SessionInv, Fresh
<1>3. /\ \A s \in Sessions : hpc[s] \in Before \ {"registered"} => row[s] = "none"
      /\ \A s \in Sessions : ka[s] # "off" => row[s] # "none"
      /\ \A s \in Sessions : ~up[Home[s]] => hpc[s] \in {"new", "done", "crashed"}
  BY DEF Inductive, TableInv, RegisteredActive, DownIsQuiet
<1>4. /\ \A c \in Callers : cpc[c] \in Busy =>
            cur[c] \in Sessions /\ hpc[cur[c]] \in Spawned /\ row[cur[c]] # "none"
      /\ \A c \in Callers : cpc[c] \in Busy \ {"cancel"} => ctxDone[cur[c]]
  BY Zenon DEF Inductive, CallerInv, InOrder, Busy
<1> QED
  BY <1>1, <1>2, <1>3, <1>4, Zenon

\* What one step may do to the phase and the entry of one session.
LedgerMove(s) ==
    \/ Phase'[s] = Phase[s] /\ Entry'[s] = Entry[s]
    \/ Phase[s] = "new" /\ Phase'[s] = "over" /\ Entry'[s] \in {Entry[s], "active"}
    \/ Phase[s] = "new" /\ Phase'[s] = "live" /\ Entry'[s] = "active"
    \/ Phase[s] = "live" /\ Phase'[s] = "dropped" /\ Entry'[s] \in {Entry[s], "closed"}
    \/ /\ Phase[s] \in {"dropped", "over"} /\ Phase'[s] = Phase[s]
       /\ Entry[s] = "active" /\ Entry'[s] = "closed"
    \/ /\ Phase[s] \in {"live", "dropped"} /\ Phase'[s] = "over"
       /\ Entry'[s] \in {Entry[s], "closed"}

LEMMA LedgerOne ==
  ASSUME NEW s \in Sessions, Alone(s), LedgerMove(s)
  PROVE  [Ledger!Next]_(Ledger!vars)
<1> DEFINE P == Phase'[s]
           E == Entry'[s]
<1>1. \A t \in Sessions \ {s} : Phase'[t] = Phase[t] /\ Entry'[t] = Entry[t]
  BY Zenon DEF Alone, Phase, Entry, Ended, Bridging
<1>2. /\ Phase = [t \in Sessions |-> Phase[t]] /\ Phase' = [t \in Sessions |-> Phase'[t]]
      /\ Entry = [t \in Sessions |-> Entry[t]] /\ Entry' = [t \in Sessions |-> Entry'[t]]
  BY DEF Phase, Entry
<1>3. Phase' = [Phase EXCEPT ![s] = P] /\ Entry' = [Entry EXCEPT ![s] = E]
  BY <1>1, <1>2
<1>4. /\ P = Phase[s] => Phase' = Phase
      /\ E = Entry[s] => Entry' = Entry
  BY <1>1, <1>2
<1> QED
  BY <1>3, <1>4, Zenon DEF LedgerMove, Ledger!Next, Ledger!vars, Ledger!Refuse, Ledger!Enter,
     Ledger!Drop, Ledger!Close, Ledger!End, Ledger!Move, Ledger!Write

LEMMA LedgerFrame ==
  ASSUME UNCHANGED <<hpc, ctxDone, ka, row>>
  PROVE  UNCHANGED Ledger!vars
BY Zenon DEF Ledger!vars, Phase, Entry, Ended, Bridging

LEMMA LedgerHandler ==
  ASSUME Inductive, NEW s \in Sessions, Handler(s) \/ Authorize(s) \/ Deny(s)
  PROVE  [Ledger!Next]_(Ledger!vars)
<1>1. HandlerMoves(s)
  BY HandlerSteps, Zenon DEF Inductive
<1>2. /\ hpc[s] \in Before \ {"registered"} => row[s] = "none"
      /\ hpc[s] \in Before => ~ctxDone[s] /\ ka[s] = "off"
  BY LedgerFacts, Zenon
<1>3. LedgerMove(s)
  BY <1>1, <1>2, Zenon DEF HandlerMoves, Moves, KeepsRow, KeepsLoop, KeepsContext, Before,
     LedgerMove, Phase, Entry, Ended, Bridging
<1> QED
  BY <1>1, <1>3, LedgerOne DEF HandlerMoves

LEMMA LedgerKeepalive ==
  ASSUME Inductive, NEW s \in Sessions, Keepalive(s)
  PROVE  [Ledger!Next]_(Ledger!vars)
<1>1. KeepaliveSteps(s)
  BY KeepaliveMove, Zenon DEF Inductive
<1>2. /\ hpc[s] \in Before => ka[s] = "off"
      /\ ka[s] # "off" => row[s] # "none"
      /\ hpc[s] \in HandlerPCs
      /\ row[s] \in Statuses
  BY LedgerFacts
<1>3. LedgerMove(s)
  <2>1. CASE KeepsRow(s)
    BY <1>1, <1>2, <2>1, Zenon DEF KeepaliveSteps, KeepsRow, KeepsContext, Idle, LedgerMove,
       Phase, Entry, Ended, Bridging
  <2>2. CASE ~KeepsRow(s)
    BY <1>1, <1>2, <2>2, Zenon DEF KeepaliveSteps, KeepsRow, KeepsContext, Idle, LedgerMove,
       Phase, Entry, Ended, Bridging, Before, HandlerPCs, Statuses
  <2> QED
    BY <2>1, <2>2
<1> QED
  BY <1>1, <1>3, LedgerOne DEF KeepaliveSteps

LEMMA LedgerKill ==
  ASSUME Inductive, NEW c \in Callers, Kill(c)
  PROVE  [Ledger!Next]_(Ledger!vars)
<1>0. /\ ctxDone \in [Sessions -> BOOLEAN] /\ row \in [Sessions -> Statuses]
      /\ cpc[c] \in Busy =>
            cur[c] \in Sessions /\ hpc[cur[c]] \in Spawned /\ row[cur[c]] # "none"
      /\ cpc[c] = "mark" => ctxDone[cur[c]]
  BY LedgerFacts, Zenon DEF Busy
<1> USE DEF goVars, dbVars, callVars, CallerMoves
<1>1. CASE (\E s \in Sessions : Lookup(c, s)) \/ KillClose(c) \/ KillDeregister(c)
             \/ RevokeDone(c)
  BY <1>1, LedgerFrame, Zenon DEF Lookup, KillClose, KillDeregister, RevokeDone
<1>2. CASE KillCancel(c)
  <2>1. cur[c] \in Sessions /\ hpc[cur[c]] \in Spawned
    BY <1>0, <1>2, Zenon DEF KillCancel, Busy
  <2>2. /\ UNCHANGED <<hpc, ka, row>> /\ ctxDone'[cur[c]]
        /\ Alone(cur[c])
    BY <1>0, <1>2, <2>1, Zenon DEF KillCancel, Alone
  <2>3. LedgerMove(cur[c])
    BY <2>1, <2>2, Zenon DEF Spawned, LedgerMove, Phase, Entry, Ended, Bridging
  <2> QED
    BY <2>1, <2>2, <2>3, LedgerOne, Zenon
<1>3. CASE KillMark(c)
  <2>1. /\ cur[c] \in Sessions /\ hpc[cur[c]] \in Spawned /\ ctxDone[cur[c]]
        /\ row[cur[c]] # "none"
    BY <1>0, <1>3, Zenon DEF KillMark, Busy
  <2>2. /\ UNCHANGED <<hpc, ka, ctxDone>> /\ Alone(cur[c])
        /\ row'[cur[c]] \in {row[cur[c]], "terminated-kill"}
    BY <1>0, <1>3, <2>1 DEF KillMark, Terminate, Alone
  <2>3. LedgerMove(cur[c])
    BY <2>1, <2>2, Zenon DEF Spawned, LedgerMove, Phase, Entry, Ended, Bridging
  <2> QED
    BY <2>1, <2>2, <2>3, LedgerOne, Zenon
<1> QED
  BY <1>1, <1>2, <1>3, Zenon DEF Kill

LEMMA LedgerCrash ==
  ASSUME Inductive, NEW n \in Nodes, Crash(n)
  PROVE  [Ledger!Next]_(Ledger!vars)
<1> DEFINE cut == {s \in Here(n) : hpc[s] # "new"}
<1>1. cut \in SUBSET Sessions
  BY DEF Here
<1>2. Phase' = [s \in Sessions |-> IF s \in cut THEN "over" ELSE Phase[s]]
  <2>1. \A s \in Sessions : hpc'[s] = IF s \in cut /\ hpc[s] # "done"
                                      THEN "crashed" ELSE hpc[s]
    BY Zenon DEF Crash
  <2>2. /\ \A s \in Sessions \ Here(n) : ka'[s] = ka[s]
        /\ ctxDone' = ctxDone
    BY Zenon DEF Crash
  <2>3. \A s \in Sessions : Phase'[s] = IF s \in cut THEN "over" ELSE Phase[s]
    BY <2>1, <2>2, Zenon DEF Phase, Ended, Bridging
  <2> HIDE DEF cut
  <2>4. Phase' = [s \in Sessions |-> Phase'[s]]
    BY Zenon DEF Phase
  <2> QED
    BY <2>3, <2>4, Zenon
<1>3. Entry' = Entry
  BY Zenon DEF Crash, Entry, dbVars
<1> HIDE DEF cut
<1> QED
  BY <1>1, <1>2, <1>3, Zenon DEF Ledger!Next, Ledger!CutOff

LEMMA LedgerRestart ==
  ASSUME Inductive, NEW n \in Nodes, Restart(n)
  PROVE  [Ledger!Next]_(Ledger!vars)
<1> DEFINE orphans == {s \in Here(n) : row[s] = "active"}
<1>1. Phase' = Phase
  BY DEF Restart, Phase, Ended, Bridging, bridgeVars, goVars
<1>2. CASE row' = row
  BY <1>1, <1>2, Zenon DEF Ledger!vars, Entry
<1>3. CASE row' = [s \in Sessions |-> IF s \in orphans THEN "terminated" ELSE row[s]]
  <2>1. orphans \in SUBSET Sessions
    BY Zenon DEF Here
  <2>2. \A s \in orphans : Phase[s] = "over" /\ Entry[s] = "active"
    <3> SUFFICES ASSUME NEW s \in orphans
                 PROVE  Phase[s] = "over" /\ Entry[s] = "active"
      OBVIOUS
    <3>1. s \in Sessions /\ ~up[Home[s]] /\ row[s] = "active"
      BY Zenon DEF Restart, Here
    <3>2. hpc[s] \in {"done", "crashed"}
      BY <3>1, LedgerFacts, Zenon DEF Before
    <3> QED
      BY <3>1, <3>2, Zenon DEF Phase, Entry, Ended
  <2>3. Entry' = [s \in Sessions |-> IF s \in orphans THEN "closed" ELSE Entry[s]]
    <3>1. \A s \in Sessions : Entry'[s] = IF s \in orphans THEN "closed" ELSE Entry[s]
      BY <1>3 DEF Entry
    <3>2. Entry' = [s \in Sessions |-> Entry'[s]]
      BY Zenon DEF Entry
    <3> HIDE DEF orphans
    <3> QED
      BY <3>1, <3>2, Zenon
  <2> HIDE DEF orphans
  <2> QED
    BY <1>1, <2>1, <2>2, <2>3, Zenon DEF Ledger!Next, Ledger!Sweep
<1> QED
  BY <1>2, <1>3, Zenon DEF Restart, CleanupOrphanedSessions

LEMMA LedgerStep ==
  ASSUME Inductive, [Next]_vars
  PROVE  [Ledger!Next]_(Ledger!vars)
<1>1. ASSUME NEW s \in Sessions,
             CopierExit(s) \/ CopierTraffic(s) \/ ClientMoves(s) \/ BackendMoves(s)
      PROVE  [Ledger!Next]_(Ledger!vars)
  <2>1. UNCHANGED <<hpc, ctxDone, ka, row>>
    BY <1>1, Zenon DEF CopierExit, CopierTraffic, ClientMoves, BackendMoves, StdinReadFails,
       StdinWriteFails, StdoutWritten, StdoutWriteFails, StdoutReadFails, StdinReads,
       StdinSent, StdoutReads, StdinMoves, StdoutMoves, goVars, sharedVars, dbVars
  <2> QED
    BY <2>1, LedgerFrame
<1>2. ASSUME NEW c \in Callers,
             (\E s \in Sessions : RpcStart(c, s)) \/ (\E g \in Grants : RevokeStart(c, g))
      PROVE  [Ledger!Next]_(Ledger!vars)
  BY <1>2, LedgerFrame, Zenon DEF RpcStart, RevokeStart, CallerMoves, goVars, dbVars
<1>3. CASE UNCHANGED vars
  BY <1>3, LedgerFrame DEF vars, bridgeVars, goVars, sharedVars, dbVars
<1> QED
  BY <1>1, <1>2, <1>3, LedgerHandler, LedgerKeepalive, LedgerKill, LedgerCrash,
     LedgerRestart, Zenon DEF Next, Environment

(* SessionBridge implements SessionLedger: on any number of nodes, under   *)
(* any kills, revocations, crashes, restarts and failed writes, a row of   *)
(* active_sessions is inserted once, is closed only when its session has   *)
(* been cancelled, given up or is over, and is never opened again.         *)
THEOREM LedgerImplemented == Spec => ImplementsLedger
<1>1. Init => Ledger!Init
  BY DEF Init, Ledger!Init, Phase, Entry, Ended, Bridging
<1> QED
  BY <1>1, LedgerStep, InductiveInvariant, PTL DEF Spec, ImplementsLedger, Ledger!Spec
=============================================================================
