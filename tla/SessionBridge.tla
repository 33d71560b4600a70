---------------------------- MODULE SessionBridge ----------------------------
(***************************************************************************)
(* The life of a bridged SSH session on the ZTTP proxy nodes: the handler  *)
(* goroutine that runs connectToTarget and Bridge, the two copy goroutines *)
(* and the keepalive goroutine it spawns, the in-memory ConnectionManager  *)
(* of each node, the active_sessions table, the callers that terminate     *)
(* sessions (the gRPC kill switch and the access revocation of the admin   *)
(* console), and the crash and restart of a node.                          *)
(*                                                                         *)
(* One element of Sessions is one call of connectToTarget, named by the    *)
(* UUID it draws.  One element of Rpcs (Admins) is one call of             *)
(* TerminateSession (one revocation made by assignServers).                *)
(***************************************************************************)
EXTENDS Naturals, FiniteSets

CONSTANTS Sessions,    \* session UUIDs
          Nodes,       \* proxy nodes, each with its own PROXY_NODE_IP
          Grants,      \* (user, server) pairs
          Home,        \* the node a session's client is connected to
          GrantOf,     \* the (user, server) pair of a session
          Rpcs,        \* calls of the gRPC TerminateSession
          Admins,      \* revocations from the admin console
          At,          \* the node a call runs on
          MaxMiss,     \* maxMiss of runKeepalive
          MaxCrashes,  \* bound on node crashes
          MaxDbFails,  \* bound on failed database writes
          NoSession

Callers == Rpcs \cup Admins

ASSUME ConstantsAssumption ==
    /\ Home \in [Sessions -> Nodes]
    /\ GrantOf \in [Sessions -> Grants]
    /\ At \in [Callers -> Nodes]
    /\ Rpcs \cap Admins = {}
    /\ NoSession \notin Sessions
    /\ MaxMiss \in Nat \ {0}
    /\ MaxCrashes \in Nat
    /\ MaxDbFails \in Nat

VARIABLES
    hpc,      \* where the handler goroutine of a session is
    stdin,    \* the client-to-backend copier
    stdout,   \* the backend-to-client copier
    ka,       \* the keepalive goroutine
    missed,   \* missedPings of the keepalive goroutine
    backend,  \* the SSH connection to the target server
    client,   \* the developer's end of the TLS connection
    ctxDone,  \* whether the Bridge's context is cancelled
    audit,    \* the session's audit recording
    result,   \* what Bridge returned
    endedBy,  \* history: what made the first copier exit
    up,       \* whether a node is running
    reg,      \* ConnectionManager.sessions of a node
    row,      \* active_sessions.status of a session
    granted,  \* rows of user_server_grants
    lost,     \* history: sessions with a failed database write
    cpc,      \* where a caller is
    cur,      \* the session a caller is terminating
    todo,     \* sessions a caller has still to terminate
    doomed,   \* history: of those, the ones registered when the call began
    crashes,
    dbFails

goVars   == <<stdin, stdout, ka, missed>>
peerVars == <<backend, client>>
outVars  == <<audit, result, endedBy>>
nodeVars == <<up, reg>>
dbVars   == <<row, granted, lost, dbFails>>
callVars == <<cpc, cur, todo, doomed>>
\* All of a session but hpc, and all that sessions share.
bridgeVars == <<goVars, peerVars, ctxDone, outVars>>
sharedVars == <<nodeVars, dbVars, callVars, crashes>>
vars == <<hpc, bridgeVars, sharedVars>>

HandlerPCs == {"new", "authorized", "dialed", "register", "registered",
               "stream", "drain", "deregister", "mark", "done", "crashed"}
Statuses   == {"none", "active", "terminated", "terminated-timeout",
               "terminated-kill"}
CallerPCs  == {"idle", "next", "cancel", "close", "deregister", "mark",
               "done", "notfound", "crashed"}

Ended(s)     == hpc[s] \in {"done", "crashed"}
\* Bridge has spawned its goroutines and has not returned.
Bridging(s)  == hpc[s] \in {"stream", "drain", "deregister", "mark"}
Copying(s)   == hpc[s] \in {"stream", "drain"}
\* Reads from the backend's shell return EOF or an error.
ShellOver(s) == backend[s] \in {"exited", "dead", "killed", "reaped"}
\* The SSH transport is gone: a request on it fails.
LinkOver(s)  == backend[s] \in {"dead", "killed", "reaped"}

Goto(s, from, to) ==
    /\ hpc[s] = from
    /\ hpc' = [hpc EXCEPT ![s] = to]

-----------------------------------------------------------------------------
(* Store.Terminate: one unconditional UPDATE of the status column.  It may *)
(* fail, and every caller drops the error.                                 *)

Terminate(s, status) ==
    \/ /\ row' = [row EXCEPT ![s] = status]
       /\ UNCHANGED <<granted, lost, dbFails>>
    \/ /\ dbFails < MaxDbFails
       /\ dbFails' = dbFails + 1
       /\ lost' = lost \cup {s}
       /\ UNCHANGED <<row, granted>>

-----------------------------------------------------------------------------
Init ==
    /\ hpc      = [s \in Sessions |-> "new"]
    /\ stdin    = [s \in Sessions |-> "off"]
    /\ stdout   = [s \in Sessions |-> "off"]
    /\ ka       = [s \in Sessions |-> "off"]
    /\ missed   = [s \in Sessions |-> 0]
    /\ backend  = [s \in Sessions |-> "none"]
    /\ client   = [s \in Sessions |-> "reading"]
    /\ ctxDone  = [s \in Sessions |-> FALSE]
    /\ audit    = [s \in Sessions |-> "none"]
    /\ result   = [s \in Sessions |-> "none"]
    /\ endedBy  = [s \in Sessions |-> "none"]
    /\ up       = [n \in Nodes |-> TRUE]
    /\ reg      = [n \in Nodes |-> {}]
    /\ row      = [s \in Sessions |-> "none"]
    /\ granted  = Grants
    /\ lost     = {}
    /\ cpc      = [c \in Callers |-> "idle"]
    /\ cur      = [c \in Callers |-> NoSession]
    /\ todo     = [c \in Callers |-> {}]
    /\ doomed   = [c \in Callers |-> {}]
    /\ crashes  = 0
    /\ dbFails  = 0

-----------------------------------------------------------------------------
(* connectToTarget up to the call of Bridge.                               *)

Authorize(s) ==
    /\ up[Home[s]] /\ GrantOf[s] \in granted
    /\ Goto(s, "new", "authorized")
    /\ UNCHANGED <<bridgeVars, sharedVars>>

\* No policy row matches, or the query fails.
Deny(s) ==
    /\ up[Home[s]]
    /\ Goto(s, "new", "done")
    /\ UNCHANGED <<bridgeVars, sharedVars>>

\* Vault key, host fingerprint, ssh.Dial, ackReady and the audit writer.
Connect(s) ==
    /\ Goto(s, "authorized", "dialed")
    /\ backend' = [backend EXCEPT ![s] = "up"]
    /\ audit'   = [audit EXCEPT ![s] = "open"]
    /\ UNCHANGED <<goVars, client, ctxDone, result, endedBy, sharedVars>>

\* Any of those steps fails; a connection already dialed is closed again.
ConnectFails(s) ==
    /\ Goto(s, "authorized", "done")
    /\ UNCHANGED <<bridgeVars, sharedVars>>

-----------------------------------------------------------------------------
(* Bridge.                                                                 *)

OpenShell(s) ==
    /\ Goto(s, "dialed", "register")
    /\ UNCHANGED <<bridgeVars, sharedVars>>

\* The deferred sshSess.Close ends the shell; the SSH connection stays open.
CloseShell(s) == backend' = [backend EXCEPT ![s] = IF @ = "up" THEN "exited" ELSE @]

\* Bridge returns an error before anything is registered, and the deferred
\* Finalize of connectToTarget seals the recording.
BridgeFails(s) ==
    /\ CloseShell(s)
    /\ audit'  = [audit EXCEPT ![s] = "final"]
    /\ result' = [result EXCEPT ![s] = "error"]
    /\ UNCHANGED endedBy

OpenShellFails(s) ==
    /\ Goto(s, "dialed", "done")
    /\ BridgeFails(s)
    /\ UNCHANGED <<goVars, client, ctxDone, sharedVars>>

StoreRegister(s) ==
    /\ Goto(s, "register", "registered")
    /\ row' = [row EXCEPT ![s] = "active"]
    /\ UNCHANGED <<bridgeVars, nodeVars, granted, lost, dbFails, callVars,
                   crashes>>

\* Variant: after an error the INSERT is tried again.
StoreRegisterRetried(s) ==
    /\ dbFails < MaxDbFails
    /\ Goto(s, "register", "register")
    /\ \E status \in {"none", "active"} : row' = [row EXCEPT ![s] = status]
    /\ lost' = lost \cup {s}
    /\ dbFails' = dbFails + 1
    /\ UNCHANGED <<bridgeVars, nodeVars, granted, callVars, crashes>>

\* The INSERT reports an error; the row may have been written all the same.
StoreRegisterFails(s) ==
    /\ dbFails < MaxDbFails
    /\ Goto(s, "register", "done")
    /\ BridgeFails(s)
    /\ \E status \in {"none", "active"} : row' = [row EXCEPT ![s] = status]
    /\ lost' = lost \cup {s}
    /\ dbFails' = dbFails + 1
    /\ UNCHANGED <<goVars, client, ctxDone, nodeVars, granted, callVars,
                   crashes>>

\* ConnManager.Register, then the three goroutines start.
ManagerRegister(s) ==
    /\ Goto(s, "registered", "stream")
    /\ reg'    = [reg EXCEPT ![Home[s]] = @ \cup {s}]
    /\ stdin'  = [stdin EXCEPT ![s] = "copy"]
    /\ stdout' = [stdout EXCEPT ![s] = "copy"]
    /\ ka'     = [ka EXCEPT ![s] = "select"]
    /\ UNCHANGED <<missed, peerVars, ctxDone, outVars, up, dbVars, callVars,
                   crashes>>

\* <-errCh returns: one copier has exited.  The read deadline on the client
\* connection is set, which is what hpc = "drain" means to the other copier.
FirstExit(s) ==
    /\ stdin[s] = "done" \/ stdout[s] = "done"
    /\ Goto(s, "stream", "drain")
    /\ UNCHANGED <<bridgeVars, sharedVars>>

\* Variant: wg.Wait is missing.
DrainedNoWait(s) ==
    /\ stdin[s] = "done" \/ stdout[s] = "done"
    /\ Goto(s, "drain", "deregister")
    /\ audit'  = [audit EXCEPT ![s] = "final"]
    /\ result' = [result EXCEPT ![s] = IF ctxDone[s] THEN "revoked" ELSE "clean"]
    /\ UNCHANGED <<goVars, peerVars, ctxDone, endedBy, sharedVars>>

\* Variant: ctx.Err() is not consulted.
DrainedIgnoresCtx(s) ==
    /\ stdin[s] = "done" /\ stdout[s] = "done"
    /\ Goto(s, "drain", "deregister")
    /\ audit'  = [audit EXCEPT ![s] = "final"]
    /\ result' = [result EXCEPT ![s] = "clean"]
    /\ UNCHANGED <<goVars, peerVars, ctxDone, endedBy, sharedVars>>

\* wg.Wait returns, the recording is sealed, ctx.Err() picks the result.
Drained(s) ==
    /\ stdin[s] = "done" /\ stdout[s] = "done"
    /\ Goto(s, "drain", "deregister")
    /\ audit'  = [audit EXCEPT ![s] = "final"]
    /\ result' = [result EXCEPT ![s] = IF ctxDone[s] THEN "revoked" ELSE "clean"]
    /\ UNCHANGED <<goVars, peerVars, ctxDone, endedBy, sharedVars>>

\* Variant: the deferred Deregister is missing.
BridgeKeepsHandle(s) ==
    /\ Goto(s, "deregister", "mark")
    /\ UNCHANGED <<bridgeVars, sharedVars>>

\* The deferred calls run last in, first out.
BridgeDeregister(s) ==
    /\ Goto(s, "deregister", "mark")
    /\ reg' = [reg EXCEPT ![Home[s]] = @ \ {s}]
    /\ UNCHANGED <<bridgeVars, up, dbVars, callVars, crashes>>

BridgeMark(s) ==
    /\ Goto(s, "mark", "done")
    /\ Terminate(s, "terminated")
    /\ CloseShell(s)
    /\ UNCHANGED <<goVars, client, ctxDone, outVars, nodeVars, callVars, crashes>>

-----------------------------------------------------------------------------
(* The copy goroutines: io.CopyBuffer alternates a read and a write.       *)

\* What made the first of the two copiers exit.
NoteEnd(s, cause) ==
    endedBy' = [endedBy EXCEPT ![s] = IF @ = "none" THEN cause ELSE @]

BackendCause(s) == IF backend[s] = "killed" THEN "kill" ELSE "backend"

StdinMoves(s, to) ==
    /\ stdin' = [stdin EXCEPT ![s] = to]
    /\ UNCHANGED <<hpc, stdout, ka, missed, peerVars, ctxDone, audit, result,
                   sharedVars>>

\* A keystroke is read; the write to the shell may block on its window.
StdinReads(s) ==
    /\ stdin[s] = "copy" /\ client[s] # "gone" /\ hpc[s] = "stream"
    /\ StdinMoves(s, "send") /\ UNCHANGED endedBy

StdinSent(s) ==
    /\ stdin[s] = "send" /\ backend[s] = "up"
    /\ StdinMoves(s, "copy") /\ UNCHANGED endedBy

\* Variant: no read deadline is set once the other copier has exited.
StdinReadNoDeadline(s) ==
    /\ stdin[s] = "copy" /\ client[s] = "gone"
    /\ StdinMoves(s, "done") /\ NoteEnd(s, "client")

\* The read of the client connection returns EOF, or its deadline passed.
StdinReadFails(s) ==
    /\ stdin[s] = "copy"
    /\ client[s] = "gone" \/ hpc[s] = "drain"
    /\ StdinMoves(s, "done") /\ NoteEnd(s, "client")

StdinWriteFails(s) ==
    /\ stdin[s] = "send" /\ ShellOver(s)
    /\ StdinMoves(s, "done") /\ NoteEnd(s, BackendCause(s))

StdoutMoves(s, to) ==
    /\ stdout' = [stdout EXCEPT ![s] = to]
    /\ UNCHANGED <<hpc, stdin, ka, missed, peerVars, ctxDone, audit, result,
                   sharedVars>>

StdoutReads(s) ==
    /\ stdout[s] = "copy" /\ backend[s] = "up"
    /\ StdoutMoves(s, "write") /\ UNCHANGED endedBy

\* The MultiWriter has written the client and then the recording.
StdoutWritten(s) ==
    /\ stdout[s] = "write" /\ client[s] = "reading"
    /\ StdoutMoves(s, "copy") /\ UNCHANGED endedBy

StdoutWriteFails(s) ==
    /\ stdout[s] = "write" /\ client[s] = "gone"
    /\ StdoutMoves(s, "done") /\ NoteEnd(s, "client")

StdoutReadFails(s) ==
    /\ stdout[s] = "copy" /\ ShellOver(s)
    /\ StdoutMoves(s, "done") /\ NoteEnd(s, BackendCause(s))

-----------------------------------------------------------------------------
(* runKeepalive.  The select takes either ready case, so a tick may win    *)
(* over a cancelled context.  SendRequest waits for the reply: only a dead *)
(* transport makes it fail.                                                *)

KeepaliveMoves(s, to) ==
    /\ ka' = [ka EXCEPT ![s] = to]
    /\ UNCHANGED <<hpc, stdin, stdout, client, ctxDone, outVars, nodeVars,
                   callVars, crashes>>

KeepaliveCancelled(s) ==
    /\ ka[s] = "select" /\ ctxDone[s]
    /\ KeepaliveMoves(s, "done")
    /\ UNCHANGED <<missed, backend, dbVars>>

KeepaliveTick(s) ==
    /\ ka[s] = "select"
    /\ KeepaliveMoves(s, "ping")
    /\ UNCHANGED <<missed, backend, dbVars>>

KeepalivePong(s) ==
    /\ ka[s] = "ping" /\ backend[s] \in {"up", "exited"}
    /\ missed' = [missed EXCEPT ![s] = 0]
    /\ KeepaliveMoves(s, "select")
    /\ UNCHANGED <<backend, dbVars>>

\* Variant: missed pings are logged but not counted.
KeepaliveNeverCounts(s) ==
    /\ ka[s] = "ping" /\ LinkOver(s)
    /\ KeepaliveMoves(s, "select")
    /\ UNCHANGED <<missed, backend, dbVars>>

KeepaliveMissed(s) ==
    /\ ka[s] = "ping" /\ LinkOver(s)
    /\ missed' = [missed EXCEPT ![s] = @ + 1]
    /\ KeepaliveMoves(s, IF missed[s] + 1 >= MaxMiss THEN "stamp" ELSE "select")
    /\ UNCHANGED <<backend, dbVars>>

KeepaliveStamp(s) ==
    /\ ka[s] = "stamp"
    /\ Terminate(s, "terminated-timeout")
    /\ KeepaliveMoves(s, "close")
    /\ UNCHANGED <<missed, backend>>

\* client.Close().
CloseLink(s, how) ==
    backend' = [backend EXCEPT ![s] = IF LinkOver(s) THEN @ ELSE how]

KeepaliveClose(s) ==
    /\ ka[s] = "close"
    /\ CloseLink(s, "reaped")
    /\ KeepaliveMoves(s, "done")
    /\ UNCHANGED <<missed, dbVars>>

-----------------------------------------------------------------------------
(* The peers.  The client may stop reading, resume or disconnect; the      *)
(* shell may exit while the SSH connection stays open; the connection may  *)
(* hang (no error, no reply), recover, or break.                           *)

ClientMoves(s) ==
    /\ Copying(s)
    /\ client[s] # "gone"
    /\ \E c \in {"reading", "stalled", "gone"} \ {client[s]} :
           client' = [client EXCEPT ![s] = c]
    /\ UNCHANGED <<hpc, goVars, backend, ctxDone, outVars, sharedVars>>

BackendSteps == ({"up"} \X {"exited", "hung", "dead"})
                   \cup ({"hung"} \X {"up", "dead"}) \cup {<<"exited", "dead">>}

BackendMoves(s) ==
    /\ Copying(s) \/ ka[s] \notin {"off", "done"}
    /\ \E b \in {"up", "exited", "hung", "dead"} :
           /\ <<backend[s], b>> \in BackendSteps
           /\ backend' = [backend EXCEPT ![s] = b]
    /\ UNCHANGED <<hpc, goVars, client, ctxDone, outVars, sharedVars>>

-----------------------------------------------------------------------------
(* ConnectionManager.Terminate and its two callers: TerminateSession of    *)
(* the gRPC server, which then writes the status, and assignServers, which *)
(* runs it over the sessions it selected and ignores its error.            *)

CallerMoves(c, to) ==
    /\ cpc' = [cpc EXCEPT ![c] = to]
    /\ UNCHANGED <<hpc, goVars, client, outVars, up, crashes>>

RpcStart(c, s) ==
    /\ c \in Rpcs /\ cpc[c] = "idle" /\ up[At[c]]
    /\ hpc[s] \notin {"new", "authorized"}  \* the UUID has been drawn
    /\ todo' = [todo EXCEPT ![c] = {s}]
    /\ doomed' = [doomed EXCEPT ![c] = {s} \cap reg[At[c]]]
    /\ CallerMoves(c, "next")
    /\ UNCHANGED <<backend, ctxDone, reg, dbVars, cur>>

\* DELETE of the grant, then SELECT of the active sessions it covered.
RevokeStart(c, g) ==
    /\ c \in Admins /\ cpc[c] = "idle" /\ up[At[c]]
    /\ g \in granted
    /\ granted' = granted \ {g}
    /\ todo' = [todo EXCEPT ![c] =
                   {s \in Sessions : GrantOf[s] = g /\ row[s] = "active"}]
    /\ doomed' = [doomed EXCEPT ![c] = todo'[c] \cap reg[At[c]]]
    /\ CallerMoves(c, "next")
    /\ UNCHANGED <<backend, ctxDone, reg, row, lost, dbFails, cur>>

\* The lookup under the read lock.
Lookup(c, s) ==
    /\ cpc[c] = "next" /\ s \in todo[c]
    /\ todo' = [todo EXCEPT ![c] = @ \ {s}]
    /\ cur' = [cur EXCEPT ![c] = s]
    /\ CallerMoves(c, IF s \in reg[At[c]] THEN "cancel"
                      ELSE IF c \in Rpcs THEN "notfound" ELSE "next")
    /\ UNCHANGED <<backend, ctxDone, reg, dbVars, doomed>>

\* Variant: the handle's Cancel is not called.
KillSkipsCancel(c) ==
    /\ cpc[c] = "cancel"
    /\ CallerMoves(c, "close")
    /\ UNCHANGED <<backend, ctxDone, reg, dbVars, cur, todo, doomed>>

KillCancel(c) ==
    /\ cpc[c] = "cancel"
    /\ ctxDone' = [ctxDone EXCEPT ![cur[c]] = TRUE]
    /\ CallerMoves(c, "close")
    /\ UNCHANGED <<backend, reg, dbVars, cur, todo, doomed>>

\* Variant: the handle's CloseConns closes nothing.
KillSkipsClose(c) ==
    /\ cpc[c] = "close"
    /\ CallerMoves(c, "deregister")
    /\ UNCHANGED <<backend, ctxDone, reg, dbVars, cur, todo, doomed>>

\* CloseConns closes the SSH client only.
KillClose(c) ==
    /\ cpc[c] = "close"
    /\ CloseLink(cur[c], "killed")
    /\ CallerMoves(c, "deregister")
    /\ UNCHANGED <<ctxDone, reg, dbVars, cur, todo, doomed>>

KillDeregister(c) ==
    /\ cpc[c] = "deregister"
    /\ reg' = [reg EXCEPT ![At[c]] = @ \ {cur[c]}]
    /\ CallerMoves(c, IF c \in Rpcs THEN "mark" ELSE "next")
    /\ UNCHANGED <<backend, ctxDone, dbVars, cur, todo, doomed>>

KillMark(c) ==
    /\ cpc[c] = "mark"
    /\ Terminate(cur[c], "terminated-kill")
    /\ CallerMoves(c, "done")
    /\ UNCHANGED <<backend, ctxDone, reg, cur, todo, doomed>>

\* Variant: the loop over the selected sessions is left early.
RevokeStopsEarly(c) ==
    /\ cpc[c] = "next"
    /\ CallerMoves(c, "done")
    /\ UNCHANGED <<backend, ctxDone, reg, dbVars, cur, todo, doomed>>

RevokeDone(c) ==
    /\ cpc[c] = "next" /\ todo[c] = {}
    /\ CallerMoves(c, "done")
    /\ UNCHANGED <<backend, ctxDone, reg, dbVars, cur, todo, doomed>>

-----------------------------------------------------------------------------
(* The process dies, by a crash or by the shutdown at the end of main,     *)
(* which does not wait for sessions.  Everything in memory is gone; the    *)
(* rows stay.  At the next start CleanupOrphanedSessions runs before the   *)
(* node listens; its failure is only logged.                               *)

Here(n) == {s \in Sessions : Home[s] = n}

Crash(n) ==
    /\ up[n] /\ crashes < MaxCrashes
    /\ crashes' = crashes + 1
    /\ up'  = [up EXCEPT ![n] = FALSE]
    /\ reg' = [reg EXCEPT ![n] = {}]
    /\ hpc' = [s \in Sessions |->
                 IF s \in Here(n) /\ hpc[s] \notin {"new", "done"}
                 THEN "crashed" ELSE hpc[s]]
    /\ stdin'  = [s \in Sessions |-> IF s \in Here(n) THEN "off" ELSE stdin[s]]
    /\ stdout' = [s \in Sessions |-> IF s \in Here(n) THEN "off" ELSE stdout[s]]
    /\ ka'     = [s \in Sessions |-> IF s \in Here(n) THEN "off" ELSE ka[s]]
    /\ backend' = [s \in Sessions |->
                     IF s \in Here(n) /\ backend[s] # "none" /\ ~LinkOver(s)
                     THEN "dead" ELSE backend[s]]
    /\ cpc' = [c \in Callers |->
                 IF At[c] = n /\ cpc[c] \notin {"idle", "done", "notfound"}
                 THEN "crashed" ELSE cpc[c]]
    /\ UNCHANGED <<missed, client, ctxDone, outVars, dbVars, cur, todo,
                   doomed>>

\* Variant: the UPDATE has no condition on proxy_node_ip.
CleanupEveryNode(n) ==
    /\ row' = [s \in Sessions |->
                 IF row[s] = "active" THEN "terminated" ELSE row[s]]
    /\ UNCHANGED <<granted, lost, dbFails>>

\* Variant: a node starts without the cleanup.
CleanupSkipped(n) == UNCHANGED dbVars

CleanupOrphanedSessions(n) ==
    LET orphans == {s \in Here(n) : row[s] = "active"} IN
    \/ /\ row' = [s \in Sessions |->
                   IF s \in orphans THEN "terminated" ELSE row[s]]
       /\ UNCHANGED <<granted, lost, dbFails>>
    \/ /\ dbFails < MaxDbFails
       /\ dbFails' = dbFails + 1
       /\ lost' = lost \cup orphans
       /\ UNCHANGED <<row, granted>>

Restart(n) ==
    /\ ~up[n]
    /\ CleanupOrphanedSessions(n)
    /\ up' = [up EXCEPT ![n] = TRUE]
    /\ UNCHANGED <<hpc, bridgeVars, reg, callVars, crashes>>

-----------------------------------------------------------------------------
Handler(s) ==
    \/ Connect(s) \/ ConnectFails(s)
    \/ OpenShell(s) \/ OpenShellFails(s)
    \/ StoreRegister(s) \/ StoreRegisterFails(s) \/ ManagerRegister(s)
    \/ FirstExit(s) \/ Drained(s) \/ BridgeDeregister(s) \/ BridgeMark(s)

\* The exits of the copiers, and the writes that a reading client accepts.
CopierExit(s) ==
    \/ StdinReadFails(s) \/ StdinWriteFails(s)
    \/ StdoutWritten(s) \/ StdoutWriteFails(s) \/ StdoutReadFails(s)

CopierTraffic(s) == StdinReads(s) \/ StdinSent(s) \/ StdoutReads(s)

Keepalive(s) ==
    \/ KeepaliveCancelled(s) \/ KeepaliveTick(s) \/ KeepalivePong(s)
    \/ KeepaliveMissed(s) \/ KeepaliveStamp(s) \/ KeepaliveClose(s)

Kill(c) ==
    \/ \E s \in Sessions : Lookup(c, s)
    \/ KillCancel(c) \/ KillClose(c) \/ KillDeregister(c) \/ KillMark(c)
    \/ RevokeDone(c)

Environment(s) ==
    \/ Authorize(s) \/ Deny(s)
    \/ CopierTraffic(s) \/ ClientMoves(s) \/ BackendMoves(s)

Next ==
    \/ \E s \in Sessions :
          Handler(s) \/ CopierExit(s) \/ Keepalive(s) \/ Environment(s)
    \/ \E c \in Callers :
          \/ Kill(c)
          \/ \E s \in Sessions : RpcStart(c, s)
          \/ \E g \in Grants : RevokeStart(c, g)
    \/ \E n \in Nodes : Crash(n) \/ Restart(n)

Spec == Init /\ [][Next]_vars

(* The Go scheduler runs every goroutine that can move, and a blocked read *)
(* or write returns once its socket allows it; a write to a client that    *)
(* reads again and again completes, as the kernel buffer drains (hence SF).*)
(* The peers, the start of a session or of a call and the crash of a node  *)
(* are never forced.                                                       *)
Fairness ==
    /\ \A s \in Sessions :
          /\ WF_vars(Handler(s))
          /\ WF_vars(StdinReadFails(s) \/ StdinWriteFails(s))
          /\ SF_vars(StdoutWritten(s) \/ StdoutWriteFails(s)
                       \/ StdoutReadFails(s))
          /\ WF_vars(Keepalive(s))
    /\ \A c \in Callers : WF_vars(Kill(c))

FairSpec == Spec /\ Fairness

-----------------------------------------------------------------------------
(* The types of the state.                                                 *)
TypeOK ==
    /\ hpc     \in [Sessions -> HandlerPCs]
    /\ stdin   \in [Sessions -> {"off", "copy", "send", "done"}]
    /\ stdout  \in [Sessions -> {"off", "copy", "write", "done"}]
    /\ ka      \in [Sessions -> {"off", "select", "ping", "stamp", "close", "done"}]
    /\ missed  \in [Sessions -> 0..MaxMiss]
    /\ backend \in [Sessions -> {"none", "up", "exited", "hung", "dead",
                                 "killed", "reaped"}]
    /\ client  \in [Sessions -> {"reading", "stalled", "gone"}]
    /\ ctxDone \in [Sessions -> BOOLEAN]
    /\ audit   \in [Sessions -> {"none", "open", "final"}]
    /\ result  \in [Sessions -> {"none", "clean", "revoked", "error"}]
    /\ endedBy \in [Sessions -> {"none", "client", "backend", "kill"}]
    /\ up      \in [Nodes -> BOOLEAN]
    /\ reg     \in [Nodes -> SUBSET Sessions]
    /\ row     \in [Sessions -> Statuses]
    /\ granted \subseteq Grants
    /\ lost    \subseteq Sessions
    /\ cpc     \in [Callers -> CallerPCs]
    /\ cur     \in [Callers -> Sessions \cup {NoSession}]
    /\ todo    \in [Callers -> SUBSET Sessions]
    /\ doomed  \in [Callers -> SUBSET Sessions]
    /\ crashes \in 0..MaxCrashes
    /\ dbFails \in 0..MaxDbFails

(* A session that Bridge is serving can be killed: until its context is    *)
(* cancelled its handle is in the ConnectionManager of its own node, so a  *)
(* lookup by the kill switch finds it.                                     *)
LiveSessionKillable ==
    \A s \in Sessions :
        hpc[s] \in {"stream", "drain", "deregister"} /\ ~ctxDone[s]
            => s \in reg[Home[s]]

(* Nothing is left in a ConnectionManager: a handle there belongs to a     *)
(* Bridge that is still running on that node.                              *)
HandlesHaveBridges ==
    \A n \in Nodes : \A s \in reg[n] :
        Home[s] = n /\ hpc[s] \in {"stream", "drain", "deregister"}

(* The dashboard and the revocation see every session that is being        *)
(* served: its row is 'active' unless a kill has cancelled it or its       *)
(* keepalive goroutine has given it up; in both cases the recorded status  *)
(* is a terminated one.  A restart of another node changes nothing here.   *)
LiveSessionListed ==
    \A s \in Sessions :
        hpc[s] = "registered" \/ Bridging(s) =>
            \/ row[s] = "active"
            \/ row[s] = "terminated-kill" /\ ctxDone[s]
            \/ row[s] = "terminated-timeout" /\ ka[s] \in {"close", "done"}

(* No orphans: on a running node an 'active' row belongs to a handler that *)
(* is between the INSERT and its deferred UPDATE, unless a database write  *)
(* for that session failed.  After a crash this is what the cleanup at     *)
(* startup restores.                                                       *)
NoOrphanRows ==
    \A s \in Sessions :
        row[s] = "active" /\ up[Home[s]] /\ s \notin lost
            => hpc[s] = "registered" \/ Bridging(s)

(* The recording is sealed (its SHA-256 taken) only when the copier that   *)
(* writes it has exited, so the hash covers everything that was written.   *)
SealedAfterLastWrite ==
    \A s \in Sessions : audit[s] = "final" => stdout[s] \in {"off", "done"}

(* A session that the kill switch ended is reported as revoked: the        *)
(* context is cancelled before the connection is closed, so Bridge never   *)
(* returns nil when the closing of the connection is what ended it.        *)
KillIsReported ==
    \A s \in Sessions : endedBy[s] = "kill" => result[s] \in {"none", "revoked"}

(* A call reaches what was there when it began: a session whose handle was *)
(* registered on the caller's node when the RPC came in, or when the       *)
(* revocation read the table, is cancelled when the call reports, or had   *)
(* left Bridge by itself.                                                  *)
KillReachesHandle ==
    \A c \in Callers : cpc[c] \in {"done", "notfound"} =>
        \A s \in doomed[c] : ctxDone[s] \/ hpc[s] \in {"mark", "done", "crashed"}

(* A kill ends the session: once the context is cancelled, Bridge and its  *)
(* handler finish, unless the client has stopped reading, which leaves the *)
(* stdout copier in a write that nothing interrupts.                       *)
KillEndsSession ==
    \A s \in Sessions : ctxDone[s] ~> (Ended(s) \/ client[s] = "stalled")

(* When the shell exits or its connection breaks the user gets back to the *)
(* gateway without pressing a key: the read deadline frees the stdin       *)
(* copier and Bridge returns.                                              *)
ShellEndReturns ==
    \A s \in Sessions :
        (hpc[s] = "stream" /\ ShellOver(s))
            ~> (Ended(s) \/ client[s] = "stalled")

(* A kill leaves no goroutine behind: the keepalive loop of a cancelled    *)
(* session stops.                                                          *)
KillStopsKeepalive ==
    \A s \in Sessions : ctxDone[s] ~> ka[s] \in {"off", "done"}

-----------------------------------------------------------------------------
(* The sessions and their rows as an observer of the table sees them.      *)

\* Served from its INSERT to its deferred UPDATE; dropped once a kill has
\* cancelled it or its keepalive goroutine has stamped it.
Phase == [s \in Sessions |->
            IF Ended(s) THEN "over"
            ELSE IF ~(hpc[s] = "registered" \/ Bridging(s)) THEN "new"
            ELSE IF ctxDone[s] \/ ka[s] \in {"close", "done"} THEN "dropped"
            ELSE "live"]

Entry == [s \in Sessions |->
            IF row[s] \in {"none", "active"} THEN row[s] ELSE "closed"]

Ledger == INSTANCE SessionLedger WITH phase <- Phase, entry <- Entry

(* Goroutines, kills, revocations, crashes, restarts and failed writes     *)
(* together treat the table as the ledger: a row is inserted once, is      *)
(* closed only when its session was cancelled, given up or is over, stays  *)
(* closed, and a restart closes rows of finished sessions only.            *)
ImplementsLedger == Ledger!Spec

-----------------------------------------------------------------------------
(* Statements of the code's comments and messages that it does not keep.   *)

(* server.go: "Update DB status to terminated-kill": the row of a session  *)
(* whose kill succeeded says so.                                           *)
KillStatusKept ==
    \A c \in Rpcs : cpc[c] = "done" /\ cur[c] \notin lost
        => row[cur[c]] = "terminated-kill"

(* admin_tui.go: "Active sessions for these servers were instantly         *)
(* killed": when a revocation reports, none of the sessions it is about is *)
(* still served.                                                           *)
RevokedSessionsKilled ==
    \A c \in Admins, s \in Sessions :
        cpc[c] = "done" /\ GrantOf[s] \notin granted /\ hpc[s] = "stream"
            => ctxDone[s]
=============================================================================
