------------------------------ MODULE Gateway ------------------------------
(***************************************************************************)
(* One connection from the CLI to the proxy, both ends of it: the checks   *)
(* handleConnection makes before it answers, the one status byte the CLI   *)
(* waits for, the gateway menu and the sessions entered from it, and the   *)
(* disk guard that turns new connections away.                             *)
(*                                                                         *)
(* Bytes typed by the user and bytes of a resize message share the         *)
(* connection, as they do in the CLI.  What happens inside a session is    *)
(* the subject of SessionBridge, inside the admin console of Console.      *)
(***************************************************************************)
EXTENDS Integers, Sequences

CONSTANTS Sizes,      \* [w, h] of the terminal
          MaxServers, \* bound on the servers the menu lists
          MaxInbox    \* bound on the bytes on their way to the proxy

\* A width or a height fits two bytes.
Dim == {n \in Nat : n < 65536}

ASSUME SizesAssumption == Sizes \subseteq [w : Dim, h : Dim]

ASSUME BoundsAssumption == MaxServers \in Nat /\ MaxInbox \in Nat

VARIABLES
    proxy,      \* where handleConnection is
    target,     \* req.Target, reduced to "admin", "gateway" or "server"
    admin,      \* user.Role is security-admin
    handoff,    \* isInteractiveHandoff: the target was chosen from the menu
    servers,    \* len(opts) without the console's entry
    index,      \* the menu's cursor
    silent,     \* the target accepts a connection and never speaks SSH
    deadline,   \* a read deadline is set on the connection
    wire,       \* history: what the proxy wrote, a run of text being one "text"
    client,     \* where RunConnect is
    inbox,      \* bytes sent and not yet read by the proxy
    full, reject,  \* the audit partition, and the guard's flag
    ticked      \* history: the guard has looked since full last changed

\* Where handleConnection, and what it calls, can be.
Places == {"limit", "disk", "read", "auth", "console", "authorize", "dial", "audit", "session",
           "drain", "failed", "query", "queryError", "menu", "anyKey", "closed"}

Written == Seq({"ready", "deny", "text"})
Traffic == Seq(0..255)

conn == <<target, admin, handoff, silent>>
menu == <<servers, index>>
disk == <<full, reject, ticked>>
vars == <<proxy, conn, menu, deadline, wire, client, inbox, disk>>

Init ==
    /\ proxy = "limit" /\ client = "send"
    /\ target \in {"admin", "gateway", "server"} /\ admin \in BOOLEAN
    /\ handoff = FALSE /\ silent = FALSE /\ deadline = FALSE
    /\ servers = 0 /\ index = 0
    /\ wire = <<>> /\ inbox = <<>>
    /\ full \in BOOLEAN /\ reject = FALSE /\ ticked = FALSE

-----------------------------------------------------------------------------
(* What the proxy writes.                                                  *)

Write(x) ==
    wire' = IF x = "text" /\ wire # <<>> /\ wire[Len(wire)] = "text"
              THEN wire ELSE Append(wire, x)

\* From the menu the reason is shown and any key goes back; otherwise the status byte
\* 0x01 is sent and the connection closed.
deny(interactive) ==
    IF interactive THEN Write("text") /\ proxy' = "anyKey"
                   ELSE Write("deny") /\ proxy' = "closed"

\* VARIANT: the status byte is sent in the middle of a terminal session too.
ackReadyAlways(interactive) == Write("ready")

\* The status byte 0x00, except to a CLI that already passes everything through.
ackReady(interactive) == IF interactive THEN Write("text") ELSE Write("ready")

-----------------------------------------------------------------------------
(* handleConnection.                                                       *)

RateLimit ==
    /\ proxy = "limit"
    /\ \/ proxy' = "disk" /\ UNCHANGED wire
       \/ deny(FALSE)
    /\ UNCHANGED <<conn, menu, deadline, client, inbox, disk>>

\* VARIANT: the connection waits for the partition to recover.
CheckDiskWaits ==
    /\ proxy = "disk" /\ ~reject
    /\ proxy' = "read" /\ deadline' = TRUE
    /\ UNCHANGED <<conn, menu, wire, client, inbox, disk>>

CheckDisk ==
    /\ proxy = "disk"
    /\ IF reject THEN deny(FALSE) /\ UNCHANGED deadline
                 ELSE proxy' = "read" /\ deadline' = TRUE /\ UNCHANGED wire
    /\ UNCHANGED <<conn, menu, client, inbox, disk>>

\* VARIANT: the deadline stays.
ReadRequestArmed ==
    /\ proxy = "read" /\ client # "send"
    /\ proxy' = "auth"
    /\ UNCHANGED <<conn, menu, deadline, wire, client, inbox, disk>>

\* The whole request has arrived; the deadline of five seconds is cleared.
ReadRequest ==
    /\ proxy = "read" /\ client # "send"
    /\ proxy' = "auth" /\ deadline' = FALSE
    /\ UNCHANGED <<conn, menu, wire, client, inbox, disk>>

\* It came too late, in part, is too long, or is not JSON: the last is found out when the
\* deadline has been cleared.
ReadRequestFails ==
    /\ proxy = "read"
    /\ deny(FALSE)
    /\ deadline' \in BOOLEAN
    /\ UNCHANGED <<conn, menu, client, inbox, disk>>

\* Authenticate, then the console, the menu or the server, as the request says.
Authenticate ==
    /\ proxy = "auth"
    /\ \/ deny(FALSE)
       \/ target = "admin" /\ IF admin THEN ackReady(FALSE) /\ proxy' = "console"
                                       ELSE deny(FALSE)
       \/ target = "gateway" /\ ackReady(FALSE) /\ proxy' = "query"
       \/ target = "server" /\ proxy' = "authorize" /\ UNCHANGED wire
    /\ UNCHANGED <<conn, menu, deadline, client, inbox, disk>>

\* handleAdminConsole has read its keys and returns: to the menu, if it was chosen there.
ConsoleReturns ==
    /\ proxy = "console"
    /\ proxy' = IF target = "gateway" THEN "query" ELSE "closed"
    /\ Write("text")
    /\ \E n \in 0..Len(inbox) : inbox' = SubSeq(inbox, n + 1, Len(inbox))
    /\ UNCHANGED <<conn, menu, deadline, client, disk>>

-----------------------------------------------------------------------------
(* connectToTarget.                                                        *)

\* Policy, key and fingerprint; then ssh.Dial, whose five seconds bound the TCP
\* connection and not the SSH handshake.
Authorize ==
    /\ proxy = "authorize"
    /\ \/ deny(handoff) /\ UNCHANGED silent
       \/ proxy' = "dial" /\ silent' \in BOOLEAN /\ UNCHANGED wire
    /\ UNCHANGED <<target, admin, handoff, menu, deadline, client, inbox, disk>>

Dial ==
    /\ proxy = "dial" /\ ~silent
    /\ \/ deny(handoff)
       \/ ackReady(handoff) /\ proxy' = "audit"
    /\ UNCHANGED <<conn, menu, deadline, client, inbox, disk>>

\* Without a recording there is no session: too late for a denial, so a direct
\* connection is closed and the menu shown again.
OpenAudit ==
    /\ proxy = "audit"
    /\ proxy' \in {"session", IF handoff THEN "query" ELSE "closed"}
    /\ UNCHANGED <<conn, menu, deadline, wire, client, inbox, disk>>

\* The session passes bytes on to the target, and text to the client.
SessionReads ==
    /\ proxy = "session" /\ inbox # <<>>
    /\ inbox' = Tail(inbox)
    /\ Write("text")
    /\ UNCHANGED <<proxy, conn, menu, deadline, client, disk>>

\* Bridge fails before it copies anything, or its first copier ends and the other is
\* made to by a deadline.
SessionEnds ==
    /\ proxy = "session"
    /\ \/ proxy' = "failed" /\ UNCHANGED deadline
       \/ proxy' = "drain" /\ deadline' = TRUE
    /\ UNCHANGED <<conn, menu, wire, client, inbox, disk>>

\* Both copiers have ended and the deadline is reset; a revoked session is an error.
Drain ==
    /\ proxy = "drain"
    /\ deadline' = FALSE
    /\ proxy' \in {"failed", IF handoff THEN "query" ELSE "closed"}
    /\ UNCHANGED <<conn, menu, wire, client, inbox, disk>>

SessionFailed ==
    /\ proxy = "failed"
    /\ IF handoff THEN proxy' = "anyKey" /\ Write("text")
                  ELSE proxy' = "closed" /\ UNCHANGED wire
    /\ UNCHANGED <<conn, menu, deadline, client, inbox, disk>>

-----------------------------------------------------------------------------
(* readKey and handleGatewayMenu.                                          *)

Esc == 27

\* After ESC readKey waits 50 ms for two more bytes: those that are late are left for
\* the next key.
More ==
    IF inbox[1] # Esc THEN {0} ELSE 0..(IF Len(inbox) < 3 THEN Len(inbox) - 1 ELSE 2)

\* The key it makes of the first byte and n more.
KeyName(n) ==
    CASE inbox[1] = Esc -> IF n = 2 /\ inbox[2] = 91 /\ inbox[3] \in 65..68
                         THEN <<"UP", "DOWN", "RIGHT", "LEFT">>[inbox[3] - 64]
                         ELSE "ESC"
      [] inbox[1] \in {13, 10} -> "ENTER"
      [] inbox[1] \in {127, 8} -> "BACKSPACE"
      [] inbox[1] = 3 -> "CTRL_C"
      [] inbox[1] = 19 -> "CTRL_S"
      [] OTHER -> "CHAR"

readKey(key) ==
    /\ inbox # <<>>
    /\ \E n \in More : KeyName(n) = key /\ inbox' = SubSeq(inbox, n + 2, Len(inbox))

AllKeys == {"UP", "DOWN", "RIGHT", "LEFT", "ESC", "ENTER", "BACKSPACE", "CTRL_C", "CTRL_S", "CHAR"}

\* No byte will come any more.
ReadFails == inbox = <<>> /\ client = "done"

\* The servers the user may reach, the console first for a security-admin.
Entries == servers + IF admin THEN 1 ELSE 0

QueryServers ==
    /\ proxy = "query"
    /\ \/ servers' \in 0..MaxServers /\ index' = 0 /\ proxy' = "menu"
       \/ proxy' = "queryError" /\ UNCHANGED menu
    /\ handoff' = TRUE
    /\ Write("text")
    /\ UNCHANGED <<target, admin, silent, deadline, client, inbox, disk>>

MenuMove ==
    /\ proxy = "menu"
    /\ \/ readKey("UP") /\ index' = IF index > 0 THEN index - 1 ELSE index
       \/ readKey("DOWN") /\ index' = IF index < Entries THEN index + 1 ELSE index
    /\ UNCHANGED <<proxy, conn, servers, deadline, wire, client, disk>>

\* ENTER takes the entry; Ctrl+C and ESC leave.
MenuChoose ==
    /\ proxy = "menu"
    /\ \/ /\ readKey("ENTER")
          /\ proxy' = CASE index = Entries -> "closed"
                        [] admin /\ index = 0 -> "console"
                        [] OTHER -> "authorize"
       \/ (readKey("CTRL_C") \/ readKey("ESC")) /\ proxy' = "closed"
    /\ Write("text")
    /\ UNCHANGED <<conn, menu, deadline, client, disk>>

MenuIgnores ==
    /\ proxy = "menu"
    /\ \E key \in {"RIGHT", "LEFT", "BACKSPACE", "CTRL_S", "CHAR"} : readKey(key)
    /\ UNCHANGED <<proxy, conn, menu, deadline, wire, client, disk>>

\* VARIANT: the menu is drawn again after a failed read.
MenuReadRetried == proxy = "menu" /\ ReadFails /\ UNCHANGED vars

MenuReadFails ==
    /\ proxy = "menu" /\ ReadFails
    /\ proxy' = "closed"
    /\ UNCHANGED <<conn, menu, deadline, wire, client, inbox, disk>>

\* "Press any key to continue...": a key, or the error of a lost connection, is not
\* looked at.  After a failed query the connection is given up.
AnyKey ==
    /\ proxy \in {"anyKey", "queryError"}
    /\ \/ \E key \in AllKeys : readKey(key)
       \/ ReadFails /\ UNCHANGED inbox
    /\ proxy' = IF proxy = "anyKey" THEN "query" ELSE "closed"
    /\ UNCHANGED <<conn, menu, deadline, wire, client, disk>>

-----------------------------------------------------------------------------
(* The CLI.                                                                *)

SendConnectRequest ==
    /\ client = "send"
    /\ client' = "wait"
    /\ UNCHANGED <<proxy, conn, menu, deadline, wire, inbox, disk>>

\* The first byte decides; without one the connection was closed.
WaitReady ==
    /\ client = "wait"
    /\ wire # <<>> \/ proxy = "closed"
    /\ client' = IF wire # <<>> /\ wire[1] = "ready" THEN "pipe" ELSE "done"
    /\ UNCHANGED <<proxy, conn, menu, deadline, wire, inbox, disk>>

Send(bytes) ==
    /\ client = "pipe" /\ Len(inbox) + Len(bytes) <= MaxInbox
    /\ inbox' = inbox \o bytes
    /\ UNCHANGED <<proxy, conn, menu, deadline, wire, client, disk>>

\* The keys that matter to a menu: up, down, ENTER, Ctrl+C and a letter.
Type ==
    \E k \in {<<Esc, 91, 65>>, <<Esc, 91, 66>>, <<13>>, <<3>>, <<97>>} :
        Send(k)

Hi(n) == n \div 256
Lo(n) == n % 256

\* 0x02, then width and height in two bytes each.
SendWindowChange ==
    \E size \in Sizes : Send(<<2, Hi(size.w), Lo(size.w), Hi(size.h), Lo(size.h)>>)

\* RunPipe returns when the proxy has closed; the user may end the CLI at any time.
PipeEnds ==
    /\ client = "pipe" /\ proxy = "closed"
    /\ client' = "done"
    /\ UNCHANGED <<proxy, conn, menu, deadline, wire, inbox, disk>>

Quit ==
    /\ client # "done" /\ client' = "done"
    /\ UNCHANGED <<proxy, conn, menu, deadline, wire, inbox, disk>>

-----------------------------------------------------------------------------
(* The disk guard.                                                         *)

\* The guard is followed for as long as the connection may still ask it.
Arriving == proxy \in {"limit", "disk"}

\* VARIANT: the flag is only refreshed while it is already set.
TickOnlyRecovers ==
    /\ Arriving
    /\ reject' = (reject /\ full) /\ ticked' = TRUE
    /\ UNCHANGED <<proxy, conn, menu, deadline, wire, client, inbox, full>>

\* Every 30 seconds, the first time after 30: usage against the limit.
Tick ==
    /\ Arriving
    /\ reject' = full /\ ticked' = TRUE
    /\ UNCHANGED <<proxy, conn, menu, deadline, wire, client, inbox, full>>

\* The partition crosses the limit, upwards or downwards.
DiskChanges ==
    /\ Arriving
    /\ full' = ~full /\ ticked' = FALSE
    /\ UNCHANGED <<proxy, conn, menu, deadline, wire, client, inbox, reject>>

-----------------------------------------------------------------------------
Handle ==
    \/ RateLimit \/ CheckDisk \/ ReadRequest \/ ReadRequestFails \/ Authenticate
    \/ Authorize \/ Dial \/ OpenAudit \/ SessionReads \/ SessionFailed
    \/ QueryServers \/ MenuMove \/ MenuChoose \/ MenuIgnores \/ MenuReadFails \/ AnyKey

Cli == SendConnectRequest \/ WaitReady \/ PipeEnds

Next ==
    \/ Handle \/ SessionEnds \/ Drain \/ ConsoleReturns
    \/ Cli \/ Type \/ SendWindowChange \/ Quit
    \/ Tick \/ DiskChanges

Spec == Init /\ [][Next]_vars

\* The proxy's goroutine and the CLI go on.  Nobody has to type, and a session or a
\* console may last: when they end is a matter of SessionBridge and Console.
FairSpec == Spec /\ WF_vars(Handle) /\ WF_vars(Cli)

-----------------------------------------------------------------------------
(* Properties.                                                             *)

\* Every variable has its type.
TypeOK ==
    /\ proxy \in Places
    /\ target \in {"admin", "gateway", "server"}
    /\ admin \in BOOLEAN /\ handoff \in BOOLEAN /\ silent \in BOOLEAN /\ deadline \in BOOLEAN
    /\ servers \in 0..MaxServers /\ index \in Nat
    /\ wire \in Written
    /\ client \in {"send", "wait", "pipe", "done"}
    /\ inbox \in Traffic
    /\ full \in BOOLEAN /\ reject \in BOOLEAN /\ ticked \in BOOLEAN

\* The CLI reads one status byte and passes the rest through: the proxy writes exactly
\* one, before anything else, on whichever path the connection was served or refused.
OneStatusByte == \A i \in DOMAIN wire : (wire[i] # "text") <=> (i = 1)

\* No read deadline is left over when a menu waits for a key: readKey retries a timeout,
\* so it would spin.
MenuWaitsQuietly == proxy \in {"menu", "anyKey", "queryError", "console"} => ~deadline

\* opts[index] exists whenever ENTER may choose it.
CursorInRange == proxy = "menu" => index <= Entries

\* Once the guard has looked at a full partition, no connection passes it.
GuardHolds == [][proxy = "disk" /\ proxy' = "read" => ~(full /\ ticked)]_vars

\* A CLI that waits for the status byte gets it, or the end of the connection, unless
\* the target it asked for is silent.
ClientAnswered == (client = "wait") ~> (client # "wait" \/ (proxy = "dial" /\ silent))

\* When the CLI has gone, handleConnection returns from whichever check, message or menu
\* it was in, unless it is waiting for a silent target or inside a session or the console.
GoneEnds ==
    (client = "done") ~> \/ proxy \in {"closed", "console", "session", "drain"}
                         \/ proxy = "dial" /\ silent

=============================================================================
