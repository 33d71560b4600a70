------------------------------ MODULE Console ------------------------------
(***************************************************************************)
(* One administrator's console: the loop of handleAdminConsole that reads  *)
(* a key and moves between menus, forms and lists; the viewers, which read *)
(* the same connection, one of them from a second goroutine; and the       *)
(* provisioning of a server, which writes Vault, then the database, then   *)
(* the machine.  The other consoles appear by what they do to the tables   *)
(* and to Vault.                                                           *)
(*                                                                         *)
(* A text field is reduced to whether the form may be submitted, a list to *)
(* its length.  A local of the code that is always assigned before it is   *)
(* read again goes back to its first value when the screen is left.  What  *)
(* a save of access does statement by statement is the subject of Access.  *)
(***************************************************************************)
EXTENDS Integers, FiniteSets

CONSTANTS Users,    \* usernames: numbers, in alphabetical order
          Hosts,    \* hostnames that may be typed
          NoUser, NoHost,
          MaxList,  \* bound on the lists a query returns
          MaxKeys   \* bound on the keys generated

ASSUME ConsoleAssumption ==
    /\ Users \subseteq Nat /\ Users # {} /\ IsFiniteSet(Users)
    /\ NoUser \notin Users /\ NoHost \notin Hosts
    /\ MaxList \in Nat \ {0} /\ MaxKeys \in Nat

VARIABLES
    st,         \* state, "closed", a step of a provisioning or a viewer
    idx,        \* menuIndex
    focus,      \* the focus of the form on the screen
    complete,   \* its fields allow ENTER (CTRL_S) to submit it
    listed,     \* the length of roles, serverOpts or auditSessions
    auditList,  \* the length of auditServers
    name,       \* uForm.username
    target,     \* createdUserID
    ticksOf,    \* history: the user serverOpts was read for
    says,       \* createdUserMsg is "... successfully Auto-Provisioned!"
    host, key, how,  \* what is being provisioned
    back,       \* where a viewer returns to
    watcher,    \* the goroutine of playTTYRec that waits for Ctrl+C
    stopCh,     \* whether its channel of capacity one is full
    gone,       \* the connection is broken
    users, servers,  \* the tables
    vault,      \* the key stored for a hostname
    installed,  \* the keys in a machine's authorized_keys
    adding,     \* hosts that other consoles have put into Vault and not yet inserted
    nextKey

screen  == <<idx, focus, complete, listed, auditList>>
form    == <<name, target, ticksOf>>
prov    == <<host, key, how>>
viewer  == <<back, watcher, stopCh>>
tables  == <<users, servers>>
secrets == <<vault, installed, adding, nextKey>>
vars    == <<st, screen, form, says, prov, viewer, gone, tables, secrets>>

NoKey   == 0
OwnKey  == 1    \* an administrator's own key, on every machine from the start
Keys    == OwnKey..(MaxKeys + 1)

Menus   == {"Main", "Method", "Role", "SelectUser", "Assign", "AuditServers",
            "AuditSessions", "Choice"}
Forms   == {"AddUser", "AddServer", "Auto"}
Screens == Menus \cup Forms \cup {"Paste", "Summary", "ViewUsers", "ViewServers"}
Viewers == {"text", "play", "playEnd", "flush"}
Steps   == {"put", "insert", "install"}

Init ==
    /\ st = "Main" /\ idx = 0 /\ focus = 0 /\ complete = FALSE
    /\ listed = 0 /\ auditList = 0
    /\ name = NoUser /\ target = NoUser /\ ticksOf = NoUser
    /\ says = FALSE
    /\ host = NoHost /\ key = NoKey /\ how = "none"
    /\ back = "none" /\ watcher = "off" /\ stopCh = FALSE
    /\ gone = FALSE
    /\ users \in {{u} : u \in Users}
    /\ servers = {}
    /\ vault = [h \in Hosts |-> NoKey]
    /\ installed = [h \in Hosts |-> {OwnKey}]
    /\ adding = {} /\ nextKey = OwnKey + 1

-----------------------------------------------------------------------------
(* Moving about.                                                           *)

\* The user at position i of SELECT ... ORDER BY username.
Nth(S, i) == CHOOSE u \in S : Cardinality({v \in S : v < u}) = i

\* The last entry of the menu on the screen, given the users the query returned.
LastEntry(rows) ==
    CASE st = "Main"          -> 6
      [] st = "Method"        -> 3
      [] st = "Choice"        -> 2
      [] st = "Role"          -> listed - 1
      [] st = "SelectUser"    -> Cardinality(rows)
      [] st = "Assign"        -> listed + 1
      [] st = "AuditServers"  -> auditList + 1
      [] st = "AuditSessions" -> listed

LastField == CASE st = "AddUser" -> 4 [] st = "AddServer" -> 5 [] st = "Auto" -> 3

\* The users read again for every key; a failed query gives none.
Rows == {users, {}}

\* A menu starts at its first entry.  A form starts empty; focus and complete have
\* their first values while no form is on the screen.
Goto(s) == st' = s /\ idx' = 0 /\ focus' = 0 /\ complete' = FALSE
Local   == UNCHANGED <<prov, viewer, gone, tables, secrets>>

\* VARIANT: one entry too many can be reached.
DownTooFar ==
    /\ st \in Menus
    /\ \E rows \in Rows : idx <= LastEntry(rows)
    /\ idx' = idx + 1
    /\ UNCHANGED <<st, focus, complete, listed, auditList, form, says>> /\ Local

Down ==
    /\ st \in Menus
    /\ \E rows \in Rows : idx < LastEntry(rows)
    /\ idx' = idx + 1
    /\ UNCHANGED <<st, focus, complete, listed, auditList, form, says>> /\ Local

Up ==
    /\ st \in Menus /\ idx > 0
    /\ idx' = idx - 1
    /\ UNCHANGED <<st, focus, complete, listed, auditList, form, says>> /\ Local

\* UP, DOWN, and ENTER on a text field.
MoveFocus ==
    /\ st \in Forms
    /\ focus' \in {focus - 1, focus + 1} \cap 0..LastField
    /\ UNCHANGED <<st, idx, complete, listed, auditList, form, says>> /\ Local

\* A character or BACKSPACE changes a field, and with it whether all are filled
\* (and the passwords match, or the pasted key is long enough).
Edit ==
    /\ \/ st = "Paste"
       \/ st \in Forms /\ focus < LastField - 1
    /\ complete' \in BOOLEAN
    /\ UNCHANGED <<st, idx, focus, listed, auditList, form, says>> /\ Local

\* ENTER in the main menu: a form starts empty, a list is read.
MainEnter ==
    /\ st = "Main" /\ idx < 6
    /\ Goto(CASE idx = 0 -> "AddUser"    [] idx = 1 -> "AddServer"
              [] idx = 2 -> "SelectUser" [] idx = 3 -> "ViewUsers"
              [] idx = 4 -> "ViewServers" [] idx = 5 -> "AuditServers")
    /\ name' = IF idx = 0 THEN NoUser ELSE name
    /\ auditList' \in IF idx = 5 THEN 0..MaxList ELSE {auditList}
    /\ UNCHANGED <<listed, target, ticksOf, says>> /\ Local

\* [ Back ], and ENTER on a screen without choices.
Return ==
    /\ \/ st \in {"Summary", "ViewUsers", "ViewServers"}
       \/ st = "Method" /\ idx = 3
       \/ st \in Forms /\ focus = LastField
       \/ st = "SelectUser" /\ \E rows \in Rows : idx = Cardinality(rows)
       \/ st = "AuditServers" /\ idx = auditList + 1
    /\ Goto("Main")
    /\ listed' = 0 /\ auditList' = 0
    /\ UNCHANGED <<form, says>> /\ Local

AuditReturn ==
    /\ \/ st = "AuditSessions" /\ idx = listed /\ Goto("AuditServers") /\ listed' = 0
       \/ st = "Choice" /\ idx = 2 /\ Goto("AuditSessions") /\ UNCHANGED listed
    /\ UNCHANGED <<auditList, form, says>> /\ Local

-----------------------------------------------------------------------------
(* Users and their access.                                                 *)

\* [ Confirm ] of the new user's form: queryRoles always lists 'unassigned'.
SubmitUser ==
    /\ st = "AddUser" /\ focus = 3 /\ complete
    /\ Goto("Role")
    /\ name' \in Users
    /\ listed' \in 1..MaxList
    /\ UNCHANGED <<auditList, target, ticksOf, says>> /\ Local

\* createUser: the name is UNIQUE; then queryServers, empty if it fails.
CreateUser ==
    /\ st = "Role" /\ name \notin users
    /\ Goto("Assign")
    /\ users' = users \cup {name}
    /\ target' = name /\ ticksOf' = name
    /\ listed' \in 0..MaxList
    /\ says' = FALSE
    /\ UNCHANGED <<auditList, name, prov, viewer, gone, servers, secrets>>

CreateUserFails ==
    /\ st = "Role"
    /\ Goto("Summary")
    /\ says' = FALSE
    /\ UNCHANGED <<listed, auditList, form>> /\ Local

\* VARIANT: the name on the screen is not replaced.
SelectUserKeepsName ==
    /\ st = "SelectUser" /\ idx < Cardinality(users)
    /\ Goto("Assign")
    /\ target' = Nth(users, idx) /\ ticksOf' = target'
    /\ listed' \in 0..MaxList
    /\ UNCHANGED <<auditList, name, says>> /\ Local

\* ENTER on a user: the list is read again and the position looked up in it.
SelectUser ==
    /\ st = "SelectUser" /\ idx < Cardinality(users)
    /\ Goto("Assign")
    /\ target' = Nth(users, idx) /\ name' = target' /\ ticksOf' = target'
    /\ listed' \in 0..MaxList
    /\ UNCHANGED <<auditList, says>> /\ Local

\* assignServers succeeds or fails; either way its message replaces the last.
SaveAccess ==
    /\ st = "Assign" /\ idx = listed
    /\ Goto("Summary")
    /\ says' = FALSE
    /\ UNCHANGED <<listed, auditList, form>> /\ Local

SkipAccess ==
    /\ st = "Assign" /\ idx = listed + 1
    /\ Goto("Summary")
    /\ UNCHANGED <<listed, auditList, form, says>> /\ Local

-----------------------------------------------------------------------------
(* A new server: Vault, then the database, then the machine.               *)

SubmitServer ==
    /\ st = "AddServer" /\ focus = 4 /\ complete
    /\ Goto("Method")
    /\ host' \in Hosts
    /\ UNCHANGED <<listed, auditList, form, says, key, how, viewer, gone,
                   tables, secrets>>

\* The cursor stays where it was: the next two screens have no menu.
ChooseMethod ==
    /\ st = "Method" /\ idx \in 0..1
    /\ st' = IF idx = 0 THEN "Auto" ELSE "Paste"
    /\ UNCHANGED <<screen, form, says>> /\ Local

\* A key pair is generated, or the pasted one is taken.
TakeKey ==
    /\ IF how' = "paste" THEN key' = OwnKey /\ UNCHANGED nextKey
                         ELSE key' = nextKey /\ nextKey' = nextKey + 1
    /\ key' \in Keys

StartSave ==
    /\ \/ st = "Method" /\ idx = 2 /\ how' = "manual"
       \/ st = "Auto" /\ focus = 2 /\ complete /\ how' = "auto"
       \/ st = "Paste" /\ complete /\ how' = "paste"
    /\ TakeKey
    /\ st' = "put"
    /\ UNCHANGED <<screen, form, says, host, viewer, gone, tables, vault, installed, adding>>

\* The summary, with the user's form and the server list emptied.
Summarise(s) ==
    /\ Goto("Summary")
    /\ says' = s
    /\ name' = NoUser /\ listed' = 0
    /\ key' = NoKey /\ how' = "none"
    /\ UNCHANGED <<auditList, target, ticksOf, host, viewer, gone, users, adding, nextKey>>

\* VARIANT: the row is inserted before the key is stored.
PutSecretLast ==
    /\ st = "put"
    /\ host \notin servers
    /\ servers' = servers \cup {host}
    /\ st' = "insert"
    /\ UNCHANGED <<screen, form, says, prov, viewer, gone, users, secrets>>

\* PutSecret replaces whatever is stored for the hostname.
PutSecret ==
    /\ st = "put"
    /\ vault' = [vault EXCEPT ![host] = key]
    /\ st' = "insert"
    /\ UNCHANGED <<screen, form, says, prov, viewer, gone, tables, installed, adding, nextKey>>

\* The hostname is UNIQUE.
InsertServer ==
    /\ st = "insert" /\ host \notin servers
    /\ servers' = servers \cup {host}
    /\ IF how = "auto"
          THEN st' = "install" /\ UNCHANGED <<screen, form, says, prov, viewer, gone, users, adding, nextKey>>
          ELSE Summarise(FALSE)
    /\ UNCHANGED <<vault, installed>>

\* No key could be made or parsed, Vault or the database refused, or the name is taken.
SaveFails ==
    /\ st \in {"put", "insert"}
    /\ Summarise(FALSE)
    /\ UNCHANGED <<servers, vault, installed>>

\* VARIANT: the exit status of the remote command is not looked at.
InstallKeyUnchecked ==
    /\ st = "install"
    /\ \E ok \in BOOLEAN :
          /\ Summarise(ok)
          /\ installed' \in {installed, [installed EXCEPT ![host] = @ \cup {key}]}
    /\ UNCHANGED <<servers, vault>>

\* autoProvisionKey appends the key; it can fail before or after it has.
InstallKey ==
    /\ st = "install"
    /\ \E ok \in BOOLEAN :
          /\ Summarise(ok)
          /\ installed' \in {[installed EXCEPT ![host] = @ \cup {key}]} \cup
                            IF ok THEN {} ELSE {installed}
    /\ UNCHANGED <<servers, vault>>

-----------------------------------------------------------------------------
(* The viewers of the audit logs.                                          *)

SelectAudit ==
    /\ \/ /\ st = "AuditServers" /\ idx \in 1..auditList
          /\ Goto("AuditSessions") /\ listed' \in 0..MaxList
       \/ /\ st = "AuditSessions" /\ idx < listed
          /\ Goto("Choice") /\ UNCHANGED listed
    /\ UNCHANGED <<auditList, form, says>> /\ Local

\* streamAdminLog, streamTextLog, and playTTYRec without its file, end in waitForCtrlC.
OpenText ==
    /\ \/ st = "AuditServers" /\ idx = 0 /\ back' = "AuditServers"
       \/ st = "Choice" /\ idx \in 0..1 /\ back' = "AuditSessions"
    /\ st' = "text"
    /\ UNCHANGED <<screen, form, says, prov, watcher, stopCh, gone, tables, secrets>>

TextCtrlC ==
    /\ st = "text" /\ ~gone
    /\ st' = "flush"
    /\ UNCHANGED <<screen, form, says, prov, viewer, gone, tables, secrets>>

TextFails ==
    /\ st = "text" /\ gone
    /\ Goto(back) /\ back' = "none"
    /\ UNCHANGED <<listed, auditList, form, says, prov, watcher, stopCh, gone, tables, secrets>>

\* playTTYRec starts a goroutine that reads the connection.
OpenRecording ==
    /\ st = "Choice" /\ idx = 1
    /\ st' = "play" /\ back' = "AuditSessions" /\ watcher' = "poll" /\ stopCh' = FALSE
    /\ UNCHANGED <<screen, form, says, prov, gone, tables, secrets>>

\* The goroutine looks at its context, which the return of playTTYRec cancels.
WatcherPoll ==
    /\ watcher = "poll"
    /\ watcher' = IF st \in Viewers THEN "read" ELSE "off"
    /\ UNCHANGED <<st, screen, form, says, prov, back, stopCh, gone, tables, secrets>>

\* Ctrl+C, or any other byte, a timeout, or an error: only the first is acted on.
WatcherRead ==
    /\ watcher = "read"
    /\ watcher' \in IF gone THEN {"poll"} ELSE {"poll", "got"}
    /\ UNCHANGED <<st, screen, form, says, prov, back, stopCh, gone, tables, secrets>>

\* VARIANT: the channel has no buffer, and the press is dropped while frames play.
WatcherSendUnbuffered ==
    /\ watcher = "got"
    /\ stopCh' = (st = "playEnd") /\ watcher' = "off"
    /\ UNCHANGED <<st, screen, form, says, prov, back, gone, tables, secrets>>

\* VARIANT: the goroutine goes on reading.
WatcherSendGoesOn ==
    /\ watcher = "got"
    /\ stopCh' = TRUE /\ watcher' = "poll"
    /\ UNCHANGED <<st, screen, form, says, prov, back, gone, tables, secrets>>

WatcherSend ==
    /\ watcher = "got"
    /\ stopCh' = TRUE /\ watcher' = "off"
    /\ UNCHANGED <<st, screen, form, says, prov, back, gone, tables, secrets>>

\* The last frame has been written; the function now waits for the channel.
PlayEnd ==
    /\ st = "play"
    /\ st' = "playEnd"
    /\ UNCHANGED <<screen, form, says, prov, viewer, gone, tables, secrets>>

PlayStop ==
    /\ st \in {"play", "playEnd"} /\ stopCh
    /\ stopCh' = FALSE
    /\ st' = "flush"
    /\ UNCHANGED <<screen, form, says, prov, back, watcher, gone, tables, secrets>>

\* flushConn reads until its deadline of 50 ms; the viewer returns.
Flush ==
    /\ st = "flush"
    /\ Goto(back) /\ back' = "none"
    /\ UNCHANGED <<listed, auditList, form, says, prov, watcher, stopCh, gone, tables, secrets>>

-----------------------------------------------------------------------------
(* The console's life, its connection and the other consoles.              *)

\* handleAdminConsole returns, and its locals are gone.
Close ==
    /\ Goto("closed")
    /\ listed' = 0 /\ auditList' = 0
    /\ name' = NoUser /\ target' = NoUser /\ ticksOf' = NoUser /\ says' = FALSE
    /\ host' = NoHost
    /\ UNCHANGED <<key, how, viewer, gone, tables, secrets>>

\* [ Back ] of the main menu, and CTRL_C on any screen.
Leave == st \in Screens /\ Close

\* The console is chosen again from the gateway menu.
Reopen ==
    /\ st = "closed" /\ ~gone
    /\ Goto("Main")
    /\ UNCHANGED <<listed, auditList, form, says>> /\ Local

Disconnect ==
    /\ ~gone /\ gone' = TRUE
    /\ UNCHANGED <<st, screen, form, says, prov, viewer, tables, secrets>>

\* VARIANT: every read error is taken for a timeout.
ReadFailsRetried == st \in Screens /\ gone /\ UNCHANGED vars

\* readKey retries a timeout and reports any other error: the console returns.
ReadFails == st \in Screens /\ gone /\ Close

Others ==
    /\ \/ /\ \E u \in Users \ users : users' = users \cup {u}
          /\ UNCHANGED <<servers, vault, adding, nextKey>>
       \/ /\ nextKey \in Keys
          /\ \E h \in Hosts : /\ vault' = [vault EXCEPT ![h] = nextKey]
                             /\ adding' = adding \cup {h}
          /\ nextKey' = nextKey + 1
          /\ UNCHANGED tables
       \/ /\ \E h \in adding : /\ servers' = servers \cup {h}
                              /\ adding' = adding \ {h}
          /\ UNCHANGED <<users, vault, nextKey>>
    /\ UNCHANGED <<st, screen, form, says, prov, viewer, gone, installed>>

KeyPress ==
    /\ ~gone
    /\ \/ Up \/ Down \/ MoveFocus \/ Edit \/ MainEnter \/ Return \/ AuditReturn \/ Leave
       \/ SubmitUser \/ CreateUser \/ CreateUserFails \/ SelectUser \/ SaveAccess \/ SkipAccess
       \/ SubmitServer \/ ChooseMethod \/ StartSave
       \/ SelectAudit \/ OpenText \/ OpenRecording

\* What the program does without a key.
Proceed ==
    \/ PutSecret \/ InsertServer \/ SaveFails \/ InstallKey
    \/ TextFails \/ PlayEnd \/ PlayStop \/ Flush \/ ReadFails

Watch == WatcherPoll \/ WatcherRead \/ WatcherSend

Next == KeyPress \/ Proceed \/ Watch \/ TextCtrlC \/ Reopen \/ Disconnect \/ Others

Spec == Init /\ [][Next]_vars

\* The two goroutines go on running; nobody has to press a key.
FairSpec == Spec /\ WF_vars(Proceed) /\ WF_vars(Watch)

-----------------------------------------------------------------------------
(* Properties.                                                             *)

\* Every variable has its type.
TypeOK ==
    /\ st \in Screens \cup Viewers \cup Steps \cup {"closed"}
    /\ idx \in Nat /\ focus \in 0..5 /\ complete \in BOOLEAN
    /\ listed \in 0..MaxList /\ auditList \in 0..MaxList
    /\ name \in Users \cup {NoUser} /\ target \in Users \cup {NoUser}
    /\ ticksOf \in Users \cup {NoUser}
    /\ says \in BOOLEAN
    /\ host \in Hosts \cup {NoHost} /\ key \in Keys \cup {NoKey}
    /\ how \in {"none", "manual", "auto", "paste"}
    /\ back \in {"none", "AuditServers", "AuditSessions"}
    /\ watcher \in {"off", "poll", "read", "got"} /\ stopCh \in BOOLEAN
    /\ gone \in BOOLEAN
    /\ users \in SUBSET Users /\ servers \in SUBSET Hosts
    /\ vault \in [Hosts -> Keys \cup {NoKey}]
    /\ installed \in [Hosts -> SUBSET Keys]
    /\ adding \in SUBSET Hosts /\ nextKey \in Nat

\* The cursor is on an entry of the list on the screen, so roles[menuIndex],
\* serverOpts[menuIndex], auditServers[menuIndex-1] and auditSessions[menuIndex] exist,
\* although the lists are replaced by queries that may fail or find more.
CursorInRange == st \in Menus => idx <= LastEntry(users)

\* The access form saves for the user it names, and its ticks are that user's:
\* createdUserID, uForm.username and serverOpts, set on different paths, agree.
FormIsOfOneUser ==
    st = "Assign" => target \in users /\ name = target /\ ticksOf = target

\* The goroutine that watches for Ctrl+C never outlives its playback: it cannot take a
\* key, or set a read deadline, meant for the menus or for flushConn.
OneReader == watcher # "off" => st \in {"play", "playEnd"}

\* A server in the table has a key in Vault, whichever step of whichever console failed.
RowsHaveKeys == \A h \in servers : vault[h] # NoKey

\* The step that shows "successfully Auto-Provisioned!" leaves the key that a session will
\* fetch from Vault on the machine, unless another console has since stored a key for the
\* same hostname, which it may before its INSERT fails.
ProvisionedWorks ==
    [][st = "install" /\ st' = "Summary" /\ says' =>
           vault'[host] \in installed'[host] \/ vault'[host] > key]_vars

\* A Ctrl+C read during a playback is never lost: the console comes back.
CtrlCStops == (watcher = "got") ~> (st \in Screens \cup {"closed"})

Playing == st \in {"play", "playEnd"} /\ ~stopCh /\ watcher # "got"

\* A console whose connection is broken ends, unless a recording is being played.
GoneEnds == (gone /\ ~Playing) ~> (st = "closed")
=============================================================================
