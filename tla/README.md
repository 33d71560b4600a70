# A TLA+ model of the ZTTP proxy

ZTTP is an SSH bastion: a developer's CLI opens a TLS connection to a proxy node,
the node authenticates the user, checks the access rules, fetches the target's key
from Vault, dials the target and copies bytes between the two ends until the session
ends or somebody kills it.  This directory holds TLA+ specifications of the parts of
the proxy where the order of events matters, TLC configurations that check small
instances of them, and TLAPS proofs that hold for every size.

## 1. The system's parts

| Part | Source | State it owns | Operations |
|---|---|---|---|
| Connection pipeline | `internal/proxy/accept.go` | the goroutine's position | `AcceptLoop`, `handleConnection`, `connectToTarget`, `readConnectRequest`, `deny`, `ackReady` |
| Session bridge | `internal/proxy/bridge.go` | two copier goroutines, a context, deferred clean-ups | `Bridge` |
| Keepalive loop | `internal/proxy/keepalive.go` | `missedPings` | `runKeepalive` |
| Kill switch | `internal/killswitch/` | `ConnectionManager.sessions` | `Register`, `Deregister`, `Terminate`, the RPC `TerminateSession`, the client |
| Session table | `internal/session/` | table `active_sessions` | `Register`, `Terminate`, `CleanupOrphanedSessions`, lists |
| Authenticator | `internal/auth/` | `users.failed_attempts`, `users.locked_until` | `Authenticate` |
| IP rate limiter | `internal/ratelimit/` | maps `limiters` and `expiry` | `Allow`, `Cleanup` |
| Policy engine, gateway menu | `internal/rbac/rbac.go`, `internal/proxy/gateway_tui.go` | tables `policies`, `servers`, `user_server_grants` (read) | `Authorize`, `queryAccessibleServers` |
| Admin console | `internal/proxy/admin_tui.go` | a menu state machine; writes `users`, `policies`, `servers`, `user_server_grants` | `createUser`, `assignServers`, `generateAndSaveServer`, views |
| Command filter | `internal/proxy/cmdfilter.go`, `internal/rbac/commands.go` | the line being typed | `Write`, `IsCommandAllowed` |
| Recording, disk guard, admin log | `internal/audit/` | files, the flag `reject` | `Write`, `Finalize`, `monitor`, `Log` |
| Vault client | `internal/vault/` | token, key material | `FetchPrivateKey`, `PutSecret`, renewal, `Zero` |
| CLI, configuration, health, migrations | `internal/cli/`, `internal/config/`, `internal/health/`, `db/` | - | - |

How they interact: the pipeline passes the gates rate limiter, disk guard,
authenticator, policy engine, Vault and SSH dial in this order and then runs
`Bridge`.  `Bridge` writes `active_sessions`, then registers a handle in the
node's `ConnectionManager`.  Kills arrive from two sides: the gRPC server of the node,
and the admin console when it deletes a grant.  A kill cancels the context, closes
the backend connection and removes the handle, while the copiers, the keepalive loop
and the deferred clean-ups of the same session are running.

What makes it hard: up to five goroutines touch one session; the `status` column has
three writers that do not look at the old value; the registry is in memory and the
table is not, so a crash separates them; reads happen before slow operations (bcrypt,
a dial, a human in front of a form) and are used after them; errors of several
database calls are dropped.  `PROJECT.json` lists each such place under `hazards`.

## 2. Modules

| Module | Models | Checked with |
|---|---|---|
| `SessionBridge` | `connectToTarget`, `Bridge`, copiers, keepalive loop, `ConnectionManager`, `active_sessions`, RPC kill, revocation, crash and restart | `MCSessionBridge`, four `.cfg` |
| `SessionLedger` | the promise of the session table: what may happen to a session and its entry | by refinement |
| `SessionInvariant`, `SessionBridgeProofs` | the inductive invariant of `SessionBridge`; the proofs of its invariants and that it implements `SessionLedger` | tlapm |
| `Auth` | concurrent calls of `Authenticate` on the `users` rows | `MCAuth`, two `.cfg` |
| `AuthProofs` | proofs about it | tlapm |
| `TokenBucket` | the promise of the rate limiter: one bucket per address | by refinement |
| `RateLimit` | `IPRateLimiter.Allow` and `Cleanup` | `MCRateLimit`, `RateLimit.cfg` |
| `RateLimitProofs` | its invariants, and that it implements `TokenBucket` | tlapm |
| `Access` | the access tables, the three queries over them, the consoles that edit them | `MCAccess`, two `.cfg` |
| `AccessProofs` | proofs about it | tlapm |
| `Console` | one administrator's console: every screen, the viewers with their second goroutine, provisioning across Vault, database and machine | `MCConsole`, `Console.cfg` |
| `ConsoleProofs` | proofs about it | tlapm |
| `Gateway` | one connection with both its ends: `handleConnection`, `connectToTarget`, the gateway menu, the CLI, the disk guard | `MCGateway`, `Gateway.cfg` |
| `GatewayProofs` | proofs about it | tlapm |
| `Vault` | the Vault client: the token and `renewLoop`, the fetch of a key and a fingerprint, `PutSecret`, `Zero`, the host key check | `MCVault`, `Vault.cfg` |
| `VaultProofs` | proofs about it | tlapm |

Definitions named as a `VARIANT` in a comment are deliberately wrong versions of the
definition that follows them.  No specification uses them; each is there so that a
property can be seen to fail when the code would have that mistake (`mutants` in
`PROJECT.json`).

### SessionBridge

One element of `Sessions` is one call of `connectToTarget`.  `hpc` is the handler's
position: `new` before `Authorize`, `authorized`, `dialed` after the SSH dial and the
start of the recording, `register` with a shell running, `registered` with the row
inserted, `stream` while `Bridge` waits for the first copier, `drain` in `wg.Wait`,
then the deferred calls in their reverse order, `deregister` and `mark`, and `done`.
`stdin` and `stdout` are the copiers, inside a read (`copy`) or a write (`send`,
`write`).  `ka` is the keepalive goroutine, which pings the backend and, after
`MaxMiss` misses, stamps the row and closes the connection in two steps.
`ConnectionManager.Terminate` looks the handle up under the lock and then cancels,
closes and deregisters in separate steps (`Lookup`, `KillCancel`, `KillClose`,
`KillDeregister`); the RPC adds the status update (`KillMark`), the revocation goes on
to the next session of its SELECT.  A crash ends every goroutine of a node and
empties its registry but leaves the table; `Restart` runs
`CleanupOrphanedSessions` first.

The environment is nondeterministic: the client reads, stalls or leaves, the target's
shell exits, hangs, recovers or dies, a database write fails.  The bytes themselves
are left out; the gates before `Authorize` are in `Gateway`.

`SessionLedger` is the same system as an observer of the table sees it: a session is
new, live, dropped or over, its entry is missing, active or closed.  The refinement
mapping (`Phase`, `Entry`) reads the phase off the handler's position, the context and
the keepalive loop, and the entry off the row.  A session is dropped once its context
is cancelled or its keepalive loop has stamped the row.  The causes in the status
column are left out of the ledger, since the code does not keep them (section 5,
`kill_status`).

### Auth

Each database statement and the bcrypt comparison is a step of its own, because other
connections run in between.  `Count` is the single UPDATE with its CASE expression.
`locked` is the time left until `locked_until`; 0 means set but in the past, which is
different from NULL and is where the counter behaves unexpectedly (section 5).

### RateLimit and TokenBucket

A tick is the time in which one token comes back.  `limiters` maps an address to the
identity of a limiter object; `tokens` belongs to the object, so that an object that
was evicted while a connection holds it is still there.  `idle` is the time since the
last access, from which the code's `expiry` follows.  `Cleanup` reads the clock before
it takes the mutex (`CleanupTick`, `Evict`).  The refinement mapping `Bucket` gives an
address without a limiter a full bucket, because that is what `NewLimiter` would make.

### Access

The tables are sets and functions; SQL's AND, OR and NULL are modelled, since a role
without a policy row makes the environment test NULL.  `Authorize`,
`queryAccessibleServers` and `Selected` are the three queries.  A console goes from the
menu through the list of servers to `assignServers`, whose UPDATE and whose loop body
are separate steps; statements of two consoles interleave and any call may fail.
The kills that follow a DELETE are in `SessionBridge`.

### Console

`st` is the code's `state`, or a step of a provisioning (`put`, `insert`, `install`) or
of a viewer.  A text field is reduced to whether the form may be submitted and a list
to its length, which is what `menuIndex` is compared with.  The queries behind the
lists run again for every key, find what other consoles have added, or fail.
`playTTYRec` starts a goroutine that reads the same connection for a Ctrl+C
(`watcher`) and hands it over through a channel of capacity one (`stopCh`).
`generateAndSaveServer` writes Vault, inserts the row and installs the key on the
machine, each of which may fail.  What a save of access does to the tables is `Access`.

### Gateway

`proxy` is the position of `handleConnection` and of what it calls, `client` that of
the CLI, `wire` what the proxy has written (the status byte, or text), `inbox` the
bytes on their way to it.  `readKey` takes one byte or an escape sequence off the
inbox and names the key.  `deadline` says that a read deadline is set on the
connection, `handoff` that the CLI has been answered, after which `deny` and `ackReady`
write text instead of a status byte.  `full`, `reject` and `ticked` are the partition,
the guard's flag, and whether the guard has looked since it filled up.  Sessions and
the console are single places here: their insides are `SessionBridge` and `Console`.

### Vault

`renew` is the position of `renewLoop`, which every `Period` logs in, takes the write
lock, and stores the token in `c.token` and in the API client (`token`, `api`) in two
steps.  Every caller takes the read lock, reads the token, sets it on the API client
and releases the lock; the request carries what is there when it is sent.  `life` is
what is left of a token's TTL, `kv` the versions of one secret.  A handler fetches
the key and then the fingerprint in two reads, between which a console or an operator
may write.  Vault itself is up, down or silent, and the SecretID may be rotated.
A fingerprint is the key it is of and whether its base64 is padded.

### How the modules fit together

Each of `SessionBridge`, `Access`, `Console`, `Gateway` and `Vault` has all the actors
that touch its own state, and represents the others by every effect they may have on
it: `Gateway` lets a session last as long as it likes and end with or without an error,
`SessionBridge` lets a dial fail or succeed, `Console` lets any query fail.  The
modules are not conjoined, because the product is out of TLC's reach.

## 3. What TLC checks

| Run | Shows |
|---|---|
| `session_safety` | For every interleaving of a session with an RPC kill, a revocation, a crash of either node and a failing write: a served session can be killed (`LiveSessionKillable`), no handle outlives its Bridge (`HandlesHaveBridges`), the table lists what is served (`LiveSessionListed`) and nothing else once a restart has cleaned up (`NoOrphanRows`), the recording is sealed after its last write (`SealedAfterLastWrite`), a kill is reported as one (`KillIsReported`) and reaches what was registered when it began (`KillReachesHandle`). All actors together implement `SessionLedger` (`ImplementsLedger`): a row is opened once, is closed only when its session was dropped or is over, and is not opened again. |
| `session_liveness` | A cancelled session ends (`KillEndsSession`) and its keepalive loop stops (`KillStopsKeepalive`); a session whose shell ended returns to the gateway without a key press (`ShellEndReturns`). The first and the last except for a client that has stopped reading. |
| `kill_status`, `revocation_window` | Two statements of a comment and a message that do not hold (section 5). |
| `auth_lockout` | Three connections on one account: count and lock agree (`ThresholdSetsLock`), the passwords that can be tried before a lockout are bounded by the threshold and the number of connections (`GuessesBounded`), a lock is alerted (`LockIsAlerted`), is not prolonged by late failures (`LockNotProlonged`) and runs out however many attempts are made (`LocksExpire`). |
| `auth_relock` | After an expired lock, further failures never lock again (section 5). |
| `ratelimit_quota` | Eviction never gives an address tokens it would not have had: `RateLimit` implements `TokenBucket` (`ImplementsQuota`), and a limiter in use is the one in the map (`HeldIsCurrent`). An address that stops connecting is forgotten (`StaleForgotten`). |
| `access_concurrent` | Two consoles on one user: a reported success means that exactly the ticked ones of the listed servers are reachable unless the other console wanted otherwise (`SavedExact`); no prefix of a save widens access (`NeverWidens`); engine, menu and tick marks agree (`QueriesAgree`). |
| `access_override` | The ignored error of the first UPDATE (section 5). |
| `console` | The cursor stays inside lists that change under it (`CursorInRange`), the access form names, ticks and saves one user (`FormIsOfOneUser`), the goroutine behind a playback does not outlive it (`OneReader`) and does not lose a Ctrl+C (`CtrlCStops`), a row always has a key in Vault (`RowsHaveKeys`), a reported provisioning works (`ProvisionedWorks`), and a console whose connection broke ends (`GoneEnds`). |
| `gateway` | The CLI gets exactly one status byte, first, on every path (`OneStatusByte`), or the end of the connection (`ClientAnswered`); no read deadline is left over when a menu waits (`MenuWaitsQuietly`); nobody passes a guard that has seen a full disk (`GuardHolds`); a connection whose CLI has gone is wound up (`GoneEnds`). |
| `vault` | Readers never put a replaced token back (`TokensAgree`), key material is wiped on every way out (`KeyWiped`), a session's host was vouched for during the attempt although key and fingerprint are two reads (`HostVerified`), a token expires only after a renewal failed (`ExpiryMeansFailure`), the node recovers by itself (`HealsItself`), and no connection waits for Vault for ever (`FetchAnswered`). |

Some of these carry an exception that the code does not rule out, and each names it:
`ClientAnswered` and the `GoneEnds` of `Gateway` a silent target, `GoneEnds` of
`Console` a recording that is being played, and `ProvisionedWorks` another console
that overwrites the Vault key of the same hostname before its own INSERT fails on the
UNIQUE constraint.  `HealsItself` speaks of a SecretID that is good (section 5).

The type invariants are proved by TLAPS (`TypeCorrect`) and not repeated in the runs.

### Bounds

* `SessionBridge`: one session, one call of each kind, two nodes (the second only
  crashes and restarts), `MaxMiss` 2 (the code's 3 adds no case: one miss that is
  forgiven and one that is not), one crash, one failed write; `session_liveness`
  leaves out the second node, the revocation and the failing write.  Sessions share only the
  registry and the table, each in its own entry, so one session meets every actor;
  the proofs cover any number.  The instance has 1.9 million states; a second session
  is beyond a few minutes.  Deadlock is not checked there because a finished session
  on a quiet node is a state in which nothing need happen.
* `Auth`: threshold 2 (a failure below it, one at it), three connections (one that
  sets the lock and two that passed the check before), `MaxFailed` 5, one above
  the bound `GuessesBounded` states, a lock of 2 ticks, one failing call.
* `RateLimit`: burst 3, `MaxStall` 2 and the smallest ttl the assumption allows (5;
  the code's is ten times the burst), two addresses, two connections, as many limiter
  objects as can be in the map or in a local variable at once.
* `Access`: two servers of which one is added during the run, two environments, one
  role that reaches one of them, one role without a policy, `unassigned`, one failing
  call; one user and two consoles in `access_concurrent`, two users in
  `access_override`.
* `Console`: two users (one may be added while the list is on the screen), one host,
  lists of at most 2, two generated keys (this console's and another's for the same
  host).  With a second host the instance is beyond a few minutes; what could go wrong
  between two hosts is covered by the proofs, which hold for any number.  Deadlock is not checked here, in `Gateway` and in `Vault`: a closed connection
  is where they may stop.
* `Gateway`: terminals of 300 by 24 and 80 by 13 (a width above one byte, and a height
  that is the code of ENTER), one server beside the console's entry, 6 bytes on the
  wire: one resize message and one key.
* `Vault`: one handler, one console, a period of 2 and a life of 4 (the code's 30 min
  against the 1 h of the deployment), two tokens (one in use and its successor; one
  that has expired is reused), two versions of the secret (as fetched and as
  overwritten).  540,000 states; a second handler is beyond a few minutes, and the
  proofs cover any number.

### Fairness

* `SessionBridge`: weak fairness for each goroutine of the proxy, as the Go scheduler
  gives it; strong fairness for a write to a client that keeps reading, because the
  kernel's buffer drains whenever it reads.  None for the client, the target, the start
  of sessions and kills, or crashes.
* `Auth`: the clock and the goroutines inside `Authenticate` go on; nobody is obliged
  to log in.
* `RateLimit`: the clock, the `Cleanup` goroutine, and calls of `Allow` that have begun.
* `Console`: the console's goroutine, when it need not wait for a key, and the watcher.
* `Gateway`: `handleConnection`'s goroutine and the CLI's.  Not typing, the end of a
  session or a console, or the disk.
* `Vault`: the clock, `renewLoop`, and calls that have begun, because every HTTP request
  has a timeout.  Strong fairness for the read lock, because `RWMutex.Unlock` lets the
  readers in that are waiting before another writer.

## 4. What is proved

All theorems hold for every value of the constants that satisfies the named `ASSUME`
of the specification; the assumptions say that constants have their types and, for
`RateLimit`, that `MaxStall + Burst <= TTL` and, for `Vault`, that `Period < TTL`.

* `SessionBridgeProofs` (with `SessionInvariant`): each invariant of `session_safety`,
  and the refinement `ImplementsLedger`.  None of the invariants is inductive alone.
  `SessionInv` ties the positions of the goroutines to the handler's (nothing runs and
  nothing is cancelled before `stream`, copiers run only until the end of `drain`, a
  ping budget bounds `missed`, a kill cancels before it closes); `TableInv` does the same
  for the row and the registry; `CallerInv` orders a caller's steps and keeps track of
  the sessions it has to reach.  The proof has one step per action for each of the three.
  For the refinement, `LedgerFacts` collects what `Inductive` says of one session, and
  `LedgerMove` lists what a step may do to one phase and one entry.  A step of a handler,
  a keepalive loop or a kill makes such a move for one session and leaves the others
  alone, so it is a step of the ledger (`LedgerOne`).  A crash maps to `CutOff` of
  the sessions of the node that were not over, and a restart to `Sweep` of its rows that
  are still active.  Late writers are the delicate part: a keepalive loop or an RPC that
  writes after its session has ended finds a row there (`ka[s] # "off"` and a caller
  past its lookup both imply `row[s] # "none"`), and so never makes one.
* `AuthProofs`: types, `ThresholdSetsLock`, `GuessesBounded`, `LockIsAlerted`,
  `LockNotProlonged`.
  `GuessesBounded` needs a count of the connections that passed the check before the
  lock was set (`Pending`): each failure moves one of them into `failed`, and nobody
  joins while the lock runs.  `LockIsAlerted` is kept because the UPDATE that sets
  the lock leaves its own goroutine in `counted` with `isLocked`, and that goroutine
  leaves it only by alerting.
* `RateLimitProofs`: types, `HeldIsCurrent`, and the refinement `ImplementsQuota`.  A
  connection inside `Allow` keeps its entry fresh (`InUse`), and a bucket gains a token
  for every tick its entry is unused (`Refilled`); so what `Cleanup` evicts is full and
  held by nobody (`EvictedFull`), and the eviction is a stuttering step of the buckets.
* `AccessProofs`: types, `QueriesAgree`, `SavedExact`, `NeverWidens`.  The three-valued
  conditions are shown equal to one two-valued condition (`Allowed`); the loop of
  `assignServers` has settled the servers it is done with (`Settled`) and never lets
  the user past what was reachable before or is ticked (`Bounded`).
* `ConsoleProofs`: types, `CursorInRange`, `FormIsOfOneUser`, `OneReader`,
  `RowsHaveKeys` and the action property `ProvisionedWorks`, for any number of users,
  hosts and keys and lists of any length.  `FlowInv` says what a screen relies on that
  an earlier one has set (the roles and the name of a new user, where a viewer returns
  to, that the goroutine behind a playback has stopped once it has sent its Ctrl+C);
  `ProvisionInv` says that from its PutSecret on a provisioning's host has that key or
  a later one in Vault, and that what another console is about to insert has one.
* `GatewayProofs`: types, `OneStatusByte`, `MenuWaitsQuietly`, `CursorInRange`,
  `GuardHolds`, for any terminal size and number of servers and bytes.  `Phases` says that the
  wire is empty exactly before the answer, which `handoff` records; that a deadline
  belongs to one of two reads; and that the flag is right since the guard last looked.
* `VaultProofs`: types, `TokensAgree`, `KeyWiped`, `HostVerified`,
  `ExpiryMeansFailure`, for any number of connections, consoles, tokens and versions.
  `LockInv` says what the two locks exclude and that a reader between its two steps
  holds the token in force; `LifeInv` relates the life left to the time until the next
  renewal, which needs `Period < TTL`; `FetchInv` says that the fetched
  fingerprint is that of a version no older than the key's.

Only model-checked: the liveness properties (those of `session_liveness`,
`LocksExpire`, `StaleForgotten`, `CtrlCStops`, `ClientAnswered`, both `GoneEnds`,
`HealsItself`, `FetchAnswered`), which need fairness and ENABLED, out of the prover's
reach.  Every invariant and every action property that a passing run checks has a
theorem.  The invariants the proofs use were first checked with TLC.

Leaves that need no arithmetic cite `Zenon`, which proves them without the translation
to SMT; in the larger modules that translation is what takes the time.

## 5. Where the code and its own words differ

With a run whose counterexample shows it:

* The status `terminated-kill` is overwritten by `terminated` when the killed Bridge
  runs its deferred update (`kill_status`).
* The console says that sessions of a revoked server were killed; one that was
  authorised before the DELETE and registered after the SELECT is not
  (`revocation_window`).
* `locked_until` is set only while it is NULL and reset only by a correct password, so
  an account is locked once and, when that lock has expired, not again
  (`auth_relock`).
* `assignServers` ignores the error of the UPDATE that makes granular access absolute
  and reports success (`access_override`).

Visible in the models or in the source, and without a run of their own:

* `manager.go:51` says that `Terminate` "forcefully ends the session" and line 72 that
  it closes "both sockets"; it closes only the backend connection.  If the client has
  stopped reading, the stdout copier stays in its write and the session stays.
  `KillEndsSession` carries this as its exception.
* `keepalive.go:15`: "runKeepalive sends SSH keepalive pings and declares the client
  dead if consecutive pings are missed"; it pings the target.  A client that vanished is
  not noticed while the target is healthy and silent.
* `proxy/resize.go:16` says that `ApplyWindowChange` is "called when the proxy receives a
  SIGWINCH message"; it has no caller.  The five bytes of `SendWindowChange` arrive in
  the stream of keys and are read as keys by the menu; a height of 13 is an ENTER.
* `vault.go:114` says that the full re-login is there "to be resilient to SecretID
  rotation without requiring a proxy restart"; the SecretID is loaded once, with the
  configuration, so after a rotation every login fails until a restart.
* `fingerprint.go:82` says of `computeFingerprint` "This matches the format returned by:
  ssh-keygen -l -f"; it pads the base64 and ssh-keygen does not.  A fingerprint stored
  in ssh-keygen's form never matches, nor does the one the console stores, which is in
  that form and is of the client key it generated, not of the host's.
* `keyfetch.go:43` says that `Zero` "must be called immediately after the backend SSH
  handshake completes"; it is deferred to the end of `connectToTarget`, so the bytes live
  as long as the session.  `KeyWiped` states what does hold.
* The policy of `deploy/vault-seed.sh` grants only reading and listing, so the console's
  `PutSecret` is refused in that deployment.  The models let it fail or succeed.
* `handlers.go:36`: "Route kill signal to the correct proxy node via gRPC"; line 25 casts
  the INET column to text, which appends the prefix length (`a.b.c.d/32`), and the
  address made from it cannot be dialled.  `rbac.go` uses `host()` for the same purpose.

Two limits of `SavedExact` are worth knowing.  It speaks of the servers that were
listed: a server added after the list was opened keeps whatever grant another console
gave it.  And a list that could not be read is shown as empty; saving it makes access
granular without a single grant.

## 6. Not modelled

* Routing of a kill from the HTTP handler (`handlers.go`, `killswitch/client.go`): one
  SELECT and one RPC, without state of their own.  What the RPC does on its node is in
  `SessionBridge`; what the route makes of the address is in section 5.
* The command filter (`cmdfilter.go`, `rbac/commands.go`): a line assembler and a parser
  over characters, sequential, with a table of unit tests.  A model would repeat it
  character by character.
* The ttyrec format, the hash and the hashing of the recording, the text of the admin
  log: formats that nothing in the system depends on but their viewers.  When the
  recording is written and sealed is in `SessionBridge`, its playback in `Console`.
* `proxy/ratelimit.go` only delays bytes, and reads and writes of a copier take arbitrarily
  long already.
* The read-only queries of the session store; the CLI's argument parsing and login
  screen; configuration, health endpoint, TLS and database wiring, the migration
  runner, generated gRPC code, password hashing, rendering of screens: pure I/O or
  library calls without state.

What would come next: a specification that joins `Gateway` and `SessionBridge` at the
point where the handler enters `Bridge`, and the routing of a kill between nodes.
