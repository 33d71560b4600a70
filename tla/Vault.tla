------------------------------- MODULE Vault -------------------------------
(***************************************************************************)
(* The Vault client of a proxy node (internal/vault) and what              *)
(* connectToTarget does with it: the AppRole token and the goroutine that  *)
(* replaces it, the private key and the host fingerprint a connection      *)
(* fetches, one after the other, from the secret of its target, and the    *)
(* consoles that overwrite this secret.  One target server; time passes in *)
(* units of which a renewal period has Period and a token's life TTL.      *)
(***************************************************************************)
EXTENDS Integers, Sequences

CONSTANTS
    Handlers,     \* connectToTarget calls running at the same time
    Consoles,     \* administrators who add a server of the same name
    Tokens,       \* client tokens Vault may issue
    HostKeys,     \* host keys a server answering at the target's address may have
    ClientKey,    \* the key pair a console stores
    Secrets,      \* what operators store at the target's path
    Period,       \* the ticker of renewLoop, 30 min
    TTL,          \* token_ttl of the AppRole, 1 h
    MaxVersions,  \* bound on the writes to the secret
    NoToken, NoFp, NoHost

Callers == Handlers \cup Consoles

\* A fingerprint as text: of which key, and whether the base64 is padded.
Fingerprints == [of : HostKeys \cup {ClientKey}, padded : BOOLEAN]

\* The fields of the secret: a private key that parses or not, or is missing.
SecretData == [key : {"good", "bad", "absent"}, fp : Fingerprints \cup {NoFp}]

ASSUME TimeAssumption ==
    Period \in Nat \ {0} /\ TTL \in Nat /\ TTL > Period
ASSUME VaultAssumption ==
    /\ Secrets \subseteq SecretData
    /\ Handlers \cap Consoles = {}
    /\ NoToken \notin Tokens /\ NoHost \notin HostKeys
    /\ NoFp \notin Fingerprints

VARIABLES
    dev,       \* VaultDevMode: a static token and no host key check
    \* vault.Client
    token,     \* c.token
    api,       \* the token inside c.api
    renew,     \* where renewLoop is
    fresh,     \* the token of a login's answer
    failed,    \* the last login of renewLoop failed
    due,       \* time to the next tick
    \* the callers
    pc, want, loc,
    raw,       \* a copy of the private key is in this call's memory
    keyver,    \* the version of the secret it comes from
    fp, host,  \* the expected fingerprint, the host key accepted
    \* Vault
    vault,     \* whether it answers
    life,      \* what is left of each token's life
    kv,        \* the versions of the secret, the last one current
    rotated    \* the SecretID of the configuration has been revoked

clientVars == <<token, api, renew, fresh, failed, due>>
callVars   == <<pc, want, loc, raw, keyver, fp, host>>
vaultVars  == <<vault, life, kv, rotated>>
vars       == <<dev, clientVars, callVars, vaultVars>>

Valid(t) == dev \/ life[t] > 0
Current  == kv[Len(kv)]

\* ssh.FingerprintSHA256, as ssh-keygen prints it: base64 without padding.
FingerprintSHA256(k) == [of |-> k, padded |-> FALSE]
\* base64.StdEncoding pads.
computeFingerprint(k) == [of |-> k, padded |-> TRUE]

\* New: with a static token, or after a first login.
Init ==
    /\ dev \in BOOLEAN
    /\ token \in Tokens /\ api = token
    /\ renew = (IF dev THEN "off" ELSE "wait")
    /\ fresh = NoToken /\ failed = FALSE /\ due = Period
    /\ pc = [c \in Callers |-> "idle"]
    /\ want = [c \in Callers |-> "key"]
    /\ loc = [c \in Callers |-> NoToken]
    /\ raw = [c \in Callers |-> FALSE]
    /\ keyver = [c \in Callers |-> 0]
    /\ fp = [c \in Callers |-> NoFp]
    /\ host = [c \in Callers |-> NoHost]
    /\ vault = "up"
    /\ life = [t \in Tokens |-> IF t = token THEN TTL ELSE 0]
    /\ \E s \in Secrets : kv = <<s>>
    /\ rotated = FALSE

-----------------------------------------------------------------------------
(* renewLoop and loginAppRole.  A login ends within the 10 s of the HTTP   *)
(* client, so no unit of time passes in it.                                *)

RenewMoves(from, to) ==
    /\ renew = from /\ renew' = to
    /\ UNCHANGED <<dev, callVars, vault, kv, rotated>>

\* Variant: a token that is still good is kept.
RenewTickLazy ==
    /\ due = 0 /\ due' = Period
    /\ RenewMoves("wait", IF life[token] > 0 THEN "wait" ELSE "login")
    /\ UNCHANGED <<token, api, fresh, failed, life>>

RenewTick ==
    /\ due = 0 /\ due' = Period
    /\ RenewMoves("wait", "login")
    /\ UNCHANGED <<token, api, fresh, failed, life>>

\* Variant: the goroutine gives up.
LoginFailsStops ==
    /\ vault # "up" \/ rotated
    /\ RenewMoves("login", "off")
    /\ failed' = TRUE
    /\ UNCHANGED <<token, api, fresh, due, life>>

\* Refused, unreachable, timed out or without an Auth part: logged, and
\* tried again at the next tick.
LoginFails ==
    /\ vault # "up" \/ rotated
    /\ RenewMoves("login", "wait")
    /\ failed' = TRUE
    /\ UNCHANGED <<token, api, fresh, due, life>>

\* Vault issues a token nobody holds.
LoginAnswered ==
    /\ vault = "up" /\ ~rotated
    /\ RenewMoves("login", "lock")
    /\ fresh' \in Tokens \ ({token, api} \cup {loc[c] : c \in Callers})
    /\ life' = [life EXCEPT ![fresh'] = TTL]
    /\ UNCHANGED <<token, api, failed, due>>

Reading == {c \in Callers : pc[c] \in {"read", "set"}}

LoginLock ==
    /\ Reading = {}
    /\ RenewMoves("lock", "token")
    /\ UNCHANGED <<token, api, fresh, failed, due, life>>

StoreToken ==
    /\ RenewMoves("token", "api")
    /\ token' = fresh
    /\ UNCHANGED <<api, fresh, failed, due, life>>

\* SetToken, Unlock and the return to the loop.
StoreApi ==
    /\ RenewMoves("api", "wait")
    /\ api' = fresh /\ fresh' = NoToken /\ failed' = FALSE
    /\ UNCHANGED <<token, due, life>>

-----------------------------------------------------------------------------
(* The way every call takes to Vault: under the read lock the token goes   *)
(* into the API client; the request carries what is there when it is sent. *)
(* A waiting writer keeps new readers out.                                 *)

CallMoves(c, from, to) ==
    /\ pc[c] = from /\ pc' = [pc EXCEPT ![c] = to]
    /\ UNCHANGED <<dev, token, renew, fresh, failed, due, vault, life, rotated>>

Begin(c, what) ==
    /\ CallMoves(c, "idle", "rlock")
    /\ want' = [want EXCEPT ![c] = what]
    /\ UNCHANGED <<api, loc, raw, keyver, fp, host, kv>>

\* Variant: the lock is forgotten.
RLockSkipped(c) ==
    /\ CallMoves(c, "rlock", "read")
    /\ UNCHANGED <<api, want, loc, raw, keyver, fp, host, kv>>

RLock(c) ==
    /\ renew \notin {"lock", "token", "api"}
    /\ CallMoves(c, "rlock", "read")
    /\ UNCHANGED <<api, want, loc, raw, keyver, fp, host, kv>>

ReadToken(c) ==
    /\ CallMoves(c, "read", "set")
    /\ loc' = [loc EXCEPT ![c] = token]
    /\ UNCHANGED <<api, want, raw, keyver, fp, host, kv>>

SetToken(c) ==
    /\ CallMoves(c, "set", "get")
    /\ api' = loc[c] /\ loc' = [loc EXCEPT ![c] = NoToken]
    /\ UNCHANGED <<want, raw, keyver, fp, host, kv>>

-----------------------------------------------------------------------------
(* connectToTarget.                                                        *)

\* signer.Zero() and what else ends with the call.
Return(h, from) ==
    /\ CallMoves(h, from, "idle")
    /\ raw' = [raw EXCEPT ![h] = FALSE]
    /\ keyver' = [keyver EXCEPT ![h] = 0]
    /\ fp' = [fp EXCEPT ![h] = NoFp]
    /\ host' = [host EXCEPT ![h] = NoHost]
    /\ UNCHANGED <<api, want, loc, kv>>

\* Vault answers, accepts the token and has the field.
Served(h) ==
    /\ vault = "up" /\ Valid(api)
    /\ want[h] = "key" => Current.key # "absent"
    /\ want[h] = "fp" => Current.fp # NoFp

GetKey(h) ==
    /\ want[h] = "key" /\ Served(h)
    /\ CallMoves(h, "get", "parse")
    /\ raw' = [raw EXCEPT ![h] = TRUE]
    /\ keyver' = [keyver EXCEPT ![h] = Len(kv)]
    /\ UNCHANGED <<api, want, loc, fp, host, kv>>

\* Variant: no timeout.
GetFailsAnswered(h) == vault # "silent" /\ ~Served(h) /\ Return(h, "get")

\* An error, a timeout, a missing field.  For the fingerprint, signer.Zero
\* has been deferred before.
GetFails(h) == ~Served(h) /\ Return(h, "get")

ParseKey(h) ==
    /\ CallMoves(h, "parse", "rlock")
    /\ kv[keyver[h]].key = "good"
    /\ want' = [want EXCEPT ![h] = "fp"]
    /\ UNCHANGED <<api, loc, raw, keyver, fp, host, kv>>

\* Variant: the error return keeps the bytes.
ParseFailsKeeps(h) ==
    /\ CallMoves(h, "parse", "idle")
    /\ kv[keyver[h]].key = "bad"
    /\ UNCHANGED <<api, want, loc, raw, keyver, fp, host, kv>>

\* zeroBytes.
ParseFails(h) == Return(h, "parse") /\ kv[keyver[h]].key = "bad"

\* Variant: the fingerprint of the first version is remembered.
GetFingerprintCached(h) ==
    /\ want[h] = "fp" /\ Served(h)
    /\ CallMoves(h, "get", "dial")
    /\ fp' = [fp EXCEPT ![h] = kv[1].fp]
    /\ UNCHANGED <<api, want, loc, raw, keyver, host, kv>>

GetFingerprint(h) ==
    /\ want[h] = "fp" /\ Served(h)
    /\ CallMoves(h, "get", "dial")
    /\ fp' = [fp EXCEPT ![h] = Current.fp]
    /\ UNCHANGED <<api, want, loc, raw, keyver, host, kv>>

StrictHostKeyCallback(h, k) == dev \/ computeFingerprint(k) = fp[h]

\* ssh.Dial, and the session that follows it.
Dial(h) ==
    \E k \in HostKeys :
        /\ StrictHostKeyCallback(h, k)
        /\ CallMoves(h, "dial", "session")
        /\ host' = [host EXCEPT ![h] = k]
        /\ UNCHANGED <<api, want, loc, raw, keyver, fp, kv>>

DialFails(h) == Return(h, "dial")

SessionEnds(h) == Return(h, "session")

-----------------------------------------------------------------------------
(* PutSecret, with a key pair of the console's and its fingerprint.        *)

Put(a) ==
    /\ Served(a) /\ Len(kv) < MaxVersions
    /\ CallMoves(a, "get", "idle")
    /\ kv' = Append(kv, [key |-> "good", fp |-> FingerprintSHA256(ClientKey)])
    /\ UNCHANGED <<api, want, loc, raw, keyver, fp, host>>

\* Vault's policies may also refuse the write.
PutFails(a) == Return(a, "get")

-----------------------------------------------------------------------------
(* Time, Vault and its operators.                                          *)

Tick ==
    /\ (renew = "wait" /\ due > 0 /\ due' = due - 1)
         \/ (renew = "off" /\ UNCHANGED due)
    /\ life' = [t \in Tokens |-> IF life[t] > 0 THEN life[t] - 1 ELSE 0]
    /\ UNCHANGED <<dev, token, api, renew, fresh, failed, callVars, vault, kv,
                   rotated>>

VaultChanges ==
    /\ vault' \in {"up", "down", "silent"} \ {vault}
    /\ UNCHANGED <<dev, clientVars, callVars, life, kv, rotated>>

OperatorPuts ==
    /\ Len(kv) < MaxVersions
    /\ \E s \in Secrets : kv' = Append(kv, s)
    /\ UNCHANGED <<dev, clientVars, callVars, vault, life, rotated>>

RotateSecretID ==
    /\ ~rotated /\ rotated' = TRUE
    /\ UNCHANGED <<dev, clientVars, callVars, vault, life, kv>>

-----------------------------------------------------------------------------
Renewer ==
    \/ RenewTick \/ LoginFails \/ LoginAnswered \/ LoginLock \/ StoreToken
    \/ StoreApi

Token(c) == RLock(c) \/ ReadToken(c) \/ SetToken(c)

Fetch(h) ==
    \/ Token(h) \/ GetKey(h) \/ GetFails(h) \/ ParseKey(h) \/ ParseFails(h)
    \/ GetFingerprint(h)

Next ==
    \/ Renewer
    \/ \E h \in Handlers :
          Begin(h, "key") \/ Fetch(h) \/ Dial(h) \/ DialFails(h) \/ SessionEnds(h)
    \/ \E a \in Consoles : Begin(a, "put") \/ Token(a) \/ Put(a) \/ PutFails(a)
    \/ Tick \/ VaultChanges \/ OperatorPuts \/ RotateSecretID

Spec == Init /\ [][Next]_vars

(* The goroutines run, requests end within their timeouts and the clock    *)
(* goes on.  Unlock lets in the readers that wait, so none is passed over  *)
(* for ever.                                                               *)
Fairness ==
    /\ WF_vars(Renewer) /\ WF_vars(Tick)
    /\ \A h \in Handlers : WF_vars(Fetch(h)) /\ SF_vars(RLock(h))
    /\ \A a \in Consoles : WF_vars(Token(a) \/ Put(a) \/ PutFails(a))

FairSpec == Spec /\ Fairness

-----------------------------------------------------------------------------
(* The types of the state.                                                 *)
TypeOK ==
    /\ dev \in BOOLEAN
    /\ token \in Tokens /\ api \in Tokens /\ fresh \in Tokens \cup {NoToken}
    /\ renew \in {"off", "wait", "login", "lock", "token", "api"}
    /\ failed \in BOOLEAN /\ due \in 0..Period
    /\ pc \in [Callers -> {"idle", "rlock", "read", "set", "get", "parse",
                           "dial", "session"}]
    /\ want \in [Callers -> {"key", "fp", "put"}]
    /\ loc \in [Callers -> Tokens \cup {NoToken}]
    /\ raw \in [Callers -> BOOLEAN]
    /\ keyver \in [Callers -> 0..Len(kv)]
    /\ fp \in [Callers -> Fingerprints \cup {NoFp}]
    /\ host \in [Callers -> HostKeys \cup {NoHost}]
    /\ vault \in {"up", "down", "silent"}
    /\ life \in [Tokens -> 0..TTL]
    /\ kv \in Seq(SecretData) /\ kv # << >> /\ rotated \in BOOLEAN

(* A connection that fetches a secret while the token is replaced never    *)
(* puts the old one back: outside the writer's critical section the API    *)
(* client and c.token agree.                                               *)
TokensAgree == renew # "api" => api = token

(* Key material lives no longer than connectToTarget: on every way out,    *)
(* the parse error and the missing fingerprint included, it is wiped.      *)
KeyWiped == \A h \in Callers : raw[h] => pc[h] # "idle"

(* A session is opened only to a host whose key had its fingerprint in     *)
(* Vault during this very attempt, although the key and the fingerprint    *)
(* come from two reads with writes in between.                             *)
HostVerified ==
    \A h \in Handlers : pc[h] = "session" /\ ~dev =>
        \E v \in keyver[h]..Len(kv) : kv[v].fp = computeFingerprint(host[h])

(* Connections are refused for an expired token only after a renewal has   *)
(* failed: the 30 min of renewLoop keep ahead of the token's life.         *)
ExpiryMeansFailure == ~dev /\ life[token] = 0 => failed

(* "Will retry next cycle": once Vault stays reachable and the SecretID is *)
(* good, the node gets a valid token and keeps having one, whatever failed *)
(* before.                                                                 *)
HealsItself ==
    <>[](vault = "up" /\ ~rotated) => <>[]Valid(token)

(* No connection waits for Vault for ever: the key and the fingerprint     *)
(* arrive or the connection is refused, also while Vault is silent and     *)
(* while the token is replaced.                                            *)
FetchAnswered ==
    \A h \in Handlers :
        pc[h] \in {"rlock", "read", "set", "get", "parse"}
            ~> pc[h] \in {"dial", "idle"}

=============================================================================
