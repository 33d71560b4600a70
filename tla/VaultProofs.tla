---------------------------- MODULE VaultProofs ----------------------------
(***************************************************************************)
(* Theorems about Vault, for any number of connections and consoles, any   *)
(* tokens and secrets, and any period shorter than a token's life.         *)
(***************************************************************************)
EXTENDS Vault, SequenceTheorems, TLAPS

\* The read-write lock: while the writer is inside nobody reads, and what a
\* reader has read is still the token.
LockInv ==
    /\ renew \in {"token", "api"} => \A c \in Callers : pc[c] \notin {"read", "set"}
    /\ \A c \in Callers : pc[c] = "set" => loc[c] = token
    /\ renew \in {"lock", "token", "api"} => fresh \in Tokens
    /\ renew = "api" => token = fresh
    /\ renew # "api" => api = token

\* How far the token's life is ahead of the next tick.
LifeInv ==
    /\ renew = "off" => dev
    /\ renew \in {"lock", "token", "api"} => life[fresh] = TTL
    /\ renew \in {"login", "lock", "token", "api"} => due = Period
    /\ ~failed /\ renew = "wait" => life[token] >= TTL - Period + due
    /\ ~failed /\ renew \in {"login", "lock", "token"} => life[token] >= TTL - Period

\* A fetched fingerprint is of a version no older than the key's.
FetchInv ==
    \A h \in Callers :
        /\ raw[h] => pc[h] # "idle" /\ h \in Handlers
        /\ pc[h] = "parse" => keyver[h] \in 1..Len(kv)
        /\ pc[h] \in {"rlock", "read", "set", "get"} /\ want[h] = "fp"
              => keyver[h] \in 1..Len(kv)
        /\ pc[h] \in {"dial", "session"} =>
              \E v \in keyver[h]..Len(kv) : v >= 1 /\ kv[v].fp = fp[h]
        /\ pc[h] = "session" /\ ~dev => computeFingerprint(host[h]) = fp[h]

Inv == TypeOK /\ LockInv /\ LifeInv /\ FetchInv

-----------------------------------------------------------------------------
\* What a caller's step may be; every failure is a Return.
CallStep(c) ==
    \/ \E what \in {"key", "put"} : Begin(c, what)
    \/ RLock(c) \/ ReadToken(c) \/ SetToken(c)
    \/ c \in Handlers /\ GetKey(c)
    \/ ParseKey(c) \/ GetFingerprint(c) \/ Dial(c)
    \/ c \in Consoles /\ Put(c)
    \/ \E from \in {"get", "parse", "dial", "session"} : Return(c, from)

(* The last element of a sequence is one of its set.                       *)
LEMMA LastElement ==
    ASSUME NEW S, NEW s \in Seq(S), s # << >>
    PROVE  Len(s) \in 1..Len(s) /\ s[Len(s)] \in S
OBVIOUS

(* Every step of the node is one of the cases the proofs below go through. *)
LEMMA Cases ==
    ASSUME [Next]_vars
    PROVE  \/ Renewer \/ \E c \in Callers : CallStep(c)
           \/ Tick \/ VaultChanges \/ OperatorPuts \/ RotateSecretID
           \/ UNCHANGED vars
<1>1. ASSUME NEW h \in Handlers,
             Begin(h, "key") \/ Fetch(h) \/ Dial(h) \/ DialFails(h) \/ SessionEnds(h)
      PROVE  h \in Callers /\ CallStep(h)
  BY <1>1 DEF CallStep, Callers, Fetch, Token, GetFails, ParseFails, DialFails,
              SessionEnds
<1>2. ASSUME NEW a \in Consoles,
             Begin(a, "put") \/ Token(a) \/ Put(a) \/ PutFails(a)
      PROVE  a \in Callers /\ CallStep(a)
  BY <1>2, Zenon DEF CallStep, Callers, Token, PutFails
<1> QED
  BY <1>1, <1>2 DEF Next

(* The types are kept.                                                     *)
LEMMA TypeStep ==
    ASSUME TypeOK, LockInv, [Next]_vars
    PROVE  TypeOK'
<1> USE TimeAssumption DEF TypeOK
<1>1. CASE Renewer
  <2>1. CASE RenewTick
    BY <2>1 DEF RenewTick, RenewMoves, callVars
  <2>2. CASE LoginFails
    BY <2>2 DEF LoginFails, RenewMoves, callVars
  <2>3. CASE LoginAnswered
    BY <2>3 DEF LoginAnswered, RenewMoves, callVars
  <2>4. CASE LoginLock
    BY <2>4 DEF LoginLock, RenewMoves, callVars
  <2>5. CASE StoreToken
    BY <2>5 DEF StoreToken, RenewMoves, callVars, LockInv
  <2>6. CASE StoreApi
    BY <2>6 DEF StoreApi, RenewMoves, callVars, LockInv
  <2> QED
    BY <1>1, <2>1, <2>2, <2>3, <2>4, <2>5, <2>6, Zenon DEF Renewer
<1>2. ASSUME NEW c \in Callers, CallStep(c)
      PROVE  TypeOK'
  <2>1. ASSUME NEW what \in {"key", "put"}, Begin(c, what)
        PROVE  TypeOK'
    BY <2>1 DEF Begin, CallMoves
  <2>2. CASE RLock(c)
    BY <2>2 DEF RLock, CallMoves
  <2>3. CASE ReadToken(c)
    BY <2>3 DEF ReadToken, CallMoves
  <2>4. CASE SetToken(c)
    BY <2>4 DEF SetToken, CallMoves, LockInv
  <2>5. CASE c \in Handlers /\ GetKey(c)
    BY <2>5 DEF GetKey, CallMoves
  <2>6. CASE ParseKey(c)
    BY <2>6 DEF ParseKey, CallMoves
  <2>7. CASE GetFingerprint(c)
    <3>1. Current.fp \in Fingerprints \cup {NoFp}
      <4>1. Current \in SecretData
        BY LastElement DEF Current
      <4> QED
        BY <4>1 DEF SecretData
    <3> QED
      BY <2>7, <3>1 DEF GetFingerprint, CallMoves
  <2>8. CASE Dial(c)
    BY <2>8 DEF Dial, CallMoves
  <2>9. CASE c \in Consoles /\ Put(c)
    <3> DEFINE new == [key |-> "good", fp |-> FingerprintSHA256(ClientKey)]
    <3>1. new \in SecretData
      BY DEF SecretData, FingerprintSHA256, Fingerprints
    <3>2. /\ kv' = Append(kv, new)
          /\ kv' \in Seq(SecretData) /\ kv' # << >> /\ Len(kv') = Len(kv) + 1
      BY <2>9, <3>1, AppendProperties DEF Put
    <3> QED
      BY <2>9, <3>2 DEF Put, CallMoves
  <2>10. ASSUME NEW from \in {"get", "parse", "dial", "session"}, Return(c, from)
        PROVE  TypeOK'
    BY <2>10 DEF Return, CallMoves
  <2> QED
    BY <1>2, <2>1, <2>2, <2>3, <2>4, <2>5, <2>6, <2>7, <2>8, <2>9, <2>10, Zenon DEF CallStep
<1>3. CASE Tick
  BY <1>3 DEF Tick, clientVars, callVars
<1>4. CASE VaultChanges
  BY <1>4 DEF VaultChanges, clientVars, callVars
<1>5. CASE OperatorPuts
  <2>1. PICK s \in Secrets : kv' = Append(kv, s)
    BY <1>5 DEF OperatorPuts
  <2>2. kv' \in Seq(SecretData) /\ kv' # << >> /\ Len(kv') = Len(kv) + 1
    BY <2>1, VaultAssumption, AppendProperties
  <2> QED
    BY <1>5, <2>2 DEF OperatorPuts, clientVars, callVars
<1>6. CASE RotateSecretID
  BY <1>6 DEF RotateSecretID, clientVars, callVars
<1>7. CASE UNCHANGED vars
  BY <1>7, Zenon DEF vars, clientVars, callVars, vaultVars
<1> QED
  BY <1>1, <1>2, <1>3, <1>4, <1>5, <1>6, <1>7, Cases, Zenon

(* The lock keeps readers and the writer apart.                            *)
LEMMA LockStep ==
    ASSUME TypeOK, LockInv, [Next]_vars
    PROVE  LockInv'
<1> USE DEF TypeOK, LockInv
<1>1. CASE Renewer
  <2>1. CASE RenewTick
    BY <2>1 DEF RenewTick, RenewMoves, callVars
  <2>2. CASE LoginFails
    BY <2>2 DEF LoginFails, RenewMoves, callVars
  <2>3. CASE LoginAnswered
    BY <2>3 DEF LoginAnswered, RenewMoves, callVars
  <2>4. CASE LoginLock
    BY <2>4 DEF LoginLock, RenewMoves, callVars, Reading
  <2>5. CASE StoreToken
    BY <2>5 DEF StoreToken, RenewMoves, callVars
  <2>6. CASE StoreApi
    BY <2>6, SMTT(30) DEF StoreApi, RenewMoves, callVars
  <2> QED
    BY <1>1, <2>1, <2>2, <2>3, <2>4, <2>5, <2>6 DEF Renewer
<1>2. ASSUME NEW c \in Callers, CallStep(c)
      PROVE  LockInv'
  <2>1. ASSUME NEW what \in {"key", "put"}, Begin(c, what)
        PROVE  LockInv'
    BY <2>1 DEF Begin, CallMoves
  <2>2. CASE RLock(c)
    BY <2>2 DEF RLock, CallMoves
  <2>3. CASE ReadToken(c)
    BY <2>3 DEF ReadToken, CallMoves
  <2>4. CASE SetToken(c)
    BY <2>4 DEF SetToken, CallMoves
  <2>5. CASE c \in Handlers /\ GetKey(c)
    BY <2>5 DEF GetKey, CallMoves
  <2>6. CASE ParseKey(c)
    BY <2>6 DEF ParseKey, CallMoves
  <2>7. CASE GetFingerprint(c)
    BY <2>7 DEF GetFingerprint, CallMoves
  <2>8. CASE Dial(c)
    BY <2>8 DEF Dial, CallMoves
  <2>9. CASE c \in Consoles /\ Put(c)
    BY <2>9 DEF Put, CallMoves
  <2>10. ASSUME NEW from \in {"get", "parse", "dial", "session"}, Return(c, from)
        PROVE  LockInv'
    BY <2>10 DEF Return, CallMoves
  <2> QED
    BY <1>2, <2>1, <2>2, <2>3, <2>4, <2>5, <2>6, <2>7, <2>8, <2>9, <2>10 DEF CallStep
<1>3. CASE Tick
  BY <1>3 DEF Tick, clientVars, callVars
<1>4. CASE VaultChanges
  BY <1>4 DEF VaultChanges, clientVars, callVars
<1>5. CASE OperatorPuts
  BY <1>5 DEF OperatorPuts, clientVars, callVars
<1>6. CASE RotateSecretID
  BY <1>6 DEF RotateSecretID, clientVars, callVars
<1>7. CASE UNCHANGED vars
  BY <1>7, SMTT(30) DEF vars, clientVars, callVars, vaultVars
<1> QED
  BY <1>1, <1>2, <1>3, <1>4, <1>5, <1>6, <1>7, Cases, Zenon

(* The renewals keep ahead of the expiry.                                  *)
LEMMA LifeStep ==
    ASSUME TypeOK, LockInv, LifeInv, [Next]_vars
    PROVE  LifeInv'
<1> USE TimeAssumption DEF TypeOK, LockInv, LifeInv
<1>1. CASE Renewer
  <2>1. CASE RenewTick
    BY <2>1 DEF RenewTick, RenewMoves, callVars
  <2>2. CASE LoginFails
    BY <2>2 DEF LoginFails, RenewMoves, callVars
  <2>3. CASE LoginAnswered
    BY <2>3 DEF LoginAnswered, RenewMoves, callVars
  <2>4. CASE LoginLock
    BY <2>4 DEF LoginLock, RenewMoves, callVars
  <2>5. CASE StoreToken
    BY <2>5 DEF StoreToken, RenewMoves, callVars
  <2>6. CASE StoreApi
    BY <2>6, SMTT(30) DEF StoreApi, RenewMoves, callVars
  <2> QED
    BY <1>1, <2>1, <2>2, <2>3, <2>4, <2>5, <2>6, Zenon DEF Renewer
<1>2. ASSUME NEW c \in Callers, CallStep(c)
      PROVE  LifeInv'
  <2>1. ASSUME NEW what \in {"key", "put"}, Begin(c, what)
        PROVE  LifeInv'
    BY <2>1 DEF Begin, CallMoves
  <2>2. CASE RLock(c)
    BY <2>2 DEF RLock, CallMoves
  <2>3. CASE ReadToken(c)
    BY <2>3 DEF ReadToken, CallMoves
  <2>4. CASE SetToken(c)
    BY <2>4 DEF SetToken, CallMoves
  <2>5. CASE c \in Handlers /\ GetKey(c)
    BY <2>5, Zenon DEF GetKey, CallMoves
  <2>6. CASE ParseKey(c)
    BY <2>6 DEF ParseKey, CallMoves
  <2>7. CASE GetFingerprint(c)
    BY <2>7 DEF GetFingerprint, CallMoves
  <2>8. CASE Dial(c)
    BY <2>8 DEF Dial, CallMoves
  <2>9. CASE c \in Consoles /\ Put(c)
    BY <2>9 DEF Put, CallMoves
  <2>10. ASSUME NEW from \in {"get", "parse", "dial", "session"}, Return(c, from)
        PROVE  LifeInv'
    BY <2>10 DEF Return, CallMoves
  <2> QED
    BY <1>2, <2>1, <2>2, <2>3, <2>4, <2>5, <2>6, <2>7, <2>8, <2>9, <2>10 DEF CallStep
<1>3. CASE Tick
  BY <1>3 DEF Tick, clientVars, callVars
<1>4. CASE VaultChanges
  BY <1>4 DEF VaultChanges, clientVars, callVars
<1>5. CASE OperatorPuts
  BY <1>5 DEF OperatorPuts, clientVars, callVars
<1>6. CASE RotateSecretID
  BY <1>6 DEF RotateSecretID, clientVars, callVars
<1>7. CASE UNCHANGED vars
  BY <1>7, Zenon DEF vars, clientVars, callVars, vaultVars
<1> QED
  BY <1>1, <1>2, <1>3, <1>4, <1>5, <1>6, <1>7, Cases, Zenon

(* What a connection has fetched stays accounted for.                      *)
LEMMA FetchStep ==
    ASSUME TypeOK, FetchInv, [Next]_vars
    PROVE  FetchInv'
<1> USE DEF TypeOK, FetchInv
<1>1. CASE Renewer
  <2>1. CASE RenewTick
    BY <2>1 DEF RenewTick, RenewMoves, callVars
  <2>2. CASE LoginFails
    BY <2>2 DEF LoginFails, RenewMoves, callVars
  <2>3. CASE LoginAnswered
    BY <2>3, Zenon DEF LoginAnswered, RenewMoves, callVars
  <2>4. CASE LoginLock
    BY <2>4, Zenon DEF LoginLock, RenewMoves, callVars
  <2>5. CASE StoreToken
    BY <2>5, Zenon DEF StoreToken, RenewMoves, callVars
  <2>6. CASE StoreApi
    BY <2>6 DEF StoreApi, RenewMoves, callVars
  <2> QED
    BY <1>1, <2>1, <2>2, <2>3, <2>4, <2>5, <2>6, Zenon DEF Renewer
<1>2. ASSUME NEW c \in Callers, CallStep(c)
      PROVE  FetchInv'
  <2>1. ASSUME NEW what \in {"key", "put"}, Begin(c, what)
        PROVE  FetchInv'
    BY <2>1 DEF Begin, CallMoves
  <2>2. CASE RLock(c)
    BY <2>2 DEF RLock, CallMoves
  <2>3. CASE ReadToken(c)
    BY <2>3 DEF ReadToken, CallMoves
  <2>4. CASE SetToken(c)
    BY <2>4 DEF SetToken, CallMoves
  <2>5. CASE c \in Handlers /\ GetKey(c)
    BY <2>5 DEF GetKey, CallMoves
  <2>6. CASE ParseKey(c)
    BY <2>6, Zenon DEF ParseKey, CallMoves
  <2>7. CASE GetFingerprint(c)
    <3>1. keyver[c] \in 1..Len(kv) /\ fp' = [fp EXCEPT ![c] = kv[Len(kv)].fp]
      <4>1. pc[c] = "get" /\ want[c] = "fp"
        BY <2>7 DEF GetFingerprint, CallMoves
      <4> QED
        BY <2>7, <4>1 DEF GetFingerprint, Current
    <3>2. Len(kv) \in keyver[c]..Len(kv) /\ Len(kv) >= 1
      BY <3>1
    <3> QED
      <4>1. \E v \in keyver'[c]..Len(kv') : v >= 1 /\ kv'[v].fp = fp'[c]
        BY <2>7, <3>1, <3>2, Zenon DEF GetFingerprint, CallMoves
      <4>2. \A h \in Callers \ {c} : fp'[h] = fp[h] /\ pc'[h] = pc[h]
        BY <2>7, <3>1, Zenon DEF GetFingerprint, CallMoves
      <4> QED
        BY <2>7, <4>1, <4>2 DEF GetFingerprint, CallMoves
  <2>8. CASE Dial(c)
    <3>1. PICK k \in HostKeys :
              /\ StrictHostKeyCallback(c, k)
              /\ CallMoves(c, "dial", "session")
              /\ host' = [host EXCEPT ![c] = k]
              /\ UNCHANGED <<api, want, loc, raw, keyver, fp, kv>>
      BY <2>8, Zenon DEF Dial
    <3>2. ~dev => computeFingerprint(host'[c]) = fp[c]
      BY <3>1 DEF StrictHostKeyCallback
    <3>3. \A h \in Callers \ {c} : host'[h] = host[h] /\ pc'[h] = pc[h]
      BY <3>1 DEF CallMoves
    <3> QED
      BY <3>1, <3>2, <3>3 DEF CallMoves
  <2>9. CASE c \in Consoles /\ Put(c)
    <3>1. /\ Len(kv') = Len(kv) + 1
          /\ \A v \in 1..Len(kv) : kv'[v] = kv[v]
      <4>1. [key |-> "good", fp |-> FingerprintSHA256(ClientKey)] \in SecretData
        BY SMTT(30) DEF SecretData, FingerprintSHA256, Fingerprints
      <4> QED
        BY <2>9, <4>1, AppendProperties, SMTT(30) DEF Put
    <3>2. UNCHANGED <<dev, want, raw, keyver, fp, host>>
      BY <2>9, Zenon DEF Put, CallMoves
    <3>3. /\ pc' = [pc EXCEPT ![c] = "idle"] /\ pc[c] = "get"
      BY <2>9, SMTT(30) DEF Put, CallMoves
    <3> QED
      <4>1. ~raw[c]
        BY <2>9, VaultAssumption
      <4>2. \A h \in Callers \ {c} : pc'[h] = pc[h]
        BY <3>3
      <4>3. Len(kv) \in Nat /\ keyver \in [Callers -> 0..Len(kv)]
        OBVIOUS
      <4>4. ASSUME NEW h \in Callers, NEW v \in keyver[h]..Len(kv), v >= 1
            PROVE  v \in keyver'[h]..Len(kv') /\ kv'[v].fp = kv[v].fp
        BY <4>4, <3>1, <3>2, <4>3
      <4>5. ASSUME NEW h \in Callers, pc'[h] \in {"dial", "session"}
            PROVE  \E v \in keyver'[h]..Len(kv') : v >= 1 /\ kv'[v].fp = fp'[h]
        <5>1. h # c /\ pc[h] \in {"dial", "session"}
          BY <3>3, <4>2, <4>5
        <5>2. PICK v \in keyver[h]..Len(kv) : v >= 1 /\ kv[v].fp = fp[h]
          BY <5>1
        <5> QED
          BY <5>2, <4>4, <3>2, Zenon
      <4>6. ASSUME NEW h \in Callers, keyver[h] \in 1..Len(kv)
            PROVE  keyver'[h] \in 1..Len(kv')
        BY <4>6, <3>1, <3>2, <4>3, SMTT(30)
      <4> QED
        BY <3>2, <3>3, <4>1, <4>2, <4>5, <4>6, Zenon
  <2>10. ASSUME NEW from \in {"get", "parse", "dial", "session"}, Return(c, from)
        PROVE  FetchInv'
    BY <2>10, Zenon DEF Return, CallMoves
  <2> QED
    BY <1>2, <2>1, <2>2, <2>3, <2>4, <2>5, <2>6, <2>7, <2>8, <2>9, <2>10, Zenon DEF CallStep
<1>3. CASE Tick
  BY <1>3 DEF Tick, clientVars, callVars
<1>4. CASE VaultChanges
  BY <1>4 DEF VaultChanges, clientVars, callVars
<1>5. CASE OperatorPuts
  BY <1>5 DEF OperatorPuts, clientVars, callVars
<1>6. CASE RotateSecretID
  BY <1>6, Zenon DEF RotateSecretID, clientVars, callVars
<1>7. CASE UNCHANGED vars
  BY <1>7 DEF vars, clientVars, callVars, vaultVars
<1> QED
  BY <1>1, <1>2, <1>3, <1>4, <1>5, <1>6, <1>7, Cases

(* The inductive invariant holds when New returns.                         *)
LEMMA InitInv == Init => Inv
<1> SUFFICES ASSUME Init PROVE Inv
  OBVIOUS
<1> USE TimeAssumption DEF Init
<1>1. TypeOK
  <2>1. kv \in Seq(SecretData) /\ kv # << >>
    BY VaultAssumption
  <2>2. keyver \in [Callers -> 0..Len(kv)]
    BY <2>1
  <2>3. life \in [Tokens -> 0..TTL] /\ due \in 0..Period
    OBVIOUS
  <2> QED
    BY <2>1, <2>2, <2>3, Zenon DEF TypeOK
<1>2. LockInv
  BY DEF LockInv
<1>3. LifeInv
  BY DEF LifeInv
<1>4. FetchInv
  BY DEF FetchInv
<1> QED
  BY <1>1, <1>2, <1>3, <1>4 DEF Inv

(* It holds in every reachable state.                                      *)
LEMMA Invariance == Spec => []Inv
<1>1. Inv /\ [Next]_vars => Inv'
  BY TypeStep, LockStep, LifeStep, FetchStep DEF Inv
<1> QED
  BY InitInv, <1>1, PTL DEF Spec

(* The client's, the calls' and Vault's state keep their types.            *)
THEOREM TypeCorrect == Spec => []TypeOK
<1>1. Inv => TypeOK
  BY DEF Inv
<1> QED
  BY Invariance, <1>1, PTL

(* No fetch puts a replaced token back, for any number of connections and  *)
(* consoles: the read lock of FetchPrivateKey, FetchHostFingerprint and    *)
(* PutSecret covers both the read of c.token and SetToken.                 *)
THEOREM NoStaleToken == Spec => []TokensAgree
<1>1. Inv => TokensAgree
  BY Zenon DEF Inv, LockInv, TokensAgree
<1> QED
  BY Invariance, <1>1, PTL

(* On every way out of connectToTarget the key is wiped.                   *)
THEOREM KeysAreWiped == Spec => []KeyWiped
<1>1. Inv => KeyWiped
  BY DEF Inv, FetchInv, KeyWiped
<1> QED
  BY Invariance, <1>1, PTL

(* A session's host had its fingerprint in Vault during the attempt, for   *)
(* every sequence of writes to the secret.                                 *)
THEOREM HostsAreVerified == Spec => []HostVerified
<1>1. Inv => HostVerified
  <2> SUFFICES ASSUME Inv, NEW h \in Handlers, pc[h] = "session", ~dev
               PROVE  \E v \in keyver[h]..Len(kv) :
                         kv[v].fp = computeFingerprint(host[h])
    BY DEF HostVerified
  <2>1. h \in Callers
    BY DEF Callers
  <2>2. PICK v \in keyver[h]..Len(kv) : kv[v].fp = fp[h]
    BY <2>1 DEF Inv, FetchInv
  <2>3. computeFingerprint(host[h]) = fp[h]
    BY <2>1 DEF Inv, FetchInv
  <2> QED
    BY <2>2, <2>3
<1> QED
  BY Invariance, <1>1, PTL

(* Every period shorter than the token's life keeps the token valid as     *)
(* long as the last renewal succeeded.                                     *)
THEOREM ExpiryNeedsFailure == Spec => []ExpiryMeansFailure
<1>1. Inv => ExpiryMeansFailure
  <2> SUFFICES ASSUME Inv, ~dev, ~failed
               PROVE  life[token] # 0
    BY DEF ExpiryMeansFailure
  <2>1. renew \in {"wait", "login", "lock", "token", "api"}
    BY DEF Inv, TypeOK, LifeInv
  <2>2. TTL \in Nat /\ Period \in Nat /\ TTL > Period /\ due \in Nat
    BY TimeAssumption DEF Inv, TypeOK
  <2>3. CASE renew = "wait"
    BY <2>2, <2>3 DEF Inv, LifeInv
  <2>4. CASE renew \in {"login", "lock", "token"}
    BY <2>2, <2>4 DEF Inv, LifeInv
  <2>5. CASE renew = "api"
    BY <2>2, <2>5 DEF Inv, LifeInv, LockInv
  <2> QED
    BY <2>1, <2>3, <2>4, <2>5
<1> QED
  BY Invariance, <1>1, PTL

=============================================================================
