----------------------------- MODULE RateLimit -----------------------------
(***************************************************************************)
(* IPRateLimiter: a map from addresses to limiter objects that is filled   *)
(* by Allow and emptied by the Cleanup goroutine.  Allow finds or makes    *)
(* the limiter under the mutex and asks it after the unlock, so Cleanup    *)
(* may run in between.                                                     *)
(*                                                                         *)
(* One tick is the time in which a limiter gains one token: New gives a    *)
(* bucket of Burst tokens that refills in a minute, and a ttl of ten       *)
(* minutes, which is 10 * Burst ticks.  An entry's expiry is kept as the   *)
(* ticks since its last use.                                               *)
(***************************************************************************)
EXTENDS Integers

CONSTANTS Ips, NoIp,           \* source addresses
          Conns,               \* goroutines of handleConnection
          Limiters, NoLimiter, \* identities of *rate.Limiter objects
          Burst,               \* requestsPerMinute
          TTL,                 \* ttl, in ticks
          MaxStall             \* longest pause of a goroutine between two of its steps

\* New: the ttl covers a pause in Allow and a complete refill after it.
ASSUME LimitAssumption ==
    /\ NoIp \notin Ips /\ NoLimiter \notin Limiters
    /\ Burst \in Nat \ {0} /\ TTL \in Nat /\ MaxStall \in Nat
    /\ MaxStall + Burst <= TTL

VARIABLES
    limiters,  \* l.limiters: the limiter of an address, or NoLimiter
    idle,      \* ticks since the last access, from which l.expiry follows
    tokens,    \* tokens in a limiter object
    asking,    \* a connection's ip while it is inside Allow, or NoIp
    held,      \* its local limiter
    stall,     \* ticks since it released the mutex
    verdict,   \* what Allow returned last
    now        \* Cleanup's local now, as the ticks since it was read; -1 between rounds

vars == <<limiters, idle, tokens, asking, held, stall, verdict, now>>

Init ==
    /\ limiters = [i \in Ips |-> NoLimiter]
    /\ idle     = [i \in Ips |-> 0]
    /\ tokens   = [l \in Limiters |-> Burst]
    /\ asking   = [c \in Conns |-> NoIp]
    /\ held     = [c \in Conns |-> NoLimiter]
    /\ stall    = [c \in Conns |-> 0]
    /\ verdict  = [c \in Conns |-> "none"]
    /\ now      = -1

-----------------------------------------------------------------------------
\* Allow up to the unlock.  NewLimiter returns an object nobody else refers to.

Free == {l \in Limiters : (\A i \in Ips : limiters[i] # l) /\ (\A c \in Conns : held[c] # l)}

Use(c, i, l) ==
    /\ idle'    = [idle EXCEPT ![i] = 0]
    /\ asking'  = [asking EXCEPT ![c] = i]
    /\ held'    = [held EXCEPT ![c] = l]
    /\ stall'   = [stall EXCEPT ![c] = 0]
    /\ verdict' = [verdict EXCEPT ![c] = "none"]
    /\ UNCHANGED now

LookupFound(c, i) ==
    /\ asking[c] = NoIp
    /\ limiters[i] # NoLimiter
    /\ Use(c, i, limiters[i])
    /\ UNCHANGED <<limiters, tokens>>

\* VARIANT: the new limiter is used but never put into the map.
LookupForgets(c, i) ==
    /\ asking[c] = NoIp
    /\ limiters[i] = NoLimiter
    /\ \E l \in Free : tokens' = [tokens EXCEPT ![l] = Burst] /\ Use(c, i, l)
    /\ UNCHANGED limiters

LookupNew(c, i) ==
    /\ asking[c] = NoIp
    /\ limiters[i] = NoLimiter
    /\ \E l \in Free :
          /\ limiters' = [limiters EXCEPT ![i] = l]
          /\ tokens'   = [tokens EXCEPT ![l] = Burst]
          /\ Use(c, i, l)

\* return limiter.Allow()
Leave(c) ==
    /\ asking' = [asking EXCEPT ![c] = NoIp]
    /\ held'   = [held EXCEPT ![c] = NoLimiter]
    /\ stall'  = [stall EXCEPT ![c] = 0]
    /\ UNCHANGED <<limiters, idle, now>>

Admit(c) ==
    /\ asking[c] # NoIp
    /\ tokens[held[c]] > 0
    /\ tokens'  = [tokens EXCEPT ![held[c]] = @ - 1]
    /\ verdict' = [verdict EXCEPT ![c] = "allow"]
    /\ Leave(c)

Refuse(c) ==
    /\ asking[c] # NoIp
    /\ tokens[held[c]] = 0
    /\ verdict' = [verdict EXCEPT ![c] = "deny"]
    /\ Leave(c)
    /\ UNCHANGED tokens

-----------------------------------------------------------------------------
\* Cleanup: now is read before the mutex is taken.

CleanupTick ==
    /\ now = -1
    /\ now' = 0
    /\ UNCHANGED <<limiters, idle, tokens, asking, held, stall, verdict>>

\* VARIANT: a ttl that is too short for the bucket to refill.
ExpiredEarly(i) == limiters[i] # NoLimiter /\ idle[i] - now > MaxStall

\* VARIANT: the comparison is the wrong way round.
ExpiredBefore(i) == limiters[i] # NoLimiter /\ idle[i] - now < TTL

\* now.After(exp)
Expired(i) == limiters[i] # NoLimiter /\ idle[i] - now > TTL

Evict ==
    /\ now # -1
    /\ limiters' = [i \in Ips |-> IF Expired(i) THEN NoLimiter ELSE limiters[i]]
    /\ idle'     = [i \in Ips |-> IF Expired(i) THEN 0 ELSE idle[i]]
    /\ now'      = -1
    /\ UNCHANGED <<tokens, asking, held, stall, verdict>>

-----------------------------------------------------------------------------
\* The clock.  idle stops counting once the entry is expired for every now a
\* round of Cleanup can hold; no goroutine pauses longer than MaxStall.

MaxIdle == TTL + MaxStall + 1

Tick ==
    /\ now < MaxStall
    /\ \A c \in Conns : asking[c] # NoIp => stall[c] < MaxStall
    /\ idle'   = [i \in Ips |-> IF limiters[i] # NoLimiter /\ idle[i] < MaxIdle
                                THEN idle[i] + 1 ELSE idle[i]]
    /\ tokens' = [l \in Limiters |-> IF tokens[l] < Burst THEN tokens[l] + 1 ELSE Burst]
    /\ stall'  = [c \in Conns |-> IF asking[c] # NoIp THEN stall[c] + 1 ELSE 0]
    /\ now'    = IF now = -1 THEN -1 ELSE now + 1
    /\ UNCHANGED <<limiters, asking, held, verdict>>

Allow(c) == (\E i \in Ips : LookupFound(c, i) \/ LookupNew(c, i)) \/ Admit(c) \/ Refuse(c)

Next == (\E c \in Conns : Allow(c)) \/ CleanupTick \/ Evict \/ Tick

Spec == Init /\ [][Next]_vars

\* The clock runs, Cleanup's goroutine is scheduled, and a call of Allow returns.
\* Nobody is obliged to connect.
FairSpec ==
    /\ Spec
    /\ WF_vars(Tick)
    /\ WF_vars(CleanupTick) /\ WF_vars(Evict)
    /\ \A c \in Conns : WF_vars(Admit(c) \/ Refuse(c))

-----------------------------------------------------------------------------
TypeOK ==
    /\ limiters \in [Ips -> Limiters \cup {NoLimiter}]
    /\ idle \in [Ips -> 0..MaxIdle]
    /\ tokens \in [Limiters -> 0..Burst]
    /\ asking \in [Conns -> Ips \cup {NoIp}]
    /\ held \in [Conns -> Limiters \cup {NoLimiter}]
    /\ stall \in [Conns -> 0..MaxStall]
    /\ verdict \in [Conns -> {"none", "allow", "deny"}]
    /\ now \in -1..MaxStall

\* The limiter a connection asks is the one the map holds for its address, although
\* the mutex was released in between (ratelimit.go:62-64): two connections of one
\* address never spend from two buckets.
HeldIsCurrent == \A c \in Conns : asking[c] # NoIp => held[c] = limiters[asking[c]]

\* The tokens an address can spend: what its limiter holds, or what a new one would.
Bucket == [i \in Ips |-> IF limiters[i] = NoLimiter THEN Burst ELSE tokens[limiters[i]]]

Quota == INSTANCE TokenBucket WITH bucket <- Bucket

\* Evicting an address and making it a new limiter later never gives it tokens: the
\* map with its eviction (ratelimit.go:47-85) behaves as one bucket per address.
ImplementsQuota == Quota!Spec

\* An address that stops connecting is forgotten (ratelimit.go:9-11: the map does not
\* grow with the addresses that were ever seen).
StaleForgotten ==
    \A i \in Ips : <>[](\A c \in Conns : asking[c] # i) => <>[](limiters[i] = NoLimiter)
=============================================================================
