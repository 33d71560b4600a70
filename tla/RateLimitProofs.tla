-------------------------- MODULE RateLimitProofs --------------------------
(***************************************************************************)
(* Proofs about RateLimit for every set of addresses and connections, and  *)
(* every burst and ttl with MaxStall + Burst <= TTL.  The argument for the *)
(* refinement: a connection inside Allow keeps its entry fresh (InUse), a  *)
(* bucket gains a token for every tick its entry stays unused (Refilled),  *)
(* so what Cleanup evicts is full and nobody holds it.                     *)
(***************************************************************************)
EXTENDS RateLimit, TLAPS

\* A connection inside Allow was the entry's last user or older than it.
InUse == \A c \in Conns :
    IF asking[c] = NoIp THEN held[c] = NoLimiter
    ELSE /\ held[c] = limiters[asking[c]]
         /\ held[c] # NoLimiter
         /\ idle[asking[c]] <= stall[c]

\* No two addresses share a limiter.
OneOwner == \A i, j \in Ips :
    limiters[i] = limiters[j] /\ limiters[i] # NoLimiter => i = j

\* A bucket is full, or was spent from while its entry was at most MaxStall old.
Refilled == \A i \in Ips : limiters[i] # NoLimiter =>
    tokens[limiters[i]] = Burst \/ idle[i] <= tokens[limiters[i]] + MaxStall

Inductive == TypeOK /\ InUse /\ OneOwner /\ Refilled

-----------------------------------------------------------------------------
\* What Cleanup evicts is full, and no connection holds it.
LEMMA EvictedFull ==
    ASSUME Inductive, now # -1, NEW i \in Ips, Expired(i)
    PROVE  tokens[limiters[i]] = Burst /\ \A c \in Conns : asking[c] # i
<1>1. now \in 0..MaxStall /\ limiters[i] \in Limiters /\ idle[i] > TTL
  BY LimitAssumption DEF Inductive, TypeOK, Expired, MaxIdle
<1>2. tokens[limiters[i]] \in 0..Burst /\ idle[i] \in Nat
  BY <1>1 DEF Inductive, TypeOK, MaxIdle
<1>3. tokens[limiters[i]] = Burst
  BY <1>1, <1>2, LimitAssumption DEF Inductive, Refilled, Expired
<1>4. ASSUME NEW c \in Conns, asking[c] = i PROVE FALSE
  <2>1. idle[i] <= stall[c] /\ stall[c] \in 0..MaxStall
    BY <1>4, LimitAssumption DEF Inductive, InUse, TypeOK
  <2> QED
    BY <2>1, <1>1, <1>2, LimitAssumption
<1> QED
  BY <1>3, <1>4

\* Init establishes the invariant.
LEMMA InitInductive == Init => Inductive
BY LimitAssumption DEF Init, Inductive, TypeOK, InUse, OneOwner, Refilled, MaxIdle

\* Every step keeps the types.
LEMMA TypeStep == Inductive /\ [Next]_vars => TypeOK'
<1> SUFFICES ASSUME Inductive, [Next]_vars PROVE TypeOK'
  OBVIOUS
<1> USE LimitAssumption DEF Inductive, TypeOK, MaxIdle
<1>1. ASSUME NEW c \in Conns, NEW i \in Ips, LookupFound(c, i) PROVE TypeOK'
  BY <1>1 DEF LookupFound, Use
<1>2. ASSUME NEW c \in Conns, NEW i \in Ips, LookupNew(c, i) PROVE TypeOK'
  BY <1>2 DEF LookupNew, Use, Free
<1>3. ASSUME NEW c \in Conns, Admit(c) PROVE TypeOK'
  <2>1. held[c] \in Limiters
    BY <1>3 DEF Admit, InUse
  <2> QED
    BY <1>3, <2>1 DEF Admit, Leave
<1>4. ASSUME NEW c \in Conns, Refuse(c) PROVE TypeOK'
  BY <1>4 DEF Refuse, Leave
<1>5. CASE CleanupTick
  BY <1>5 DEF CleanupTick
<1>6. CASE Evict
  BY <1>6 DEF Evict
<1>7. CASE Tick
  BY <1>7 DEF Tick
<1>8. CASE UNCHANGED vars
  BY <1>8 DEF vars
<1> QED
  BY <1>1, <1>2, <1>3, <1>4, <1>5, <1>6, <1>7, <1>8 DEF Next, Allow

\* Every step keeps the facts about the entries and their users.
LEMMA EntryStep == Inductive /\ [Next]_vars => (InUse /\ OneOwner /\ Refilled)'
<1> SUFFICES ASSUME Inductive, [Next]_vars PROVE (InUse /\ OneOwner /\ Refilled)'
  OBVIOUS
<1> USE LimitAssumption DEF Inductive, TypeOK, InUse, OneOwner, Refilled, MaxIdle
<1>1. ASSUME NEW c \in Conns, NEW i \in Ips, LookupFound(c, i)
      PROVE  (InUse /\ OneOwner /\ Refilled)'
  BY <1>1 DEF LookupFound, Use
<1>2. ASSUME NEW c \in Conns, NEW i \in Ips, LookupNew(c, i)
      PROVE  (InUse /\ OneOwner /\ Refilled)'
  <2>1. PICK l \in Free : /\ limiters' = [limiters EXCEPT ![i] = l]
                          /\ tokens' = [tokens EXCEPT ![l] = Burst]
                          /\ Use(c, i, l)
    BY <1>2 DEF LookupNew
  <2>2. l \in Limiters /\ \A j \in Ips : limiters[j] # l
    BY DEF Free
  <2>3. \A d \in Conns : asking[d] # i
    BY <1>2 DEF LookupNew
  <2>4. InUse'
    BY <1>2, <2>1, <2>2, <2>3 DEF LookupNew, Use
  <2>5. OneOwner'
    BY <2>1, <2>2
  <2>6. Refilled'
    BY <2>1, <2>2 DEF Use
  <2> QED
    BY <2>4, <2>5, <2>6
<1>3. ASSUME NEW c \in Conns, Admit(c) PROVE (InUse /\ OneOwner /\ Refilled)'
  <2>1. /\ asking[c] \in Ips /\ held[c] = limiters[asking[c]] /\ held[c] \in Limiters
        /\ idle[asking[c]] <= MaxStall
    BY <1>3 DEF Admit
  <2>2. InUse' /\ OneOwner'
    BY <1>3, <2>1 DEF Admit, Leave
  <2>3. ASSUME NEW i \in Ips, limiters[i] # NoLimiter
        PROVE  tokens'[limiters[i]] = Burst \/ idle[i] <= tokens'[limiters[i]] + MaxStall
    <3>1. CASE i = asking[c]
      <4>1. tokens'[limiters[i]] \in Nat
        BY <1>3, <2>1, <3>1 DEF Admit
      <4> QED
        BY <4>1, <2>1, <3>1
    <3>2. CASE i # asking[c]
      BY <1>3, <2>1, <2>3, <3>2 DEF Admit
    <3> QED
      BY <3>1, <3>2
  <2> QED
    BY <1>3, <2>2, <2>3 DEF Admit, Leave
<1>4. ASSUME NEW c \in Conns, Refuse(c) PROVE (InUse /\ OneOwner /\ Refilled)'
  BY <1>4 DEF Refuse, Leave
<1>5. CASE CleanupTick
  BY <1>5 DEF CleanupTick
<1>6. CASE Evict
  <2>1. \A i \in Ips : Expired(i) => \A c \in Conns : asking[c] # i
    BY <1>6, EvictedFull DEF Evict
  <2> QED
    BY <1>6, <2>1 DEF Evict
<1>7. CASE Tick
  <2>1. InUse'
    BY <1>7 DEF Tick
  <2>2. OneOwner' /\ Refilled'
    BY <1>7 DEF Tick
  <2> QED
    BY <2>1, <2>2
<1>8. CASE UNCHANGED vars
  BY <1>8 DEF vars
<1> QED
  BY <1>1, <1>2, <1>3, <1>4, <1>5, <1>6, <1>7, <1>8 DEF Next, Allow

\* The inductive invariant holds in every reachable state.
LEMMA InductiveInvariant == Spec => []Inductive
<1>1. Inductive /\ [Next]_vars => Inductive'
  BY TypeStep, EntryStep DEF Inductive
<1> QED
  BY InitInductive, <1>1, PTL DEF Spec

-----------------------------------------------------------------------------
\* The limiter map keeps its types: no bucket is overdrawn or overfull.
THEOREM TypeCorrect == Spec => []TypeOK
<1>1. Inductive => TypeOK
  BY DEF Inductive
<1> QED
  BY InductiveInvariant, <1>1, PTL

\* The limiter a connection asks after the unlock is still the one in the map.
THEOREM NoStaleLimiter == Spec => []HeldIsCurrent
<1>1. Inductive => HeldIsCurrent
  BY DEF Inductive, InUse, HeldIsCurrent
<1> QED
  BY InductiveInvariant, <1>1, PTL

-----------------------------------------------------------------------------
\* The initial map is a full bucket for every address.
LEMMA QuotaInit == Init => Quota!Init
BY DEF Init, Quota!Init, Bucket

\* Every step of the map is a step of the buckets, or leaves them alone.
LEMMA QuotaStep == Inductive /\ [Next]_vars => [Quota!Next]_(Quota!vars)
<1> SUFFICES ASSUME Inductive, [Next]_vars PROVE [Quota!Next]_(Quota!vars)
  OBVIOUS
<1> USE LimitAssumption DEF Inductive, TypeOK, InUse, OneOwner
<1>1. ASSUME NEW c \in Conns, NEW i \in Ips, LookupFound(c, i) PROVE Quota!Next
  <2>1. Quota!Ask(c, i)
    BY <1>1 DEF LookupFound, Use, Quota!Ask, Bucket
  <2> QED
    BY <2>1 DEF Quota!Next
<1>2. ASSUME NEW c \in Conns, NEW i \in Ips, LookupNew(c, i) PROVE Quota!Next
  <2>1. PICK l \in Free : /\ limiters' = [limiters EXCEPT ![i] = l]
                          /\ tokens' = [tokens EXCEPT ![l] = Burst]
                          /\ Use(c, i, l)
    BY <1>2 DEF LookupNew
  <2>2. l \in Limiters /\ \A j \in Ips : limiters[j] # l
    BY DEF Free
  <2>3. Bucket' = Bucket
    BY <1>2, <2>1, <2>2 DEF LookupNew, Bucket
  <2>4. Quota!Ask(c, i)
    BY <1>2, <2>1, <2>3 DEF LookupNew, Use, Quota!Ask
  <2> QED
    BY <2>4 DEF Quota!Next
<1>3. ASSUME NEW c \in Conns, Admit(c) PROVE Quota!Next
  <2>1. asking[c] \in Ips /\ held[c] = limiters[asking[c]] /\ held[c] \in Limiters
    BY <1>3 DEF Admit
  <2>2. Bucket[asking[c]] = tokens[held[c]]
    BY <2>1 DEF Bucket
  <2>3. Bucket' = [Bucket EXCEPT ![asking[c]] = @ - 1]
    <3>1. \A i \in Ips : Bucket'[i] = IF i = asking[c] THEN Bucket[i] - 1 ELSE Bucket[i]
      BY <1>3, <2>1 DEF Admit, Leave, Bucket
    <3>2. DOMAIN Bucket = Ips /\ DOMAIN Bucket' = Ips
      BY DEF Bucket
    <3>3. Bucket' = [i \in Ips |-> Bucket'[i]]
      BY DEF Bucket
    <3> QED
      BY <3>1, <3>2, <3>3
  <2>4. Quota!Admit(c)
    BY <1>3, <2>2, <2>3 DEF Admit, Leave, Quota!Admit
  <2> QED
    BY <2>4 DEF Quota!Next
<1>4. ASSUME NEW c \in Conns, Refuse(c) PROVE Quota!Next
  <2>1. asking[c] \in Ips /\ held[c] = limiters[asking[c]] /\ held[c] \in Limiters
    BY <1>4 DEF Refuse
  <2>2. Bucket[asking[c]] = tokens[held[c]] /\ Bucket' = Bucket
    BY <1>4, <2>1 DEF Bucket, Refuse, Leave
  <2>3. Quota!Refuse(c)
    BY <1>4, <2>2 DEF Refuse, Leave, Quota!Refuse
  <2> QED
    BY <2>3 DEF Quota!Next
<1>5. CASE CleanupTick
  BY <1>5 DEF CleanupTick, Quota!vars, Bucket
<1>6. CASE Evict
  <2>1. \A i \in Ips : Expired(i) => tokens[limiters[i]] = Burst
    BY <1>6, EvictedFull DEF Evict
  <2>2. Bucket' = Bucket
    BY <1>6, <2>1 DEF Evict, Bucket
  <2> QED
    BY <1>6, <2>2 DEF Evict, Quota!vars
<1>7. CASE Tick
  <2>1. Bucket' = [i \in Ips |-> IF Bucket[i] < Burst THEN Bucket[i] + 1 ELSE Burst]
    BY <1>7 DEF Tick, Bucket
  <2>2. Quota!Refill
    BY <1>7, <2>1 DEF Tick, Quota!Refill
  <2> QED
    BY <2>2 DEF Quota!Next
<1>8. CASE UNCHANGED vars
  BY <1>8 DEF vars, Quota!vars, Bucket
<1> QED
  BY <1>1, <1>2, <1>3, <1>4, <1>5, <1>6, <1>7, <1>8 DEF Next, Allow

\* The map with its eviction implements one everlasting bucket per address.
THEOREM QuotaImplemented == Spec => ImplementsQuota
BY QuotaInit, QuotaStep, InductiveInvariant, PTL DEF Spec, ImplementsQuota, Quota!Spec
=============================================================================
