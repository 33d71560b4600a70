---------------------------- MODULE TokenBucket ----------------------------
(***************************************************************************)
(* What the IP rate limiter promises: every address has one token bucket   *)
(* that exists forever, holds at most Burst tokens and gains one per tick. *)
(* A connection is refused only when the bucket of its address is empty.   *)
(* No connection ever meets a second bucket for the same address.          *)
(***************************************************************************)
EXTENDS Integers

CONSTANTS Ips, NoIp, Conns, Burst

VARIABLES bucket,   \* tokens left for an address
          asking,   \* the address a connection is being judged for, or NoIp
          verdict   \* the last answer a connection got

vars == <<bucket, asking, verdict>>

Init ==
    /\ bucket  = [i \in Ips |-> Burst]
    /\ asking  = [c \in Conns |-> NoIp]
    /\ verdict = [c \in Conns |-> "none"]

Ask(c, i) ==
    /\ asking[c] = NoIp
    /\ asking'  = [asking EXCEPT ![c] = i]
    /\ verdict' = [verdict EXCEPT ![c] = "none"]
    /\ UNCHANGED bucket

Admit(c) ==
    /\ asking[c] # NoIp
    /\ bucket[asking[c]] > 0
    /\ bucket'  = [bucket EXCEPT ![asking[c]] = @ - 1]
    /\ verdict' = [verdict EXCEPT ![c] = "allow"]
    /\ asking'  = [asking EXCEPT ![c] = NoIp]

Refuse(c) ==
    /\ asking[c] # NoIp
    /\ bucket[asking[c]] = 0
    /\ verdict' = [verdict EXCEPT ![c] = "deny"]
    /\ asking'  = [asking EXCEPT ![c] = NoIp]
    /\ UNCHANGED bucket

Refill ==
    /\ bucket' = [i \in Ips |-> IF bucket[i] < Burst THEN bucket[i] + 1 ELSE Burst]
    /\ UNCHANGED <<asking, verdict>>

Next ==
    \/ \E c \in Conns, i \in Ips : Ask(c, i)
    \/ \E c \in Conns : Admit(c) \/ Refuse(c)
    \/ Refill

Spec == Init /\ [][Next]_vars
=============================================================================
