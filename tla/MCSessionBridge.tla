-------------------------- MODULE MCSessionBridge --------------------------
(* Small instances of SessionBridge for TLC.                               *)
EXTENDS SessionBridge, TLC

CONSTANTS s1, n1, n2, g1, k1, a1

\* Every session and every call on n1; n2, where there is one, only crashes
\* and restarts.
HomeN1 == [s \in Sessions |-> n1]
AtN1   == [c \in Callers |-> n1]
\* One (user, server) pair for all sessions.
SameGrant == [s \in Sessions |-> g1]

=============================================================================
