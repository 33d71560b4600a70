------------------------------ MODULE MCAccess ------------------------------
(***************************************************************************)
(* A developer (u1) whose role reaches one of two environments, a user     *)
(* (u2) whose role has no policy, and a user to be created (u3).           *)
(***************************************************************************)
EXTENDS Access

CONSTANTS u1, u2, u3, a1, a2, dev, prod, backend, ghost

MCEnvOf       == [s \in Servers |-> IF s = 1 THEN dev ELSE prod]
MCAllowedEnvs == [r \in Roles |-> IF r = backend THEN {dev} ELSE {}]
MCSeedRole    == [u \in Users |-> IF u = u1 THEN backend ELSE ghost]
=============================================================================
