----------------------------- MODULE MCConsole -----------------------------
(* Two users, one host, lists of up to two entries and two generated keys. *)
EXTENDS Console

MCUsers == 1..2
=============================================================================
