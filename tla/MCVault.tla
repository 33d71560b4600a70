------------------------------ MODULE MCVault ------------------------------
(* A small instance of Vault for TLC.                                      *)
EXTENDS Vault, TLC

CONSTANTS h1, k1, c1, a1, t1, t2

\* What operators store: a fingerprint in the form the node computes, the
\* same as ssh-keygen prints it, none, and a key that does not parse.
MCSecrets ==
    {[key |-> "good", fp |-> computeFingerprint(h1)],
     [key |-> "good", fp |-> FingerprintSHA256(h1)],
     [key |-> "good", fp |-> NoFp],
     [key |-> "bad", fp |-> computeFingerprint(h1)]}

=============================================================================
