------------------------------- MODULE MCAuth -------------------------------
EXTENDS Auth

CONSTANTS u1, w1, w2, w3
=============================================================================
