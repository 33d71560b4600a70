---------------------------- MODULE MCRateLimit ----------------------------
EXTENDS RateLimit

CONSTANTS i1, i2, c1, c2, l1, l2, l3, l4
=============================================================================
