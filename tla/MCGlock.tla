------------------------------ MODULE MCGlock ------------------------------
EXTENDS Glock

CONSTANTS c1, c2, c3, b1, b2

MCClients == {c1, c2, c3}
MCBits == {b1, b2}
=============================================================================
