------------------------------ MODULE MCCache ------------------------------
(* Two keys, two writers and one call of Stop.                               *)
EXTENDS Cache

CONSTANTS k1, k2, w1, w2, s1

MCKeys == {k1, k2}
MCWriters == {w1, w2}
=============================================================================
