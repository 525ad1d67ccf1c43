---------------------------- MODULE MCChatSync ----------------------------
(* Two requests with the same body, and two attempts for each.               *)
EXTENDS ChatSync, TLC

CONSTANTS r1, r2, k1

MCRequests == {r1, r2}
MCKeys == {k1}
SameBody == [r \in MCRequests |-> k1]
=============================================================================
