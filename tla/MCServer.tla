------------------------------ MODULE MCServer ------------------------------
(* Two chat requests, a scrape and a request without a key.                  *)
EXTENDS Server

CONSTANTS r1, r2, m1, u1

MCRequests == {r1, r2, m1, u1}
=============================================================================
