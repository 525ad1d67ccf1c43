--------------------------- MODULE MCTokenBucket ---------------------------
(* Four requests compete for a bucket of two tokens that needs two polls to *)
(* earn one back; requests are interchangeable.                              *)
EXTENDS TokenBucket, TLC

CONSTANTS r1, r2, r3, r4

MCRequests == {r1, r2, r3, r4}
Interchangeable == Permutations(MCRequests)
=============================================================================
