--------------------------- MODULE MCModelMapping ---------------------------
(* Three names, of which one is mapped by default; every MODEL_MAPPINGS of    *)
(* at most three pairs, valid and invalid.                                   *)
EXTENDS ModelMapping, TLC

CONSTANTS a, b, x

MCNames == {a, b, x}
MCDefaults == a :> x
=============================================================================
