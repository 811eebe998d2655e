------------------------- MODULE MCIdempotentHandler -------------------------
(* Small instances of IdempotentHandler for TLC: the cfg files give the     *)
(* workers and the keys.                                                    *)
EXTENDS IdempotentHandler
==============================================================================
