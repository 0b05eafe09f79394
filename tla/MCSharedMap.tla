---------------------------- MODULE MCSharedMap -----------------------------
(* SharedMap with a few clients, keys and values.                            *)
EXTENDS SharedMap

CONSTANTS a, b, k, l, v
=============================================================================
