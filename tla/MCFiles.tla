------------------------------ MODULE MCFiles -------------------------------
(* Files with a few clients and names.                                       *)
EXTENDS Files

CONSTANTS a, b, f, g
=============================================================================
