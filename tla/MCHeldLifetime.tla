--------------------------- MODULE MCHeldLifetime ---------------------------
(* HeldLifetime on a few holders and handles.                                *)
EXTENDS HeldLifetime, TLC

CONSTANTS a, b

Symmetry == Permutations(Holders) \cup Permutations(Handles)
=============================================================================
