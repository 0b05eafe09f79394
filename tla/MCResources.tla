----------------------------- MODULE MCResources -----------------------------
(* Resources with a few processes and objects.                                *)
EXTENDS Resources, TLC

Symmetry == Permutations(Processes) \cup Permutations(Objects)
=============================================================================
