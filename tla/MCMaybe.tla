------------------------------ MODULE MCMaybe -------------------------------
(* Maybe with a few clients, and Maybes of which some may trap or end.       *)
EXTENDS Maybe
=============================================================================
