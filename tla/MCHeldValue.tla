---------------------------- MODULE MCHeldValue -----------------------------
(* HeldValue with a few clients and callbacks.                               *)
EXTENDS HeldValue, TLC

CONSTANTS a, b

Timed == {Forever, 2}
Numbers == 0..1

\* A callback that counts, and traps at 1.
Count == [n \in Numbers |-> IF n = 1 THEN Trap ELSE n + 1]
Counting == {Count}
=============================================================================
