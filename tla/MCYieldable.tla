---------------------------- MODULE MCYieldable -----------------------------
(* Yieldable with a few consumers, and what a comment promises.              *)
EXTENDS Yieldable

CONSTANTS a, b

\* Once the callback is done, the process shall "reply with null values to
\* indicate the yieldable is exhausted" (yieldable.ts:143-144): a call ends
\* then, too, while the process lives.
Exhausted == \A p \in Holders : p \in calling /\ phase = "done" ~> p \notin calling \/ ~Count!Active
=============================================================================
