---------------------------- MODULE MCMessaging -----------------------------
(* Messaging on a few clients, with what the comments of the code promise.   *)
EXTENDS Messaging, TLC

CONSTANTS a, b

Symmetry == Permutations(Clients)

\* Process.tag gives "unique tag identifiers for process linking and request
\* sending" (process/index.ts:227-228): a request never ends with a signal.
TagsAreUnique == \A c \in Clients : outcome[c].kind # "signal"
=============================================================================
