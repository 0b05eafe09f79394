----------------------------- MODULE RemoteCall -----------------------------
(***************************************************************************)
(* What Process#request promises its caller (process/index.ts:532-555): a  *)
(* call ends with the answer to that very call, computed once, or with a   *)
(* timeout.                                                                *)
(***************************************************************************)
EXTENDS Naturals

CONSTANT Clients

VARIABLES
  calls,     \* client -> the number of its last call
  waiting,   \* client -> does it wait for that call to end?
  served,    \* the calls the server has computed an answer to
  outcome    \* client -> the call its last answer belongs to, 0 for none

Init ==
  /\ calls = [c \in Clients |-> 0]
  /\ waiting = [c \in Clients |-> FALSE]
  /\ served = {}
  /\ outcome = [c \in Clients |-> 0]

Call(c) ==
  /\ ~waiting[c]
  /\ calls' = [calls EXCEPT ![c] = @ + 1]
  /\ waiting' = [waiting EXCEPT ![c] = TRUE]
  /\ outcome' = [outcome EXCEPT ![c] = 0]
  /\ UNCHANGED served

\* The server may also serve a call whose caller gave up.
Serve(c, n) ==
  /\ n \in 1..calls[c] /\ <<c, n>> \notin served
  /\ served' = served \cup {<<c, n>>}
  /\ UNCHANGED <<calls, waiting, outcome>>

End(c) == waiting[c] /\ waiting' = [waiting EXCEPT ![c] = FALSE] /\ UNCHANGED <<calls, served>>

Answer(c) ==
  /\ <<c, calls[c]>> \in served
  /\ outcome' = [outcome EXCEPT ![c] = calls[c]]
  /\ End(c)

GiveUp(c) == End(c) /\ UNCHANGED outcome

Next == \E c \in Clients : Call(c) \/ Answer(c) \/ GiveUp(c) \/ \E n \in 1..calls[c] : Serve(c, n)

Spec == Init /\ [][Next]_<<calls, waiting, served, outcome>>
=============================================================================
