------------------------------ MODULE Promises ------------------------------
(***************************************************************************)
(* What Maybes promise (src/assembly/managed/maybe.ts): each is settled at *)
(* most once, as it was first told; the callback of a then runs once,      *)
(* after its parent was settled and on what the parent was settled with;   *)
(* and who reads a Maybe gets what it was settled with, never before.      *)
(***************************************************************************)
CONSTANTS
  Promised, Clients,
  Outcomes,   \* what a promise can be settled with
  Nothing,    \* what it is settled with if it is not told
  Pending, Unborn, Nobody

VARIABLES
  parent,    \* promise -> the promise it depends on, or Nobody
  wanted,    \* promise -> the outcome it was told, or Pending
  outcome,   \* promise -> its outcome, Pending or Unborn
  given,     \* promise -> the outcome its callback was called with, or Pending
  reading,   \* client -> the promise it waits for, or Nobody
  read       \* client -> the outcome it will return with, or Pending

vars == <<parent, wanted, outcome, given, reading, read>>

Init ==
  /\ parent = [m \in Promised |-> Nobody]
  /\ wanted = [m \in Promised |-> Pending]
  /\ outcome = [m \in Promised |-> Unborn]
  /\ given = [m \in Promised |-> Pending]
  /\ reading = [c \in Clients |-> Nobody]
  /\ read = [c \in Clients |-> Pending]

Settled(m) == outcome[m] \in Outcomes

Explicit == Outcomes \ {Nothing}

Create(m) ==
  /\ outcome[m] = Unborn
  /\ outcome' = [outcome EXCEPT ![m] = Pending]
  /\ \/ /\ \E p \in {q \in Promised : outcome[q] # Unborn} : parent' = [parent EXCEPT ![m] = p]
        /\ UNCHANGED wanted
     \/ /\ \E r \in Explicit \cup {Pending} : wanted' = [wanted EXCEPT ![m] = r]
        /\ UNCHANGED parent
  /\ UNCHANGED <<given, reading, read>>

\* The callback of m is called, with what its parent was settled with.
Run(m) ==
  /\ outcome[m] = Pending /\ given[m] = Pending
  /\ parent[m] # Nobody /\ Settled(parent[m])
  /\ given' = [given EXCEPT ![m] = outcome[parent[m]]]
  /\ UNCHANGED <<parent, wanted, outcome, reading, read>>

Called(m) == parent[m] = Nobody \/ given[m] # Pending

Tell(m) ==
  /\ outcome[m] = Pending /\ Called(m) /\ wanted[m] = Pending
  /\ \E r \in Explicit : wanted' = [wanted EXCEPT ![m] = r]
  /\ UNCHANGED <<parent, outcome, given, reading, read>>

Settle(m) ==
  /\ outcome[m] = Pending /\ Called(m)
  /\ outcome' = [outcome EXCEPT ![m] = IF wanted[m] = Pending THEN Nothing ELSE wanted[m]]
  /\ UNCHANGED <<parent, wanted, given, reading, read>>

Ask(c, m) ==
  /\ reading[c] = Nobody /\ outcome[m] # Unborn
  /\ reading' = [reading EXCEPT ![c] = m]
  /\ UNCHANGED <<parent, wanted, outcome, given, read>>

Answer(c) ==
  /\ reading[c] # Nobody /\ read[c] = Pending /\ Settled(reading[c])
  /\ read' = [read EXCEPT ![c] = outcome[reading[c]]]
  /\ UNCHANGED <<parent, wanted, outcome, given, reading>>

Return(c) ==
  /\ read[c] # Pending
  /\ reading' = [reading EXCEPT ![c] = Nobody]
  /\ read' = [read EXCEPT ![c] = Pending]
  /\ UNCHANGED <<parent, wanted, outcome, given>>

Next ==
  \/ \E m \in Promised : Create(m) \/ Run(m) \/ Tell(m) \/ Settle(m)
  \/ \E c \in Clients : Answer(c) \/ Return(c) \/ \E m \in Promised : Ask(c, m)

Spec == Init /\ [][Next]_vars
=============================================================================
