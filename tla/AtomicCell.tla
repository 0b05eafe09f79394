----------------------------- MODULE AtomicCell -----------------------------
(***************************************************************************)
(* What a Held promises its users (src/assembly/managed/held.ts): although *)
(* only getValue and request wait for the process that holds the value,    *)
(* every operation behaves as if it took effect at the moment it is        *)
(* called.  A callback that traps ends this for good, and so does a wait   *)
(* for a callback that ends with another message.                          *)
(***************************************************************************)
EXTENDS Naturals

CONSTANTS
  Clients, Values,
  Callbacks,   \* the callbacks: functions of the value, to a value or Trap
  Trap,
  Nothing,     \* the client waits for no answer
  Never        \* the client waits for an answer that will not come

VARIABLES
  value,   \* the value, or Trap once a callback trapped
  last,    \* the last call
  owed     \* client -> the answer its call will return

Init ==
  /\ value \in Values
  /\ last = Nothing
  /\ owed = [c \in Clients |-> Nothing]

Apply(f) == IF value = Trap THEN Trap ELSE f[value]
Owe(c, x) == owed' = [owed EXCEPT ![c] = IF x = Trap THEN Never ELSE x]

SetValue(c, v) ==
  /\ last' = <<c, "set", v>>
  /\ value' = IF value = Trap THEN Trap ELSE v
  /\ UNCHANGED owed

Execute(c, f) ==
  /\ last' = <<c, "execute", f>>
  /\ value' = Apply(f)
  /\ UNCHANGED owed

GetValue(c) ==
  /\ last' = <<c, "get">>
  /\ Owe(c, value)
  /\ UNCHANGED value

\* The callback of a request may change the value and returns its old one.
Request(c, f) ==
  /\ last' = <<c, "request", f>>
  /\ value' = Apply(f)
  /\ Owe(c, IF Apply(f) = Trap THEN Trap ELSE value)

Call(c) ==
  /\ owed[c] = Nothing
  /\ \/ \E v \in Values : SetValue(c, v)
     \/ \E f \in Callbacks : Execute(c, f) \/ Request(c, f)
     \/ GetValue(c)

\* The call returns its answer, or times out: what it did is done all the same.
Return(c) ==
  /\ owed' = [owed EXCEPT ![c] = Nothing]
  /\ UNCHANGED <<value, last>>

\* The process that holds the value loses its way: calls that were not answered
\* yet may never be.
Break ==
  /\ value' = Trap
  /\ \E S \in SUBSET Clients :
       owed' = [c \in Clients |-> IF c \in S /\ owed[c] # Nothing THEN Never ELSE owed[c]]
  /\ UNCHANGED last

Next == Break \/ \E c \in Clients : Call(c) \/ Return(c)

Spec == Init /\ [][Next]_<<value, last, owed>>
=============================================================================
