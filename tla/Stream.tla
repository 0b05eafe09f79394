------------------------------- MODULE Stream -------------------------------
(***************************************************************************)
(* What a Yieldable promises its consumers                                 *)
(* (src/assembly/managed/yieldable.ts): the values its callback yields go  *)
(* to the calls of next in the order of the calls, each to one of them.    *)
(* A stream that is lost, or has no value left, stops answering.           *)
(***************************************************************************)
EXTENDS Naturals

CONSTANTS
  Clients,
  Nothing,   \* the client waits for no value
  Never      \* the client waits for a value that will not come

VARIABLES
  length,   \* how many values there are
  taken,    \* how many of them were asked for
  lost,     \* does the stream no longer answer?
  owed      \* client -> the number of the value its call will return

Init ==
  /\ length \in Nat
  /\ taken = 0
  /\ lost = FALSE
  /\ owed = [c \in Clients |-> Nothing]

Owe(c, n) == owed[c] = Nothing /\ owed' = [owed EXCEPT ![c] = n]

Next(c) ==
  /\ ~lost /\ taken < length
  /\ Owe(c, taken + 1)
  /\ taken' = taken + 1
  /\ UNCHANGED <<length, lost>>

NextOfNone(c) ==
  /\ lost \/ taken = length
  /\ Owe(c, Never)
  /\ UNCHANGED <<length, taken, lost>>

Return(c) ==
  /\ owed[c] \notin {Nothing, Never}
  /\ owed' = [owed EXCEPT ![c] = Nothing]
  /\ UNCHANGED <<length, taken, lost>>

\* A client that ends waits for nothing any more.
End(c) ==
  /\ owed' = [owed EXCEPT ![c] = Nothing]
  /\ UNCHANGED <<length, taken, lost>>

\* What was asked for and not answered yet is never answered.
Lose ==
  /\ lost' = TRUE /\ taken' = 0
  /\ UNCHANGED length
  /\ \E S \in SUBSET {c \in Clients : owed[c] # Nothing} :
       owed' = [c \in Clients |-> IF c \in S THEN Never ELSE owed[c]]

Step == Lose \/ \E c \in Clients : Next(c) \/ NextOfNone(c) \/ Return(c) \/ End(c)

Spec == Init /\ [][Step]_<<length, taken, lost, owed>>
=============================================================================
