----------------------------- MODULE AtomicMap ------------------------------
(***************************************************************************)
(* What a SharedMap promises the processes that share it                   *)
(* (src/assembly/managed/index.ts): although nothing but a read waits for  *)
(* the process that keeps the map, every operation behaves as if it took   *)
(* effect at the very moment it is called.  Only a map that is lost stops  *)
(* answering.                                                              *)
(***************************************************************************)
EXTENDS Naturals, FiniteSets

CONSTANTS
  Clients, Keys, Values,
  Absent,    \* the value of a key that is not in the map
  Nothing,   \* the client waits for no answer
  Never      \* the client waits for an answer that will not come

VARIABLES
  map,    \* key -> its value or Absent
  last,   \* the last write that was called
  lost,   \* does no process keep the map any longer?
  owed    \* client -> the answer its call will return

Empty == [k \in Keys |-> Absent]
Present == {k \in Keys : map[k] # Absent}

Init ==
  /\ map = Empty
  /\ last = Nothing
  /\ lost = FALSE
  /\ owed = [c \in Clients |-> Nothing]

Write(c, op, m) ==
  /\ owed[c] = Nothing
  /\ last' = op
  /\ map' = IF lost THEN map ELSE m
  /\ UNCHANGED <<lost, owed>>

Read(c, answer) ==
  /\ owed[c] = Nothing
  /\ owed' = [owed EXCEPT ![c] = IF lost THEN Never ELSE answer]
  /\ UNCHANGED <<map, last, lost>>

\* A key that is not there cannot be read: the attempt loses the map.
ReadAbsent(c, k) ==
  /\ owed[c] = Nothing /\ ~lost /\ map[k] = Absent
  /\ owed' = [owed EXCEPT ![c] = Never]
  /\ lost' = TRUE
  /\ map' = Empty
  /\ UNCHANGED last

Return(c) ==
  /\ owed[c] \notin {Nothing, Never}
  /\ owed' = [owed EXCEPT ![c] = Nothing]
  /\ UNCHANGED <<map, last, lost>>

\* A client that ends waits for nothing any more.
End(c) ==
  /\ owed' = [owed EXCEPT ![c] = Nothing]
  /\ UNCHANGED <<map, last, lost>>

\* The end of its creator loses the map under calls that were not answered yet.
Lose(creator) ==
  /\ lost' = TRUE
  /\ map' = Empty
  /\ UNCHANGED last
  /\ \E S \in SUBSET Clients :
       owed' = [c \in Clients |-> IF c = creator \/ owed[c] = Nothing THEN Nothing
                                  ELSE IF c \in S THEN Never ELSE owed[c]]

Next ==
  \E c \in Clients :
    \/ \E k \in Keys :
         \/ \E v \in Values : Write(c, <<"set", k, v>>, [map EXCEPT ![k] = v])
         \/ Write(c, <<"delete", k>>, [map EXCEPT ![k] = Absent])
         \/ (lost \/ map[k] # Absent) /\ Read(c, [get |-> map[k]])
         \/ ReadAbsent(c, k)
         \/ Read(c, [has |-> map[k] # Absent])
    \/ Write(c, <<"clear">>, Empty)
    \/ Read(c, [size |-> Cardinality(Present)])
    \/ Read(c, [keys |-> Present])
    \/ Read(c, [values |-> [k \in Present |-> map[k]]])
    \/ Return(c) \/ End(c) \/ Lose(c)

Spec == Init /\ [][Next]_<<map, last, lost, owed>>
=============================================================================
