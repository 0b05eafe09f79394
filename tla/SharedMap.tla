----------------------------- MODULE SharedMap ------------------------------
(***************************************************************************)
(* The shared map (src/assembly/managed/index.ts).                         *)
(*                                                                         *)
(* A process keeps the map; the clients send it events.  set, delete and   *)
(* clear return once the event is sent, the reads wait for a reply.  The   *)
(* process is linked to the client that created the map, keeps the default *)
(* of dieWhenLinkDies, and traps on get of a key that is not in the map.   *)
(*                                                                         *)
(* External: the mailbox of the host, links (process/bindings.ts), and the *)
(* standard library's Map, whose get traps on a missing key.               *)
(***************************************************************************)
EXTENDS Naturals, Sequences, FiniteSets

CONSTANTS
  Clients, Creator, Keys, Values,
  Absent, Nothing, Never,
  MaxEvents   \* bound on the events in the mailbox of the map

Writes == [kind : {"set"}, key : Keys, value : Values] \cup [kind : {"delete"}, key : Keys] \cup [kind : {"clear"}]
Reads == [kind : {"get", "has"}, key : Keys] \cup [kind : {"size", "keys", "values"}]
Maps == UNION {[K -> Values] : K \in SUBSET Keys}
Answers ==
  [get : Values] \cup [has : BOOLEAN] \cup [size : {Cardinality(K) : K \in SUBSET Keys}]
    \cup [keys : SUBSET Keys] \cup [values : Maps]

ASSUME SharedMapAssumption ==
  /\ Creator \in Clients
  /\ Absent \notin Values
  /\ Nothing # Never /\ Nothing \notin Answers \cup Writes /\ Never \notin Answers

VARIABLES
  running,  \* the clients that run
  linked,   \* is the map's process linked to its creator?
  dies,     \* does the creator die when a link dies?
  server,   \* does the map's process run?
  map,      \* the map: a function on the keys that are in it
  mbox,     \* the events in the mailbox of the map's process
  calling,  \* client -> does it wait for a reply?
  reply,    \* client -> the reply in its mailbox, or Nothing
  last      \* the last write that was called, for the properties

vars == <<running, linked, dies, server, map, mbox, calling, reply, last>>

\* A client that waits is owed exactly one answer, by an event or by a reply.
Waits(c) == {i \in DOMAIN mbox : mbox[i].from = c /\ mbox[i].event \in Reads}

TypeOK ==
  /\ running \subseteq Clients
  /\ {linked, dies, server} \subseteq BOOLEAN
  /\ map \in Maps
  /\ mbox \in Seq([from : Clients, event : Writes \cup Reads])
  /\ calling \in [Clients -> BOOLEAN]
  /\ reply \in [Clients -> Answers \cup {Nothing}]
  /\ last \in Writes \cup {Nothing}
  /\ \A c \in running : /\ Waits(c) = {} \/ reply[c] = Nothing
                        /\ \A i, j \in Waits(c) : i = j
                        /\ server /\ calling[c] => Waits(c) # {} \/ reply[c] # Nothing

Init ==
  /\ running = Clients
  /\ linked \in BOOLEAN
  /\ dies \in {FALSE, linked}
  /\ server = TRUE
  /\ map = <<>>
  /\ mbox = <<>>
  /\ calling = [c \in Clients |-> FALSE]
  /\ reply = [c \in Clients |-> Nothing]
  /\ last = Nothing

-----------------------------------------------------------------------------
Ready(c) == c \in running /\ ~calling[c]

\* A message to a process that ended is lost.
Send(c, e) ==
  /\ Len(mbox) < MaxEvents
  /\ mbox' = IF server THEN Append(mbox, [from |-> c, event |-> e]) ELSE mbox

\* SharedMap#set, delete and clear.
Write(c, e) ==
  /\ Ready(c) /\ e \in Writes
  /\ Send(c, e)
  /\ last' = e
  /\ UNCHANGED <<running, linked, dies, server, map, calling, reply>>

\* SharedMap#get, has, size, keys and values: a request without timeout.
Request(c, e) ==
  /\ Ready(c) /\ e \in Reads
  /\ Send(c, e)
  /\ calling' = [calling EXCEPT ![c] = TRUE]
  /\ UNCHANGED <<running, linked, dies, server, map, reply, last>>

Return(c) ==
  /\ c \in running /\ reply[c] # Nothing
  /\ calling' = [calling EXCEPT ![c] = FALSE]
  /\ reply' = [reply EXCEPT ![c] = Nothing]
  /\ UNCHANGED <<running, linked, dies, server, map, mbox, last>>

\* Client c traps.  The map's process, if it is linked to c, dies with it.
Trap(c) ==
  /\ c \in running
  /\ running' = running \ {c}
  /\ IF c = Creator /\ linked
       THEN server' = FALSE /\ mbox' = <<>>
       ELSE UNCHANGED <<server, mbox>>
  /\ UNCHANGED <<linked, dies, map, calling, reply, last>>
-----------------------------------------------------------------------------
\* Mutant: delete of the last key forgets to delete.
EffectKeepingLast(e, m) ==
  CASE e.kind = "set"    -> [k \in DOMAIN m \cup {e.key} |-> IF k = e.key THEN e.value ELSE m[k]]
    [] e.kind = "delete" -> IF DOMAIN m = {e.key} THEN m ELSE [k \in DOMAIN m \ {e.key} |-> m[k]]
    [] e.kind = "clear"  -> <<>>

\* What an event does to the map.
Effect(e, m) ==
  CASE e.kind = "set"    -> [k \in DOMAIN m \cup {e.key} |-> IF k = e.key THEN e.value ELSE m[k]]
    [] e.kind = "delete" -> [k \in DOMAIN m \ {e.key} |-> m[k]]
    [] e.kind = "clear"  -> <<>>

\* What it replies.
Answer(e, m) ==
  CASE e.kind = "get"    -> [get |-> m[e.key]]
    [] e.kind = "has"    -> [has |-> e.key \in DOMAIN m]
    [] e.kind = "size"   -> [size |-> Cardinality(DOMAIN m)]
    [] e.kind = "keys"   -> [keys |-> DOMAIN m]
    [] e.kind = "values" -> [values |-> m]

Missing(e, m) == e.kind = "get" /\ e.key \notin DOMAIN m

Event == Head(mbox).event
\* Mutant: the loop waits for a second event before it takes the first.
ReceivedLate == server /\ Len(mbox) > 1 /\ UNCHANGED <<linked, dies, last>>

Received == server /\ mbox # <<>> /\ UNCHANGED <<linked, dies, last>>

HandleWrite ==
  /\ Received /\ Event \in Writes
  /\ map' = Effect(Event, map)
  /\ mbox' = Tail(mbox)
  /\ UNCHANGED <<running, server, calling, reply>>

\* Mutant: has and size are events like set, without a reply.
HandleReadMute ==
  /\ Received /\ Event \in Reads /\ ~Missing(Event, map)
  /\ IF Event.kind \in {"has", "size"} THEN UNCHANGED reply
     ELSE reply' = [reply EXCEPT ![Head(mbox).from] = Answer(Event, map)]
  /\ mbox' = Tail(mbox)
  /\ UNCHANGED <<running, server, map, calling>>

HandleRead ==
  /\ Received /\ Event \in Reads /\ ~Missing(Event, map)
  /\ reply' = [reply EXCEPT ![Head(mbox).from] = Answer(Event, map)]
  /\ mbox' = Tail(mbox)
  /\ UNCHANGED <<running, server, map, calling>>

\* map.get traps: the process ends, and its linked creator with it.
HandleMissing ==
  /\ Received /\ Missing(Event, map)
  /\ server' = FALSE
  /\ mbox' = <<>>
  /\ running' = IF linked /\ dies THEN running \ {Creator} ELSE running
  /\ UNCHANGED <<map, calling, reply>>

ServerNext == HandleWrite \/ HandleRead \/ HandleMissing

Next ==
  \/ \E c \in Clients :
       \/ \E e \in Writes : Write(c, e)
       \/ \E e \in Reads : Request(c, e)
       \/ Return(c) \/ Trap(c)
  \/ ServerNext

Spec == Init /\ [][Next]_vars

\* The host runs the map's process while it has mail, and wakes a client whose
\* reply has come.
FairSpec == Spec /\ WF_vars(ServerNext) /\ \A c \in Clients : WF_vars(Return(c))
-----------------------------------------------------------------------------
\* A map or its loss, and what the message x does to it.
Lost == [map |-> <<>>, lost |-> TRUE]
After(x, s) ==
  IF s.lost \/ Missing(x.event, s.map) THEN Lost
  ELSE IF x.event \in Reads THEN s
  ELSE [s EXCEPT !.map = Effect(x.event, @)]

\* The map after each of the messages q.
Run(q, s) == LET run[i \in 0..Len(q)] == IF i = 0 THEN s ELSE After(q[i], run[i - 1]) IN run

Now == IF server THEN [map |-> map, lost |-> FALSE] ELSE Lost
State == Run(mbox, Now)
Final == State[Len(mbox)]

Owed(c) ==
  IF c \notin running \/ ~calling[c] THEN Nothing
  ELSE IF reply[c] # Nothing THEN reply[c]
  ELSE IF Waits(c) = {} THEN Never
  ELSE LET i == CHOOSE j \in Waits(c) : TRUE
           s == State[i - 1]
       IN IF s.lost \/ Missing(mbox[i].event, s.map) THEN Never ELSE Answer(mbox[i].event, s.map)

AllOwed == [c \in Clients |-> Owed(c)]
FinalMap == [k \in Keys |-> IF k \in DOMAIN Final.map THEN Final.map[k] ELSE Absent]
LastCall ==
  IF last = Nothing THEN Nothing
  ELSE CASE last.kind = "set"    -> <<"set", last.key, last.value>>
         [] last.kind = "delete" -> <<"delete", last.key>>
         [] last.kind = "clear"  -> <<"clear">>

\* Every operation behaves as if it took effect when it is called, whatever the
\* other clients do before the map's process gets to it: a value that is set is
\* read by everyone whose call comes later (tests.ts:115-145).
Abstract == INSTANCE AtomicMap WITH map <- FinalMap, last <- LastCall, lost <- Final.lost, owed <- AllOwed
KeepsMap == Abstract!Spec

\* A read ends, unless the map's process died before it replied: there is no
\* timeout (managed/index.ts:38-87).
Answered == \A c \in Clients : calling[c] ~> ~calling[c] \/ ~server \/ c \notin running
=============================================================================
