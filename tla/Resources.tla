----------------------------- MODULE Resources ------------------------------
(***************************************************************************)
(* Objects that own a resource of the host: the sockets of net/tcp.ts and  *)
(* net/udp.ts, the modules and configurations of process/index.ts, and the *)
(* Result of a failed call, which owns an error (error/index.ts).          *)
(*                                                                         *)
(* The host keeps a table of resources for every process, and the objects  *)
(* hold ids into it.  A constructor registers a finalizer that drops the   *)
(* id; sending a socket clones its resource and moves the clone into the   *)
(* message; the object the receiver makes of it has an id and no           *)
(* finalizer.  Listeners, modules and configurations are not sent.  Errors *)
(* of reads and iterators over addresses are dropped by the call that gets *)
(* them.                                                                   *)
(*                                                                         *)
(* The one table of a process stands for one for each kind of resource:    *)
(* every constructor names the table by the function that drops the id.    *)
(*                                                                         *)
(* External: the host's tables; a drop of an id that is not in the table,  *)
(* which traps; an error for every write that times out.                   *)
(***************************************************************************)
EXTENDS Naturals, Functions

CONSTANTS
  Processes,
  Objects,   \* the objects; each is made and collected at most once
  Streams,   \* the TCP connections; each is opened at most once
  Datagrams, \* the UDP sockets, likewise
  Listeners,
  Others,    \* the modules and configurations
  Error,     \* the resource of a failed call
  SpentIds,  \* bound: the ids that may be given to a call that drops the resource itself
  Nobody

ASSUME NamesAssumption ==
  /\ Error \notin Streams \cup Datagrams \cup Listeners \cup Others
  /\ Nobody \notin Processes

VARIABLES
  running,   \* the processes that run
  table,     \* process -> its table in the host, from ids to resources
  nextId,    \* process -> the next id of that table
  at,        \* object -> its life cycle; "sent" while it is part of a message,
             \* "leaked" once it was collected and its resource was not dropped
  owner,     \* object -> the process in whose heap it is or will be, or Nobody
  id,        \* object -> its id
  of,        \* object -> the resource the id was given for
  armed      \* the objects that have a finalizer

resourcesVars == <<running, table, nextId, at, owner, id, of, armed>>
Resource == Streams \cup Datagrams \cup Listeners \cup Others \cup {Error}

ResourcesTypeOK ==
  /\ running \subseteq Processes
  /\ table = [p \in Processes |-> table[p]]
  /\ \A p \in Processes : table[p] \in [DOMAIN table[p] -> Resource]
  /\ nextId \in [Processes -> Nat]
  /\ at \in [Objects -> {"unborn", "sent", "live", "dropped", "leaked", "gone"}]
  /\ owner \in [Objects -> Processes \cup {Nobody}]
  /\ id \in [Objects -> Nat]
  /\ of \in [Objects -> Resource]
  /\ armed \subseteq Objects
  /\ \A o \in Objects :
       /\ at[o] \in {"sent", "live", "dropped", "leaked"} => owner[o] \in running
       /\ at[o] \in {"live", "leaked"} => id[o] < nextId[owner[o]]

NoTable == [i \in {} |-> Error]

ResourcesInit ==
  /\ running = Processes
  /\ table = [p \in Processes |-> NoTable]
  /\ nextId = [p \in Processes |-> 0]
  /\ at = [o \in Objects |-> "unborn"]
  /\ owner = [o \in Objects |-> Nobody]
  /\ id = [o \in Objects |-> 0]
  /\ of = [o \in Objects |-> Error]
  /\ armed = {}

Holds(p, o) == p \in running /\ at[o] = "live" /\ owner[o] = p

\* The host adds r to the table of p.
Add(p, r) ==
  /\ table' = [table EXCEPT ![p] = [i \in DOMAIN @ \cup {nextId[p]} |-> IF i = nextId[p] THEN r ELSE @[i]]]
  /\ nextId' = [nextId EXCEPT ![p] = @ + 1]

\* p makes the object o of the id that the host gives next.
Construct(p, o, r) ==
  /\ p \in running /\ at[o] = "unborn"
  /\ Add(p, r)
  /\ at' = [at EXCEPT ![o] = "live"]
  /\ owner' = [owner EXCEPT ![o] = p]
  /\ id' = [id EXCEPT ![o] = nextId[p]]
  /\ of' = [of EXCEPT ![o] = r]
  /\ armed' = armed \cup {o}
  /\ UNCHANGED running

\* A Result without a value takes the error.
Fail(p, o) == Construct(p, o, Error)

\* The host gives p a resource of S that was not there before.
Obtain(p, o, S) == \E r \in S \ Range(of) : Construct(p, o, r)

Connect(p, o) == Obtain(p, o, Streams) \/ Fail(p, o)

\* A listener whose address the host cannot tell is dropped for the error.
Bind(p, o) == Obtain(p, o, Listeners) \/ Fail(p, o)

Accept(p, o, g) == Holds(p, o) /\ of[o] \in Listeners /\ Connect(p, g)

BindSocket(p, o) == Obtain(p, o, Datagrams) \/ Fail(p, o)

Compile(p, o) == Obtain(p, o, Others) \/ Fail(p, o)

\* Config.create; null, where it is not allowed, is not an object.
Configure(p, o) == Obtain(p, o, Others)

\* The classes with __asonSerialize and clone, and those with drop.
Sendable == Streams \cup Datagrams
Droppable == Streams \cup Listeners

\* A call drops the resource that it was given in the call: the error of a failed
\* read, once its text is copied, or an iterator, once its addresses are.
Spend(p) ==
  /\ p \in running /\ nextId[p] \in SpentIds
  /\ nextId' = [nextId EXCEPT ![p] = @ + 1]
  /\ UNCHANGED <<running, table, at, owner, id, of, armed>>

Resolve(p, o) == Spend(p) \/ Fail(p, o)

\* Reading, peeking or receiving fails, or the sender's address is copied; what was
\* read is not part of this.
Read(p, o) == Holds(p, o) /\ of[o] \in Sendable /\ Spend(p)

\* A write that fails leaves its error to the Result; one that times out drops it.
Write(p, o, g) == Holds(p, o) /\ of[o] \in Streams /\ (Fail(p, g) \/ Spend(p))

SendTo(p, o, g) == Holds(p, o) /\ of[o] \in Datagrams /\ Fail(p, g)

Clone(p, o, g) == Holds(p, o) /\ of[o] \in Sendable /\ Construct(p, g, of[o])

\* Mutant: the object's own resource is moved into the message.
SendWithoutClone(p, o, q, g) ==
  /\ Holds(p, o) /\ of[o] \in Sendable /\ at[g] = "unborn"
  /\ table' = [table EXCEPT ![p] = Restrict(@, DOMAIN @ \ {id[o]})]
  /\ at' = [at EXCEPT ![g] = IF q \in running THEN "sent" ELSE "gone"]
  /\ owner' = [owner EXCEPT ![g] = IF q \in running THEN q ELSE Nobody]
  /\ of' = [of EXCEPT ![g] = of[o]]
  /\ UNCHANGED <<running, nextId, id, armed>>

\* __asonSerialize: the clone takes an id and is moved out of the table again.
Send(p, o, q, g) ==
  /\ Holds(p, o) /\ of[o] \in Sendable /\ at[g] = "unborn"
  /\ nextId' = [nextId EXCEPT ![p] = @ + 1]
  /\ at' = [at EXCEPT ![g] = IF q \in running THEN "sent" ELSE "gone"]
  /\ owner' = [owner EXCEPT ![g] = IF q \in running THEN q ELSE Nobody]
  /\ of' = [of EXCEPT ![g] = of[o]]
  /\ UNCHANGED <<running, table, id, armed>>

\* __asonDeserialize: no constructor runs, so no finalizer is registered.
Receive(q, g) ==
  /\ q \in running /\ at[g] = "sent" /\ owner[g] = q
  /\ Add(q, of[g])
  /\ at' = [at EXCEPT ![g] = "live"]
  /\ id' = [id EXCEPT ![g] = nextId[q]]
  /\ UNCHANGED <<running, owner, of, armed>>

Delete(p, i) == table' = [table EXCEPT ![p] = Restrict(@, DOMAIN @ \ {i})]

\* Mutant: drop leaves the finalizer registered.
DropArmed(p, o) ==
  /\ Holds(p, o) /\ of[o] \in Droppable
  /\ Delete(p, id[o])
  /\ at' = [at EXCEPT ![o] = "dropped"]
  /\ UNCHANGED <<running, nextId, owner, id, of, armed>>

\* The program drops a connection or a listener that it has not dropped before.
Drop(p, o) ==
  /\ Holds(p, o) /\ of[o] \in Droppable
  /\ Delete(p, id[o])
  /\ at' = [at EXCEPT ![o] = "dropped"]
  /\ armed' = armed \ {o}
  /\ UNCHANGED <<running, nextId, owner, id, of>>

\* The process ends: its heap, its table and its mailbox go with it.
End(p) ==
  /\ p \in running
  /\ running' = running \ {p}
  /\ table' = [table EXCEPT ![p] = NoTable]
  /\ at' = [o \in Objects |-> IF owner[o] = p THEN "gone" ELSE at[o]]
  /\ owner' = [o \in Objects |-> IF owner[o] = p THEN Nobody ELSE owner[o]]
  /\ armed' = {o \in armed : owner[o] # p}
  /\ UNCHANGED <<nextId, id, of>>

\* The collector frees an object that the program has lost.
CollectArmed(o) ==
  /\ o \in armed /\ at[o] \in {"live", "dropped"}
  /\ IF id[o] \notin DOMAIN table[owner[o]] THEN End(owner[o])
     ELSE /\ Delete(owner[o], id[o])
          /\ at' = [at EXCEPT ![o] = "gone"]
          /\ armed' = armed \ {o}
          /\ UNCHANGED <<running, nextId, owner, id, of>>

Collect(o) ==
  /\ o \notin armed /\ at[o] \in {"live", "dropped"}
  /\ at' = [at EXCEPT ![o] = IF at[o] = "live" THEN "leaked" ELSE "gone"]
  /\ UNCHANGED <<running, table, nextId, owner, id, of, armed>>

ResourcesNext ==
  \/ \E p \in Processes, o \in Objects :
       \/ Connect(p, o) \/ Bind(p, o) \/ BindSocket(p, o) \/ Compile(p, o) \/ Configure(p, o)
       \/ Receive(p, o) \/ Drop(p, o) \/ Resolve(p, o) \/ Read(p, o)
  \/ \E p \in Processes, o, g \in Objects :
       Accept(p, o, g) \/ Write(p, o, g) \/ SendTo(p, o, g) \/ Clone(p, o, g) \/ \E q \in Processes : Send(p, o, q, g)
  \/ \E o \in Objects : CollectArmed(o) \/ Collect(o)
  \/ \E p \in Processes : End(p)

ResourcesSpec == ResourcesInit /\ [][ResourcesNext]_resourcesVars
-----------------------------------------------------------------------------
Owners(p) == {o \in Objects : owner[o] = p /\ at[o] \in {"live", "leaked"}}

\* The table of a process has one entry for each resource that an object of its
\* heap owns, and no other: what is cloned, sent, received, dropped
\* and collected elsewhere neither takes an object's resource away nor leaves one
\* behind, but for received objects that are collected (tcp.ts:327-329, 403-429).
Accounted ==
  \A p \in running :
    /\ DOMAIN table[p] = {id[o] : o \in Owners(p)}
    /\ \A o \in Owners(p) :
         /\ table[p][id[o]] = of[o]
         /\ \A g \in Owners(p) : id[g] = id[o] => g = o

\* A finalizer never drops what drop() has dropped before, which would trap
\* (tcp.ts:425-429, error/index.ts:39-46).
DropsOnce == \A o \in armed : at[o] = "live" /\ id[o] \in DOMAIN table[owner[o]]
=============================================================================
