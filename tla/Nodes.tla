-------------------------------- MODULE Nodes --------------------------------
(***************************************************************************)
(* Processes on several nodes (src/assembly/process/index.ts,              *)
(* distributed/, registry/ and message/index.ts).  A process is known by a *)
(* node and by an id on that node; a handle, a Process object, has an id   *)
(* and perhaps a node.  One without is about the node it is used on, and   *)
(* so are the sender of a message and what kill is given.                  *)
(*                                                                         *)
(* External: the host numbers the processes of each node; every node has a *)
(* registry; what is sent to a process that does not run is lost.  A spawn *)
(* with a tag other than 0 links parent and child; a process that traps or *)
(* is killed, but not one that returns, is signalled to those it is linked *)
(* to, which die of it or find the signal in their mailbox                 *)
(* (process/bindings.ts:114-116, 150-159).                                 *)
(***************************************************************************)
EXTENDS Naturals, Sequences, SequencesExt

CONSTANTS
  Nodes,
  Local,      \* the nodeID of a handle that has none
  Patient,    \* the processes that set dieWhenLinkDies to false as they start
  MaxId,      \* bound on the processes of a node
  MaxActs     \* bound on what the programs do of themselves

ASSUME NodesAssumption ==
  Local \notin Nodes /\ MaxId \in Nat \ {0} /\ MaxActs \in Nat /\ Patient \subseteq Nodes \X (1..MaxId)

VARIABLES
  count,      \* node -> how many processes were spawned there
  ended,      \* the processes that ended
  handles,    \* process -> the handles it has from others
  registry,   \* node -> the handle that is registered there
  mbox,       \* process -> its mailbox
  call,       \* process -> the request it is blocked in, or NoCall
  replyTag,   \* process -> Process.replyTag
  linkTag,    \* process -> Process.tag
  links,      \* who is told, with which tag, when another process dies
  signals,    \* the links whose other process has died, before that is told
  answer,     \* process -> what its last request ended with, or NoAnswer
  acts,       \* how often a program did something of itself
  strayed     \* whether a handle without a node was sent to another node

linkVars == <<linkTag, links, signals>>
vars == <<count, ended, handles, registry, mbox, call, replyTag, linkVars, answer, acts, strayed>>

Processes == Nodes \X (1..MaxId)
Running == {p \in Processes : p[2] <= count[p[1]] /\ p \notin ended}

\* "of" is the process that the handle was made for.
Handles == [node : Nodes \cup {Local}, id : 1..MaxId, of : Processes]
Handle(n, p) == [node |-> n, id |-> p[2], of |-> p]
NoHandle == [node |-> Local, id |-> 0]

\* The process that p reaches by h.
Reached(p, h) == <<IF h.node = Local THEN p[1] ELSE h.node, h.id>>

Tags == 1..MaxActs + 1
NoCall == [tag |-> 0]
NoAnswer == [message |-> 0]
Calls == [tag : Tags, skip : Nat, handle : Handles]

\* The process "of" is told with the tag when "to" dies.
Links == [of : Processes, to : Processes, tag : Nat \ {0}]

\* A request has the id of its sender; "from" is the sender.  "to" is whose
\* request a reply is for; "by" is who sent it, and who died by a signal.
Requests == [kind : {"request"}, tag : Tags, sender : 1..MaxId, from : Processes]
Replies == [kind : {"reply"}, tag : Tags, to : Processes, by : Processes]
Gifts == [kind : {"gift"}, tag : {0}, handle : Handles]
Signals == [kind : {"signal"}, tag : Nat \ {0}, by : Processes]
Messages == Requests \cup Replies \cup Gifts \cup Signals
Answers == [message : Requests \cup Replies \cup Signals, call : Calls]

TypeOK ==
  /\ count \in [Nodes -> 1..MaxId]
  /\ ended \subseteq Processes
  /\ handles \in [Processes -> SUBSET Handles]
  /\ registry \in [Nodes -> Handles \cup {NoHandle}]
  /\ mbox \in [Processes -> Seq(Messages)]
  /\ call \in [Processes -> Calls \cup {NoCall}]
  /\ \A p \in Processes : call[p] # NoCall => call[p].skip <= Len(mbox[p])
  /\ replyTag \in [Processes -> Tags]
  /\ linkTag \in [Processes -> Nat]
  /\ links \subseteq Links /\ signals \subseteq Links
  /\ answer \in [Processes -> Answers \cup {NoAnswer}]
  /\ acts \in 0..MaxActs
  /\ strayed \in BOOLEAN

\* The first process of every node.
Init ==
  /\ count = [n \in Nodes |-> 1]
  /\ ended = {}
  /\ handles = [p \in Processes |-> {}]
  /\ registry = [n \in Nodes |-> NoHandle]
  /\ mbox = [p \in Processes |-> <<>>]
  /\ call = [p \in Processes |-> NoCall]
  /\ replyTag = [p \in Processes |-> 1]
  /\ linkTag = [p \in Processes |-> 0]
  /\ links = {} /\ signals = {}
  /\ answer = [p \in Processes |-> NoAnswer]
  /\ acts = 0
  /\ strayed = FALSE
-----------------------------------------------------------------------------
Idle(p) == p \in Running /\ call[p] = NoCall

\* What the program keeps of Process.self and Distributed.self, and what it was given.
Has(p) == handles[p] \cup {Handle(Local, p), Handle(p[1], p)}

Deliver(q, m) == mbox' = IF q \in Running THEN [mbox EXCEPT ![q] = Append(@, m)] ELSE mbox

Get(p, h) == handles' = [handles EXCEPT ![p] = @ \cup {h}]

\* Every new Process takes a link tag.
TakeTag(p) == linkTag' = [linkTag EXCEPT ![p] = @ + 1]

\* The process q is over, and of the links S are still to be told.
Ends(q, S) ==
  /\ ended' = ended \cup {q}
  /\ mbox' = [mbox EXCEPT ![q] = <<>>]
  /\ call' = [call EXCEPT ![q] = NoCall]
  /\ links' = {l \in links : q \notin {l.of, l.to}}
  /\ signals' = S
  /\ UNCHANGED <<count, handles, registry, replyTag, linkTag, answer, strayed>>

\* It died.
Dies(q, S) == Ends(q, S \cup {l \in links : l.to = q})

\* It traps, or its function returns.
Traps(p) == Dies(p, signals)
Finish(p) == Idle(p) /\ (Traps(p) \/ Ends(p, signals))

\* The process l.of is told that the one it was linked to has died.
LinkDies(l) ==
  /\ l \in signals
  /\ IF l.of \in Running /\ l.of \notin Patient
       THEN Dies(l.of, signals \ {l})
       ELSE /\ signals' = signals \ {l}
            /\ Deliver(l.of, [kind |-> "signal", tag |-> l.tag, by |-> l.to])
            /\ UNCHANGED <<count, ended, handles, registry, call, replyTag, linkTag, links, answer, strayed>>

\* Mutant: the handle of a distributed process does not keep the node.
SpawnedForgetful(p, n, q) == Handle(Local, q)

\* Process.spawn makes a handle without a node, spawnDistributed one with it.
Spawned(p, n, q) == Handle(n, q)

\* p and q are linked under the tag t.
Linked(p, q, t) == {[of |-> p, to |-> q, tag |-> t], [of |-> q, to |-> p, tag |-> t]}

\* A new process, which is linked under the tag that its handle takes.
Spawn(p, n) ==
  LET on == IF n = Local THEN p[1] ELSE n
      q == <<on, count[on] + 1>>
      t == linkTag[p] IN
  /\ Idle(p) /\ count[on] < MaxId
  /\ count' = [count EXCEPT ![on] = @ + 1]
  /\ Get(p, Spawned(p, n, q))
  /\ TakeTag(p)
  /\ links' = links \cup IF t = 0 THEN {} ELSE Linked(p, q, t)
  /\ UNCHANGED <<ended, registry, mbox, call, replyTag, signals, answer, strayed>>

\* A spawn that fails, Process.self and Distributed.self.
Self(p) ==
  /\ Idle(p)
  /\ TakeTag(p)
  /\ UNCHANGED <<count, ended, handles, registry, mbox, call, replyTag, links, signals, answer, strayed>>

\* Process.link, which gives the host the id of h for the tag, and the tag it takes
\* for the id.  It traps on an id that does not exist.
LinkProcess(p, h) ==
  LET q == <<p[1], linkTag[p]>> IN
  /\ Idle(p) /\ h \in Has(p)
  /\ \/ /\ q \in Running
        /\ links' = links \cup Linked(p, q, h.id)
        /\ TakeTag(p)
        /\ UNCHANGED <<count, ended, handles, registry, mbox, call, replyTag, signals, answer, strayed>>
     \/ q \notin Running /\ Traps(p)

\* Process.unlink, of the process of that id on the same node.
UnlinkProcess(p, h) ==
  LET q == <<p[1], h.id>> IN
  /\ Idle(p) /\ h \in Has(p)
  /\ \/ /\ q \in Running
        /\ links' = {l \in links : {l.of, l.to} # {p, q}}
        /\ UNCHANGED <<count, ended, handles, registry, mbox, call, replyTag, linkTag, signals, answer, strayed>>
     \/ q \notin Running /\ Traps(p)

\* Process#kill traps on an id that does not exist.
Kill(p, h) ==
  /\ Idle(p) /\ h \in Has(p)
  /\ Traps(IF <<p[1], h.id>> \in Running THEN <<p[1], h.id>> ELSE p)

\* Registry.put on the node of the process; it traps on a process that does not exist.
Put(p, h) ==
  /\ Idle(p) /\ h \in Has(p)
  /\ \/ /\ Reached(p, h) \in Running
        /\ registry' = [registry EXCEPT ![p[1]] = h]
        /\ UNCHANGED <<count, ended, handles, mbox, call, replyTag, linkVars, answer, strayed>>
     \/ Reached(p, h) \notin Running /\ Traps(p)

\* Registry.get on the node of the process.
Lookup(p) ==
  /\ Idle(p) /\ registry[p[1]] # NoHandle
  /\ Get(p, registry[p[1]])
  /\ TakeTag(p)
  /\ UNCHANGED <<count, ended, registry, mbox, call, replyTag, links, signals, answer, strayed>>

Unregister(p) ==
  /\ Idle(p)
  /\ registry' = [registry EXCEPT ![p[1]] = NoHandle]
  /\ UNCHANGED <<count, ended, handles, mbox, call, replyTag, linkVars, answer, strayed>>

\* Process#send of a handle: all of its fields are serialized.
Give(p, h, g) ==
  /\ Idle(p) /\ h \in Has(p) /\ g \in Has(p)
  /\ strayed' = (strayed \/ (g.node = Local /\ Reached(p, h)[1] # p[1]))
  /\ Deliver(Reached(p, h), [kind |-> "gift", tag |-> 0, handle |-> g])
  /\ UNCHANGED <<count, ended, handles, registry, call, replyTag, linkVars, answer>>

\* Process#request.
Request(p, h) ==
  /\ Idle(p) /\ h \in Has(p)
  /\ replyTag' = [replyTag EXCEPT ![p] = @ + 1]
  /\ call' = [call EXCEPT ![p] = [tag |-> replyTag[p], skip |-> Len(mbox[p]), handle |-> h]]
  /\ answer' = [answer EXCEPT ![p] = NoAnswer]
  /\ Deliver(Reached(p, h), [kind |-> "request", tag |-> replyTag[p], sender |-> p[2], from |-> p])
  /\ UNCHANGED <<count, ended, handles, registry, linkVars, strayed>>

\* Mutant: the wait ends with any reply.
MatchesAny(p) == {i \in DOMAIN mbox[p] : i > call[p].skip /\ mbox[p][i].kind = "reply"}

\* The messages that end the wait of p.
Matches(p) == {i \in DOMAIN mbox[p] : i > call[p].skip /\ mbox[p][i].tag = call[p].tag}

Wake(p) == call' = [call EXCEPT ![p] = NoCall]

GetAnswer(p) ==
  /\ p \in Running /\ call[p] # NoCall
  /\ \E i \in Matches(p) :
       /\ \A j \in Matches(p) : i <= j
       /\ answer' = [answer EXCEPT ![p] = [message |-> mbox[p][i], call |-> call[p]]]
       /\ mbox' = [mbox EXCEPT ![p] = RemoveAt(@, i)]
  /\ Wake(p)
  /\ UNCHANGED <<count, ended, handles, registry, replyTag, linkVars, strayed>>

\* A request that was given a timeout.
Timeout(p) ==
  /\ p \in Running /\ call[p] # NoCall /\ Matches(p) = {}
  /\ Wake(p)
  /\ UNCHANGED <<count, ended, handles, registry, mbox, replyTag, linkVars, answer, strayed>>

Receive(p, k) == Idle(p) /\ mbox[p] # <<>> /\ Head(mbox[p]).kind = k

ReceiveGift(p) ==
  /\ Receive(p, "gift")
  /\ Get(p, Head(mbox[p]).handle)
  /\ mbox' = [mbox EXCEPT ![p] = Tail(@)]
  /\ UNCHANGED <<count, ended, registry, call, replyTag, linkVars, answer, strayed>>

\* Mutant: the reply does not keep the tag.
ReplyUntagged(p, m) == [kind |-> "reply", tag |-> 1, to |-> m.from, by |-> p]

Reply(p, m) == [kind |-> "reply", tag |-> m.tag, to |-> m.from, by |-> p]

\* Message#reply: to the id of the sender, with no node.
ReplyTo(p, m) == <<p[1], m.sender>>

Serve(p) ==
  /\ Receive(p, "request")
  /\ LET m == Head(mbox[p])
         rest == [mbox EXCEPT ![p] = Tail(@)] IN
     mbox' = IF ReplyTo(p, m) \in Running
               THEN [rest EXCEPT ![ReplyTo(p, m)] = Append(@, Reply(p, m))]
               ELSE rest
  /\ TakeTag(p)
  /\ UNCHANGED <<count, ended, handles, registry, call, replyTag, links, signals, answer, strayed>>

\* A reply that nobody waits for, or a signal.
Skip(p) ==
  /\ Receive(p, "reply") \/ Receive(p, "signal")
  /\ mbox' = [mbox EXCEPT ![p] = Tail(@)]
  /\ UNCHANGED <<count, ended, handles, registry, call, replyTag, linkVars, answer, strayed>>
-----------------------------------------------------------------------------
Act(p) ==
  /\ acts < MaxActs /\ acts' = acts + 1
  /\ \/ \E n \in Nodes \cup {Local} : Spawn(p, n)
     \/ \E h \in Has(p) :
          \/ Kill(p, h) \/ LinkProcess(p, h) \/ UnlinkProcess(p, h)
          \/ Put(p, h) \/ Request(p, h) \/ \E g \in Has(p) : Give(p, h, g)
     \/ Lookup(p) \/ Unregister(p) \/ Self(p) \/ Finish(p)

\* What a process does that serves its mailbox.
Work(p) == (ReceiveGift(p) \/ Serve(p) \/ Skip(p) \/ GetAnswer(p)) /\ UNCHANGED acts

Next ==
  \/ \E p \in Processes : Act(p) \/ Work(p) \/ (Timeout(p) /\ UNCHANGED acts)
  \/ \E l \in signals : LinkDies(l) /\ UNCHANGED acts

Spec == Init /\ [][Next]_vars

\* Every process receives while it is not blocked.
FairSpec == Spec /\ \A p \in Processes : WF_vars(Work(p))
-----------------------------------------------------------------------------
\* A handle reaches the process that it was made for; but one without a node may
\* reach another once it was sent in a message (process/index.ts:279, 328, 370,
\* registry/index.ts:10-22).
Faithful ==
  \A p \in Processes : \A h \in handles[p] : h.node # Local \/ ~strayed => Reached(p, h) = h.of

\* What a request ends with is the reply of the process that it was sent to, on
\* its own node; or the reply that the process of the same id on another node
\* should have got; or, of the same tag by coincidence, a request or the signal of
\* a process that died, under a link tag that one of the two took or under the id
\* that Process.link gave the host for it
\* (process/index.ts:227-248, 541-561, message/index.ts:57-60).
OwnAnswers ==
  \A p \in Processes : answer[p] # NoAnswer =>
    LET m == answer[p].message
        c == answer[p].call IN
    /\ m.tag = c.tag
    /\ \/ m.kind = "reply" /\ m.to = p /\ m.by = Reached(p, c.handle) /\ m.by[1] = p[1]
       \/ m.kind = "reply" /\ m.to[1] # p[1] /\ m.to[2] = p[2]
       \/ m.kind = "request" /\ (m.from = p => Reached(p, c.handle) = p)
       \/ m.kind = "signal" /\ m.by \in ended /\ (m.tag \in 1..MaxId \/ m.tag < linkTag[p] \/ m.tag < linkTag[m.by])

Callee(p) == Reached(p, call[p].handle)
Blocked(q) == q \notin Running \/ call[q] # NoCall

\* A request of p is in the mailbox of a process of the same node.
Asked(p) ==
  /\ call[p] # NoCall /\ Callee(p)[1] = p[1]
  /\ \E i \in DOMAIN mbox[Callee(p)] :
       mbox[Callee(p)][i].kind = "request" /\ mbox[Callee(p)][i].from = p

\* A request that is in the mailbox of a process of the same node ends, unless
\* that process ends or is itself blocked in a request: two that ask each other
\* may wait forever (process/index.ts:541-561).
Answered == \A p \in Processes : Asked(p) ~> (call[p] = NoCall \/ Blocked(Callee(p)))
=============================================================================
