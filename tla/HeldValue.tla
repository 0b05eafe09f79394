----------------------------- MODULE HeldValue ------------------------------
(***************************************************************************)
(* The value of a Held<T> (src/assembly/managed/held.ts) and the sandbox   *)
(* its callbacks run in (src/assembly/process/sandbox.ts).                 *)
(*                                                                         *)
(* The Held process handles one event at a time.  For execute and request  *)
(* it spawns a child that runs the callback on a copy of the value, and    *)
(* waits for the child's reply, for as long as it takes: sandbox hands its *)
(* timeout to Process#request as the tag.  The child of a callback that    *)
(* traps never replies.  HeldLifetime models the events that count         *)
(* references; here the process lives on.                                  *)
(***************************************************************************)
EXTENDS Integers, Sequences, FiniteSets, SequencesExt

CONSTANTS
  Clients, Values,
  Callbacks,   \* functions of the value, to a value or Trap
  Trap, Nothing, Never,
  Timeouts,    \* the timeouts of requests, in milliseconds
  MaxCalls,    \* bound on the calls of a client that wait for a reply
  MaxEvents,   \* bound on the mailbox of the Held process
  MaxTag       \* bound on Process.tag of the Held process for more callbacks

\* u64.MAX_VALUE, which as a tag is the i64 -1.
Forever == -1

VARIABLES
  replyTag,  \* client -> Process.replyTag
  call,      \* client -> the call it is blocked in, or NoCall
  reply,     \* client -> the reply to that call in its mailbox, or Nothing
  held,      \* what the Held process does
  value,     \* ctx.value
  tag,       \* Process.tag of the Held process
  wait,      \* the event in the sandbox and the tag it waits for
  children,  \* the sandbox children that run
  mbox,      \* the mailbox of the Held process
  last       \* the last call, for the properties

clientVars == <<replyTag, call, reply>>
heldVars == <<held, value, tag, wait, children>>
vars == <<clientVars, heldVars, mbox, last>>

NoCall == [tag |-> 0, timed |-> FALSE]

Events ==
  [from : Clients, tag : {0}, kind : {"set"}, arg : Values, timeout : {Forever}]
  \cup [from : Clients, tag : {0}, kind : {"execute"}, arg : Callbacks, timeout : {Forever}]
  \cup [from : Clients, tag : Nat \ {0}, kind : {"get"}, arg : {Nothing}, timeout : {Forever}]
  \cup [from : Clients, tag : Nat \ {0}, kind : {"request"}, arg : Callbacks, timeout : Timeouts]

\* A callback returns a value or traps.
ASSUME CallbacksAssumption == Callbacks \subseteq [Values -> Values \cup {Trap}]
ASSUME NothingAssumption == Trap \notin Values /\ Nothing \notin Values \cup Events

Event(c, t, kind, arg, timeout) == [from |-> c, tag |-> t, kind |-> kind, arg |-> arg, timeout |-> timeout]
NoWait == [event |-> Nothing, tag |-> 0, skip |-> 0]
IsEvent(m) == m.kind \in {"get", "set", "execute", "request"}

TypeOK ==
  /\ replyTag \in [Clients -> Nat]
  /\ call \in [Clients -> [tag : Nat, timed : BOOLEAN]]
  /\ reply \in [Clients -> Values \cup {Nothing}]
  /\ held \in {"ready", "waiting", "undefined"}
  /\ value \in Values
  /\ tag \in Nat
  /\ held = "waiting" <=> wait # NoWait
  /\ wait.skip <= Len(mbox)
  /\ Cardinality(children) <= 1
  /\ \A c \in Clients : reply[c] # Nothing => call[c] # NoCall

Init ==
  /\ replyTag = [c \in Clients |-> 1]
  /\ call = [c \in Clients |-> NoCall]
  /\ reply = [c \in Clients |-> Nothing]
  /\ held = "ready"
  /\ value \in Values
  /\ tag = 1   \* 0 went to the link with the creator
  /\ wait = NoWait
  /\ children = {}
  /\ mbox = <<>>
  /\ last = Nothing

-----------------------------------------------------------------------------
Idle(c) == call[c] = NoCall

Send(m) ==
  /\ Len(mbox) < MaxEvents
  /\ mbox' = Append(mbox, m)

\* Held#setValue and Held#execute do not wait.
SetValue(c, v) ==
  /\ Idle(c)
  /\ Send(Event(c, 0, "set", v, Forever))
  /\ last' = <<c, "set", v>>
  /\ UNCHANGED <<clientVars, heldVars>>

Execute(c, f) ==
  /\ Idle(c) /\ tag < MaxTag
  /\ Send(Event(c, 0, "execute", f, Forever))
  /\ last' = <<c, "execute", f>>
  /\ UNCHANGED <<clientVars, heldVars>>

Ask(c, kind, arg, timeout, timed) ==
  /\ Idle(c) /\ replyTag[c] <= MaxCalls
  /\ replyTag' = [replyTag EXCEPT ![c] = @ + 1]
  /\ call' = [call EXCEPT ![c] = [tag |-> replyTag[c], timed |-> timed]]
  /\ Send(Event(c, replyTag[c], kind, arg, timeout))
  /\ UNCHANGED <<reply, heldVars>>

\* Held#getValue and Held#request wait for the reply, or for their timeout.
GetValue(c, timed) == Ask(c, "get", Nothing, Forever, timed) /\ last' = <<c, "get">>
Request(c, f, timeout) == Ask(c, "request", f, timeout, timeout # Forever) /\ last' = <<c, "request", f>>

ReturnCall(c) ==
  /\ reply[c] # Nothing \/ call[c].timed
  /\ call' = [call EXCEPT ![c] = NoCall]
  /\ reply' = [reply EXCEPT ![c] = Nothing]
  /\ UNCHANGED <<replyTag, heldVars, mbox, last>>
-----------------------------------------------------------------------------
\* Message#reply: a reply nobody waits for any more stays unread.
Reply(e, v) ==
  /\ reply' = IF call[e.from].tag = e.tag /\ call[e.from] # NoCall THEN [reply EXCEPT ![e.from] = v] ELSE reply
  /\ UNCHANGED <<replyTag, call>>

Receive(kinds) ==
  /\ held = "ready" /\ mbox # <<>> /\ Head(mbox).kind \in kinds
  /\ mbox' = Tail(mbox)
  /\ UNCHANGED last

HandleSet ==
  /\ Receive({"set"})
  /\ value' = Head(mbox).arg
  /\ UNCHANGED <<clientVars, held, tag, wait, children>>

HandleGet ==
  /\ Receive({"get"})
  /\ Reply(Head(mbox), value)
  /\ tag' = tag + 1
  /\ UNCHANGED <<held, value, wait, children>>

\* Mutant: the child does not get its start message.
HandleCallbackUnstarted ==
  LET e == Head(mbox) IN
  /\ Receive({"execute", "request"})
  /\ held' = "waiting"
  /\ wait' = [event |-> e, tag |-> e.timeout, skip |-> Len(mbox) - 1]
  /\ tag' = tag + 1
  /\ UNCHANGED <<clientVars, value, children>>

\* sandbox: the child gets the callback and a copy of the value, and is asked
\* for the result under the timeout as tag.
HandleCallback ==
  LET e == Head(mbox) IN
  /\ Receive({"execute", "request"})
  /\ held' = "waiting"
  /\ wait' = [event |-> e, tag |-> e.timeout, skip |-> Len(mbox) - 1]
  /\ children' = children \cup {[link |-> tag, tag |-> e.timeout, arg |-> e.arg, value |-> value]}
  /\ tag' = tag + 1
  /\ UNCHANGED <<clientVars, value>>

\* The callback returns, or traps: then the child's link signals its death.
RunChild(x) ==
  LET v == x.arg[x.value] IN
  /\ x \in children
  /\ children' = children \ {x}
  /\ mbox' = Append(mbox, IF v = Trap THEN [kind |-> "signal", tag |-> x.link]
                          ELSE [kind |-> "return", tag |-> x.tag, value |-> v])
  /\ UNCHANGED <<clientVars, held, value, tag, wait, last>>

Answers == {i \in DOMAIN mbox : i > wait.skip /\ mbox[i].tag = wait.tag}

\* Mutant: a callback that has returned is waited for once more.
EndWaitKept(kinds) ==
  /\ held = "waiting"
  /\ \E i \in Answers :
       /\ \A j \in Answers : i <= j
       /\ mbox[i].kind \in kinds
       /\ mbox' = RemoveAt(mbox, i)
       /\ UNCHANGED <<wait, children, last>>
       /\ IF mbox[i].kind = "return" THEN value' = mbox[i].value /\ held' = "ready"
                                     ELSE UNCHANGED value /\ held' = "undefined"

\* The wait ends with the first message that has its tag.
EndWait(kinds) ==
  /\ held = "waiting"
  /\ \E i \in Answers :
       /\ \A j \in Answers : i <= j
       /\ mbox[i].kind \in kinds
       /\ mbox' = RemoveAt(mbox, i)
       /\ wait' = NoWait
       /\ UNCHANGED <<children, last>>
       /\ IF mbox[i].kind = "return" THEN value' = mbox[i].value /\ held' = "ready"
                                     ELSE UNCHANGED value /\ held' = "undefined"

\* Mutant: a request is answered with the value after its callback.
EndRequestForgetting ==
  /\ EndWait({"return"}) /\ wait.event.kind = "request"
  /\ Reply(wait.event, wait.event.arg[value])
  /\ tag' = tag + 1

\* The new value is the copy's.  The callback of a request returns the old one.
EndRequest ==
  /\ EndWait({"return"}) /\ wait.event.kind = "request"
  /\ Reply(wait.event, value)
  /\ tag' = tag + 1

EndExecute ==
  /\ EndWait({"return"}) /\ wait.event.kind = "execute"
  /\ UNCHANGED <<clientVars, tag>>

\* Any other message with the tag is read as the result, whatever it holds: what
\* the process does from then on is undefined.
Misread ==
  /\ EndWait({"get", "set", "execute", "request", "signal"})
  /\ UNCHANGED <<clientVars, tag>>

HeldNext ==
  \/ HandleSet \/ HandleGet \/ HandleCallback
  \/ EndRequest \/ EndExecute \/ Misread
  \/ \E x \in children : RunChild(x)

Next ==
  \/ \E c \in Clients :
       \/ \E v \in Values : SetValue(c, v)
       \/ \E f \in Callbacks : Execute(c, f) \/ \E t \in Timeouts : Request(c, f, t)
       \/ \E timed \in BOOLEAN : GetValue(c, timed)
       \/ ReturnCall(c)
  \/ HeldNext

Spec == Init /\ [][Next]_vars
FairSpec == Spec /\ WF_vars(HeldNext) /\ \A c \in Clients : WF_vars(ReturnCall(c))
-----------------------------------------------------------------------------
\* What there is to handle, in order: only the events have an effect on the value.
Queue == (IF held = "waiting" THEN <<wait.event>> ELSE <<>>) \o mbox

After(e, v) ==
  IF v = Trap THEN Trap
  ELSE CASE e.kind = "set" -> e.arg
         [] e.kind \in {"execute", "request"} -> e.arg[v]
         [] OTHER -> v

\* The value before the first of the messages q, s, and after each of them.
Run(q, s) == LET run[i \in 0..Len(q)] == IF i = 0 THEN s ELSE After(q[i], run[i - 1]) IN run

Now == IF held = "undefined" THEN Trap ELSE value
Final == Run(Queue, Now)[Len(Queue)]

\* The event of q for the call of c with that tag, and the answer that it will get.
Waits(q, c, t) == {i \in DOMAIN q : IsEvent(q[i]) /\ q[i].from = c /\ q[i].tag = t}

Due(q, s, c, t) ==
  LET i == CHOOSE j \in Waits(q, c, t) : TRUE
  IN IF Waits(q, c, t) = {} \/ Run(q, s)[i] = Trap THEN Never ELSE Run(q, s)[i - 1]

Owed(c) ==
  IF Idle(c) THEN Nothing
  ELSE IF reply[c] # Nothing THEN reply[c] ELSE Due(Queue, Now, c, call[c].tag)

AllOwed == [c \in Clients |-> Owed(c)]

\* Every operation behaves as if it took effect when it was called: callbacks
\* of different clients neither lose nor undo each other's changes, although
\* each of them runs on a copy of the value (held.ts:68-172, 250-284).  A
\* callback that traps and a result that is misread end it.
Abstract == INSTANCE AtomicCell WITH value <- Final, owed <- AllOwed
KeepsValue == Abstract!Spec

\* A call ends, as long as no callback trapped and no result was misread: no
\* other event, timeout or late reply can leave the Held process waiting
\* (held.ts:250-284, sandbox.ts:13-27).
Stuck == held = "waiting" /\ wait.event.arg[value] = Trap
Answered == \A c \in Clients : ~Idle(c) ~> Idle(c) \/ Stuck \/ held = "undefined"
=============================================================================
