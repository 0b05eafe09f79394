----------------------------- MODULE Messaging ------------------------------
(***************************************************************************)
(* Processes, mailboxes and requests (src/assembly/process/index.ts and    *)
(* src/assembly/message/index.ts).                                         *)
(*                                                                         *)
(* Clients send requests to one server and wait for its replies; they also *)
(* receive posts (plain sends) and, having set dieWhenLinkDies to false,   *)
(* the signals of the children they spawned.  All of these arrive in one   *)
(* mailbox and are told apart only by their tags, which come from the two  *)
(* counters Process.tag and Process.replyTag and from the default tag 0.   *)
(*                                                                         *)
(* External, as documented in message/bindings.ts and process/bindings.ts: *)
(* send_receive_skip_search looks only at what arrives after the request   *)
(* was sent; a receive without tags takes the first message; a link tag 0  *)
(* makes no link; a message to a process that ended is lost.               *)
(***************************************************************************)
EXTENDS Naturals, Sequences, SequencesExt

CONSTANTS
  Clients,
  MaxCalls,    \* bound on the requests of a client
  MaxPosts,    \* bound on the posts to a client
  MaxSpawns,   \* bound on the children of a client
  Busy         \* the clients that spawn children and that others post to

VARIABLES
  tag,        \* client -> Process.tag
  replyTag,   \* client -> Process.replyTag
  children,   \* client -> the link tags of its children that run
  calls,      \* client -> the number of its last request
  call,       \* client -> the request it is blocked in, or NoCall
  outcome,    \* client -> how its last request ended
  mbox,       \* client -> its mailbox, in arrival order
  posts,      \* client -> the number of its last post
  got,        \* client -> the number of the last post its program received
  server,     \* does the server run?
  requests,   \* the mailbox of the server
  served      \* the requests it has replied to

vars == <<tag, replyTag, children, calls, call, outcome, mbox, posts, got, server, requests, served>>
serverVars == <<server, requests, served>>

NoCall == [tag |-> 0, skip |-> 0, timed |-> FALSE]
Nothing == [kind |-> "none", tag |-> 0, n |-> 0]

Tags == Nat
Messages == [kind : {"post", "reply", "signal"}, tag : Tags, n : Nat]
Requests == [from : Clients, tag : Tags, n : Nat]

TypeOK ==
  /\ tag \in [Clients -> Tags] /\ replyTag \in [Clients -> Tags]
  /\ children \in [Clients -> SUBSET Tags]
  /\ calls \in [Clients -> Nat] /\ posts \in [Clients -> Nat]
  /\ call \in [Clients -> [tag : Tags, skip : Nat, timed : BOOLEAN]]
  /\ outcome \in [Clients -> Messages \cup {Nothing}]
  /\ got \in [Clients -> Nat]
  /\ mbox \in [Clients -> Seq(Messages)]
  /\ server \in BOOLEAN
  /\ requests \in Seq(Requests)
  /\ served \subseteq Clients \X Nat
  /\ \A c \in Clients : call[c].skip <= Len(mbox[c])

Idle(c) == call[c] = NoCall

Message(kind, t, n) == [kind |-> kind, tag |-> t, n |-> n]
Deliver(c, m) == mbox' = [mbox EXCEPT ![c] = Append(@, m)]

Init ==
  /\ tag = [c \in Clients |-> 0]
  /\ replyTag = [c \in Clients |-> 1]
  /\ children = [c \in Clients |-> {}]
  /\ calls = [c \in Clients |-> 0]
  /\ call = [c \in Clients |-> NoCall]
  /\ outcome = [c \in Clients |-> Nothing]
  /\ mbox = [c \in Clients |-> <<>>]
  /\ posts = [c \in Clients |-> 0]
  /\ got = [c \in Clients |-> 0]
  /\ server = TRUE
  /\ requests = <<>>
  /\ served = {}

-----------------------------------------------------------------------------
\* Process.inheritSpawn: the child is linked under the next tag, but for tag 0.
Spawn(c) ==
  /\ c \in Busy /\ Idle(c) /\ tag[c] < MaxSpawns
  /\ tag' = [tag EXCEPT ![c] = @ + 1]
  /\ children' = [children EXCEPT ![c] = IF tag[c] = 0 THEN @ ELSE @ \cup {tag[c]}]
  /\ UNCHANGED <<replyTag, calls, call, outcome, mbox, posts, got, serverVars>>

\* A linked child traps: the signal in the parent's mailbox has the link's tag.
ChildTraps(c, t) ==
  /\ t \in children[c]
  /\ children' = [children EXCEPT ![c] = @ \ {t}]
  /\ Deliver(c, Message("signal", t, 0))
  /\ UNCHANGED <<tag, replyTag, calls, call, outcome, posts, got, serverVars>>

\* Process#send from some process, with the default tag.
Post(c) ==
  /\ c \in Busy /\ posts[c] < MaxPosts
  /\ posts' = [posts EXCEPT ![c] = @ + 1]
  /\ Deliver(c, Message("post", 0, posts[c] + 1))
  /\ UNCHANGED <<tag, replyTag, children, calls, call, outcome, got, serverVars>>

\* Process#request: the message goes out under the next reply tag and the
\* caller blocks, with a timeout or without.
SendRequest(c, timed) ==
  /\ Idle(c) /\ calls[c] < MaxCalls
  /\ replyTag' = [replyTag EXCEPT ![c] = @ + 1]
  /\ calls' = [calls EXCEPT ![c] = @ + 1]
  /\ call' = [call EXCEPT ![c] = [tag |-> replyTag[c], skip |-> Len(mbox[c]), timed |-> timed]]
  /\ outcome' = [outcome EXCEPT ![c] = Nothing]
  /\ requests' = IF server
                   THEN Append(requests, [from |-> c, tag |-> replyTag[c], n |-> calls[c] + 1])
                   ELSE requests
  /\ UNCHANGED <<tag, children, mbox, posts, got, server, served>>

\* Mutant: the wait ends with whatever arrives.
MatchesAny(c) == {i \in DOMAIN mbox[c] : i > call[c].skip}

\* The messages that end the wait: those that arrived since with its tag.
Matches(c) == {i \in DOMAIN mbox[c] : i > call[c].skip /\ mbox[c][i].tag = call[c].tag}

EndRequest(c, m) ==
  /\ call' = [call EXCEPT ![c] = NoCall]
  /\ outcome' = [outcome EXCEPT ![c] = m]
  /\ UNCHANGED <<tag, replyTag, children, calls, posts, got, serverVars>>

\* Mutant: what arrived before the match is dropped.
ReturnRequestDropping(c) ==
  /\ ~Idle(c)
  /\ \E i \in Matches(c) :
       /\ \A j \in Matches(c) : i <= j
       /\ EndRequest(c, mbox[c][i])
       /\ mbox' = [mbox EXCEPT ![c] = SubSeq(@, i + 1, Len(@))]

\* The first match is taken out of the mailbox, and whatever is no timeout is
\* read as the data of the reply.
ReturnRequest(c) ==
  /\ ~Idle(c)
  /\ \E i \in Matches(c) :
       /\ \A j \in Matches(c) : i <= j
       /\ EndRequest(c, mbox[c][i])
       /\ mbox' = [mbox EXCEPT ![c] = RemoveAt(@, i)]

TimeoutRequest(c) ==
  /\ ~Idle(c) /\ call[c].timed /\ Matches(c) = {}
  /\ EndRequest(c, Nothing)
  /\ UNCHANGED mbox

\* Mailbox#receive without tags.
ReceiveAny(c) ==
  /\ Idle(c) /\ mbox[c] # <<>>
  /\ got' = [got EXCEPT ![c] = IF Head(mbox[c]).kind = "post" THEN Head(mbox[c]).n ELSE @]
  /\ mbox' = [mbox EXCEPT ![c] = Tail(@)]
  /\ UNCHANGED <<tag, replyTag, children, calls, call, outcome, posts, serverVars>>

\* Mailbox#receive for a tag: the first message that has it, wherever it lies.
ReceiveTagged(c, t) ==
  /\ Idle(c)
  /\ \E i \in DOMAIN mbox[c] :
       /\ mbox[c][i].tag = t /\ \A j \in 1..(i - 1) : mbox[c][j].tag # t
       /\ got' = [got EXCEPT ![c] = IF mbox[c][i].kind = "post" THEN mbox[c][i].n ELSE @]
       /\ mbox' = [mbox EXCEPT ![c] = RemoveAt(@, i)]
  /\ UNCHANGED <<tag, replyTag, children, calls, call, outcome, posts, serverVars>>

\* Mutant: the reply carries the default tag.
ServeUntagged ==
  /\ server /\ requests # <<>>
  /\ LET r == Head(requests) IN
       /\ Deliver(r.from, Message("reply", 0, r.n))
       /\ served' = served \cup {<<r.from, r.n>>}
  /\ requests' = Tail(requests)
  /\ UNCHANGED <<tag, replyTag, children, calls, call, outcome, posts, got, server>>

\* Mutant: the reply goes to the sender of the message that came last.
ServeLast ==
  /\ server /\ requests # <<>>
  /\ LET r == Head(requests) IN
       /\ Deliver(Last(requests).from, Message("reply", r.tag, r.n))
       /\ served' = served \cup {<<r.from, r.n>>}
  /\ requests' = Tail(requests)
  /\ UNCHANGED <<tag, replyTag, children, calls, call, outcome, posts, got, server>>

\* The server receives a request and replies: to its sender, with its tag.
Serve ==
  /\ server /\ requests # <<>>
  /\ LET r == Head(requests) IN
       /\ Deliver(r.from, Message("reply", r.tag, r.n))
       /\ served' = served \cup {<<r.from, r.n>>}
  /\ requests' = Tail(requests)
  /\ UNCHANGED <<tag, replyTag, children, calls, call, outcome, posts, got, server>>

\* The server ends, and its mailbox with it.
ServerEnds ==
  /\ server
  /\ server' = FALSE
  /\ requests' = <<>>
  /\ UNCHANGED <<tag, replyTag, children, calls, call, outcome, mbox, posts, got, served>>

Wait(c) == ReturnRequest(c) \/ TimeoutRequest(c)

Next ==
  \/ \E c \in Clients :
       \/ Spawn(c) \/ Post(c) \/ ReceiveAny(c) \/ Wait(c)
       \/ \E t \in children[c] : ChildTraps(c, t)
       \/ \E i \in DOMAIN mbox[c] : ReceiveTagged(c, mbox[c][i].tag)
       \/ \E timed \in BOOLEAN : SendRequest(c, timed)
  \/ Serve
  \/ ServerEnds

Spec == Init /\ [][Next]_vars

\* The host wakes a process whose message or timeout has come, and runs the
\* server while it is ready.
FairSpec == Spec /\ WF_vars(Serve) /\ \A c \in Clients : WF_vars(Wait(c))
-----------------------------------------------------------------------------
\* A request never takes a post or the late reply to an earlier request, which
\* stay in the mailbox under their own tags (process/index.ts:538-555).
NoCrossTalk ==
  \A c \in Clients : outcome[c].kind \in {"none", "signal"} \/ outcome[c] = Message("reply", outcome[c].tag, calls[c])

\* Posts that arrive while requests wait, time out and return are neither lost
\* nor reordered: those in the mailbox follow the last one read.
PostsOf(c) == {i \in DOMAIN mbox[c] : mbox[c][i].kind = "post"}
PostsInOrder ==
  \A c \in Clients :
    /\ {mbox[c][i].n : i \in PostsOf(c)} = (got[c] + 1)..posts[c]
    /\ \A i, j \in PostsOf(c) : i < j => mbox[c][i].n < mbox[c][j].n

\* A request with a timeout ends even if the server does not live to answer;
\* one without ends if the server lives.
RequestsEnd ==
  \A c \in Clients : /\ call[c].timed ~> Idle(c)
                     /\ ~Idle(c) ~> Idle(c) \/ ~server

\* A request keeps the promise of RemoteCall: its own answer, computed once, or
\* none (process/index.ts:532-555).
Abstract == INSTANCE RemoteCall WITH
  waiting <- [c \in Clients |-> ~Idle(c)],
  outcome <- [c \in Clients |-> outcome[c].n]
KeepsPromise == Abstract!Spec
=============================================================================
