---------------------- MODULE MessagingResources_proofs -----------------------
(*****************************************************************************)
(* Two components that share no state.  Messaging: requests do not take each *)
(* other's replies, and keep the promise of RemoteCall, for any number of    *)
(* clients, requests, posts and children.  Resources: the account of the     *)
(* host's tables holds for any processes, objects and kinds of resources.    *)
(*****************************************************************************)
EXTENDS Messaging, Resources, TLAPS

-----------------------------------------------------------------------------
\* Facts on mailboxes, which are sequences: what a receive takes out of them and
\* what a delivery adds.

\* r is q without its i-th message.
Without(q, i, r) ==
  /\ Len(r) = Len(q) - 1
  /\ \A j \in 1..(i - 1) : r[j] = q[j]
  /\ \A j \in i..(Len(q) - 1) : r[j] = q[j + 1]

\* A mailbox without its i-th message has the others: those before it at their
\* places, those behind it one place earlier.
LEMMA Removed ==
  ASSUME NEW S, NEW q \in Seq(S), NEW i \in DOMAIN q
  PROVE  /\ RemoveAt(q, i) \in Seq(S)
         /\ Without(q, i, RemoveAt(q, i))
<1> DEFINE s == SubSeq(q, 1, i - 1)
           t == SubSeq(q, i + 1, Len(q))
           r == s \o t
           n == Len(q)
<1>1. s \in Seq(S) /\ Len(s) = i - 1 /\ \A j \in 1..(i - 1) : s[j] = q[j]
  OBVIOUS
<1>2. t \in Seq(S) /\ Len(t) = n - i /\ \A j \in 1..(n - i) : t[j] = q[i + j]
  OBVIOUS
<1>3. RemoveAt(q, i) = r
  BY DEF RemoveAt
<1>4. n \in Nat /\ i \in 1..n /\ DOMAIN q = 1..n
  OBVIOUS
<1> HIDE DEF s, t, n
<1>5. r \in Seq(S) /\ Len(r) = n - 1 /\ DOMAIN r = 1..(n - 1)
  <2>1. \A a, b \in Seq(S) : a \o b \in Seq(S) /\ Len(a \o b) = Len(a) + Len(b)
    OBVIOUS
  <2>2. r \in Seq(S) /\ Len(r) = Len(s) + Len(t)
    BY <1>1, <1>2, <2>1, Zenon
  <2>3. Len(s) + Len(t) = n - 1
    BY <1>1, <1>2, <1>4
  <2> QED BY <2>2, <2>3
<1>6. \A j \in 1..(i - 1) : r[j] = s[j]
  BY <1>1, <1>2, <1>4
<1>7. ASSUME NEW j \in 1..(n - 1), j >= i
      PROVE  r[j] = t[j - (i - 1)]
  <2>1. j \in 1..(Len(s) + Len(t)) /\ ~(j <= Len(s))
    BY <1>1, <1>2, <1>4, <1>7
  <2>2. r[j] = t[j - Len(s)]
    BY <1>1, <1>2, <2>1
  <2> QED BY <1>1, <2>2
<1> HIDE DEF r
<1>8. \A j \in 1..(i - 1) : r[j] = q[j]
  BY <1>1, <1>6
<1>9. ASSUME NEW j \in i..(n - 1)
      PROVE  r[j] = q[j + 1]
  <2>1. j \in 1..(n - 1) /\ j - (i - 1) \in 1..(n - i) /\ i + (j - (i - 1)) = j + 1
    BY <1>4
  <2> QED BY <1>2, <1>7, <2>1
<1> QED BY <1>3, <1>4, <1>5, <1>8, <1>9 DEF Without, n

\* What is in the mailbox after a message was taken out was there before.
LEMMA Kept ==
  ASSUME NEW S, NEW q \in Seq(S), NEW i \in DOMAIN q, NEW r \in Seq(S), Without(q, i, r)
  PROVE  \A j \in DOMAIN r : \E k \in DOMAIN q : r[j] = q[k]
<1>1. DOMAIN q = 1..Len(q) /\ Len(q) \in Nat /\ DOMAIN r = 1..(Len(q) - 1)
  BY DEF Without
<1> SUFFICES ASSUME NEW j \in DOMAIN r
             PROVE  \E k \in DOMAIN q : r[j] = q[k]
  OBVIOUS
<1>2. CASE j < i
  <2>1. j \in DOMAIN q /\ r[j] = q[j]
    BY <1>1, <1>2 DEF Without
  <2> QED BY <2>1
<1>3. CASE j >= i
  <2>1. j + 1 \in DOMAIN q /\ r[j] = q[j + 1]
    BY <1>1, <1>3 DEF Without
  <2> QED BY <2>1
<1> QED BY <1>1, <1>2, <1>3

\* So it is when the first message is taken.
LEMMA TailWithout ==
  ASSUME NEW S, NEW q \in Seq(S), q # <<>>
  PROVE  1 \in DOMAIN q /\ Head(q) = q[1] /\ Tail(q) \in Seq(S) /\ Without(q, 1, Tail(q))
<1>1. 1 \in DOMAIN q /\ Head(q) = q[1] /\ Tail(q) \in Seq(S)
  OBVIOUS
<1>2. Len(Tail(q)) = Len(q) - 1 /\ Len(q) \in Nat
  OBVIOUS
<1>3. \A j \in 1..(Len(q) - 1) : Tail(q)[j] = q[j + 1]
  OBVIOUS
<1> QED BY <1>1, <1>2, <1>3 DEF Without

\* A delivery adds its message at the end.
LEMMA Appended ==
  ASSUME NEW S, NEW q \in Seq(S), NEW m \in S
  PROVE  /\ Append(q, m) \in Seq(S) /\ Len(Append(q, m)) = Len(q) + 1
         /\ \A j \in DOMAIN Append(q, m) : \/ j = Len(q) + 1 /\ Append(q, m)[j] = m
                                           \/ j \in DOMAIN q /\ Append(q, m)[j] = q[j]
OBVIOUS
-----------------------------------------------------------------------------
\* The reply tag of a request is its number, which no post and no reply to
\* another request carries.
Fitting(m) == (m.kind = "post" => m.tag = 0) /\ (m.kind = "reply" => m.tag = m.n)
FittingMessages == {m \in Messages : Fitting(m)}
FittingRequests == {r \in Requests : r.tag = r.n}

Tagged ==
  /\ mbox \in [Clients -> Seq(FittingMessages)]
  /\ requests \in Seq(FittingRequests)
  /\ \A c \in Clients : /\ replyTag[c] = calls[c] + 1
                        /\ Idle(c) \/ (call[c].tag = calls[c] /\ calls[c] >= 1)

IInv == TypeOK /\ Tagged /\ NoCrossTalk
-----------------------------------------------------------------------------
\* What fits is a message or a request.
LEMMA FittingTyped ==
  /\ Seq(FittingMessages) \subseteq Seq(Messages)
  /\ Seq(FittingRequests) \subseteq Seq(Requests)
<1>1. FittingMessages \subseteq Messages
  BY DEF FittingMessages
<1>2. FittingRequests \subseteq Requests
  BY DEF FittingRequests
<1> QED BY <1>1, <1>2

\* A delivery appends one message that fits.
LEMMA Delivered ==
  ASSUME IInv, NEW c \in Clients, NEW m \in FittingMessages, Deliver(c, m)
  PROVE  /\ mbox' \in [Clients -> Seq(FittingMessages)]
         /\ \A d \in Clients : call[d].skip <= Len(mbox'[d])
<1>1. mbox \in [Clients -> Seq(FittingMessages)] /\ mbox' = [mbox EXCEPT ![c] = Append(@, m)]
  BY DEF IInv, Tagged, Deliver
<1>2. Append(mbox[c], m) \in Seq(FittingMessages) /\ Len(Append(mbox[c], m)) = Len(mbox[c]) + 1 /\ Len(mbox[c]) \in Nat
  BY <1>1
<1>3. \A d \in Clients : call[d].skip \in Nat /\ call[d].skip <= Len(mbox[d])
  BY DEF IInv, TypeOK
<1>4. mbox'[c] = Append(mbox[c], m) /\ \A d \in Clients \ {c} : mbox'[d] = mbox[d]
  BY <1>1
<1>5. mbox' \in [Clients -> Seq(FittingMessages)]
  BY <1>1, <1>2
<1>6. call[c].skip <= Len(mbox'[c])
  BY <1>2, <1>3, <1>4
<1> QED BY <1>3, <1>4, <1>5, <1>6

\* The initial state satisfies the invariant.
LEMMA InitInvariant == Init => IInv
<1> SUFFICES ASSUME Init
             PROVE  IInv
  OBVIOUS
<1>1. <<>> \in Seq(FittingMessages) /\ <<>> \in Seq(FittingRequests) /\ Len(<<>>) = 0
  OBVIOUS
<1>2. Tagged
  BY <1>1 DEF Init, Tagged, Idle
<1>3. TypeOK
  BY <1>1, FittingTyped DEF Init, TypeOK, Tags, NoCall, Nothing
<1>4. NoCrossTalk
  BY DEF Init, NoCrossTalk, Nothing
<1> QED BY <1>2, <1>3, <1>4 DEF IInv

\* The program takes a message out of its mailbox while it waits for no reply.
LEMMA Received ==
  ASSUME IInv, NEW c \in Clients, Idle(c), NEW m \in FittingMessages, NEW q \in Seq(FittingMessages),
         got' = [got EXCEPT ![c] = IF m.kind = "post" THEN m.n ELSE @],
         mbox' = [mbox EXCEPT ![c] = q],
         UNCHANGED <<tag, replyTag, children, calls, call, outcome, posts, serverVars>>
  PROVE  IInv'
<1>1. TypeOK /\ Tagged /\ NoCrossTalk /\ mbox \in [Clients -> Seq(FittingMessages)]
  BY DEF IInv, Tagged
<1>2. m \in Messages
  BY DEF FittingMessages
<1>3. mbox' \in [Clients -> Seq(FittingMessages)] /\ \A d \in Clients \ {c} : mbox'[d] = mbox[d]
  BY <1>1
<1>4. \A d \in Clients : call'[d].skip <= Len(mbox'[d])
  <2>1. call[c].skip = 0 /\ Len(mbox'[c]) \in Nat /\ call' = call
    BY <1>3 DEF Idle, NoCall
  <2>2. \A d \in Clients : call[d].skip <= Len(mbox[d])
    BY <1>1 DEF TypeOK
  <2>3. ASSUME NEW d \in Clients
        PROVE  call'[d].skip <= Len(mbox'[d])
    <3>1. CASE d = c
      BY <2>1, <3>1
    <3>2. CASE d # c
      BY <1>3, <2>1, <2>2, <3>2
    <3> QED BY <3>1, <3>2
  <2> QED BY <2>3
<1>5. TypeOK'
  <2>1. got' \in [Clients -> Nat]
    <3>1. m.n \in Nat
      BY <1>2 DEF Messages
    <3>2. got \in [Clients -> Nat]
      BY <1>1 DEF TypeOK
    <3> QED BY <3>1, <3>2
  <2>2. mbox' \in [Clients -> Seq(Messages)]
    BY <1>3, FittingTyped
  <2>3. UNCHANGED <<tag, replyTag, children, calls, call, outcome, posts, server, requests, served>>
    BY DEF serverVars
  <2> QED BY <1>1, <1>4, <2>1, <2>2, <2>3 DEF TypeOK
<1>6. Tagged' /\ NoCrossTalk'
  BY <1>1, <1>3 DEF Tagged, NoCrossTalk, Idle, serverVars
<1> QED BY <1>5, <1>6 DEF IInv

\* Every step preserves the invariant.
LEMMA StepInvariant == IInv /\ [Next]_vars => IInv'
<1> SUFFICES ASSUME IInv, [Next]_vars
             PROVE  IInv'
  OBVIOUS
<1>1. /\ TypeOK /\ Tagged /\ NoCrossTalk
      /\ mbox \in [Clients -> Seq(FittingMessages)] /\ requests \in Seq(FittingRequests)
  BY DEF IInv, Tagged
<1>2. ASSUME NEW c \in Clients, Spawn(c)
      PROVE  IInv'
  <2>1. TypeOK'
    BY <1>1, <1>2 DEF Spawn, TypeOK, Tags, serverVars
  <2>2. Tagged' /\ NoCrossTalk'
    BY <1>1, <1>2 DEF Spawn, Tagged, NoCrossTalk, Idle, serverVars
  <2> QED BY <2>1, <2>2 DEF IInv
<1>3. ASSUME NEW c \in Clients, Post(c)
      PROVE  IInv'
  <2>1. Message("post", 0, posts[c] + 1) \in FittingMessages
    BY <1>1 DEF TypeOK, Message, Messages, FittingMessages, Fitting, Tags
  <2>2. mbox' \in [Clients -> Seq(FittingMessages)] /\ \A d \in Clients : call[d].skip <= Len(mbox'[d])
    BY <1>3, <2>1, Delivered DEF Post
  <2>3. TypeOK'
    <3>1. posts' \in [Clients -> Nat]
      BY <1>1, <1>3 DEF Post, TypeOK
    <3>2. mbox' \in [Clients -> Seq(Messages)]
      BY <2>2, FittingTyped
    <3>3. UNCHANGED <<tag, replyTag, children, calls, call, outcome, got, server, requests, served>>
      BY <1>3 DEF Post, serverVars
    <3> QED BY <1>1, <2>2, <3>1, <3>2, <3>3 DEF TypeOK
  <2>4. Tagged' /\ NoCrossTalk'
    BY <1>1, <1>3, <2>2 DEF Post, Tagged, NoCrossTalk, Idle, serverVars
  <2> QED BY <2>3, <2>4 DEF IInv
<1>4. ASSUME NEW c \in Clients, NEW t \in children[c], ChildTraps(c, t)
      PROVE  IInv'
  <2>1. Message("signal", t, 0) \in FittingMessages
    BY <1>1 DEF TypeOK, Message, Messages, FittingMessages, Fitting, Tags
  <2>2. mbox' \in [Clients -> Seq(FittingMessages)] /\ \A d \in Clients : call[d].skip <= Len(mbox'[d])
    BY <1>4, <2>1, Delivered DEF ChildTraps
  <2>3. TypeOK'
    BY <1>1, <1>4, <2>2, FittingTyped DEF ChildTraps, TypeOK, serverVars
  <2>4. Tagged' /\ NoCrossTalk'
    BY <1>1, <1>4, <2>2 DEF ChildTraps, Tagged, NoCrossTalk, Idle, serverVars
  <2> QED BY <2>3, <2>4 DEF IInv
<1>5. ASSUME NEW c \in Clients, NEW timed \in BOOLEAN, SendRequest(c, timed)
      PROVE  IInv'
  <2> DEFINE w == [tag |-> replyTag[c], skip |-> Len(mbox[c]), timed |-> timed]
             r == [from |-> c, tag |-> replyTag[c], n |-> calls[c] + 1]
  <2>1. replyTag[c] = calls[c] + 1 /\ calls[c] \in Nat /\ Len(mbox[c]) \in Nat
    BY <1>1 DEF TypeOK, Tagged
  <2>2. r \in FittingRequests /\ w \in [tag : Tags, skip : Nat, timed : BOOLEAN]
    BY <2>1 DEF FittingRequests, Requests, Tags
  <2>3. requests' \in Seq(FittingRequests)
    BY <1>1, <1>5, <2>2 DEF SendRequest
  <2>4. /\ call' = [call EXCEPT ![c] = w] /\ mbox' = mbox
        /\ replyTag' = [replyTag EXCEPT ![c] = @ + 1] /\ calls' = [calls EXCEPT ![c] = @ + 1]
        /\ outcome' = [outcome EXCEPT ![c] = Nothing]
    BY <1>5 DEF SendRequest
  <2>5. w.tag = calls[c] + 1 /\ w.skip = Len(mbox[c])
    BY <2>1
  <2> HIDE DEF w
  <2>6. call' \in [Clients -> [tag : Tags, skip : Nat, timed : BOOLEAN]]
    BY <1>1, <2>2, <2>4 DEF TypeOK
  <2>7. \A d \in Clients : call'[d].skip <= Len(mbox'[d])
    BY <1>1, <2>1, <2>4, <2>5 DEF TypeOK
  <2>8. TypeOK'
    <3>1. replyTag' \in [Clients -> Tags] /\ calls' \in [Clients -> Nat]
      BY <1>1, <2>4 DEF TypeOK, Tags
    <3>2. outcome' \in [Clients -> Messages \cup {Nothing}]
      BY <1>1, <2>4 DEF TypeOK
    <3>3. requests' \in Seq(Requests)
      BY <2>3, FittingTyped
    <3>4. UNCHANGED <<tag, children, mbox, posts, got, server, served>>
      BY <1>5 DEF SendRequest
    <3> QED BY <1>1, <2>6, <2>7, <3>1, <3>2, <3>3, <3>4 DEF TypeOK
  <2>9. Tagged'
    BY <1>1, <2>1, <2>3, <2>4, <2>5 DEF Tagged, Idle, TypeOK
  <2>10. NoCrossTalk'
    BY <1>1, <2>4 DEF NoCrossTalk, Nothing, TypeOK
  <2> QED BY <2>8, <2>9, <2>10 DEF IInv
<1>6. ASSUME NEW c \in Clients, Wait(c)
      PROVE  IInv'
  <2>1. ASSUME NEW m \in FittingMessages \cup {Nothing}, EndRequest(c, m),
               m = Nothing \/ m.tag = call[c].tag, ~Idle(c),
               mbox' \in [Clients -> Seq(FittingMessages)],
               \A d \in Clients \ {c} : mbox'[d] = mbox[d]
        PROVE  IInv'
    <3>1. /\ call' = [call EXCEPT ![c] = NoCall] /\ outcome' = [outcome EXCEPT ![c] = m]
          /\ UNCHANGED <<tag, replyTag, children, calls, posts, got, server, requests, served>>
      BY <2>1 DEF EndRequest, serverVars
    <3>2. m \in Messages \cup {Nothing}
      BY DEF FittingMessages
    <3>3. \A d \in Clients : call'[d].skip <= Len(mbox'[d])
      <4>1. call'[c].skip = 0 /\ Len(mbox'[c]) \in Nat
        BY <1>1, <2>1, <3>1 DEF TypeOK, NoCall
      <4>2. \A d \in Clients \ {c} : call'[d] = call[d] /\ mbox'[d] = mbox[d]
        BY <1>1, <2>1, <3>1 DEF TypeOK
      <4>3. \A d \in Clients : call[d].skip <= Len(mbox[d])
        BY <1>1 DEF TypeOK
      <4>4. ASSUME NEW d \in Clients
            PROVE  call'[d].skip <= Len(mbox'[d])
        <5>1. CASE d = c
          BY <4>1, <5>1
        <5>2. CASE d # c
          BY <4>2, <4>3, <5>2
        <5> QED BY <5>1, <5>2
      <4> QED BY <4>4
    <3>4. TypeOK'
      BY <1>1, <2>1, <3>1, <3>2, <3>3, FittingTyped DEF TypeOK, NoCall, Tags
    <3>5. Tagged'
      BY <1>1, <2>1, <3>1 DEF Tagged, TypeOK, Idle
    <3>6. m.kind \in {"none", "signal"} \/ m = Message("reply", m.tag, calls[c])
      <4>1. call[c].tag = calls[c] /\ calls[c] >= 1
        BY <1>1, <2>1 DEF Tagged
      <4>2. CASE m = Nothing
        BY <4>2 DEF Nothing
      <4>3. CASE m # Nothing
        <5>1. m.tag = calls[c] /\ m \in Messages /\ Fitting(m)
          BY <2>1, <4>1, <4>3 DEF FittingMessages
        <5>2. m.kind # "post"
          BY <4>1, <5>1 DEF Fitting
        <5>3. m = Message(m.kind, m.tag, m.n) /\ m.kind \in {"post", "reply", "signal"}
          BY <5>1 DEF Message, Messages
        <5> QED BY <5>1, <5>2, <5>3 DEF Fitting
      <4> QED BY <4>2, <4>3
    <3>7. NoCrossTalk'
      BY <1>1, <3>1, <3>6 DEF NoCrossTalk, TypeOK
    <3> QED BY <3>4, <3>5, <3>7 DEF IInv
  <2>2. CASE ReturnRequest(c)
    <3>1. PICK i \in Matches(c) : /\ EndRequest(c, mbox[c][i])
                                  /\ mbox' = [mbox EXCEPT ![c] = RemoveAt(@, i)]
      BY <2>2 DEF ReturnRequest
    <3>2. i \in DOMAIN mbox[c] /\ mbox[c][i].tag = call[c].tag
      BY <3>1 DEF Matches
    <3>3. mbox[c][i] \in FittingMessages
      BY <1>1, <3>2
    <3>4. RemoveAt(mbox[c], i) \in Seq(FittingMessages)
      BY <1>1, <3>2, Removed
    <3>5. mbox' \in [Clients -> Seq(FittingMessages)] /\ \A d \in Clients \ {c} : mbox'[d] = mbox[d]
      BY <1>1, <3>1, <3>4
    <3> QED BY <2>1, <2>2, <3>1, <3>2, <3>3, <3>5 DEF ReturnRequest
  <2>3. CASE TimeoutRequest(c)
    BY <1>1, <2>1, <2>3 DEF TimeoutRequest
  <2> QED BY <1>6, <2>2, <2>3 DEF Wait
<1>7. ASSUME NEW c \in Clients, ReceiveAny(c)
      PROVE  IInv'
  <2>1. /\ Head(mbox[c]) \in FittingMessages /\ Tail(mbox[c]) \in Seq(FittingMessages)
        /\ got' = [got EXCEPT ![c] = IF Head(mbox[c]).kind = "post" THEN Head(mbox[c]).n ELSE @]
        /\ mbox' = [mbox EXCEPT ![c] = Tail(@)]
    BY <1>1, <1>7 DEF ReceiveAny
  <2> QED BY <1>7, <2>1, Received DEF ReceiveAny
<1>8. ASSUME NEW c \in Clients, NEW t, ReceiveTagged(c, t)
       PROVE  IInv'
  <2>1. PICK i \in DOMAIN mbox[c] :
          /\ got' = [got EXCEPT ![c] = IF mbox[c][i].kind = "post" THEN mbox[c][i].n ELSE @]
          /\ mbox' = [mbox EXCEPT ![c] = RemoveAt(@, i)]
    BY <1>8 DEF ReceiveTagged
  <2>2. mbox[c][i] \in FittingMessages /\ RemoveAt(mbox[c], i) \in Seq(FittingMessages)
    BY <1>1, Removed
  <2>3. mbox' = [mbox EXCEPT ![c] = RemoveAt(mbox[c], i)]
    BY <2>1
  <2> QED BY <1>8, <2>1, <2>2, <2>3, Received DEF ReceiveTagged
<1>9. CASE Serve
  <2> DEFINE r == Head(requests)
  <2>1. r \in FittingRequests /\ Tail(requests) \in Seq(FittingRequests)
    BY <1>1, <1>9 DEF Serve
  <2>2. r.from \in Clients /\ r.n \in Nat /\ r.tag = r.n
    BY <2>1 DEF FittingRequests, Requests
  <2>3. Message("reply", r.tag, r.n) \in FittingMessages
    BY <2>2 DEF Message, Messages, FittingMessages, Fitting, Tags
  <2>4. /\ Deliver(r.from, Message("reply", r.tag, r.n))
        /\ served' = served \cup {<<r.from, r.n>>} /\ requests' = Tail(requests)
        /\ UNCHANGED <<tag, replyTag, children, calls, call, outcome, posts, got, server>>
    BY <1>9 DEF Serve
  <2> HIDE DEF r
  <2>5. mbox' \in [Clients -> Seq(FittingMessages)] /\ \A d \in Clients : call[d].skip <= Len(mbox'[d])
    BY <2>2, <2>3, <2>4, Delivered
  <2>6. served' \subseteq Clients \X Nat
    BY <1>1, <2>2, <2>4 DEF TypeOK
  <2>7. TypeOK'
    BY <1>1, <2>1, <2>4, <2>5, <2>6, FittingTyped DEF TypeOK
  <2>8. Tagged' /\ NoCrossTalk'
    BY <1>1, <2>1, <2>4, <2>5 DEF Tagged, NoCrossTalk, Idle
  <2> QED BY <2>7, <2>8 DEF IInv
<1>10. CASE ServerEnds
  <2>1. TypeOK'
    <3>1. requests' \in Seq(Requests) /\ server' \in BOOLEAN
      <4>1. requests' = <<>> /\ server' = FALSE
        BY <1>10 DEF ServerEnds
      <4>2. <<>> \in Seq(Requests)
        OBVIOUS
      <4>3. server' \in BOOLEAN
        BY <4>1, Zenon
      <4> QED BY <4>1, <4>2, <4>3
    <3>2. UNCHANGED <<tag, replyTag, children, calls, call, outcome, mbox, posts, got, served>>
      BY <1>10 DEF ServerEnds
    <3> QED BY <1>1, <3>1, <3>2 DEF TypeOK
  <2>2. Tagged' /\ NoCrossTalk'
    BY <1>1, <1>10 DEF ServerEnds, Tagged, NoCrossTalk, Idle
  <2> QED BY <2>1, <2>2 DEF IInv
<1>11. CASE UNCHANGED vars
  BY <1>1, <1>11 DEF IInv, TypeOK, Tagged, NoCrossTalk, Idle, vars
<1> QED BY <1>2, <1>3, <1>4, <1>5, <1>6, <1>7, <1>8, <1>9, <1>10, <1>11 DEF Next

-----------------------------------------------------------------------------
\* The posts of a mailbox q, when g is the last one read and p the last one sent.
PostsIn(q) == {i \in DOMAIN q : q[i].kind = "post"}
InOrder(q, g, p) ==
  /\ {q[i].n : i \in PostsIn(q)} = (g + 1)..p
  /\ \A i, j \in PostsIn(q) : i < j => q[i].n < q[j].n

\* A message that is no post may be appended, and the next post may be.
LEMMA AppendInOrder ==
  ASSUME NEW q \in Seq(Messages), NEW m \in Messages, NEW g \in Nat, NEW p \in Nat, g <= p, InOrder(q, g, p)
  PROVE  /\ m.kind # "post" => InOrder(Append(q, m), g, p)
         /\ m.kind = "post" /\ m.n = p + 1 => InOrder(Append(q, m), g, p + 1)
<1> DEFINE r == Append(q, m)
           k == Len(q) + 1
<1>1. /\ Len(q) \in Nat /\ DOMAIN q = 1..Len(q) /\ DOMAIN r = 1..k
      /\ r[k] = m /\ \A j \in 1..Len(q) : r[j] = q[j]
  OBVIOUS
<1>2. \A j \in DOMAIN q : q[j].n \in Nat /\ r[j] = q[j] /\ j \in Nat /\ j < k
  <2>1. \A j \in DOMAIN q : q[j] \in Messages
    OBVIOUS
  <2>2. \A x \in Messages : x.n \in Nat
    BY DEF Messages
  <2>3. \A j \in 1..Len(q) : j \in Nat /\ j < k
    BY <1>1
  <2> QED BY <1>1, <2>1, <2>2, <2>3
<1>3. PostsIn(r) = IF m.kind = "post" THEN PostsIn(q) \cup {k} ELSE PostsIn(q)
  BY <1>1 DEF PostsIn
<1>4. \A j \in PostsIn(q) : j \in DOMAIN q /\ q[j].n \in (g + 1)..p
  BY DEF InOrder, PostsIn
<1> HIDE DEF r, k
<1>5. CASE m.kind # "post"
  BY <1>2, <1>3, <1>4, <1>5 DEF InOrder, r
<1>6. CASE m.kind = "post" /\ m.n = p + 1
  <2>1. PostsIn(r) = PostsIn(q) \cup {k}
    BY <1>3, <1>6
  <2>2. {r[j].n : j \in PostsIn(r)} = {q[j].n : j \in PostsIn(q)} \cup {m.n}
    BY <1>1, <1>2, <1>4, <2>1
  <2>3. (g + 1)..(p + 1) = ((g + 1)..p) \cup {p + 1}
    OBVIOUS
  <2>4. \A j \in PostsIn(q) : r[j].n <= p /\ r[j].n \in Nat /\ j < k /\ j \in Nat
    BY <1>2, <1>4
  <2>5. \A i, j \in PostsIn(r) : i < j => r[i].n < r[j].n
    <3> SUFFICES ASSUME NEW i \in PostsIn(r), NEW j \in PostsIn(r), i < j
                 PROVE  r[i].n < r[j].n
      OBVIOUS
    <3>1. k \in Nat
      BY <1>1 DEF k
    <3>2. i \in PostsIn(q)
      BY <2>1, <2>4, <3>1
    <3>3. CASE j = k
      BY <1>1, <1>6, <2>4, <3>2, <3>3
    <3>4. CASE j # k
      BY <1>2, <1>4, <2>1, <3>2, <3>4 DEF InOrder
    <3> QED BY <3>3, <3>4
  <2> QED BY <1>6, <2>2, <2>3, <2>5 DEF InOrder, r
<1> QED BY <1>5, <1>6 DEF r

\* A message that is no post may be taken from anywhere; a post only if it is the
\* first of its kind, and then it is the one after the last read.
LEMMA TakeInOrder ==
  ASSUME NEW q \in Seq(Messages), NEW i \in DOMAIN q, NEW r \in Seq(Messages), Without(q, i, r),
         NEW g \in Nat, NEW p \in Nat, g <= p, InOrder(q, g, p)
  PROVE  /\ q[i].kind # "post" => InOrder(r, g, p)
         /\ q[i].kind = "post" /\ (\A j \in 1..(i - 1) : q[j].kind # "post") => q[i].n <= p /\ InOrder(r, q[i].n, p)
<1> DEFINE s(j) == IF j < i THEN j ELSE j + 1
<1>1. /\ DOMAIN q = 1..Len(q) /\ Len(q) \in Nat /\ DOMAIN r = 1..(Len(q) - 1)
      /\ \A j \in DOMAIN q : q[j].n \in Nat
  <2>1. \A j \in DOMAIN q : q[j] \in Messages
    OBVIOUS
  <2>2. \A x \in Messages : x.n \in Nat
    BY DEF Messages
  <2>3. Len(r) = Len(q) - 1
    BY DEF Without
  <2>4. DOMAIN q = 1..Len(q) /\ Len(q) \in Nat /\ DOMAIN r = 1..Len(r)
    OBVIOUS
  <2> QED BY <2>1, <2>2, <2>3, <2>4
<1>2. ASSUME NEW j \in DOMAIN r PROVE s(j) \in DOMAIN q \ {i} /\ r[j] = q[s(j)]
  BY <1>1 DEF Without
<1>3. ASSUME NEW j \in DOMAIN r, NEW k \in DOMAIN r, j < k PROVE s(j) < s(k)
  BY <1>1, <1>3
<1>4. ASSUME NEW k \in DOMAIN q \ {i} PROVE \E j \in DOMAIN r : s(j) = k
  <2>1. CASE k < i
    <3>1. k \in DOMAIN r /\ s(k) = k
      BY <1>1, <2>1
    <3> QED BY <3>1
  <2>2. CASE k > i
    <3>1. k - 1 \in DOMAIN r /\ s(k - 1) = k
      BY <1>1, <2>2
    <3> QED BY <3>1
  <2> QED BY <1>1, <2>1, <2>2
<1> HIDE DEF s
<1>5. \A j \in PostsIn(r) : j \in DOMAIN r /\ s(j) \in PostsIn(q) \ {i} /\ r[j].n = q[s(j)].n
  BY <1>2 DEF PostsIn
<1>6. \A k \in PostsIn(q) \ {i} : \E j \in PostsIn(r) : s(j) = k
  BY <1>2, <1>4 DEF PostsIn
<1>7. {r[j].n : j \in PostsIn(r)} = {q[k].n : k \in PostsIn(q) \ {i}}
  BY <1>5, <1>6
<1>8. \A j, k \in PostsIn(r) : j < k => r[j].n < r[k].n
  BY <1>3, <1>5 DEF InOrder
<1>9. CASE q[i].kind # "post"
  <2>1. PostsIn(q) \ {i} = PostsIn(q)
    BY <1>9 DEF PostsIn
  <2> QED BY <1>7, <1>8, <1>9, <2>1 DEF InOrder
<1>10. CASE q[i].kind = "post" /\ \A j \in 1..(i - 1) : q[j].kind # "post"
  <2>1. i \in PostsIn(q) /\ \A k \in PostsIn(q) \ {i} : i < k /\ q[i].n < q[k].n
    BY <1>1, <1>10 DEF PostsIn, InOrder
  <2>2. \A k \in PostsIn(q) : q[k].n \in (g + 1)..p /\ q[k].n \in Nat
    BY <1>1 DEF PostsIn, InOrder
  <2>3. q[i].n \in (g + 1)..p
    BY <2>1, <2>2
  <2>4. PICK k \in PostsIn(q) : q[k].n = g + 1
    <3>1. g + 1 \in (g + 1)..p
      BY <2>3
    <3> QED BY <3>1 DEF InOrder
  <2>5. q[i].n = g + 1
    <3>1. k = i \/ q[i].n < q[k].n
      BY <2>1
    <3> QED BY <2>3, <2>4, <3>1
  <2>6. {q[j].n : j \in PostsIn(q) \ {i}} = ((g + 1)..p) \ {g + 1}
    <3>1. \A j \in PostsIn(q) \ {i} : q[j].n # g + 1
      BY <2>1, <2>2, <2>5
    <3>2. \A x \in ((g + 1)..p) \ {g + 1} : \E j \in PostsIn(q) \ {i} : q[j].n = x
      <4> SUFFICES ASSUME NEW x \in ((g + 1)..p) \ {g + 1}
                   PROVE  \E j \in PostsIn(q) \ {i} : q[j].n = x
        OBVIOUS
      <4>1. PICK j \in PostsIn(q) : q[j].n = x
        BY DEF InOrder
      <4> QED BY <2>5, <4>1
    <3> QED BY <2>2, <3>1, <3>2
  <2>7. ((g + 1)..p) \ {g + 1} = (g + 1 + 1)..p
    OBVIOUS
  <2>8. InOrder(r, g + 1, p)
    BY <1>7, <1>8, <2>6, <2>7 DEF InOrder
  <2>9. q[i].n <= p
    BY <2>3
  <2> QED BY <1>10, <2>5, <2>8, <2>9
<1> QED BY <1>9, <1>10

\* What was read was sent, and what was sent and not read is in the mailbox in
\* its order.
PostsInv == \A c \in Clients : got[c] <= posts[c] /\ InOrder(mbox[c], got[c], posts[c])

\* PostsInOrder, for one mailbox after the other.
LEMMA PostsInvImplies == PostsInv => PostsInOrder
BY DEF PostsInv, PostsInOrder, InOrder, PostsIn, PostsOf

\* It is kept where one client's mailbox and counters change in a way that keeps it.
LEMMA OneMailbox ==
  ASSUME PostsInv, NEW c \in Clients,
         \A d \in Clients \ {c} : mbox'[d] = mbox[d] /\ got'[d] = got[d] /\ posts'[d] = posts[d],
         got'[c] <= posts'[c], InOrder(mbox'[c], got'[c], posts'[c])
  PROVE  PostsInv'
<1> SUFFICES ASSUME NEW d \in Clients
             PROVE  got'[d] <= posts'[d] /\ InOrder(mbox'[d], got'[d], posts'[d])
  BY DEF PostsInv, InOrder, PostsIn
<1>1. CASE d = c
  BY <1>1
<1>2. CASE d # c
  <2>1. mbox'[d] = mbox[d] /\ got'[d] = got[d] /\ posts'[d] = posts[d]
    BY <1>2
  <2>2. got[d] <= posts[d] /\ InOrder(mbox[d], got[d], posts[d])
    BY DEF PostsInv
  <2> QED BY <2>1, <2>2
<1> QED BY <1>1, <1>2

\* Every step keeps it.
LEMMA StepPosts == IInv /\ PostsInv /\ [Next]_vars => PostsInv'
<1> SUFFICES ASSUME IInv, PostsInv, [Next]_vars
             PROVE  PostsInv'
  OBVIOUS
<1>1. /\ mbox \in [Clients -> Seq(Messages)]
      /\ got \in [Clients -> Nat] /\ posts \in [Clients -> Nat] /\ calls \in [Clients -> Nat]
      /\ \A c \in Clients : got[c] <= posts[c] /\ InOrder(mbox[c], got[c], posts[c])
  BY DEF IInv, TypeOK, PostsInv
<1>2. \A c \in Clients : \A i \in DOMAIN mbox[c] : mbox[c][i] \in Messages /\ Fitting(mbox[c][i])
  <2>1. mbox \in [Clients -> Seq(FittingMessages)]
    BY DEF IInv, Tagged
  <2>2. \A c \in Clients : \A i \in DOMAIN mbox[c] : mbox[c][i] \in FittingMessages
    BY <2>1
  <2> QED BY <2>2 DEF FittingMessages
<1>3. ASSUME NEW c \in Clients, NEW m \in Messages, Deliver(c, m), UNCHANGED got,
             \/ m.kind # "post" /\ UNCHANGED posts
             \/ m.kind = "post" /\ m.n = posts[c] + 1 /\ posts' = [posts EXCEPT ![c] = @ + 1]
      PROVE  PostsInv'
  <2>1. /\ mbox'[c] = Append(mbox[c], m) /\ \A d \in Clients \ {c} : mbox'[d] = mbox[d]
        /\ \A d \in Clients \ {c} : posts'[d] = posts[d]
    BY <1>1, <1>3 DEF Deliver
  <2>2. mbox[c] \in Seq(Messages) /\ got[c] \in Nat /\ posts[c] \in Nat
    BY <1>1
  <2>3. /\ m.kind # "post" => InOrder(mbox'[c], got[c], posts[c])
        /\ m.kind = "post" /\ m.n = posts[c] + 1 => InOrder(mbox'[c], got[c], posts[c] + 1)
    BY <1>1, <2>1, <2>2, AppendInOrder
  <2>4. got'[c] <= posts'[c] /\ InOrder(mbox'[c], got'[c], posts'[c])
    <3>1. CASE m.kind # "post" /\ UNCHANGED posts
      BY <1>1, <1>3, <2>3, <3>1
    <3>2. CASE m.kind = "post" /\ m.n = posts[c] + 1 /\ posts' = [posts EXCEPT ![c] = @ + 1]
      <4>1. posts'[c] = posts[c] + 1
        BY <1>1, <3>2
      <4>2. got[c] <= posts[c] + 1
        BY <1>1, <2>2
      <4> QED BY <1>3, <2>3, <3>2, <4>1, <4>2
    <3> QED BY <1>3, <3>1, <3>2
  <2> QED BY <1>3, <2>1, <2>4, OneMailbox
<1>4. ASSUME NEW c \in Clients, NEW i \in DOMAIN mbox[c], NEW r \in Seq(Messages), Without(mbox[c], i, r),
             mbox' = [mbox EXCEPT ![c] = r], UNCHANGED posts,
             \/ mbox[c][i].kind # "post" /\ UNCHANGED got
             \/ /\ \A j \in 1..(i - 1) : mbox[c][i].kind = "post" => mbox[c][j].kind # "post"
                /\ got' = [got EXCEPT ![c] = IF mbox[c][i].kind = "post" THEN mbox[c][i].n ELSE @]
      PROVE  PostsInv'
  <2>1. mbox'[c] = r /\ \A d \in Clients \ {c} : mbox'[d] = mbox[d] /\ got'[d] = got[d]
    BY <1>1, <1>4
  <2>2. mbox[c] \in Seq(Messages) /\ got[c] \in Nat /\ posts[c] \in Nat /\ got[c] <= posts[c]
    BY <1>1
  <2>3. /\ mbox[c][i].kind # "post" => InOrder(r, got[c], posts[c])
        /\ mbox[c][i].kind = "post" /\ (\A j \in 1..(i - 1) : mbox[c][j].kind # "post")
             => mbox[c][i].n <= posts[c] /\ InOrder(r, mbox[c][i].n, posts[c])
    BY <1>1, <1>4, <2>2, TakeInOrder
  <2>4. \/ mbox[c][i].kind # "post" /\ got'[c] = got[c]
        \/ /\ mbox[c][i].kind = "post" /\ got'[c] = mbox[c][i].n
           /\ \A j \in 1..(i - 1) : mbox[c][j].kind # "post"
    BY <1>1, <1>4
  <2> QED BY <1>4, <2>1, <2>2, <2>3, <2>4, OneMailbox
<1>5. \A c \in Clients : \A i \in DOMAIN mbox[c] :
        RemoveAt(mbox[c], i) \in Seq(Messages) /\ Without(mbox[c], i, RemoveAt(mbox[c], i))
  <2>1. \A c \in Clients : mbox[c] \in Seq(Messages)
    BY <1>1
  <2> QED BY <2>1, Removed
<1>6. ASSUME NEW c \in Clients, Spawn(c) \/ \E timed \in BOOLEAN : SendRequest(c, timed)
      PROVE  PostsInv'
  BY <1>6 DEF Spawn, SendRequest, PostsInv, serverVars
<1>7. ASSUME NEW c \in Clients, Post(c)
      PROVE  PostsInv'
  <2>1. /\ Message("post", 0, posts[c] + 1) \in Messages
        /\ Message("post", 0, posts[c] + 1).kind = "post" /\ Message("post", 0, posts[c] + 1).n = posts[c] + 1
    BY <1>1 DEF Message, Messages, Tags
  <2> QED BY <1>3, <1>7, <2>1 DEF Post
<1>8. ASSUME NEW c \in Clients, NEW t \in children[c], ChildTraps(c, t)
      PROVE  PostsInv'
  <2>1. Message("signal", t, 0) \in Messages /\ Message("signal", t, 0).kind # "post"
    BY DEF IInv, TypeOK, Message, Messages, Tags
  <2> QED BY <1>3, <1>8, <2>1 DEF ChildTraps
<1>9. ASSUME NEW c \in Clients, ReceiveAny(c)
      PROVE  PostsInv'
  <2> DEFINE r == Tail(mbox[c])
  <2>1. mbox[c] \in Seq(Messages) /\ mbox[c] # <<>>
    BY <1>1, <1>9 DEF ReceiveAny
  <2>2. 1 \in DOMAIN mbox[c] /\ r \in Seq(Messages) /\ Head(mbox[c]) = mbox[c][1]
    BY <2>1
  <2>3. Without(mbox[c], 1, r)
    <3>1. Len(r) = Len(mbox[c]) - 1 /\ Len(mbox[c]) \in Nat
      BY <2>1
    <3>2. \A j \in 1..(Len(mbox[c]) - 1) : r[j] = mbox[c][j + 1]
      BY <2>1
    <3> QED BY <3>1, <3>2 DEF Without
  <2>4. /\ mbox' = [mbox EXCEPT ![c] = r] /\ UNCHANGED posts
        /\ got' = [got EXCEPT ![c] = IF mbox[c][1].kind = "post" THEN mbox[c][1].n ELSE @]
    BY <1>9, <2>2 DEF ReceiveAny
  <2> HIDE DEF r
  <2>5. \A j \in 1..(1 - 1) : mbox[c][1].kind = "post" => mbox[c][j].kind # "post"
    OBVIOUS
  <2> QED BY <1>4, <2>2, <2>3, <2>4, <2>5
<1>10. ASSUME NEW c \in Clients, NEW t, ReceiveTagged(c, t)
       PROVE  PostsInv'
  <2>1. PICK i \in DOMAIN mbox[c] :
          /\ mbox[c][i].tag = t /\ \A j \in 1..(i - 1) : mbox[c][j].tag # t
          /\ got' = [got EXCEPT ![c] = IF mbox[c][i].kind = "post" THEN mbox[c][i].n ELSE @]
          /\ mbox' = [mbox EXCEPT ![c] = RemoveAt(@, i)]
    BY <1>10 DEF ReceiveTagged
  <2>2. mbox' = [mbox EXCEPT ![c] = RemoveAt(mbox[c], i)] /\ UNCHANGED posts
    BY <1>10, <2>1 DEF ReceiveTagged
  <2>3. \A j \in 1..(i - 1) : mbox[c][i].kind = "post" => mbox[c][j].kind # "post"
    <3>1. \A j \in 1..(i - 1) : j \in DOMAIN mbox[c]
      BY <1>1
    <3> QED BY <1>2, <2>1, <3>1 DEF Fitting
  <2> QED BY <1>4, <1>5, <2>1, <2>2, <2>3
<1>11. ASSUME NEW c \in Clients, Wait(c)
       PROVE  PostsInv'
  <2>1. CASE ReturnRequest(c)
    <3>1. PICK i \in Matches(c) : /\ EndRequest(c, mbox[c][i])
                                  /\ mbox' = [mbox EXCEPT ![c] = RemoveAt(@, i)]
      BY <2>1 DEF ReturnRequest
    <3>2. i \in DOMAIN mbox[c] /\ mbox[c][i].tag = call[c].tag
      BY <3>1 DEF Matches
    <3>3. call[c].tag # 0
      BY <1>1, <2>1 DEF ReturnRequest, IInv, Tagged
    <3>4. mbox[c][i].kind # "post"
      BY <1>2, <3>2, <3>3 DEF Fitting
    <3>5. mbox' = [mbox EXCEPT ![c] = RemoveAt(mbox[c], i)] /\ UNCHANGED <<posts, got>>
      BY <3>1 DEF EndRequest
    <3> QED BY <1>4, <1>5, <3>2, <3>4, <3>5
  <2>2. CASE TimeoutRequest(c)
    BY <2>2 DEF TimeoutRequest, EndRequest, PostsInv
  <2> QED BY <1>11, <2>1, <2>2 DEF Wait
<1>12. CASE Serve
  <2> DEFINE r == Head(requests)
  <2>1. requests \in Seq(Requests) /\ requests # <<>>
    BY <1>12 DEF Serve, IInv, TypeOK
  <2>2. r \in Requests
    BY <2>1
  <2>3. r.from \in Clients /\ Message("reply", r.tag, r.n) \in Messages /\ Message("reply", r.tag, r.n).kind # "post"
    BY <2>2 DEF Requests, Message, Messages
  <2>4. Deliver(r.from, Message("reply", r.tag, r.n)) /\ UNCHANGED <<got, posts>>
    BY <1>12 DEF Serve
  <2> HIDE DEF r
  <2> QED BY <1>3, <2>3, <2>4
<1>13. CASE ServerEnds
  BY <1>13 DEF ServerEnds, PostsInv
<1>14. CASE UNCHANGED vars
  BY <1>14 DEF vars, PostsInv
<1> QED BY <1>6, <1>7, <1>8, <1>9, <1>10, <1>11, <1>12, <1>13, <1>14 DEF Next

\* The invariant that the theorems follow from.
THEOREM Invariant == Spec => []IInv
<1> QED BY InitInvariant, StepInvariant, PTL DEF Spec

\* Every state is well-typed: in particular a request never waits at a place
\* beyond the end of its mailbox, because nothing reads the mailbox of a
\* process that is blocked in it.
THEOREM TypeCorrect == Spec => []TypeOK
<1>1. IInv => TypeOK
  BY DEF IInv
<1> QED BY <1>1, Invariant, PTL

\* For any number of clients, requests, posts and children: a request ends
\* with its own reply, a timeout, or a signal, never with a post or with the
\* late reply to an earlier request (process/index.ts:538-555).
THEOREM RepliesMatch == Spec => []NoCrossTalk
<1>1. IInv => NoCrossTalk
  BY DEF IInv
<1> QED BY <1>1, Invariant, PTL

\* For any number of clients, requests, posts and children: every post is read
\* once, in the order in which it came, whichever messages are taken out around
\* it by tag, by requests or as they come (message/index.ts:126-137).
THEOREM PostsOrdered == Spec => []PostsInOrder
<1>1. Init => PostsInv
  <2> SUFFICES ASSUME Init, NEW c \in Clients
               PROVE  got[c] <= posts[c] /\ InOrder(mbox[c], got[c], posts[c])
    BY DEF PostsInv
  <2>1. mbox[c] = <<>> /\ got[c] = 0 /\ posts[c] = 0
    BY DEF Init
  <2>2. PostsIn(mbox[c]) = {} /\ (0 + 1)..0 = {}
    BY <2>1 DEF PostsIn
  <2> QED BY <2>1, <2>2 DEF InOrder
<1> QED BY <1>1, Invariant, StepPosts, PostsInvImplies, PTL DEF Spec
-----------------------------------------------------------------------------
\* Every step is a step of RemoteCall or changes nothing that it speaks of.

\* Which calls have been answered: those that are served and no others have a
\* reply underway, and those in the server's mailbox are not served yet.
Key(r) == <<r.from, r.n>>
Genuine(c, m) == (m.kind = "reply" => <<c, m.n>> \in served) /\ (m.kind = "signal" => m.n = 0)
Booked ==
  /\ \A c \in Clients : \A n \in Nat : <<c, n>> \in served => n \in 1..calls[c]
  /\ \A i \in DOMAIN requests : requests[i].n \in 1..calls[requests[i].from] /\ Key(requests[i]) \notin served
  /\ \A i, j \in DOMAIN requests : i # j => Key(requests[i]) # Key(requests[j])
  /\ \A c \in Clients : \A i \in DOMAIN mbox[c] : Genuine(c, mbox[c][i])
  /\ \A c \in Clients : Idle(c) \/ outcome[c] = Nothing

\* No call is booked in the initial state.
LEMMA InitBooked == Init => Booked
BY DEF Init, Booked, Idle

-----------------------------------------------------------------------------
\* A client takes a message out: its mailbox has nothing new.
LEMMA Shrinks ==
  ASSUME IInv, NEW c \in Clients, NEW i \in DOMAIN mbox[c], mbox' = [mbox EXCEPT ![c] = RemoveAt(@, i)]
  PROVE  \A d \in Clients : \A j \in DOMAIN mbox'[d] : \E k \in DOMAIN mbox[d] : mbox'[d][j] = mbox[d][k]
<1>1. mbox \in [Clients -> Seq(Messages)]
  BY DEF IInv, TypeOK
<1>2. mbox[c] \in Seq(Messages)
  BY <1>1
<1>3. RemoveAt(mbox[c], i) \in Seq(Messages) /\ Without(mbox[c], i, RemoveAt(mbox[c], i))
  BY <1>2, Removed
<1>4. \A j \in DOMAIN RemoveAt(mbox[c], i) : \E k \in DOMAIN mbox[c] : RemoveAt(mbox[c], i)[j] = mbox[c][k]
  BY <1>2, <1>3, Kept
<1>5. mbox'[c] = RemoveAt(mbox[c], i) /\ \A d \in Clients \ {c} : mbox'[d] = mbox[d]
  BY <1>1
<1> QED BY <1>4, <1>5

\* So does the program's own receive.
LEMMA TailShrinks ==
  ASSUME IInv, NEW c \in Clients, mbox[c] # <<>>, mbox' = [mbox EXCEPT ![c] = Tail(@)]
  PROVE  \A d \in Clients : \A j \in DOMAIN mbox'[d] : \E k \in DOMAIN mbox[d] : mbox'[d][j] = mbox[d][k]
<1>1. mbox \in [Clients -> Seq(Messages)]
  BY DEF IInv, TypeOK
<1>2. mbox[c] \in Seq(Messages)
  BY <1>1
<1>3. \A j \in DOMAIN Tail(mbox[c]) : j + 1 \in DOMAIN mbox[c] /\ Tail(mbox[c])[j] = mbox[c][j + 1]
  BY <1>2
<1>4. mbox'[c] = Tail(mbox[c]) /\ \A d \in Clients \ {c} : mbox'[d] = mbox[d]
  BY <1>1
<1> QED BY <1>3, <1>4

\* A delivery adds one message.
LEMMA Grows ==
  ASSUME IInv, NEW c \in Clients, NEW m \in Messages, Deliver(c, m)
  PROVE  \A d \in Clients : \A j \in DOMAIN mbox'[d] :
           (d = c /\ mbox'[d][j] = m) \/ \E k \in DOMAIN mbox[d] : mbox'[d][j] = mbox[d][k]
<1>1. mbox \in [Clients -> Seq(Messages)]
  BY DEF IInv, TypeOK
<1>2. mbox[c] \in Seq(Messages)
  BY <1>1
<1>3. \A j \in DOMAIN Append(mbox[c], m) :
        Append(mbox[c], m)[j] = m \/ (j \in DOMAIN mbox[c] /\ Append(mbox[c], m)[j] = mbox[c][j])
  BY <1>2
<1>4. mbox'[c] = Append(mbox[c], m) /\ \A d \in Clients \ {c} : mbox'[d] = mbox[d]
  BY <1>1 DEF Deliver
<1> QED BY <1>3, <1>4

-----------------------------------------------------------------------------
\* Steps that neither send a request nor answer one.
LEMMA SameBooks ==
  ASSUME IInv, Booked, UNCHANGED <<calls, requests, served>>,
         \A c \in Clients : \A i \in DOMAIN mbox'[c] : Genuine(c, mbox'[c][i]),
         \A c \in Clients : Idle(c)' \/ outcome'[c] = Nothing
  PROVE  Booked'
<1>1. /\ \A c \in Clients : \A n \in Nat : <<c, n>> \in served => n \in 1..calls[c]
      /\ \A i \in DOMAIN requests : requests[i].n \in 1..calls[requests[i].from] /\ Key(requests[i]) \notin served
      /\ \A i, j \in DOMAIN requests : i # j => Key(requests[i]) # Key(requests[j])
  BY DEF Booked
<1>2. \A c \in Clients : \A i \in DOMAIN mbox'[c] : Genuine(c, mbox[c][i])'
  BY DEF Genuine
<1> QED BY <1>1, <1>2 DEF Booked, Key

\* They may put a genuine message into a mailbox or take messages out of it.
LEMMA SameBooksMail ==
  ASSUME IInv, Booked, UNCHANGED <<calls, requests, served, call, outcome>>,
         \A c \in Clients : \A i \in DOMAIN mbox'[c] :
           Genuine(c, mbox'[c][i]) \/ \E k \in DOMAIN mbox[c] : mbox'[c][i] = mbox[c][k]
  PROVE  Booked'
<1>1. \A c \in Clients : \A i \in DOMAIN mbox'[c] : Genuine(c, mbox'[c][i])
  BY DEF Booked
<1>2. \A c \in Clients : Idle(c)' \/ outcome'[c] = Nothing
  BY DEF Booked, Idle
<1> QED BY <1>1, <1>2, SameBooks

\* The number of a new request is that of no request before.
LEMMA SendRequestBooked ==
  ASSUME IInv, Booked, NEW c \in Clients, NEW timed \in BOOLEAN, SendRequest(c, timed)
  PROVE  Booked'
<1> DEFINE r == [from |-> c, tag |-> replyTag[c], n |-> calls[c] + 1]
<1>1. /\ calls \in [Clients -> Nat] /\ calls[c] \in Nat /\ requests \in Seq(Requests) /\ r \in Requests
      /\ calls' = [calls EXCEPT ![c] = @ + 1] /\ served' = served /\ mbox' = mbox
      /\ outcome' = [outcome EXCEPT ![c] = Nothing] /\ requests' \in {requests, Append(requests, r)}
      /\ outcome'[c] = Nothing /\ \A d \in Clients \ {c} : outcome'[d] = outcome[d] /\ call'[d] = call[d]
  BY DEF SendRequest, IInv, TypeOK, Requests, Tags
<1>2. r.from = c /\ r.n = calls[c] + 1 /\ Key(r) = <<c, calls[c] + 1>>
  BY DEF Key
<1>3. \A i \in DOMAIN requests : requests[i].from \in Clients /\ requests[i].n \in Nat
  <2>1. \A i \in DOMAIN requests : requests[i] \in Requests
    BY <1>1
  <2> QED BY <2>1 DEF Requests
<1> HIDE DEF r
<1>4. \A d \in Clients : calls[d] \in Nat /\ calls'[d] \in Nat /\ calls[d] <= calls'[d] /\ calls'[c] = calls[c] + 1
  BY <1>1
<1>5. \A d \in Clients : \A n \in Nat : <<d, n>> \in served => n \in 1..calls'[d]
  BY <1>4 DEF Booked
<1>6. <<c, calls[c] + 1>> \notin served
  BY <1>1 DEF Booked
<1>7. \A i \in DOMAIN requests : /\ requests[i].n \in 1..calls'[requests[i].from] /\ Key(requests[i]) \notin served
                                 /\ Key(requests[i]) # Key(r)
  <2> SUFFICES ASSUME NEW i \in DOMAIN requests
               PROVE  /\ requests[i].n \in 1..calls'[requests[i].from] /\ Key(requests[i]) \notin served
                      /\ Key(requests[i]) # Key(r)
    OBVIOUS
  <2>1. requests[i].n \in 1..calls[requests[i].from] /\ Key(requests[i]) \notin served
    BY DEF Booked
  <2>2. requests[i].n \in 1..calls'[requests[i].from]
    BY <1>3, <1>4, <2>1
  <2>3. requests[i].from = c => requests[i].n # calls[c] + 1
    BY <1>1, <1>3, <2>1
  <2> QED BY <1>2, <2>1, <2>2, <2>3 DEF Key
<1>8. \A i \in DOMAIN requests' : requests'[i].n \in 1..calls'[requests'[i].from] /\ Key(requests'[i]) \notin served
  <2>1. CASE requests' = requests
    BY <1>7, <2>1
  <2>2. CASE requests' = Append(requests, r)
    <3>1. \A i \in DOMAIN requests' : requests'[i] = r \/ (i \in DOMAIN requests /\ requests'[i] = requests[i])
      BY <1>1, <2>2
    <3>2. r.n \in 1..calls'[r.from] /\ Key(r) \notin served
      BY <1>1, <1>2, <1>4, <1>6
    <3> QED BY <1>7, <3>1, <3>2
  <2> QED BY <1>1, <2>1, <2>2
<1>9. \A i, j \in DOMAIN requests' : i # j => Key(requests'[i]) # Key(requests'[j])
  <2>1. CASE requests' = requests
    BY <2>1 DEF Booked
  <2>2. CASE requests' = Append(requests, r)
    <3>1. \A i \in DOMAIN requests' : \/ i = Len(requests) + 1 /\ requests'[i] = r
                                      \/ i \in DOMAIN requests /\ requests'[i] = requests[i]
      BY <1>1, <2>2
    <3>2. \A i, j \in DOMAIN requests : i # j => Key(requests[i]) # Key(requests[j])
      BY DEF Booked
    <3> QED BY <1>7, <3>1, <3>2
  <2> QED BY <1>1, <2>1, <2>2
<1>10. \A d \in Clients : \A i \in DOMAIN mbox'[d] : Genuine(d, mbox[d][i])'
  BY <1>1 DEF Booked, Genuine
<1>11. \A d \in Clients : Idle(d)' \/ outcome'[d] = Nothing
  BY <1>1 DEF Booked, Idle
<1> QED BY <1>1, <1>5, <1>8, <1>9, <1>10, <1>11 DEF Booked, Key

\* A request is served once.
LEMMA ServeBooked ==
  ASSUME IInv, Booked, Serve
  PROVE  Booked'
<1> DEFINE r == Head(requests)
           k == <<r.from, r.n>>
           m == Message("reply", r.tag, r.n)
<1>1. /\ requests \in Seq(Requests) /\ requests # <<>> /\ Deliver(r.from, m) /\ served' = served \cup {k}
      /\ requests' = Tail(requests) /\ UNCHANGED <<calls, call, outcome>>
  BY DEF Serve, IInv, TypeOK
<1>2. 1 \in DOMAIN requests /\ requests[1] = r /\ r \in Requests
  BY <1>1
<1>3. r.from \in Clients /\ r.tag \in Tags /\ r.n \in Nat /\ r.n \in 1..calls[r.from] /\ k = Key(requests[1])
  BY <1>2 DEF Requests, Booked, Key
<1>4. m \in Messages /\ m.kind = "reply" /\ m.n = r.n
  BY <1>3 DEF Message, Messages
<1> HIDE DEF r, m
<1>5. \A i \in DOMAIN requests' : i + 1 \in DOMAIN requests /\ i + 1 # 1 /\ requests'[i] = requests[i + 1]
  BY <1>1
<1>6. \A i \in DOMAIN requests : i # 1 => Key(requests[i]) # k /\ Key(requests[i]) \notin served
  BY <1>2, <1>3 DEF Booked
<1>7. \A i \in DOMAIN requests' : requests'[i].n \in 1..calls[requests'[i].from] /\ Key(requests'[i]) \notin served'
  BY <1>1, <1>5, <1>6 DEF Booked
<1>8. \A i, j \in DOMAIN requests' : i # j => Key(requests'[i]) # Key(requests'[j])
  <2> SUFFICES ASSUME NEW i \in DOMAIN requests', NEW j \in DOMAIN requests', i # j
               PROVE  Key(requests'[i]) # Key(requests'[j])
    OBVIOUS
  <2>1. i \in Nat /\ j \in Nat
    BY <1>1
  <2>2. i + 1 # j + 1
    BY <2>1
  <2> QED BY <1>5, <2>2 DEF Booked
<1>9. \A c \in Clients : \A n \in Nat : <<c, n>> \in served' => n \in 1..calls[c]
  BY <1>1, <1>3 DEF Booked
<1>10. \A c \in Clients : \A i \in DOMAIN mbox'[c] : Genuine(c, mbox[c][i])'
  <2> SUFFICES ASSUME NEW c \in Clients, NEW i \in DOMAIN mbox'[c]
               PROVE  Genuine(c, mbox[c][i])'
    OBVIOUS
  <2>1. CASE c = r.from /\ mbox'[c][i] = m
    BY <1>1, <1>4, <2>1 DEF Genuine
  <2>2. CASE \E j \in DOMAIN mbox[c] : mbox'[c][i] = mbox[c][j]
    BY <1>1, <2>2 DEF Genuine, Booked
  <2> QED BY <1>1, <1>3, <1>4, <2>1, <2>2, Grows
<1>11. \A c \in Clients : Idle(c)' \/ outcome'[c] = Nothing
  BY <1>1 DEF Booked, Idle
<1> QED BY <1>1, <1>7, <1>8, <1>9, <1>10, <1>11 DEF Booked, Key

\* A request ends: its client waits no more.
LEMMA WaitBooked ==
  ASSUME IInv, Booked, NEW c \in Clients, Wait(c)
  PROVE  Booked'
<1>1. PICK m : EndRequest(c, m)
  BY DEF Wait, ReturnRequest, TimeoutRequest
<1>2. /\ call' = [call EXCEPT ![c] = NoCall] /\ outcome' = [outcome EXCEPT ![c] = m]
      /\ UNCHANGED <<calls, requests, served>>
  BY <1>1 DEF EndRequest, serverVars
<1>3. call \in [Clients -> [tag : Tags, skip : Nat, timed : BOOLEAN]] /\ outcome \in [Clients -> Messages \cup {Nothing}]
  BY DEF IInv, TypeOK
<1>4. \A d \in Clients : Idle(d)' \/ outcome'[d] = Nothing
  BY <1>2, <1>3 DEF Idle, Booked
<1>5. \A d \in Clients : \A j \in DOMAIN mbox'[d] : \E k \in DOMAIN mbox[d] : mbox'[d][j] = mbox[d][k]
  <2>1. CASE ReturnRequest(c)
    <3>1. PICK i \in Matches(c) : mbox' = [mbox EXCEPT ![c] = RemoveAt(@, i)]
      BY <2>1 DEF ReturnRequest
    <3>2. i \in DOMAIN mbox[c]
      BY DEF Matches
    <3> QED BY <3>1, <3>2, Shrinks
  <2>2. CASE TimeoutRequest(c)
    BY <2>2 DEF TimeoutRequest
  <2> QED BY <2>1, <2>2 DEF Wait
<1>6. \A d \in Clients : \A i \in DOMAIN mbox'[d] : Genuine(d, mbox'[d][i])
  BY <1>5 DEF Booked
<1> QED BY <1>2, <1>4, <1>6, SameBooks

\* Every step keeps the books.
LEMMA StepBooked == IInv /\ Booked /\ [Next]_vars => Booked'
<1> SUFFICES ASSUME IInv, Booked, [Next]_vars
             PROVE  Booked'
  OBVIOUS
<1>1. ASSUME NEW c \in Clients, Spawn(c)
      PROVE  Booked'
  BY <1>1, SameBooksMail DEF Spawn, serverVars
<1>2. ASSUME NEW c \in Clients, Post(c)
      PROVE  Booked'
  <2>1. Message("post", 0, posts[c] + 1) \in Messages /\ Genuine(c, Message("post", 0, posts[c] + 1))
    BY DEF IInv, TypeOK, Message, Messages, Tags, Genuine
  <2>2. Deliver(c, Message("post", 0, posts[c] + 1)) /\ UNCHANGED <<calls, requests, served, call, outcome>>
    BY <1>2 DEF Post, serverVars
  <2> QED BY <2>1, <2>2, Grows, SameBooksMail
<1>3. ASSUME NEW c \in Clients, NEW t \in children[c], ChildTraps(c, t)
      PROVE  Booked'
  <2>1. Message("signal", t, 0) \in Messages /\ Genuine(c, Message("signal", t, 0))
    BY DEF IInv, TypeOK, Message, Messages, Tags, Genuine
  <2>2. Deliver(c, Message("signal", t, 0)) /\ UNCHANGED <<calls, requests, served, call, outcome>>
    BY <1>3 DEF ChildTraps, serverVars
  <2> QED BY <2>1, <2>2, Grows, SameBooksMail
<1>4. ASSUME NEW c \in Clients, ReceiveAny(c)
      PROVE  Booked'
  BY <1>4, TailShrinks, SameBooksMail DEF ReceiveAny, serverVars
<1>5. ASSUME NEW c \in Clients, NEW t, ReceiveTagged(c, t)
      PROVE  Booked'
  BY <1>5, Shrinks, SameBooksMail DEF ReceiveTagged, serverVars
<1>6. CASE ServerEnds
  BY <1>6 DEF ServerEnds, Booked, Genuine, Idle
<1>7. CASE UNCHANGED vars
  BY <1>7, SameBooksMail DEF vars
<1> QED BY <1>1, <1>2, <1>3, <1>4, <1>5, <1>6, <1>7, SendRequestBooked, ServeBooked, WaitBooked DEF Next

-----------------------------------------------------------------------------
\* The state of the promise.
Waiting == [c \in Clients |-> ~Idle(c)]
Ended == [c \in Clients |-> outcome[c].n]
promised == <<calls, Waiting, served, Ended>>

\* Steps that do not touch a request keep it.
LEMMA SamePromise ==
  ASSUME UNCHANGED <<calls, call, served, outcome>>
  PROVE  UNCHANGED promised
BY DEF promised, Waiting, Ended, Idle

\* A request is a call.
LEMMA SendRequestCalls ==
  ASSUME IInv, NEW c \in Clients, NEW timed \in BOOLEAN, SendRequest(c, timed)
  PROVE  Abstract!Call(c)
<1>1. /\ calls' = [calls EXCEPT ![c] = @ + 1] /\ served' = served /\ Idle(c)
      /\ outcome' = [outcome EXCEPT ![c] = Nothing]
      /\ call' = [call EXCEPT ![c] = [tag |-> replyTag[c], skip |-> Len(mbox[c]), timed |-> timed]]
  BY DEF SendRequest
<1>2. /\ call \in [Clients -> [tag : Tags, skip : Nat, timed : BOOLEAN]]
      /\ outcome \in [Clients -> Messages \cup {Nothing}]
      /\ replyTag[c] = calls[c] + 1 /\ calls[c] \in Nat
  BY DEF IInv, TypeOK, Tagged
<1>3. call'[c].tag # NoCall.tag /\ \A d \in Clients \ {c} : call'[d] = call[d]
  BY <1>1, <1>2 DEF NoCall
<1>4. ~Idle(c)' /\ \A d \in Clients \ {c} : Idle(d)' = Idle(d)
  BY <1>3 DEF Idle
<1>5. [d \in Clients |-> ~Idle(d)]' = [[d \in Clients |-> ~Idle(d)] EXCEPT ![c] = TRUE]
  BY <1>4
<1>6. [d \in Clients |-> outcome[d].n]' = [[d \in Clients |-> outcome[d].n] EXCEPT ![c] = 0]
  BY <1>1, <1>2 DEF Nothing
<1> QED BY <1>1, <1>5, <1>6 DEF Abstract!Call

\* The end of a request is its answer, or its client gives up.
LEMMA WaitEnds ==
  ASSUME IInv, Booked, NEW c \in Clients, Wait(c)
  PROVE  Abstract!Answer(c) \/ Abstract!GiveUp(c)
<1>1. PICK m : /\ EndRequest(c, m) /\ ~Idle(c)
               /\ m = Nothing \/ \E i \in DOMAIN mbox[c] : m = mbox[c][i] /\ m.tag = call[c].tag
  BY DEF Wait, ReturnRequest, TimeoutRequest, Matches
<1>2. /\ call' = [call EXCEPT ![c] = NoCall] /\ outcome' = [outcome EXCEPT ![c] = m]
      /\ UNCHANGED <<calls, served>>
  BY <1>1 DEF EndRequest, serverVars
<1>3. /\ call \in [Clients -> [tag : Tags, skip : Nat, timed : BOOLEAN]]
      /\ outcome \in [Clients -> Messages \cup {Nothing}]
      /\ mbox \in [Clients -> Seq(FittingMessages)]
  BY DEF IInv, TypeOK, Tagged
<1>4. call[c].tag = calls[c] /\ calls[c] >= 1 /\ outcome[c] = Nothing
  BY <1>1 DEF IInv, Tagged, Booked
<1>5. m = Nothing \/ (m \in FittingMessages /\ m.tag = calls[c] /\ Genuine(c, m))
  BY <1>1, <1>3, <1>4 DEF Booked
<1>6. m.n = 0 \/ (m.n = calls[c] /\ <<c, calls[c]>> \in served)
  <2>1. CASE m = Nothing
    BY <2>1 DEF Nothing
  <2>2. CASE m \in FittingMessages /\ m.tag = calls[c] /\ Genuine(c, m)
    <3>1. m.kind \in {"post", "reply", "signal"} /\ m.kind # "post"
      BY <1>4, <2>2 DEF FittingMessages, Messages, Fitting
    <3> QED BY <2>2, <3>1 DEF FittingMessages, Fitting, Genuine
  <2> QED BY <1>5, <2>1, <2>2
<1>7. Idle(c)' /\ \A d \in Clients \ {c} : Idle(d)' = Idle(d)
  BY <1>2, <1>3 DEF Idle
<1>8. [d \in Clients |-> ~Idle(d)]' = [[d \in Clients |-> ~Idle(d)] EXCEPT ![c] = FALSE]
  BY <1>7
<1>9. [d \in Clients |-> outcome[d].n]' = [[d \in Clients |-> outcome[d].n] EXCEPT ![c] = m.n]
  BY <1>2, <1>3
<1>10. Abstract!End(c)
  BY <1>1, <1>2, <1>8 DEF Abstract!End
<1>11. CASE m.n = 0
  <2>1. outcome[c].n = 0
    BY <1>4 DEF Nothing
  <2>2. [d \in Clients |-> outcome[d].n]' = [d \in Clients |-> outcome[d].n]
    BY <1>9, <1>11, <2>1
  <2> QED BY <1>10, <2>2 DEF Abstract!GiveUp
<1>12. CASE m.n = calls[c] /\ <<c, calls[c]>> \in served
  BY <1>9, <1>10, <1>12 DEF Abstract!Answer
<1> QED BY <1>6, <1>11, <1>12

\* The server computes each answer once.
LEMMA ServeServes ==
  ASSUME IInv, Booked, Serve
  PROVE  \E c \in Clients : \E n \in 1..calls[c] : Abstract!Serve(c, n)
<1> DEFINE r == Head(requests)
<1>1. requests \in Seq(Requests) /\ requests # <<>>
  BY DEF Serve, IInv, TypeOK
<1>2. 1 \in DOMAIN requests /\ requests[1] = r /\ r \in Requests
  BY <1>1
<1>3. r.from \in Clients /\ r.n \in 1..calls[r.from] /\ <<r.from, r.n>> \notin served
  BY <1>2 DEF Requests, Booked, Key
<1>4. served' = served \cup {<<r.from, r.n>>} /\ UNCHANGED <<calls, call, outcome>>
  BY DEF Serve
<1>5. [d \in Clients |-> ~Idle(d)]' = [d \in Clients |-> ~Idle(d)]
  BY <1>4 DEF Idle
<1>6. Abstract!Serve(r.from, r.n)
  BY <1>3, <1>4, <1>5 DEF Abstract!Serve
<1> QED BY <1>3, <1>6

\* Every step keeps the promise.
LEMMA StepPromise == IInv /\ Booked /\ [Next]_vars => [Abstract!Next]_promised
<1> SUFFICES ASSUME IInv, Booked, [Next]_vars
             PROVE  Abstract!Next \/ UNCHANGED promised
  OBVIOUS
<1>1. ASSUME NEW c \in Clients,
             \/ Spawn(c) \/ Post(c) \/ ReceiveAny(c)
             \/ \E t \in children[c] : ChildTraps(c, t)
             \/ \E i \in DOMAIN mbox[c] : ReceiveTagged(c, mbox[c][i].tag)
      PROVE  UNCHANGED promised
  BY <1>1, SamePromise DEF Spawn, Post, ReceiveAny, ChildTraps, ReceiveTagged, serverVars
<1>2. ASSUME NEW c \in Clients, Wait(c) \/ \E timed \in BOOLEAN : SendRequest(c, timed)
      PROVE  Abstract!Next
  BY <1>2, SendRequestCalls, WaitEnds DEF Abstract!Next
<1>3. CASE Serve
  BY <1>3, ServeServes DEF Abstract!Next
<1>4. CASE ServerEnds
  BY <1>4, SamePromise DEF ServerEnds
<1>5. CASE UNCHANGED vars
  BY <1>5, SamePromise DEF vars
<1> QED BY <1>1, <1>2, <1>3, <1>4, <1>5 DEF Next

\* A request keeps the promise of RemoteCall whatever the clients, the children
\* and the server do: its own answer, computed once, or none
\* (process/index.ts:532-555).
THEOREM PromiseKept == Spec => KeepsPromise
<1>1. Init => Abstract!Init
  <2> SUFFICES ASSUME Init
               PROVE  Abstract!Init
    OBVIOUS
  <2>1. \A c \in Clients : Idle(c) /\ outcome[c].n = 0
    BY DEF Init, Idle, Nothing
  <2>2. [c \in Clients |-> ~Idle(c)] = [c \in Clients |-> FALSE]
    BY <2>1
  <2>3. [c \in Clients |-> outcome[c].n] = [c \in Clients |-> 0]
    BY <2>1
  <2> QED BY <2>2, <2>3 DEF Init, Abstract!Init
<1>2. Spec => []Booked
  BY InitInvariant, InitBooked, StepInvariant, StepBooked, PTL DEF Spec
<1>3. IInv /\ Booked /\ [Next]_vars =>
        [Abstract!Next]_<<calls, [c \in Clients |-> ~Idle(c)], served, [c \in Clients |-> outcome[c].n]>>
  BY StepPromise DEF promised, Waiting, Ended
<1> QED BY <1>1, <1>2, <1>3, Invariant, PTL DEF Spec, KeepsPromise, Abstract!Spec

-------------------------------------------------------------------------------
(*****************************************************************************)
(* Resources: the account of the tables.                                     *)
(*****************************************************************************)
ResourcesIInv == ResourcesTypeOK /\ Accounted /\ DropsOnce

\* The invariant holds in the initial state.
LEMMA ResourcesInitInvariant == ResourcesInit => ResourcesIInv
BY NamesAssumption DEF ResourcesInit, ResourcesIInv, ResourcesTypeOK, Accounted, DropsOnce, Owners, NoTable, Resource

-----------------------------------------------------------------------------
\* The host's new entry is under an id that the table did not have.
LEMMA Added ==
  ASSUME ResourcesIInv, NEW p \in running, NEW r \in Resource, Add(p, r)
  PROVE  /\ nextId[p] \notin DOMAIN table[p]
         /\ table' = [k \in Processes |-> table'[k]]
         /\ nextId' \in [Processes -> Nat]
         /\ DOMAIN table'[p] = DOMAIN table[p] \cup {nextId[p]}
         /\ table'[p][nextId[p]] = r
         /\ \A i \in DOMAIN table[p] : table'[p][i] = table[p][i]
         /\ \A k \in Processes \ {p} : table'[k] = table[k] /\ nextId'[k] = nextId[k]
         /\ \A k \in Processes : table'[k] \in [DOMAIN table'[k] -> Resource]
         /\ nextId'[p] = nextId[p] + 1
<1>1. /\ p \in Processes /\ table = [k \in Processes |-> table[k]]
      /\ nextId \in [Processes -> Nat]
      /\ \A k \in Processes : table[k] \in [DOMAIN table[k] -> Resource]
  BY DEF ResourcesIInv, ResourcesTypeOK
<1>2. nextId[p] \notin DOMAIN table[p]
  <2>1. SUFFICES ASSUME nextId[p] \in DOMAIN table[p] PROVE FALSE
    OBVIOUS
  <2>2. PICK o \in Owners(p) : nextId[p] = id[o]
    BY <2>1 DEF ResourcesIInv, Accounted
  <2>3. o \in Objects /\ owner[o] = p /\ id[o] < nextId[p] /\ id[o] \in Nat
    BY <2>2 DEF ResourcesIInv, ResourcesTypeOK, Owners
  <2> QED BY <1>1, <2>2, <2>3
<1> DEFINE f == [i \in DOMAIN table[p] \cup {nextId[p]} |-> IF i = nextId[p] THEN r ELSE table[p][i]]
<1>3. table' = [table EXCEPT ![p] = f] /\ nextId' = [nextId EXCEPT ![p] = @ + 1]
  BY DEF Add
<1>4. f \in [DOMAIN table[p] \cup {nextId[p]} -> Resource]
  BY <1>1
<1>5. /\ DOMAIN f = DOMAIN table[p] \cup {nextId[p]}
      /\ f[nextId[p]] = r /\ \A i \in DOMAIN table[p] : f[i] = table[p][i]
  BY <1>2
<1> HIDE DEF f
<1>6. table'[p] = f /\ \A k \in Processes \ {p} : table'[k] = table[k]
  BY <1>1, <1>3
<1>7. table' = [k \in Processes |-> table'[k]]
  BY <1>1, <1>3
<1>8. nextId' \in [Processes -> Nat] /\ nextId'[p] = nextId[p] + 1 /\ \A k \in Processes \ {p} : nextId'[k] = nextId[k]
  BY <1>1, <1>3
<1>9. \A k \in Processes : table'[k] \in [DOMAIN table'[k] -> Resource]
  BY <1>1, <1>4, <1>5, <1>6
<1> QED BY <1>2, <1>5, <1>6, <1>7, <1>8, <1>9

\* A dropped id leaves the table, and no other.
LEMMA Deleted ==
  ASSUME ResourcesIInv, NEW p \in Processes, NEW i, Delete(p, i)
  PROVE  /\ table' = [k \in Processes |-> table'[k]]
         /\ DOMAIN table'[p] = DOMAIN table[p] \ {i}
         /\ \A j \in DOMAIN table[p] \ {i} : table'[p][j] = table[p][j]
         /\ \A k \in Processes \ {p} : table'[k] = table[k]
         /\ \A k \in Processes : table'[k] \in [DOMAIN table'[k] -> Resource]
<1> DEFINE f == [j \in DOMAIN table[p] \ {i} |-> table[p][j]]
<1>1. /\ table = [k \in Processes |-> table[k]]
      /\ \A k \in Processes : table[k] \in [DOMAIN table[k] -> Resource]
  BY DEF ResourcesIInv, ResourcesTypeOK
<1>2. table' = [table EXCEPT ![p] = f]
  BY DEF Delete, Restrict
<1>3. f \in [DOMAIN table[p] \ {i} -> Resource]
  BY <1>1
<1>4. /\ DOMAIN f = DOMAIN table[p] \ {i}
      /\ \A j \in DOMAIN table[p] \ {i} : f[j] = table[p][j]
  OBVIOUS
<1> HIDE DEF f
<1>5. table'[p] = f /\ \A k \in Processes \ {p} : table'[k] = table[k]
  BY <1>1, <1>2
<1>6. table' = [k \in Processes |-> table'[k]]
  BY <1>1, <1>2
<1> QED BY <1>1, <1>3, <1>4, <1>5, <1>6

-----------------------------------------------------------------------------
\* An object that is constructed or received owns the new entry of the table.
LEMMA Gains ==
  ASSUME ResourcesIInv, NEW p \in Processes, NEW o \in Objects, NEW r \in Resource,
         p \in running, at[o] \in {"unborn", "sent"}, Add(p, r), running' = running,
         at' = [at EXCEPT ![o] = "live"], owner' = [owner EXCEPT ![o] = p],
         id' = [id EXCEPT ![o] = nextId[p]], of' = [of EXCEPT ![o] = r],
         armed' = armed \/ armed' = armed \cup {o}
  PROVE  ResourcesIInv'
<1>1. /\ p \in running /\ at[o] \in {"unborn", "sent"} /\ Add(p, r) /\ running' = running
      /\ at' = [at EXCEPT ![o] = "live"] /\ owner' = [owner EXCEPT ![o] = p]
      /\ id' = [id EXCEPT ![o] = nextId[p]] /\ of' = [of EXCEPT ![o] = r]
      /\ armed' = armed \/ armed' = armed \cup {o}
  OBVIOUS
<1>2. ResourcesTypeOK /\ Accounted /\ DropsOnce
  BY DEF ResourcesIInv
<1>3. /\ at' \in [Objects -> {"unborn", "sent", "live", "dropped", "leaked", "gone"}]
      /\ owner' \in [Objects -> Processes \cup {Nobody}]
      /\ id' \in [Objects -> Nat] /\ of' \in [Objects -> Resource]
      /\ at'[o] = "live" /\ owner'[o] = p /\ id'[o] = nextId[p] /\ of'[o] = r
      /\ \A g \in Objects \ {o} : at'[g] = at[g] /\ owner'[g] = owner[g] /\ id'[g] = id[g] /\ of'[g] = of[g]
  BY <1>1, <1>2 DEF ResourcesTypeOK
<1>4. ResourcesTypeOK'
  <2>1. \A g \in Objects : at'[g] \in {"sent", "live", "dropped", "leaked"} => owner'[g] \in running'
    BY <1>1, <1>2, <1>3 DEF ResourcesTypeOK
  <2>2. \A k \in Processes : nextId[k] \in Nat /\ nextId'[k] \in Nat /\ nextId[k] <= nextId'[k]
    BY <1>1, <1>2, Added DEF ResourcesTypeOK
  <2>3. ASSUME NEW g \in Objects, at'[g] \in {"live", "leaked"} PROVE id'[g] < nextId'[owner'[g]]
    <3>1. CASE g = o
      BY <1>1, <1>2, <1>3, <3>1, Added DEF ResourcesTypeOK
    <3>2. CASE g # o
      <4>1. id[g] < nextId[owner[g]] /\ owner[g] \in Processes /\ id[g] \in Nat
        BY <1>2, <1>3, <2>3, <3>2 DEF ResourcesTypeOK
      <4> QED BY <1>3, <2>2, <3>2, <4>1
    <3> QED BY <3>1, <3>2
  <2> QED BY <1>1, <1>2, <1>3, <2>1, <2>3, Added DEF ResourcesTypeOK
<1>5. Owners(p)' = Owners(p) \cup {o} /\ o \notin Owners(p) /\ \A k \in Processes \ {p} : Owners(k)' = Owners(k)
  BY <1>1, <1>3 DEF Owners
<1>6. ASSUME NEW k \in running' PROVE /\ DOMAIN table'[k] = {id'[g] : g \in Owners(k)'}
                                     /\ \A g \in Owners(k)' :
                                          /\ table'[k][id'[g]] = of'[g]
                                          /\ \A h \in Owners(k)' : id'[h] = id'[g] => h = g
  <2>1. k \in Processes /\ k \in running
    BY <1>1, <1>2 DEF ResourcesTypeOK
  <2>2. \A g \in Owners(k) : g \in Objects \ {o} /\ id'[g] = id[g] /\ of'[g] = of[g]
    BY <1>1, <1>3 DEF Owners
  <2>3. /\ DOMAIN table[k] = {id[g] : g \in Owners(k)}
        /\ \A g \in Owners(k) : table[k][id[g]] = of[g] /\ \A h \in Owners(k) : id[h] = id[g] => h = g
    BY <1>2, <2>1 DEF Accounted
  <2>4. CASE k = p
    <3>1. /\ nextId[p] \notin DOMAIN table[p] /\ DOMAIN table'[p] = DOMAIN table[p] \cup {nextId[p]}
          /\ table'[p][nextId[p]] = r /\ \A i \in DOMAIN table[p] : table'[p][i] = table[p][i]
      BY <1>1, Added
    <3> QED BY <1>3, <1>5, <2>2, <2>3, <2>4, <3>1
  <2>5. CASE k # p
    BY <1>1, <1>5, <2>1, <2>2, <2>3, <2>5, Added
  <2> QED BY <2>4, <2>5
<1>7. ASSUME NEW g \in armed' PROVE at'[g] = "live" /\ id'[g] \in DOMAIN table'[owner'[g]]
  <2>1. CASE g = o
    BY <1>1, <1>3, <2>1, Added
  <2>2. CASE g # o
    <3>1. g \in armed /\ g \in Objects /\ at[g] = "live" /\ id[g] \in DOMAIN table[owner[g]] /\ owner[g] \in Processes
      BY <1>1, <1>2, <2>2 DEF ResourcesTypeOK, DropsOnce
    <3> QED BY <1>1, <1>3, <2>2, <3>1, Added
  <2> QED BY <2>1, <2>2
<1> QED BY <1>4, <1>6, <1>7 DEF ResourcesIInv, Accounted, DropsOnce

\* connect, accept, bind, clone and a failed call: the constructor registers the id.
LEMMA ConstructKeeps ==
  ASSUME ResourcesIInv, NEW p \in Processes, NEW o \in Objects, NEW r \in Resource, Construct(p, o, r)
  PROVE  ResourcesIInv'
BY Gains DEF Construct

\* The receiver's table gets the socket of the message.
LEMMA ReceiveKeeps ==
  ASSUME ResourcesIInv, NEW q \in Processes, NEW g \in Objects, Receive(q, g)
  PROVE  ResourcesIInv'
<1>1. of[g] \in Resource /\ owner' = [owner EXCEPT ![g] = q] /\ of' = [of EXCEPT ![g] = of[g]]
  BY DEF Receive, ResourcesIInv, ResourcesTypeOK
<1> QED BY <1>1, Gains DEF Receive

-----------------------------------------------------------------------------
\* The account does not change for a process whose table and objects do not.
LEMMA SameAccount ==
  ASSUME Accounted, running' \subseteq running,
         \A k \in running' : /\ table'[k] = table[k] /\ Owners(k)' = Owners(k)
                             /\ \A h \in Owners(k) : id'[h] = id[h] /\ of'[h] = of[h]
  PROVE  Accounted'
<1> SUFFICES ASSUME NEW k \in running'
             PROVE  /\ DOMAIN table'[k] = {id'[g] : g \in Owners(k)'}
                    /\ \A g \in Owners(k)' :
                         /\ table'[k][id'[g]] = of'[g]
                         /\ \A h \in Owners(k)' : id'[h] = id'[g] => h = g
  BY DEF Accounted
<1>1. /\ DOMAIN table[k] = {id[g] : g \in Owners(k)}
      /\ \A g \in Owners(k) : table[k][id[g]] = of[g] /\ \A h \in Owners(k) : id[h] = id[g] => h = g
  BY DEF Accounted
<1> QED BY <1>1

\* What a call is given and drops again leaves no trace but its id.
LEMMA SpendKeeps ==
  ASSUME ResourcesIInv, NEW p \in Processes, Spend(p)
  PROVE  ResourcesIInv'
<1>1. ResourcesTypeOK /\ Accounted /\ DropsOnce
  BY DEF ResourcesIInv
<1>2. nextId' = [nextId EXCEPT ![p] = @ + 1] /\ UNCHANGED <<running, table, at, owner, id, of, armed>>
  BY DEF Spend
<1>3. nextId' \in [Processes -> Nat] /\ \A k \in Processes : nextId[k] <= nextId'[k] /\ nextId[k] \in Nat
  BY <1>1, <1>2 DEF ResourcesTypeOK
<1>4. ResourcesTypeOK'
  <2>1. ASSUME NEW o \in Objects, at[o] \in {"live", "leaked"}
        PROVE  id[o] < nextId'[owner[o]]
    <3>1. owner[o] \in Processes /\ id[o] \in Nat /\ id[o] < nextId[owner[o]]
      BY <1>1, <2>1 DEF ResourcesTypeOK
    <3> QED BY <1>3, <3>1
  <2> QED BY <1>1, <1>2, <1>3, <2>1 DEF ResourcesTypeOK
<1>5. Accounted'
  BY <1>1, <1>2, SameAccount DEF Owners
<1>6. DropsOnce'
  BY <1>1, <1>2 DEF DropsOnce
<1> QED BY <1>4, <1>5, <1>6 DEF ResourcesIInv

\* A message has the socket: neither table changes.
LEMMA SendKeeps ==
  ASSUME ResourcesIInv, NEW p \in Processes, NEW o \in Objects, NEW q \in Processes, NEW g \in Objects, Send(p, o, q, g)
  PROVE  ResourcesIInv'
<1>1. ResourcesTypeOK /\ Accounted /\ DropsOnce
  BY DEF ResourcesIInv
<1>2. /\ running' = running /\ table' = table /\ id' = id /\ armed' = armed
      /\ nextId' = [nextId EXCEPT ![p] = @ + 1] /\ at[g] = "unborn" /\ of[o] \in Resource
      /\ at' = [at EXCEPT ![g] = IF q \in running THEN "sent" ELSE "gone"]
      /\ owner' = [owner EXCEPT ![g] = IF q \in running THEN q ELSE Nobody]
      /\ of' = [of EXCEPT ![g] = of[o]]
  BY <1>1 DEF Send, ResourcesTypeOK
<1>3. /\ at' \in [Objects -> {"unborn", "sent", "live", "dropped", "leaked", "gone"}]
      /\ owner' \in [Objects -> Processes \cup {Nobody}] /\ of' \in [Objects -> Resource]
      /\ q \in running => at'[g] = "sent" /\ owner'[g] = q
      /\ q \notin running => at'[g] = "gone"
      /\ \A h \in Objects \ {g} : at'[h] = at[h] /\ owner'[h] = owner[h] /\ of'[h] = of[h]
  BY <1>1, <1>2 DEF ResourcesTypeOK
<1>4. ResourcesTypeOK'
  <2>1. nextId' \in [Processes -> Nat] /\ \A k \in Processes : nextId[k] <= nextId'[k] /\ nextId[k] \in Nat
    BY <1>1, <1>2 DEF ResourcesTypeOK
  <2>2. ASSUME NEW h \in Objects
        PROVE  /\ at'[h] \in {"sent", "live", "dropped", "leaked"} => owner'[h] \in running'
               /\ at'[h] \in {"live", "leaked"} => id'[h] < nextId'[owner'[h]]
    <3>1. CASE h = g
      BY <1>2, <1>3, <3>1
    <3>2. CASE h # g
      <4>1. /\ at[h] \in {"sent", "live", "dropped", "leaked"} => owner[h] \in running /\ owner[h] \in Processes
            /\ at[h] \in {"live", "leaked"} => id[h] < nextId[owner[h]]
            /\ id[h] \in Nat
        BY <1>1 DEF ResourcesTypeOK
      <4> QED BY <1>2, <1>3, <2>1, <3>2, <4>1
    <3> QED BY <3>1, <3>2
  <2> QED BY <1>1, <1>2, <1>3, <2>1, <2>2 DEF ResourcesTypeOK
<1>5. \A k \in Processes : /\ Owners(k)' = Owners(k)
                            /\ \A h \in Owners(k) : id'[h] = id[h] /\ of'[h] = of[h]
  BY <1>2, <1>3 DEF Owners
<1>6. Accounted'
  BY <1>1, <1>2, <1>5, SameAccount DEF ResourcesTypeOK
<1>7. DropsOnce'
  BY <1>1, <1>2, <1>3 DEF DropsOnce, ResourcesTypeOK
<1> QED BY <1>4, <1>6, <1>7 DEF ResourcesIInv

\* A live object gives its resource back and owns nothing from there on.
LEMMA Releases ==
  ASSUME ResourcesIInv, NEW o \in Objects, NEW a \in {"dropped", "gone"}, at[o] = "live",
         Delete(owner[o], id[o]), at' = [at EXCEPT ![o] = a], armed' = armed \ {o},
         UNCHANGED <<running, nextId, owner, id, of>>
  PROVE  ResourcesIInv'
<1>1. ResourcesTypeOK /\ Accounted /\ DropsOnce
  BY DEF ResourcesIInv
<1> DEFINE p == owner[o]
<1>2. p \in running /\ p \in Processes
  BY <1>1 DEF ResourcesTypeOK
<1>3. /\ at' \in [Objects -> {"unborn", "sent", "live", "dropped", "leaked", "gone"}]
      /\ at'[o] = a /\ \A h \in Objects \ {o} : at'[h] = at[h]
  BY <1>1 DEF ResourcesTypeOK
<1>4. /\ DOMAIN table'[p] = DOMAIN table[p] \ {id[o]}
      /\ \A j \in DOMAIN table[p] \ {id[o]} : table'[p][j] = table[p][j]
      /\ \A k \in Processes \ {p} : table'[k] = table[k]
  BY <1>2, Deleted
<1>5. ResourcesTypeOK'
  <2>1. /\ table' = [k \in Processes |-> table'[k]]
        /\ \A k \in Processes : table'[k] \in [DOMAIN table'[k] -> Resource]
    BY <1>2, Deleted
  <2>2. \A h \in Objects :
          /\ at'[h] \in {"sent", "live", "dropped", "leaked"} => owner'[h] \in running'
          /\ at'[h] \in {"live", "leaked"} => id'[h] < nextId'[owner'[h]]
    BY <1>1, <1>2, <1>3 DEF ResourcesTypeOK
  <2> QED BY <1>1, <1>3, <2>1, <2>2 DEF ResourcesTypeOK
<1>6. /\ o \in Owners(p) /\ Owners(p)' = Owners(p) \ {o}
      /\ \A k \in Processes \ {p} : Owners(k)' = Owners(k)
  BY <1>3 DEF Owners
<1>7. Accounted'
  <2> SUFFICES ASSUME NEW k \in running
               PROVE  /\ DOMAIN table'[k] = {id[g] : g \in Owners(k)'}
                      /\ \A g \in Owners(k)' :
                           /\ table'[k][id[g]] = of[g]
                           /\ \A h \in Owners(k)' : id[h] = id[g] => h = g
    BY DEF Accounted
  <2>1. k \in Processes
    BY <1>1 DEF ResourcesTypeOK
  <2>2. /\ DOMAIN table[k] = {id[g] : g \in Owners(k)}
        /\ \A g \in Owners(k) : table[k][id[g]] = of[g] /\ \A h \in Owners(k) : id[h] = id[g] => h = g
    BY <1>1, <2>1 DEF Accounted
  <2>3. CASE k = p
    BY <1>4, <1>6, <2>2, <2>3
  <2>4. CASE k # p
    BY <1>4, <1>6, <2>1, <2>2, <2>4
  <2> QED BY <2>3, <2>4
<1>8. DropsOnce'
  <2> SUFFICES ASSUME NEW g \in armed \ {o} PROVE at'[g] = "live" /\ id[g] \in DOMAIN table'[owner[g]]
    BY DEF DropsOnce
  <2>1. g \in Objects /\ at[g] = "live" /\ id[g] \in DOMAIN table[owner[g]] /\ owner[g] \in Processes
    BY <1>1 DEF DropsOnce, ResourcesTypeOK
  <2>2. CASE owner[g] = p
    <3>1. g \in Owners(p)
      BY <2>1, <2>2 DEF Owners
    <3>2. id[g] # id[o]
      BY <1>1, <1>2, <1>6, <3>1 DEF Accounted
    <3> QED BY <1>3, <1>4, <2>1, <2>2, <3>2
  <2>3. CASE owner[g] # p
    BY <1>3, <1>4, <2>1, <2>3
  <2> QED BY <2>2, <2>3
<1> QED BY <1>5, <1>7, <1>8 DEF ResourcesIInv

\* drop() and its finalizer's end.
LEMMA DropKeeps ==
  ASSUME ResourcesIInv, NEW p \in Processes, NEW o \in Objects, Drop(p, o)
  PROVE  ResourcesIInv'
BY Releases DEF Drop, Holds

\* The finalizer always finds its id in the table.
LEMMA CollectArmedKeeps ==
  ASSUME ResourcesIInv, NEW o \in Objects, CollectArmed(o)
  PROVE  ResourcesIInv'
<1>1. o \in armed /\ at[o] = "live" /\ id[o] \in DOMAIN table[owner[o]]
  BY DEF ResourcesIInv, DropsOnce, CollectArmed
<1> QED BY <1>1, Releases DEF CollectArmed

\* An object without a finalizer leaves its entry behind, if it has one.
LEMMA CollectKeeps ==
  ASSUME ResourcesIInv, NEW o \in Objects, Collect(o)
  PROVE  ResourcesIInv'
<1>1. ResourcesTypeOK /\ Accounted /\ DropsOnce
  BY DEF ResourcesIInv
<1>2. /\ at' \in [Objects -> {"unborn", "sent", "live", "dropped", "leaked", "gone"}]
      /\ (at[o] = "live" /\ at'[o] = "leaked") \/ (at[o] = "dropped" /\ at'[o] = "gone")
      /\ \A h \in Objects \ {o} : at'[h] = at[h]
      /\ o \notin armed /\ UNCHANGED <<running, table, nextId, owner, id, of, armed>>
  BY <1>1 DEF Collect, ResourcesTypeOK
<1>3. ResourcesTypeOK'
  <2>1. \A h \in Objects :
          /\ at'[h] \in {"sent", "live", "dropped", "leaked"} => owner'[h] \in running'
          /\ at'[h] \in {"live", "leaked"} => id'[h] < nextId'[owner'[h]]
    BY <1>1, <1>2 DEF ResourcesTypeOK
  <2> QED BY <1>1, <1>2, <2>1 DEF ResourcesTypeOK
<1>4. \A k \in Processes : Owners(k)' = Owners(k)
  BY <1>2 DEF Owners
<1>5. Accounted'
  BY <1>1, <1>2, <1>4, SameAccount DEF ResourcesTypeOK
<1>6. DropsOnce'
  BY <1>1, <1>2 DEF DropsOnce, ResourcesTypeOK
<1> QED BY <1>3, <1>5, <1>6 DEF ResourcesIInv

\* A process that ends leaves nothing behind.
LEMMA EndKeeps ==
  ASSUME ResourcesIInv, NEW p \in Processes, End(p)
  PROVE  ResourcesIInv'
<1>1. ResourcesTypeOK /\ Accounted /\ DropsOnce
  BY DEF ResourcesIInv
<1>2. /\ running' = running \ {p} /\ nextId' = nextId /\ id' = id /\ of' = of
      /\ table' = [table EXCEPT ![p] = NoTable]
      /\ at' = [o \in Objects |-> IF owner[o] = p THEN "gone" ELSE at[o]]
      /\ owner' = [o \in Objects |-> IF owner[o] = p THEN Nobody ELSE owner[o]]
      /\ armed' = {o \in armed : owner[o] # p}
  BY DEF End
<1>3. \A o \in Objects : IF owner[o] = p THEN at'[o] = "gone" /\ owner'[o] = Nobody
                                           ELSE at'[o] = at[o] /\ owner'[o] = owner[o]
  BY <1>1, <1>2 DEF ResourcesTypeOK
<1>4. \A k \in Processes \ {p} : table'[k] = table[k]
  BY <1>1, <1>2 DEF ResourcesTypeOK
<1>5. ResourcesTypeOK'
  <2>1. table' = [k \in Processes |-> table'[k]]
    BY <1>1, <1>2 DEF ResourcesTypeOK
  <2>2. NoTable \in [{} -> Resource] /\ DOMAIN NoTable = {}
    BY DEF NoTable
  <2>3. \A k \in Processes : table'[k] \in [DOMAIN table'[k] -> Resource]
    BY <1>1, <1>2, <1>4, <2>2 DEF ResourcesTypeOK
  <2>4. \A h \in Objects :
          /\ at'[h] \in {"sent", "live", "dropped", "leaked"} => owner'[h] \in running'
          /\ at'[h] \in {"live", "leaked"} => id'[h] < nextId'[owner'[h]]
    BY <1>1, <1>2, <1>3 DEF ResourcesTypeOK
  <2> QED BY <1>1, <1>2, <2>1, <2>3, <2>4 DEF ResourcesTypeOK
<1>6. \A k \in Processes \ {p} : Owners(k)' = Owners(k)
  BY <1>3, NamesAssumption DEF Owners
<1>7. Accounted'
  BY <1>1, <1>2, <1>4, <1>6, SameAccount DEF ResourcesTypeOK
<1>8. DropsOnce'
  <2> SUFFICES ASSUME NEW o \in armed, owner[o] # p
               PROVE  at'[o] = "live" /\ id[o] \in DOMAIN table'[owner'[o]]
    BY <1>2 DEF DropsOnce
  <2>1. o \in Objects /\ at[o] = "live" /\ owner[o] \in Processes /\ id[o] \in DOMAIN table[owner[o]]
    BY <1>1 DEF DropsOnce, ResourcesTypeOK
  <2> QED BY <1>3, <1>4, <2>1
<1> QED BY <1>5, <1>7, <1>8 DEF ResourcesIInv

-----------------------------------------------------------------------------
\* Every step preserves the invariant.
LEMMA ResourcesStepInvariant == ResourcesIInv /\ [ResourcesNext]_resourcesVars => ResourcesIInv'
<1> SUFFICES ASSUME ResourcesIInv, [ResourcesNext]_resourcesVars PROVE ResourcesIInv'
  OBVIOUS
<1>1. ResourcesTypeOK
  BY DEF ResourcesIInv
<1>2. ASSUME NEW p \in Processes, NEW o \in Objects,
             Connect(p, o) \/ Bind(p, o) \/ BindSocket(p, o) \/ Compile(p, o) \/ Configure(p, o)
      PROVE  ResourcesIInv'
  <2>1. PICK r \in Resource : Construct(p, o, r)
    BY <1>2 DEF Connect, Bind, BindSocket, Compile, Configure, Obtain, Fail, Resource
  <2> QED BY <2>1, ConstructKeeps
<1>3. ASSUME NEW p \in Processes, NEW o \in Objects, Receive(p, o) PROVE ResourcesIInv'
  BY <1>3, ReceiveKeeps
<1>4. ASSUME NEW p \in Processes, NEW o \in Objects, Drop(p, o) PROVE ResourcesIInv'
  BY <1>4, DropKeeps
<1>5. ASSUME NEW p \in Processes, NEW o \in Objects, NEW g \in Objects, Clone(p, o, g) PROVE ResourcesIInv'
  <2>1. of[o] \in Resource /\ Construct(p, g, of[o])
    BY <1>1, <1>5 DEF Clone, ResourcesTypeOK
  <2> QED BY <2>1, ConstructKeeps
<1>6. ASSUME NEW p \in Processes, NEW o \in Objects, NEW g \in Objects, NEW q \in Processes, Send(p, o, q, g) PROVE ResourcesIInv'
  BY <1>6, SendKeeps
<1>7. ASSUME NEW o \in Objects, CollectArmed(o) PROVE ResourcesIInv'
  BY <1>7, CollectArmedKeeps
<1>8. ASSUME NEW o \in Objects, Collect(o) PROVE ResourcesIInv'
  BY <1>8, CollectKeeps
<1>9. ASSUME NEW p \in Processes, End(p) PROVE ResourcesIInv'
  BY <1>9, EndKeeps
<1>10. ASSUME NEW p \in Processes, NEW o \in Objects, NEW g \in Objects, Accept(p, o, g) PROVE ResourcesIInv'
  BY <1>2, <1>10 DEF Accept
<1>11. ASSUME NEW p \in Processes, NEW o \in Objects, Resolve(p, o) \/ Read(p, o) PROVE ResourcesIInv'
  <2>1. Spend(p) \/ Construct(p, o, Error)
    BY <1>11 DEF Resolve, Read, Fail
  <2> QED BY <2>1, SpendKeeps, ConstructKeeps DEF Resource
<1>12. ASSUME NEW p \in Processes, NEW o \in Objects, NEW g \in Objects, Write(p, o, g) \/ SendTo(p, o, g) PROVE ResourcesIInv'
  <2>1. Construct(p, g, Error) \/ Spend(p)
    BY <1>12 DEF Write, SendTo, Fail
  <2> QED BY <2>1, SpendKeeps, ConstructKeeps DEF Resource
<1>13. CASE UNCHANGED resourcesVars
  <2>1. Accounted'
    BY <1>13, SameAccount DEF resourcesVars, ResourcesIInv, Owners
  <2>2. ResourcesTypeOK' /\ DropsOnce'
    BY <1>13 DEF resourcesVars, ResourcesIInv, ResourcesTypeOK, DropsOnce
  <2> QED BY <2>1, <2>2 DEF ResourcesIInv
<1> QED BY <1>2, <1>3, <1>4, <1>5, <1>6, <1>7, <1>8, <1>9, <1>10, <1>11, <1>12, <1>13 DEF ResourcesNext

\* The invariant holds throughout.
LEMMA ResourcesInvariant == ResourcesSpec => []ResourcesIInv
BY ResourcesInitInvariant, ResourcesStepInvariant, PTL DEF ResourcesSpec

\* Whatever the processes open, clone, send, drop and lose, an object that is in
\* use belongs to a process that runs, and its id was given by that process's table.
THEOREM ResourcesTypeCorrect == ResourcesSpec => []ResourcesTypeOK
<1>1. ResourcesIInv => ResourcesTypeOK
  BY DEF ResourcesIInv
<1> QED BY <1>1, ResourcesInvariant, PTL

\* A table never lacks the resource of an object and keeps no other, whoever else
\* clones, sends or drops sockets (tcp.ts:327-329, 403-429).
THEOREM TableAccounted == ResourcesSpec => []Accounted
<1>1. ResourcesIInv => Accounted
  BY DEF ResourcesIInv
<1> QED BY <1>1, ResourcesInvariant, PTL

\* No finalizer drops an id that was dropped (tcp.ts:425-429, error/index.ts:39-46).
THEOREM DropOnce == ResourcesSpec => []DropsOnce
<1>1. ResourcesIInv => DropsOnce
  BY DEF ResourcesIInv
<1> QED BY <1>1, ResourcesInvariant, PTL
===============================================================================
