-------------------------- MODULE NodesFiles_proofs ---------------------------
(*****************************************************************************)
(* Two components that share no state.  Nodes: handles lead where they       *)
(* should and requests end with the answers that OwnAnswers names, for any   *)
(* nodes and any numbers of processes and acts.  Files: what is read was     *)
(* there and what is written stays together, for any clients, names and      *)
(* lengths.                                                                  *)
(*****************************************************************************)
EXTENDS Nodes, Files, FiniteSetTheorems, SequenceTheorems, TLAPS

\* A handle on the node n leads to the process it was made for, or strayed.
At(n, h) == <<IF h.node = Local THEN n ELSE h.node, h.id>>
Sound(n, h) == h.node # Local \/ ~strayed => At(n, h) = h.of

HandlesSound ==
  /\ \A p \in Processes : \A h \in handles[p] : Sound(p[1], h)
  /\ \A n \in Nodes : registry[n] # NoHandle => Sound(n, registry[n])

\* Whose request a message is or replies to, and who was asked, when it lies in the
\* mailbox of q.
Asker(m) == IF m.kind = "request" THEN m.from ELSE m.to
Asking(q, m) == IF m.kind = "request" THEN q ELSE m.by

\* A request or a reply that has the tag of its asker's call belongs to that call.
Placed(q, m) ==
  /\ m.tag < replyTag[Asker(m)]
  /\ m.kind = "request" => m.sender = m.from[2]
  /\ m.kind = "reply" => m.by[1] = q[1] /\ m.to[2] = q[2]
  /\ call[Asker(m)] # NoCall /\ m.tag = call[Asker(m)].tag
       => Asking(q, m) = Reached(Asker(m), call[Asker(m)].handle)

\* One of two processes took the link tag t, or it is an id.
OneTook(t, p, q) == t \in 1..MaxId \/ t < linkTag[p] \/ t < linkTag[q]

\* A signal is of a process that has ended, under a link tag that was taken, or an id.
SignalsTrue ==
  /\ \A l \in links : OneTook(l.tag, l.of, l.to)
  /\ \A l \in signals : l.to \in ended /\ OneTook(l.tag, l.of, l.to)

Fine(q, m) ==
  /\ m.kind = "gift" => Sound(q[1], m.handle)
  /\ m.kind = "signal" => m.by \in ended /\ OneTook(m.tag, q, m.by)
  /\ m.kind \in {"request", "reply"} => Placed(q, m)
MailFine == \A q \in Processes : \A i \in DOMAIN mbox[q] : Fine(q, mbox[q][i])

\* Tags are taken in order, at most one by an act.
TagsTaken ==
  \A p \in Processes : replyTag[p] <= acts + 1 /\ (call[p] # NoCall => call[p].tag < replyTag[p])

IInv == TypeOK /\ TagsTaken /\ HandlesSound /\ SignalsTrue /\ MailFine /\ OwnAnswers
-----------------------------------------------------------------------------
(* What a receive takes out of a mailbox and what a delivery adds; the same  *)
(* facts as in MessagingResources_proofs, about another module's state.      *)

\* r is q without its i-th message.
Without(q, i, r) ==
  /\ Len(r) = Len(q) - 1
  /\ \A j \in 1..(i - 1) : r[j] = q[j]
  /\ \A j \in i..(Len(q) - 1) : r[j] = q[j + 1]

\* A mailbox without its i-th message has the others: those before it at their
\* places, those behind it one place earlier.
LEMMA Removed ==
  ASSUME NEW S, NEW q \in Seq(S), NEW i \in DOMAIN q
  PROVE  /\ RemoveAt(q, i) \in Seq(S)
         /\ Without(q, i, RemoveAt(q, i))
<1> DEFINE s == SubSeq(q, 1, i - 1)
           t == SubSeq(q, i + 1, Len(q))
           r == s \o t
           n == Len(q)
<1>1. s \in Seq(S) /\ Len(s) = i - 1 /\ \A j \in 1..(i - 1) : s[j] = q[j]
  OBVIOUS
<1>2. t \in Seq(S) /\ Len(t) = n - i /\ \A j \in 1..(n - i) : t[j] = q[i + j]
  OBVIOUS
<1>3. RemoveAt(q, i) = r
  BY DEF RemoveAt
<1>4. n \in Nat /\ i \in 1..n /\ DOMAIN q = 1..n
  OBVIOUS
<1> HIDE DEF s, t, n
<1>5. r \in Seq(S) /\ Len(r) = n - 1 /\ DOMAIN r = 1..(n - 1)
  <2>1. \A x, y \in Seq(S) : x \o y \in Seq(S) /\ Len(x \o y) = Len(x) + Len(y)
    OBVIOUS
  <2>2. r \in Seq(S) /\ Len(r) = Len(s) + Len(t)
    BY <1>1, <1>2, <2>1, Zenon
  <2>3. Len(s) + Len(t) = n - 1
    BY <1>1, <1>2, <1>4
  <2> QED BY <2>2, <2>3
<1>6. \A j \in 1..(i - 1) : r[j] = s[j]
  BY <1>1, <1>2, <1>4
<1>7. ASSUME NEW j \in 1..(n - 1), j >= i
      PROVE  r[j] = t[j - (i - 1)]
  <2>1. j \in 1..(Len(s) + Len(t)) /\ ~(j <= Len(s))
    BY <1>1, <1>2, <1>4, <1>7
  <2>2. r[j] = t[j - Len(s)]
    BY <1>1, <1>2, <2>1
  <2> QED BY <1>1, <2>2
<1> HIDE DEF r
<1>8. \A j \in 1..(i - 1) : r[j] = q[j]
  BY <1>1, <1>6
<1>9. ASSUME NEW j \in i..(n - 1)
      PROVE  r[j] = q[j + 1]
  <2>1. j \in 1..(n - 1) /\ j - (i - 1) \in 1..(n - i) /\ i + (j - (i - 1)) = j + 1
    BY <1>4
  <2> QED BY <1>2, <1>7, <2>1
<1> QED BY <1>3, <1>4, <1>5, <1>8, <1>9 DEF Without, n

\* What is in the mailbox after a message was taken out was there before.
LEMMA Kept ==
  ASSUME NEW S, NEW q \in Seq(S), NEW i \in DOMAIN q, NEW r \in Seq(S), Without(q, i, r)
  PROVE  \A j \in DOMAIN r : \E k \in DOMAIN q : r[j] = q[k]
<1>1. DOMAIN q = 1..Len(q) /\ Len(q) \in Nat /\ DOMAIN r = 1..(Len(q) - 1)
  BY DEF Without
<1> SUFFICES ASSUME NEW j \in DOMAIN r
             PROVE  \E k \in DOMAIN q : r[j] = q[k]
  OBVIOUS
<1>2. CASE j < i
  <2>1. j \in DOMAIN q /\ r[j] = q[j]
    BY <1>1, <1>2 DEF Without
  <2> QED BY <2>1
<1>3. CASE j >= i
  <2>1. j + 1 \in DOMAIN q /\ r[j] = q[j + 1]
    BY <1>1, <1>3 DEF Without
  <2> QED BY <2>1
<1> QED BY <1>1, <1>2, <1>3

\* So it is when the first message is taken.
LEMMA TailWithout ==
  ASSUME NEW S, NEW q \in Seq(S), q # <<>>
  PROVE  1 \in DOMAIN q /\ Head(q) = q[1] /\ Tail(q) \in Seq(S) /\ Without(q, 1, Tail(q))
<1>1. 1 \in DOMAIN q /\ Head(q) = q[1] /\ Tail(q) \in Seq(S)
  OBVIOUS
<1>2. Len(Tail(q)) = Len(q) - 1 /\ Len(q) \in Nat
  OBVIOUS
<1>3. \A j \in 1..(Len(q) - 1) : Tail(q)[j] = q[j + 1]
  OBVIOUS
<1> QED BY <1>1, <1>2, <1>3 DEF Without

\* A delivery adds its message at the end.
LEMMA Appended ==
  ASSUME NEW S, NEW q \in Seq(S), NEW m \in S
  PROVE  /\ Append(q, m) \in Seq(S) /\ Len(Append(q, m)) = Len(q) + 1
         /\ \A j \in DOMAIN Append(q, m) : \/ j = Len(q) + 1 /\ Append(q, m)[j] = m
                                           \/ j \in DOMAIN q /\ Append(q, m)[j] = q[j]
OBVIOUS
-----------------------------------------------------------------------------
\* Handles lead to processes.
LEMMA ReachedTyped ==
  ASSUME NEW p \in Processes, NEW h \in Handles
  PROVE  Reached(p, h) \in Processes /\ Reached(p, h) = At(p[1], h)
BY DEF Reached, Processes, Handles, At

\* What a process has are handles, and they are sound.
LEMMA HasSound ==
  ASSUME IInv, NEW p \in Processes, NEW h \in Has(p)
  PROVE  h \in Handles /\ Sound(p[1], h)
<1>1. CASE h \in handles[p]
  BY <1>1 DEF IInv, TypeOK, HandlesSound
<1>2. CASE h = Handle(Local, p) \/ h = Handle(p[1], p)
  <2>1. p[1] \in Nodes /\ p[2] \in 1..MaxId /\ p = <<p[1], p[2]>>
    BY DEF Processes
  <2> QED BY <1>2, <2>1 DEF Handle, Handles, Sound, At
<1> QED BY <1>1, <1>2 DEF Has

\* The initial state satisfies the invariant.
LEMMA InitInvariant == Init => IInv
<1> SUFFICES ASSUME Init
             PROVE  IInv
  OBVIOUS
<1>1. <<>> \in Seq(Messages) /\ DOMAIN <<>> = {}
  OBVIOUS
<1>2. TypeOK
  <2>1. 1 \in Tags /\ 1 \in 1..MaxId /\ 0 \in 0..MaxActs
    BY NodesAssumption DEF Tags
  <2>2. count \in [Nodes -> 1..MaxId] /\ replyTag \in [Processes -> Tags] /\ acts \in 0..MaxActs
    BY <2>1 DEF Init
  <2>3. mbox \in [Processes -> Seq(Messages)]
    BY <1>1 DEF Init
  <2> QED BY <2>2, <2>3 DEF Init, TypeOK
<1>3. TagsTaken /\ HandlesSound /\ SignalsTrue /\ MailFine /\ OwnAnswers
  BY <1>1 DEF Init, TagsTaken, HandlesSound, SignalsTrue, MailFine, OwnAnswers
<1> QED BY <1>2, <1>3 DEF IInv
-----------------------------------------------------------------------------
\* No process comes back and no link tag is given back.
Grown ==
  /\ ended \subseteq ended'
  /\ linkTag' \in [Processes -> Nat]
  /\ \A p \in Processes : linkTag'[p] \in {linkTag[p], linkTag[p] + 1}

LEMMA GrownBy ==
  ASSUME IInv, ended \subseteq ended', NEW p \in Processes, UNCHANGED linkTag \/ TakeTag(p)
  PROVE  Grown
<1>1. linkTag \in [Processes -> Nat]
  BY DEF IInv, TypeOK
<1>2. CASE UNCHANGED linkTag
  BY <1>1, <1>2 DEF Grown
<1>3. CASE TakeTag(p)
  BY <1>1, <1>3 DEF Grown, TakeTag
<1> QED BY <1>2, <1>3

\* Who took a tag has taken it.
LEMMA StaysTaken ==
  ASSUME IInv, Grown, NEW p \in Processes, NEW q \in Processes, NEW t \in Nat, OneTook(t, p, q)
  PROVE  OneTook(t, p, q)'
<1>1. linkTag[p] \in Nat /\ linkTag[q] \in Nat
  BY DEF IInv, TypeOK
<1>2. /\ linkTag'[p] \in {linkTag[p], linkTag[p] + 1}
      /\ linkTag'[q] \in {linkTag[q], linkTag[q] + 1}
  BY DEF Grown
<1> QED BY <1>1, <1>2 DEF OneTook

\* Links that have signalled or may signal are no others than before.
LEMMA SignalsKept ==
  ASSUME IInv, Grown, links' \subseteq links, signals' \subseteq signals
  PROVE  SignalsTrue' /\ links' \subseteq Links /\ signals' \subseteq Links
<1>1. SignalsTrue /\ links \subseteq Links /\ signals \subseteq Links
  BY DEF IInv, TypeOK
<1>2. ASSUME NEW l \in links \cup signals
      PROVE  OneTook(l.tag, l.of, l.to)'
  <2>1. l.of \in Processes /\ l.to \in Processes /\ l.tag \in Nat /\ OneTook(l.tag, l.of, l.to)
    BY <1>1, <1>2 DEF Links, SignalsTrue
  <2> QED BY <2>1, StaysTaken
<1> QED BY <1>1, <1>2 DEF SignalsTrue, Grown

\* Every message in a mailbox was there before, or is one of M in the mailbox of q.
Only(q, M) ==
  /\ mbox' \in [Processes -> Seq(Messages)]
  /\ \A p \in Processes : \A i \in DOMAIN mbox'[p] :
       (p = q /\ mbox'[p][i] \in M) \/ \E k \in DOMAIN mbox[p] : mbox'[p][i] = mbox[p][k]

\* A delivery.
LEMMA Delivered ==
  ASSUME IInv, NEW q \in Processes, NEW m \in Messages, Deliver(q, m)
  PROVE  Only(q, {m}) /\ \A p \in Processes : Len(mbox[p]) <= Len(mbox'[p])
<1>1. mbox \in [Processes -> Seq(Messages)] /\ \A p \in Processes : Len(mbox[p]) \in Nat
  BY DEF IInv, TypeOK, Messages
<1>2. CASE q \in Running
  <2>1. mbox[q] \in Seq(Messages)
    BY <1>1
  <2>2. mbox'[q] = Append(mbox[q], m) /\ \A p \in Processes \ {q} : mbox'[p] = mbox[p]
    BY <1>1, <1>2 DEF Deliver
  <2>3. /\ Append(mbox[q], m) \in Seq(Messages) /\ Len(Append(mbox[q], m)) = Len(mbox[q]) + 1
        /\ \A i \in DOMAIN mbox'[q] : mbox'[q][i] = m \/ \E k \in DOMAIN mbox[q] : mbox'[q][i] = mbox[q][k]
    BY <2>1, <2>2, Appended
  <2>4. mbox' \in [Processes -> Seq(Messages)]
    BY <1>1, <1>2, <2>3 DEF Deliver
  <2>5. ASSUME NEW p \in Processes
        PROVE  /\ Len(mbox[p]) <= Len(mbox'[p])
               /\ \A i \in DOMAIN mbox'[p] :
                    (p = q /\ mbox'[p][i] \in {m}) \/ \E k \in DOMAIN mbox[p] : mbox'[p][i] = mbox[p][k]
    <3>1. CASE p = q
      <4>1. Len(mbox[q]) <= Len(mbox'[q])
        BY <1>1, <2>2, <2>3
      <4> QED BY <2>3, <3>1, <4>1
    <3>2. CASE p # q
      BY <1>1, <2>2, <3>2
    <3> QED BY <3>1, <3>2
  <2> QED BY <2>4, <2>5 DEF Only
<1>3. CASE q \notin Running
  BY <1>1, <1>3 DEF Deliver, Only
<1> QED BY <1>2, <1>3

\* A removal.
Taking(p, r) ==
  \/ mbox[p] # <<>> /\ r = Tail(mbox[p])
  \/ \E i \in DOMAIN mbox[p] : r = RemoveAt(mbox[p], i)
  \/ r = <<>>

LEMMA Left ==
  ASSUME IInv, NEW p \in Processes, NEW r, Taking(p, r)
  PROVE  r \in Seq(Messages) /\ \A j \in DOMAIN r : \E k \in DOMAIN mbox[p] : r[j] = mbox[p][k]
<1>1. mbox[p] \in Seq(Messages)
  BY DEF IInv, TypeOK, Messages
<1>2. CASE r = <<>>
  <2>1. <<>> \in Seq(Messages) /\ DOMAIN <<>> = {}
    OBVIOUS
  <2> QED BY <1>2, <2>1
<1>3. CASE r # <<>>
  <2>1. r \in Seq(Messages) /\ \E i \in DOMAIN mbox[p] : Without(mbox[p], i, r)
    BY <1>1, <1>3, Removed, TailWithout DEF Taking
  <2> QED BY <1>1, <2>1, Kept
<1> QED BY <1>2, <1>3

LEMMA Taken ==
  ASSUME IInv, NEW p \in Processes, NEW r, Taking(p, r), mbox' = [mbox EXCEPT ![p] = r], NEW q
  PROVE  Only(q, {}) /\ \A d \in Processes \ {p} : mbox'[d] = mbox[d]
<1>1. mbox \in [Processes -> Seq(Messages)]
  BY DEF IInv, TypeOK, Messages
<1>2. r \in Seq(Messages) /\ \A j \in DOMAIN r : \E k \in DOMAIN mbox[p] : r[j] = mbox[p][k]
  BY Left
<1>3. mbox'[p] = r /\ \A d \in Processes \ {p} : mbox'[d] = mbox[d]
  BY <1>1
<1>4. mbox' \in [Processes -> Seq(Messages)]
  BY <1>1, <1>2
<1> QED BY <1>2, <1>3, <1>4 DEF Only

\* A message that is fine stays fine: the tags of later calls are higher.
LEMMA StaysFine ==
  ASSUME IInv, NEW q, NEW M, Only(q, M), Grown,
         strayed => strayed',
         \A p \in Processes : replyTag'[p] \in Nat /\ replyTag'[p] >= replyTag[p],
         \A p \in Processes : call'[p] \in {call[p], NoCall} \/ call'[p].tag = replyTag[p],
         \A p \in Processes : \A m \in M : p = q => Fine(p, m)'
  PROVE  MailFine'
<1>1. ASSUME NEW p \in Processes, NEW m \in Messages, Fine(p, m)
      PROVE  Fine(p, m)'
  <2>1. CASE m \in Gifts
    <3>1. m.kind = "gift" /\ m.kind \notin {"signal", "request", "reply"}
      BY <2>1 DEF Gifts
    <3>2. Sound(p[1], m.handle)
      BY <1>1, <3>1 DEF Fine
    <3> QED BY <3>1, <3>2 DEF Fine, Sound, At
  <2>2. CASE m \in Signals
    <3>1. m.kind = "signal" /\ m.kind \notin {"gift", "request", "reply"} /\ m.by \in Processes /\ m.tag \in Nat
      BY <2>2 DEF Signals
    <3>2. m.by \in ended /\ OneTook(m.tag, p, m.by)
      BY <1>1, <3>1 DEF Fine
    <3>3. m.by \in ended' /\ OneTook(m.tag, p, m.by)'
      BY <3>1, <3>2, StaysTaken DEF Grown
    <3> QED BY <3>1, <3>3 DEF Fine
  <2>3. CASE m \in Requests \cup Replies
    <3> DEFINE a == Asker(m)
    <3>1. m.kind \in {"request", "reply"} /\ m.kind \notin {"gift", "signal"} /\ a \in Processes /\ m.tag \in Nat
      BY <2>3 DEF Requests, Replies, Asker, Tags
    <3>2. Placed(p, m)
      BY <1>1, <3>1 DEF Fine
    <3>3. replyTag[a] \in Nat /\ m.tag < replyTag[a]
      BY <3>1, <3>2 DEF IInv, TypeOK, Tags, Placed
    <3>4. call[a] # NoCall /\ m.tag = call[a].tag => Asking(p, m) = Reached(a, call[a].handle)
      BY <3>2 DEF Placed
    <3>5. m.kind = "request" => m.sender = m.from[2]
      BY <3>2 DEF Placed
    <3>6. m.kind = "reply" => m.by[1] = p[1] /\ m.to[2] = p[2]
      BY <3>2 DEF Placed
    <3>7. replyTag'[a] \in Nat /\ replyTag'[a] >= replyTag[a]
      BY <3>1
    <3>8. call'[a] \in {call[a], NoCall} \/ call'[a].tag = replyTag[a]
      BY <3>1
    <3> HIDE DEF a
    <3>9. m.tag < replyTag'[a]
      BY <3>1, <3>3, <3>7
    <3>10. ASSUME call'[a] # NoCall, m.tag = call'[a].tag
           PROVE  Asking(p, m) = Reached(a, call'[a].handle)
      <4>1. call'[a] = call[a]
        BY <3>1, <3>3, <3>8, <3>10
      <4> QED BY <3>4, <3>10, <4>1
    <3>11. Placed(p, m)'
      BY <3>5, <3>6, <3>9, <3>10 DEF Placed, Asker, Asking, Reached, a
    <3> QED BY <3>1, <3>11 DEF Fine
  <2> QED BY <1>1, <2>1, <2>2, <2>3 DEF Messages
<1>2. ASSUME NEW p \in Processes, NEW m, NEW i \in DOMAIN mbox'[p], m = mbox'[p][i]
      PROVE  Fine(p, m)'
  <2>1. CASE p = q /\ m \in M
    BY <2>1
  <2>2. CASE \E k \in DOMAIN mbox[p] : m = mbox[p][k]
    <3>1. m \in Messages /\ Fine(p, m)
      BY <2>2 DEF IInv, TypeOK, MailFine, Messages
    <3> QED BY <1>1, <3>1
  <2> QED BY <1>2, <2>1, <2>2 DEF Only
<1> QED BY <1>2 DEF MailFine
-----------------------------------------------------------------------------
\* Who neither gets a handle nor asks nor is answered changes nothing of these.
LEMMA HandlesKept ==
  ASSUME IInv, UNCHANGED <<handles, registry>>, strayed => strayed'
  PROVE  HandlesSound'
BY DEF IInv, HandlesSound, Sound, At

LEMMA TagsKept ==
  ASSUME IInv, UNCHANGED replyTag, acts' \in {acts, acts + 1},
         \A p \in Processes : call'[p] \in {call[p], NoCall}
  PROVE  TagsTaken'
<1>1. \A p \in Processes : replyTag[p] \in Nat /\ acts \in Nat
  BY NodesAssumption DEF IInv, TypeOK, Tags
<1> QED BY <1>1 DEF IInv, TagsTaken

LEMMA AnswersKept == IInv /\ Grown /\ UNCHANGED answer => OwnAnswers'
<1> SUFFICES ASSUME IInv, Grown, UNCHANGED answer, NEW p \in Processes, answer[p] # NoAnswer,
                    NEW m, m = answer[p].message
             PROVE  m.kind = "signal" /\ m.by \in ended /\ OneTook(m.tag, p, m.by)
                      => m.by \in ended' /\ OneTook(m.tag, p, m.by)'
  BY DEF IInv, OwnAnswers, Reached, OneTook
<1>1. m \in Requests \cup Replies \cup Signals
  BY DEF IInv, TypeOK, Answers
<1>2. ASSUME m.kind = "signal", OneTook(m.tag, p, m.by)
      PROVE  OneTook(m.tag, p, m.by)'
  <2>1. m.by \in Processes /\ m.tag \in Nat
    BY <1>1, <1>2 DEF Requests, Replies, Signals
  <2> QED BY <1>2, <2>1, StaysTaken
<1> QED BY <1>2 DEF Grown

\* A process gets a handle, or one is registered.
LEMMA Quiet ==
  ASSUME IInv, Grown, UNCHANGED <<mbox, call, replyTag, answer, strayed>>, acts' \in {acts, acts + 1}
  PROVE  TagsTaken' /\ MailFine' /\ OwnAnswers'
<1>1. \A p \in Processes : replyTag[p] \in Nat
  BY DEF IInv, TypeOK, Tags
<1>2. \A p \in Processes : replyTag'[p] \in Nat /\ replyTag'[p] >= replyTag[p]
  BY <1>1
<1>3. mbox \in [Processes -> Seq(Messages)]
  BY DEF IInv, TypeOK, Messages
<1>4. \A q : Only(q, {})
  BY <1>3 DEF Only
<1>5. MailFine'
  BY <1>2, <1>4, StaysFine
<1> QED BY <1>5, TagsKept, AnswersKept

\* A process takes one message out of its mailbox while it is not blocked.
LEMMA Takes ==
  ASSUME IInv, Grown, NEW p \in Processes, call[p] = NoCall, mbox[p] # <<>>, mbox' = [mbox EXCEPT ![p] = Tail(@)],
         UNCHANGED <<call, replyTag, answer, strayed, acts>>
  PROVE  /\ mbox' \in [Processes -> Seq(Messages)]
         /\ \A d \in Processes : call'[d] # NoCall => call'[d].skip <= Len(mbox'[d])
         /\ TagsTaken' /\ MailFine' /\ OwnAnswers'
<1>1. Taking(p, Tail(mbox[p]))
  BY DEF Taking
<1>2. mbox' = [mbox EXCEPT ![p] = Tail(mbox[p])]
  OBVIOUS
<1>3. Only(p, {}) /\ \A d \in Processes \ {p} : mbox'[d] = mbox[d]
  BY <1>1, <1>2, Taken
<1>4. \A d \in Processes : replyTag'[d] \in Nat /\ replyTag'[d] >= replyTag[d]
  BY DEF IInv, TypeOK, Tags
<1>5. MailFine'
  BY <1>3, <1>4, StaysFine
<1>6. \A d \in Processes : call'[d] # NoCall => call'[d].skip <= Len(mbox'[d])
  BY <1>3 DEF IInv, TypeOK
<1>7. TagsTaken' /\ OwnAnswers'
  BY TagsKept, AnswersKept
<1> QED BY <1>3, <1>5, <1>6, <1>7 DEF Only
-----------------------------------------------------------------------------
\* The end of a process preserves the invariant.
LEMMA EndsInvariant ==
  ASSUME IInv, NEW q \in Processes, NEW S, Ends(q, S), acts' \in {acts, acts + 1}, acts' \in 0..MaxActs,
         S \subseteq Links, \A l \in S : l.to \in ended \cup {q} /\ OneTook(l.tag, l.of, l.to)
  PROVE  IInv'
<1>1. TypeOK /\ SignalsTrue /\ \A p \in Processes : replyTag[p] \in Nat /\ Len(mbox[p]) \in Nat
  BY DEF IInv, TypeOK, Messages, Tags
<1>2. /\ mbox' = [mbox EXCEPT ![q] = <<>>] /\ call' = [call EXCEPT ![q] = NoCall] /\ ended' = ended \cup {q}
      /\ links' \subseteq links /\ signals' = S
      /\ UNCHANGED <<count, handles, registry, replyTag, linkTag, answer, strayed>>
  BY DEF Ends
<1>3. Grown
  BY <1>2, GrownBy
<1>4. Only(q, {}) /\ \A d \in Processes \ {q} : mbox'[d] = mbox[d]
  BY <1>2, Taken DEF Taking
<1>5. \A d \in Processes : call'[d] \in {call[d], NoCall}
  BY <1>1, <1>2 DEF TypeOK
<1>6. call' \in [Processes -> Calls \cup {NoCall}]
  BY <1>1, <1>2 DEF TypeOK
<1>7. \A d \in Processes : call'[d] # NoCall => call'[d].skip <= Len(mbox'[d])
  BY <1>1, <1>2, <1>4 DEF TypeOK
<1>8. mbox' \in [Processes -> Seq(Messages)]
  BY <1>4 DEF Only
<1>9. links' \subseteq Links /\ signals' \subseteq Links /\ ended' \subseteq Processes
  BY <1>1, <1>2 DEF TypeOK
<1>10. TypeOK'
  BY <1>1, <1>2, <1>6, <1>7, <1>8, <1>9 DEF TypeOK
<1>11. MailFine'
  BY <1>1, <1>2, <1>3, <1>4, <1>5, StaysFine
<1>12. SignalsTrue'
  BY <1>1, <1>2 DEF SignalsTrue, OneTook
<1>13. TagsTaken' /\ HandlesSound' /\ OwnAnswers'
  BY <1>2, <1>3, <1>5, TagsKept, HandlesKept, AnswersKept
<1> QED BY <1>10, <1>11, <1>12, <1>13 DEF IInv

\* So does a death: those it is linked to are told.
LEMMA DiesInvariant ==
  ASSUME IInv, NEW q \in Processes, NEW S \in SUBSET signals, Dies(q, S),
         acts' \in {acts, acts + 1}, acts' \in 0..MaxActs
  PROVE  IInv'
<1> DEFINE T == S \cup {l \in links : l.to = q}
<1>1. Ends(q, T)
  BY DEF Dies
<1>2. T \subseteq Links /\ \A l \in T : l.to \in ended \cup {q} /\ OneTook(l.tag, l.of, l.to)
  BY DEF IInv, TypeOK, SignalsTrue
<1> HIDE DEF T
<1> QED BY <1>1, <1>2, EndsInvariant

\* What a program does of itself preserves the invariant.
LEMMA ActInvariant ==
  ASSUME IInv, NEW p \in Processes, Act(p)
  PROVE  IInv'
<1>1. TypeOK /\ HandlesSound /\ p[1] \in Nodes /\ p[2] \in 1..MaxId /\ p = <<p[1], p[2]>>
  BY DEF IInv, Processes
<1>2. acts' = acts + 1 /\ acts' \in 0..MaxActs /\ acts \in Nat
  BY <1>1, NodesAssumption DEF Act, TypeOK
<1>3. mbox \in [Processes -> Seq(Messages)] /\ \A q \in Processes : replyTag[q] \in Nat /\ Len(mbox[q]) \in Nat
  BY <1>1 DEF TypeOK, Messages, Tags
<1>4. ASSUME NEW h \in Handles, Sound(p[1], h), Get(p, h), TakeTag(p),
             UNCHANGED <<ended, registry, mbox, call, replyTag, answer, strayed>>, count' \in [Nodes -> 1..MaxId],
             signals' \subseteq signals,
             \A l \in links' \ links : l \in Links /\ OneTook(l.tag, l.of, l.to)'
      PROVE  IInv'
  <2>1. handles' \in [Processes -> SUBSET Handles]
    BY <1>1, <1>4 DEF Get, TypeOK
  <2>2. Grown
    BY <1>4, GrownBy
  <2>3. SignalsTrue' /\ links' \subseteq Links /\ signals' \subseteq Links
    <3>1. ASSUME NEW l \in links \cup signals
          PROVE  OneTook(l.tag, l.of, l.to)' /\ l \in Links
      <4>1. /\ l \in Links /\ l.of \in Processes /\ l.to \in Processes /\ l.tag \in Nat
            /\ OneTook(l.tag, l.of, l.to)
        BY <1>1, <3>1 DEF TypeOK, Links, SignalsTrue, IInv
      <4> QED BY <2>2, <4>1, StaysTaken
    <3>2. \A l \in links' : OneTook(l.tag, l.of, l.to)' /\ l \in Links
      BY <1>4, <3>1
    <3>3. \A l \in signals' : l.to \in ended'
      BY <1>4 DEF IInv, SignalsTrue
    <3> QED BY <1>4, <3>1, <3>2, <3>3 DEF SignalsTrue
  <2>4. TypeOK'
    BY <1>1, <1>2, <1>4, <2>1, <2>2, <2>3 DEF TypeOK, Grown
  <2>5. HandlesSound'
    BY <1>1, <1>4 DEF HandlesSound, Sound, At, Get, TypeOK
  <2> QED BY <1>2, <1>4, <2>2, <2>3, <2>4, <2>5, Quiet DEF IInv
<1>5. ASSUME NEW n \in Nodes \cup {Local}, Spawn(p, n)
      PROVE  IInv'
  <2> DEFINE on == IF n = Local THEN p[1] ELSE n
             q == <<on, count[on] + 1>>
  <2>1. on \in Nodes /\ count[on] \in 1..MaxId /\ count[on] < MaxId
    BY <1>1, <1>5 DEF Spawn, TypeOK
  <2>2. count[on] + 1 \in 1..MaxId
    BY <2>1, NodesAssumption
  <2>3. count' = [count EXCEPT ![on] = @ + 1]
    BY <1>5 DEF Spawn
  <2>4. count' \in [Nodes -> 1..MaxId]
    BY <1>1, <2>1, <2>2, <2>3 DEF TypeOK
  <2>5. Handle(n, q) \in Handles /\ Sound(p[1], Handle(n, q))
    BY <2>1, <2>2 DEF Handle, Handles, Processes, Sound, At
  <2>6. /\ Get(p, Handle(n, q)) /\ TakeTag(p)
        /\ UNCHANGED <<ended, registry, mbox, call, replyTag, signals, answer, strayed>>
    BY <1>5 DEF Spawn, Spawned
  <2>7. PICK t \in Nat : t = linkTag[p]
    BY <1>1 DEF TypeOK
  <2>8. /\ q \in Processes
        /\ links' = links \cup IF t = 0 THEN {} ELSE Linked(p, q, t)
    BY <1>5, <2>1, <2>2, <2>7 DEF Spawn, Processes
  <2>9. t < linkTag'[p]
    BY <1>1, <2>6, <2>7 DEF TakeTag, TypeOK
  <2> HIDE DEF q
  <2>10. ASSUME NEW l \in links' \ links
         PROVE  l \in Links /\ OneTook(l.tag, l.of, l.to)'
    <3>1. t # 0 /\ l \in Linked(p, q, t)
      BY <2>8, <2>10
    <3> QED BY <2>8, <2>9, <3>1 DEF Links, Linked, OneTook
  <2>11. Handle(n, q) \in Handles /\ Sound(p[1], Handle(n, q)) /\ signals' \subseteq signals
    BY <2>5, <2>6
  <2> QED BY <1>4, <2>4, <2>6, <2>10, <2>11
<1>6. ASSUME Lookup(p)
      PROVE  IInv'
  <2>1. registry[p[1]] \in Handles /\ Sound(p[1], registry[p[1]])
    BY <1>1, <1>6 DEF Lookup, TypeOK, HandlesSound
  <2>2. count' \in [Nodes -> 1..MaxId] /\ links' \ links = {} /\ signals' \subseteq signals
    BY <1>1, <1>6 DEF Lookup, TypeOK
  <2> QED BY <1>4, <1>6, <2>1, <2>2 DEF Lookup
<1>7. ASSUME NEW g \in Handles \cup {NoHandle}, g # NoHandle => Sound(p[1], g),
             registry' = [registry EXCEPT ![p[1]] = g],
             UNCHANGED <<count, ended, handles, mbox, call, replyTag, linkVars, answer, strayed>>
      PROVE  IInv'
  <2>1. UNCHANGED <<linkTag, links, signals>> /\ Grown
    BY <1>7, GrownBy DEF linkVars
  <2>2. TypeOK'
    BY <1>1, <1>2, <1>7, <2>1 DEF TypeOK
  <2>3. HandlesSound'
    BY <1>1, <1>7 DEF HandlesSound, Sound, At, TypeOK
  <2>4. SignalsTrue'
    BY <2>1, SignalsKept
  <2> QED BY <1>2, <1>7, <2>1, <2>2, <2>3, <2>4, Quiet DEF IInv
<1>8. ASSUME NEW h \in Has(p), Put(p, h)
      PROVE  IInv'
  <2>1. CASE Traps(p)
    BY <1>2, <2>1, DiesInvariant DEF Traps
  <2>2. CASE ~Traps(p)
    BY <1>7, <1>8, <2>2, HasSound DEF Put
  <2> QED BY <2>1, <2>2
<1>9. ASSUME Unregister(p)
      PROVE  IInv'
  BY <1>7, <1>9 DEF Unregister
<1>10. ASSUME NEW h \in Has(p), Kill(p, h)
       PROVE  IInv'
  <2>1. PICK q \in Processes : Traps(q)
    BY <1>10 DEF Kill, Running
  <2> QED BY <1>2, <2>1, DiesInvariant DEF Traps
<1>11. ASSUME NEW h \in Has(p), NEW g \in Has(p), Give(p, h, g),
              NEW q, q = Reached(p, h), NEW m, m = [kind |-> "gift", tag |-> 0, handle |-> g]
       PROVE  IInv'
  <2>1. /\ h \in Handles /\ g \in Handles /\ Sound(p[1], g) /\ q \in Processes
        /\ m \in Gifts /\ m \in Messages /\ m.kind = "gift" /\ m.handle = g
    BY <1>11, HasSound, ReachedTyped DEF Gifts, Messages
  <2>2. /\ Deliver(q, m) /\ strayed' = (strayed \/ (g.node = Local /\ q[1] # p[1]))
        /\ UNCHANGED <<count, ended, handles, registry, call, replyTag, linkTag, links, signals, answer>> /\ Grown
    BY <1>11, GrownBy DEF Give, linkVars
  <2>3. Sound(q[1], g)'
    BY <2>1, <2>2 DEF Sound, At
  <2>4. Only(q, {m}) /\ \A d \in Processes : Len(mbox[d]) <= Len(mbox'[d])
    BY <2>1, <2>2, Delivered
  <2>5. Fine(q, m)'
    BY <2>1, <2>3 DEF Fine
  <2>6. MailFine'
    <3>1. strayed => strayed'
      BY <2>2
    <3>2. \A d \in Processes : replyTag'[d] \in Nat /\ replyTag'[d] >= replyTag[d] /\ call'[d] = call[d]
      BY <1>3, <2>2
    <3> QED BY <2>2, <2>4, <2>5, <3>1, <3>2, StaysFine
  <2>7. TypeOK'
    <3>1. mbox' \in [Processes -> Seq(Messages)]
      BY <2>4 DEF Only, Messages
    <3>2. \A d \in Processes : call'[d] # NoCall => call'[d].skip <= Len(mbox'[d])
      <4>1. \A d \in Processes : call[d] # NoCall => call[d].skip \in Nat /\ call[d].skip <= Len(mbox[d])
        BY <1>1 DEF TypeOK, Calls
      <4>2. \A d \in Processes : Len(mbox'[d]) \in Nat
        BY <3>1
      <4> QED BY <1>3, <2>2, <2>4, <4>1, <4>2
    <3>3. strayed' \in BOOLEAN
      BY <2>2
    <3> QED BY <1>1, <1>2, <2>2, <3>1, <3>2, <3>3 DEF TypeOK
  <2>8. TagsTaken' /\ HandlesSound' /\ SignalsTrue' /\ OwnAnswers'
    BY <1>2, <2>2, TagsKept, HandlesKept, SignalsKept, AnswersKept
  <2> QED BY <2>6, <2>7, <2>8 DEF IInv
<1>12. ASSUME NEW h \in Has(p), Request(p, h), NEW q, q = Reached(p, h),
              NEW m, m = [kind |-> "request", tag |-> replyTag[p], sender |-> p[2], from |-> p],
              NEW c, c = [tag |-> replyTag[p], skip |-> Len(mbox[p]), handle |-> h]
       PROVE  IInv'
  <2>1. h \in Handles /\ q \in Processes /\ replyTag[p] \in Tags
    BY <1>1, <1>12, HasSound, ReachedTyped DEF TypeOK
  <2>2. m \in Requests /\ m \in Messages /\ c \in Calls
    BY <1>1, <1>3, <1>12, <2>1 DEF Requests, Messages, Calls
  <2>3. /\ replyTag' = [replyTag EXCEPT ![p] = @ + 1] /\ call' = [call EXCEPT ![p] = c]
        /\ answer' = [answer EXCEPT ![p] = NoAnswer] /\ Deliver(q, m)
        /\ UNCHANGED <<count, ended, handles, registry, linkTag, links, signals, strayed>> /\ Grown
    BY <1>12, GrownBy DEF Request, linkVars
  <2>4. /\ m.kind = "request" /\ m.tag = replyTag[p] /\ m.sender = p[2] /\ m.from = p
        /\ c.tag = replyTag[p] /\ c.skip = Len(mbox[p]) /\ c.handle = h
    BY <1>12
  <2>5. Only(q, {m}) /\ \A d \in Processes : Len(mbox[d]) <= Len(mbox'[d])
    BY <2>1, <2>2, <2>3, Delivered
  <2>6. \A d \in Processes : replyTag'[d] \in Nat /\ replyTag'[d] >= replyTag[d]
    BY <1>1, <1>3, <2>3 DEF TypeOK
  <2>7. /\ call'[p] = c /\ replyTag'[p] = replyTag[p] + 1
        /\ \A d \in Processes \ {p} : call'[d] = call[d] /\ replyTag'[d] = replyTag[d]
    BY <1>1, <2>3 DEF TypeOK
  <2>8. \A d \in Processes : call'[d] \in {call[d], NoCall} \/ call'[d].tag = replyTag[d]
    BY <2>4, <2>7
  <2>9. Fine(q, m)'
    <3>1. Asker(m) = p /\ Asking(q, m) = q
      BY <2>4 DEF Asker, Asking
    <3>2. m.tag < replyTag'[p]
      BY <1>3, <2>4, <2>7
    <3>3. Placed(q, m)'
      BY <1>12, <2>4, <2>7, <3>1, <3>2 DEF Placed, Asker, Asking, Reached
    <3> QED BY <2>4, <3>3 DEF Fine
  <2>10. MailFine'
    BY <2>3, <2>5, <2>6, <2>8, <2>9, StaysFine
  <2>11. TagsTaken'
    <3>1. TagsTaken
      BY DEF IInv
    <3> QED BY <1>2, <1>3, <2>4, <2>7, <3>1 DEF TagsTaken
  <2>12. TypeOK'
    <3>1. mbox' \in [Processes -> Seq(Messages)]
      BY <2>5 DEF Only, Messages
    <3>2. \A d \in Processes : call'[d] # NoCall => call'[d].skip <= Len(mbox'[d])
      <4>1. \A d \in Processes : call[d] # NoCall => call[d].skip \in Nat /\ call[d].skip <= Len(mbox[d])
        BY <1>1 DEF TypeOK, Calls
      <4>2. \A d \in Processes : Len(mbox'[d]) \in Nat
        BY <3>1
      <4> QED BY <1>3, <2>4, <2>5, <2>7, <4>1, <4>2
    <3>3. \A d \in Processes : replyTag'[d] \in Tags
      BY <1>2, <2>6, <2>11, NodesAssumption, <1>1 DEF TagsTaken, Tags, TypeOK
    <3>4. replyTag' \in [Processes -> Tags]
      BY <1>1, <2>3, <3>3 DEF TypeOK
    <3>5. call' \in [Processes -> Calls \cup {NoCall}] /\ answer' \in [Processes -> Answers \cup {NoAnswer}]
      BY <1>1, <2>2, <2>3 DEF TypeOK
    <3> QED BY <1>1, <1>2, <2>3, <3>1, <3>2, <3>4, <3>5 DEF TypeOK
  <2>13. HandlesSound' /\ SignalsTrue'
    BY <2>3, HandlesKept, SignalsKept
  <2>14. OwnAnswers'
    <3>1. answer \in [Processes -> Answers \cup {NoAnswer}] /\ OwnAnswers
      BY DEF IInv, TypeOK
    <3> QED BY <2>3, <3>1 DEF OwnAnswers, Reached
  <2> QED BY <2>10, <2>11, <2>12, <2>13, <2>14 DEF IInv
<1>13. ASSUME NEW h \in Has(p), NEW g \in Has(p), Give(p, h, g)
       PROVE  IInv'
  BY <1>11, <1>13
<1>14. ASSUME NEW h \in Has(p), Request(p, h)
       PROVE  IInv'
  BY <1>12, <1>14
<1>15. ASSUME Self(p)
       PROVE  IInv'
  <2>1. /\ TakeTag(p)
        /\ UNCHANGED <<count, ended, handles, registry, mbox, call, replyTag, links, signals, answer, strayed>>
    BY <1>15 DEF Self
  <2>2. Grown
    BY <2>1, GrownBy
  <2>3. HandlesSound' /\ SignalsTrue'
    BY <2>1, <2>2, HandlesKept, SignalsKept
  <2>4. TypeOK'
    BY <1>1, <1>2, <2>1, <2>2 DEF TypeOK, Grown
  <2> QED BY <1>2, <2>1, <2>2, <2>3, <2>4, Quiet DEF IInv
<1>16. ASSUME Finish(p)
       PROVE  IInv'
  <2>1. CASE Traps(p)
    BY <1>2, <2>1, DiesInvariant DEF Traps
  <2>2. CASE Ends(p, signals)
    <3>1. signals \subseteq Links /\ \A l \in signals : l.to \in ended \cup {p} /\ OneTook(l.tag, l.of, l.to)
      BY DEF IInv, TypeOK, SignalsTrue
    <3> QED BY <1>2, <2>2, <3>1, EndsInvariant
  <2> QED BY <1>16, <2>1, <2>2 DEF Finish
<1>17. ASSUME NEW h \in Has(p), LinkProcess(p, h)
       PROVE  IInv'
  <2>1. CASE Traps(p)
    BY <1>2, <2>1, DiesInvariant DEF Traps
  <2>2. CASE ~Traps(p)
    <3>1. PICK q \in Processes : links' = links \cup Linked(p, q, h.id)
      BY <1>17, <2>2 DEF LinkProcess, Running
    <3>2. /\ TakeTag(p) /\ h \in Handles
          /\ UNCHANGED <<count, ended, handles, registry, mbox, call, replyTag, signals, answer, strayed>>
      BY <1>17, <2>2, HasSound DEF LinkProcess
    <3>3. h.id \in 1..MaxId /\ h.id \in Nat \ {0}
      BY <3>2, NodesAssumption DEF Handles
    <3>4. \A l \in Linked(p, q, h.id) : l \in Links /\ OneTook(l.tag, l.of, l.to)'
      BY <3>3 DEF Linked, Links, OneTook
    <3>5. Grown
      BY <3>2, GrownBy
    <3>6. ASSUME NEW l \in links \cup signals
          PROVE  OneTook(l.tag, l.of, l.to)' /\ l \in Links
      <4>1. /\ l \in Links /\ l.of \in Processes /\ l.to \in Processes /\ l.tag \in Nat
            /\ OneTook(l.tag, l.of, l.to)
        BY <1>1, <3>6 DEF TypeOK, Links, SignalsTrue, IInv
      <4> QED BY <3>5, <4>1, StaysTaken
    <3>7. SignalsTrue' /\ links' \subseteq Links /\ signals' \subseteq Links
      <4>1. \A l \in signals' : l.to \in ended'
        BY <3>2 DEF IInv, SignalsTrue
      <4> QED BY <3>1, <3>2, <3>4, <3>6, <4>1 DEF SignalsTrue
    <3>8. TypeOK'
      BY <1>1, <1>2, <3>2, <3>5, <3>7 DEF TypeOK, Grown
    <3> QED BY <1>2, <3>2, <3>5, <3>7, <3>8, HandlesKept, Quiet DEF IInv
  <2> QED BY <2>1, <2>2
<1>18. ASSUME NEW h \in Has(p), UnlinkProcess(p, h)
       PROVE  IInv'
  <2>1. CASE Traps(p)
    BY <1>2, <2>1, DiesInvariant DEF Traps
  <2>2. CASE ~Traps(p)
    <3>1. /\ links' \subseteq links
          /\ UNCHANGED <<count, ended, handles, registry, mbox, call, replyTag, linkTag, signals, answer, strayed>>
      BY <1>18, <2>2 DEF UnlinkProcess
    <3>2. Grown
      BY <3>1, GrownBy
    <3>3. HandlesSound' /\ SignalsTrue' /\ links' \subseteq Links
      BY <3>1, <3>2, HandlesKept, SignalsKept
    <3>4. TypeOK'
      BY <1>1, <1>2, <3>1, <3>3 DEF TypeOK
    <3> QED BY <1>2, <3>1, <3>2, <3>3, <3>4, Quiet DEF IInv
  <2> QED BY <2>1, <2>2
<1> QED BY <1>5, <1>6, <1>8, <1>9, <1>10, <1>13, <1>14, <1>15, <1>16, <1>17, <1>18 DEF Act

\* So does the death of a link.
LEMMA LinkDiesInvariant ==
  ASSUME IInv, NEW l \in signals, LinkDies(l), UNCHANGED acts
  PROVE  IInv'
<1>1. TypeOK /\ l \in Links /\ l.to \in ended /\ OneTook(l.tag, l.of, l.to)
  BY DEF IInv, TypeOK, SignalsTrue
<1>2. l.of \in Processes /\ l.to \in Processes /\ l.tag \in Nat \ {0} /\ acts' \in 0..MaxActs
  BY <1>1 DEF Links, TypeOK
<1>3. PICK q \in Processes : q = l.of
  BY <1>2
<1>4. CASE Dies(q, signals \ {l})
  BY <1>2, <1>4, DiesInvariant
<1>5. ASSUME NEW m, m = [kind |-> "signal", tag |-> l.tag, by |-> l.to], Deliver(q, m), signals' = signals \ {l},
             UNCHANGED <<count, ended, handles, registry, call, replyTag, linkTag, links, answer, strayed>>
      PROVE  IInv'
  <2>1. /\ m \in Signals /\ m \in Messages /\ m.kind = "signal" /\ m.kind \notin {"gift", "request", "reply"}
        /\ m.by = l.to /\ m.tag = l.tag
    BY <1>2, <1>5 DEF Signals, Messages
  <2>2. Grown
    BY <1>2, <1>5, GrownBy
  <2>3. Only(q, {m}) /\ \A d \in Processes : Len(mbox[d]) <= Len(mbox'[d])
    BY <1>5, <2>1, Delivered
  <2>4. Fine(q, m)'
    BY <1>1, <1>3, <1>5, <2>1 DEF Fine, OneTook
  <2>5. \A d \in Processes : replyTag'[d] \in Nat /\ replyTag'[d] >= replyTag[d] /\ call'[d] = call[d]
    BY <1>1, <1>5 DEF TypeOK, Tags
  <2>6. MailFine'
    BY <1>5, <2>2, <2>3, <2>4, <2>5, StaysFine
  <2>7. TagsTaken' /\ HandlesSound' /\ SignalsTrue' /\ OwnAnswers' /\ signals' \subseteq Links
    BY <1>5, <2>2, <2>5, TagsKept, HandlesKept, SignalsKept, AnswersKept
  <2>8. TypeOK'
    <3>1. mbox' \in [Processes -> Seq(Messages)]
      BY <2>3 DEF Only
    <3>2. \A d \in Processes : call'[d] # NoCall => call'[d].skip <= Len(mbox'[d])
      <4>1. \A d \in Processes : call[d] # NoCall => call[d].skip \in Nat /\ call[d].skip <= Len(mbox[d])
        BY <1>1 DEF TypeOK, Calls
      <4>2. \A d \in Processes : Len(mbox'[d]) \in Nat /\ Len(mbox[d]) \in Nat
        BY <1>1, <3>1 DEF TypeOK
      <4> QED BY <1>5, <2>3, <4>1, <4>2
    <3> QED BY <1>1, <1>2, <1>5, <2>7, <3>1, <3>2 DEF TypeOK
  <2> QED BY <2>6, <2>7, <2>8 DEF IInv
<1>6. Deliver(q, [kind |-> "signal", tag |-> l.tag, by |-> l.to]) /\ signals' = signals \ {l}
      /\ UNCHANGED <<count, ended, handles, registry, call, replyTag, linkTag, links, answer, strayed>>
      => IInv'
  BY <1>5
<1> QED BY <1>3, <1>4, <1>6 DEF LinkDies

\* So does what a process does that serves its mailbox, and a timeout.
LEMMA WorkInvariant ==
  ASSUME IInv, NEW p \in Processes, Work(p) \/ (Timeout(p) /\ UNCHANGED acts)
  PROVE  IInv'
<1>1. TypeOK /\ HandlesSound /\ MailFine /\ OwnAnswers /\ p[1] \in Nodes /\ p[2] \in 1..MaxId /\ p = <<p[1], p[2]>>
  BY DEF IInv, Processes
<1>2. acts' = acts /\ acts' \in {acts, acts + 1} /\ acts' \in 0..MaxActs
  BY <1>1 DEF Work, TypeOK
<1>3. mbox \in [Processes -> Seq(Messages)] /\ \A q \in Processes : replyTag[q] \in Nat /\ Len(mbox[q]) \in Nat
  BY <1>1 DEF TypeOK, Messages, Tags
<1>4. ASSUME NEW m, mbox[p] # <<>>, m = Head(mbox[p])
      PROVE  m \in Messages /\ Fine(p, m)
  <2>1. mbox[p] \in Seq(Messages)
    BY <1>3
  <2>2. 1 \in DOMAIN mbox[p] /\ m = mbox[p][1]
    BY <1>4, <2>1, TailWithout
  <2> QED BY <1>1, <2>1, <2>2 DEF MailFine
<1>5. ASSUME NEW m, m = Head(mbox[p]), ReceiveGift(p)
      PROVE  IInv'
  <2>1. /\ call[p] = NoCall /\ mbox[p] # <<>> /\ m.kind = "gift"
        /\ handles' = [handles EXCEPT ![p] = @ \cup {m.handle}]
        /\ mbox' = [mbox EXCEPT ![p] = Tail(@)]
        /\ UNCHANGED <<count, ended, registry, call, replyTag, linkTag, links, signals, answer, strayed>> /\ Grown
    BY <1>5, GrownBy DEF ReceiveGift, Receive, Idle, Get, linkVars
  <2>2. m.handle \in Handles /\ Sound(p[1], m.handle)
    BY <1>4, <1>5, <2>1 DEF Messages, Requests, Replies, Gifts, Signals, Fine
  <2>3. handles' \in [Processes -> SUBSET Handles]
    BY <1>1, <2>1, <2>2 DEF TypeOK
  <2>4. HandlesSound'
    BY <1>1, <2>1, <2>2 DEF HandlesSound, Sound, At, TypeOK
  <2>5. /\ mbox' \in [Processes -> Seq(Messages)]
        /\ \A d \in Processes : call'[d] # NoCall => call'[d].skip <= Len(mbox'[d])
        /\ TagsTaken' /\ MailFine' /\ OwnAnswers'
    BY <1>2, <2>1, Takes
  <2>6. TypeOK'
    BY <1>1, <1>2, <2>1, <2>3, <2>5 DEF TypeOK
  <2> QED BY <2>1, <2>4, <2>5, <2>6, SignalsKept DEF IInv
<1>6. ASSUME Skip(p)
      PROVE  IInv'
  <2>1. /\ call[p] = NoCall /\ mbox[p] # <<>> /\ mbox' = [mbox EXCEPT ![p] = Tail(@)]
        /\ UNCHANGED <<count, ended, handles, registry, call, replyTag, linkTag, links, signals, answer, strayed>>
        /\ Grown
    BY <1>6, GrownBy DEF Skip, Receive, Idle, linkVars
  <2>2. /\ mbox' \in [Processes -> Seq(Messages)]
        /\ \A d \in Processes : call'[d] # NoCall => call'[d].skip <= Len(mbox'[d])
        /\ TagsTaken' /\ MailFine' /\ OwnAnswers'
    BY <1>2, <2>1, Takes
  <2>3. TypeOK'
    BY <1>1, <1>2, <2>1, <2>2 DEF TypeOK
  <2> QED BY <2>1, <2>2, <2>3, HandlesKept, SignalsKept DEF IInv
<1>7. ASSUME UNCHANGED <<count, ended, handles, registry, replyTag, linkVars, strayed>>,
             call' = [call EXCEPT ![p] = NoCall],
             Only(p, {}), \A d \in Processes \ {p} : mbox'[d] = mbox[d]
      PROVE  /\ TagsTaken' /\ HandlesSound' /\ SignalsTrue' /\ MailFine' /\ Grown
             /\ answer' \in [Processes -> Answers \cup {NoAnswer}] => TypeOK'
  <2>1. call' \in [Processes -> Calls \cup {NoCall}] /\ \A d \in Processes : call'[d] \in {call[d], NoCall}
    BY <1>1, <1>7 DEF TypeOK
  <2>2. \A d \in Processes : replyTag'[d] \in Nat /\ replyTag'[d] >= replyTag[d]
    BY <1>3, <1>7
  <2> UNCHANGED <<linkTag, links, signals>> /\ Grown
    BY <1>7, GrownBy DEF linkVars
  <2>3. MailFine'
    BY <1>7, <2>1, <2>2, StaysFine
  <2>4. TagsTaken' /\ HandlesSound' /\ SignalsTrue'
    BY <1>2, <1>7, <2>1, TagsKept, HandlesKept, SignalsKept
  <2>5. \A d \in Processes : call'[d] # NoCall => call'[d].skip <= Len(mbox'[d])
    BY <1>1, <1>7 DEF TypeOK
  <2>6. mbox' \in [Processes -> Seq(Messages)]
    BY <1>7 DEF Only
  <2>7. answer' \in [Processes -> Answers \cup {NoAnswer}] => TypeOK'
    BY <1>1, <1>2, <1>7, <2>1, <2>5, <2>6 DEF TypeOK
  <2> QED BY <2>3, <2>4, <2>7
<1>8. ASSUME Timeout(p)
      PROVE  IInv'
  <2>1. /\ call' = [call EXCEPT ![p] = NoCall]
        /\ UNCHANGED <<count, ended, handles, registry, mbox, replyTag, linkVars, answer, strayed>>
    BY <1>8 DEF Timeout, Wake
  <2>2. Only(p, {})
    BY <1>3, <2>1 DEF Only
  <2>3. answer' \in [Processes -> Answers \cup {NoAnswer}]
    BY <1>1, <2>1 DEF TypeOK
  <2> QED BY <1>7, <2>1, <2>2, <2>3, AnswersKept DEF IInv
<1>9. ASSUME NEW i \in Matches(p), NEW m, m = mbox[p][i], NEW c, c = call[p], c # NoCall,
             answer' = [answer EXCEPT ![p] = [message |-> m, call |-> c]],
             mbox' = [mbox EXCEPT ![p] = RemoveAt(@, i)], Wake(p),
             UNCHANGED <<count, ended, handles, registry, replyTag, linkVars, strayed>>
      PROVE  IInv'
  <2>1. i \in DOMAIN mbox[p] /\ m.tag = c.tag
    BY <1>9 DEF Matches
  <2>2. Taking(p, RemoveAt(mbox[p], i)) /\ mbox' = [mbox EXCEPT ![p] = RemoveAt(mbox[p], i)]
    BY <1>9, <2>1 DEF Taking
  <2>3. Only(p, {}) /\ \A d \in Processes \ {p} : mbox'[d] = mbox[d]
    BY <2>2, Taken
  <2>4. c \in Calls /\ c.tag \in Nat \ {0}
    BY <1>1, <1>9 DEF TypeOK, Calls, Tags
  <2>5. m \in Messages /\ Fine(p, m)
    BY <1>1, <1>3, <1>9, <2>1 DEF MailFine
  <2>6. m \in Requests \cup Replies \cup Signals
    BY <2>1, <2>4, <2>5 DEF Messages, Gifts
  <2>7. \/ m \in Requests \cup Replies /\ m.kind \in {"request", "reply"} /\ Placed(p, m)
        \/ m.kind = "signal" /\ m.by \in Processes /\ m.tag \in Nat /\ m.by \in ended /\ OneTook(m.tag, p, m.by)
    BY <2>5, <2>6 DEF Requests, Replies, Signals, Fine
  <2>8. [message |-> m, call |-> c] \in Answers
    BY <2>4, <2>6 DEF Answers
  <2>9. answer' \in [Processes -> Answers \cup {NoAnswer}] /\ answer'[p] = [message |-> m, call |-> c]
    BY <1>1, <1>9, <2>8 DEF TypeOK
  <2>10. TagsTaken' /\ HandlesSound' /\ SignalsTrue' /\ MailFine' /\ TypeOK' /\ Grown
    BY <1>7, <1>9, <2>3, <2>9 DEF Wake
  <2>11. \/ m.kind = "reply" /\ m.to = p /\ m.by = Reached(p, c.handle) /\ m.by[1] = p[1]
         \/ m.kind = "reply" /\ m.to[1] # p[1] /\ m.to[2] = p[2]
         \/ m.kind = "request" /\ (m.from = p => Reached(p, c.handle) = p)
         \/ m.kind = "signal" /\ m.by \in ended' /\ OneTook(m.tag, p, m.by)'
    <3>1. CASE m.kind = "request"
      BY <1>9, <2>1, <2>7, <3>1 DEF Placed, Asker, Asking
    <3>2. CASE m.kind = "reply" /\ m.to = p
      BY <1>9, <2>1, <2>7, <3>2 DEF Placed, Asker, Asking
    <3>3. CASE m.kind = "reply" /\ m.to # p
      <4>1. m.to \in Processes
        BY <2>7, <3>3 DEF Requests, Replies
      <4>2. m.to[2] = p[2] /\ m.to = <<m.to[1], m.to[2]>>
        BY <2>7, <3>3, <4>1 DEF Placed, Processes
      <4> QED BY <1>1, <3>3, <4>2
    <3>4. CASE m.kind = "signal"
      <4>1. m.by \in ended' /\ OneTook(m.tag, p, m.by)'
        BY <2>7, <2>10, <3>4, StaysTaken DEF Grown
      <4> QED BY <3>4, <4>1
    <3> QED BY <2>7, <3>1, <3>2, <3>3, <3>4
  <2>12. OwnAnswers'
    <3>1. \A d \in Processes \ {p} : answer'[d] = answer[d]
      BY <1>1, <1>9 DEF TypeOK
    <3>2. answer'[p].message = m /\ answer'[p].call = c
      BY <2>9
    <3>3. ASSUME NEW d \in Processes \ {p}, answer[d] # NoAnswer, NEW o, o = answer[d].message, o.kind = "signal",
                 o.by \in ended, OneTook(o.tag, d, o.by)
          PROVE  o.by \in ended' /\ OneTook(o.tag, d, o.by)'
      <4>1. o.by \in Processes /\ o.tag \in Nat
        BY <1>1, <3>3 DEF TypeOK, Answers, Requests, Replies, Signals
      <4> QED BY <2>10, <3>3, <4>1, StaysTaken DEF Grown
    <3> QED BY <1>1, <2>1, <2>11, <3>1, <3>2, <3>3 DEF OwnAnswers, Reached, OneTook
  <2> QED BY <2>10, <2>12 DEF IInv
<1>10. ASSUME GetAnswer(p)
       PROVE  IInv'
  <2>1. PICK i \in Matches(p) : /\ answer' = [answer EXCEPT ![p] = [message |-> mbox[p][i], call |-> call[p]]]
                                /\ mbox' = [mbox EXCEPT ![p] = RemoveAt(@, i)]
    BY <1>10 DEF GetAnswer
  <2> QED BY <1>9, <1>10, <2>1 DEF GetAnswer
<1>11. ASSUME Serve(p), NEW m, m = Head(mbox[p]), NEW a, a = Reply(p, m), NEW q, q = ReplyTo(p, m)
       PROVE  IInv'
  <2>1. /\ call[p] = NoCall /\ mbox[p] # <<>> /\ m.kind = "request"
        /\ UNCHANGED <<count, ended, handles, registry, call, replyTag, links, signals, answer, strayed>>
        /\ Grown
    BY <1>11, GrownBy DEF Serve, Receive, Idle
  <2>2. m \in Requests /\ Placed(p, m)
    BY <1>4, <1>11, <2>1 DEF Messages, Requests, Replies, Gifts, Signals, Fine
  <2>3. a \in Replies /\ a \in Messages /\ a.kind = "reply" /\ a.tag = m.tag /\ a.to = m.from /\ a.by = p
    BY <1>11, <2>2 DEF Reply, Replies, Requests, Messages
  <2>4. q \in Processes /\ q[1] = p[1] /\ q[2] = m.from[2]
    BY <1>1, <1>11, <2>1, <2>2 DEF ReplyTo, Processes, Requests, Placed
  <2>5. Fine(q, a)
    BY <2>1, <2>2, <2>3, <2>4 DEF Fine, Placed, Asker, Asking
  <2>6. Fine(q, a)'
    BY <2>1, <2>3, <2>5 DEF Fine, Placed, Asker, Asking
  <2> DEFINE r == Tail(mbox[p])
             rest == [mbox EXCEPT ![p] = r]
             grown == [rest EXCEPT ![q] = Append(@, a)]
  <2>7. mbox' = IF q \in Running THEN grown ELSE rest
    BY <1>11 DEF Serve
  <2>8. r \in Seq(Messages) /\ \A j \in DOMAIN r : \E k \in DOMAIN mbox[p] : r[j] = mbox[p][k]
    <3>1. Taking(p, r)
      BY <2>1 DEF Taking
    <3> HIDE DEF r
    <3> QED BY <3>1, Left
  <2> HIDE DEF r
  <2>9. rest \in [Processes -> Seq(Messages)] /\ rest[p] = r /\ \A d \in Processes \ {p} : rest[d] = mbox[d]
    BY <1>3, <2>8
  <2> HIDE DEF rest
  <2>10. rest[q] \in Seq(Messages) /\ Len(rest[q]) \in Nat
    BY <2>4, <2>9
  <2>11. /\ Append(rest[q], a) \in Seq(Messages) /\ Len(Append(rest[q], a)) = Len(rest[q]) + 1
         /\ \A i \in DOMAIN Append(rest[q], a) :
              Append(rest[q], a)[i] = a \/ \E k \in DOMAIN rest[q] : Append(rest[q], a)[i] = rest[q][k]
    BY <2>3, <2>10, Appended
  <2>12. /\ grown \in [Processes -> Seq(Messages)] /\ grown[q] = Append(rest[q], a)
         /\ \A d \in Processes \ {q} : grown[d] = rest[d]
    BY <2>4, <2>9, <2>11
  <2> HIDE DEF grown
  <2>13. \A d \in Processes : \A i \in DOMAIN rest[d] : \E k \in DOMAIN mbox[d] : rest[d][i] = mbox[d][k]
    <3>1. ASSUME NEW d \in Processes, NEW i \in DOMAIN rest[d]
          PROVE  \E k \in DOMAIN mbox[d] : rest[d][i] = mbox[d][k]
      <4>1. CASE d = p
        BY <2>8, <2>9, <3>1, <4>1
      <4>2. CASE d # p
        BY <2>9, <3>1, <4>2
      <4> QED BY <4>1, <4>2
    <3> QED BY <3>1
  <2>14. Only(q, {a})
    <3>1. CASE q \in Running
      <4>1. ASSUME NEW d \in Processes, NEW i \in DOMAIN grown[d]
            PROVE  (d = q /\ grown[d][i] \in {a}) \/ \E k \in DOMAIN mbox[d] : grown[d][i] = mbox[d][k]
        <5>1. CASE d = q /\ grown[d][i] = a
          BY <5>1
        <5>2. CASE \E k \in DOMAIN rest[d] : grown[d][i] = rest[d][k]
          BY <2>13, <5>2
        <5>3. (d = q /\ grown[d][i] = a) \/ \E k \in DOMAIN rest[d] : grown[d][i] = rest[d][k]
          <6>1. CASE d = q
            BY <2>11, <2>12, <4>1, <6>1
          <6>2. CASE d # q
            BY <2>12, <4>1, <6>2
          <6> QED BY <6>1, <6>2
        <5> QED BY <5>1, <5>2, <5>3
      <4> QED BY <2>7, <2>12, <3>1, <4>1 DEF Only
    <3>2. CASE q \notin Running
      BY <2>7, <2>9, <2>13, <3>2 DEF Only
    <3> QED BY <3>1, <3>2
  <2>15. \A d \in Processes \ {p} : Len(mbox[d]) <= Len(mbox'[d])
    <3>1. ASSUME NEW d \in Processes \ {p}
          PROVE  Len(rest[d]) = Len(mbox[d]) /\ Len(mbox[d]) \in Nat
      BY <1>3, <2>9
    <3>2. CASE q \in Running
      <4>1. Len(grown[q]) = Len(rest[q]) + 1
        BY <2>11, <2>12
      <4> QED BY <2>7, <2>10, <2>12, <3>1, <3>2, <4>1
    <3>3. CASE q \notin Running
      BY <2>7, <3>1, <3>3
    <3> QED BY <3>2, <3>3
  <2>16. MailFine'
    <3>1. \A d \in Processes : replyTag'[d] \in Nat /\ replyTag'[d] >= replyTag[d] /\ call'[d] = call[d]
      BY <1>3, <2>1
    <3>2. strayed => strayed'
      BY <2>1
    <3> QED BY <2>1, <2>6, <2>14, <3>1, <3>2, StaysFine
  <2>17. TypeOK'
    <3>1. mbox' \in [Processes -> Seq(Messages)]
      BY <2>14 DEF Only, Messages
    <3>2. \A d \in Processes : call'[d] # NoCall => call'[d].skip <= Len(mbox'[d])
      <4>1. \A d \in Processes : call[d] # NoCall => call[d].skip \in Nat /\ call[d].skip <= Len(mbox[d])
        BY <1>1 DEF TypeOK, Calls
      <4>2. \A d \in Processes : Len(mbox'[d]) \in Nat
        BY <3>1
      <4> QED BY <1>3, <2>1, <2>15, <4>1, <4>2
    <3> QED BY <1>1, <1>2, <2>1, <3>1, <3>2 DEF TypeOK, Grown
  <2>18. TagsTaken' /\ HandlesSound' /\ SignalsTrue' /\ OwnAnswers'
    BY <1>2, <2>1, TagsKept, HandlesKept, SignalsKept, AnswersKept
  <2> QED BY <2>16, <2>17, <2>18 DEF IInv
<1>12. ReceiveGift(p) \/ Serve(p) => IInv'
  BY <1>5, <1>11
<1> QED BY <1>6, <1>8, <1>10, <1>12 DEF Work
-----------------------------------------------------------------------------
\* The invariant is inductive.
LEMMA StepInvariant == IInv /\ [Next]_vars => IInv'
<1> SUFFICES ASSUME IInv, [Next]_vars
             PROVE  IInv'
  OBVIOUS
<1>1. CASE Next
  BY <1>1, ActInvariant, WorkInvariant, LinkDiesInvariant DEF Next
<1>2. CASE UNCHANGED vars
  <2>1. UNCHANGED vars /\ UNCHANGED <<linkTag, links, signals>>
    BY <1>2 DEF vars, linkVars
  <2>2. TypeOK'
    BY <2>1 DEF vars, IInv, TypeOK
  <2>3. Grown
    BY <2>1 DEF vars, Grown, IInv, TypeOK
  <2>4. HandlesSound' /\ SignalsTrue' /\ TagsTaken' /\ MailFine' /\ OwnAnswers'
    BY <2>1, <2>3, HandlesKept, SignalsKept, Quiet DEF vars
  <2> QED BY <2>2, <2>4 DEF IInv
<1> QED BY <1>1, <1>2

THEOREM Invariant == Spec => []IInv
<1> QED BY InitInvariant, StepInvariant, PTL DEF Spec

\* Types: tags stay below the bound that the acts allow.
THEOREM TypeCorrect == Spec => []TypeOK
<1>1. IInv => TypeOK
  BY DEF IInv
<1> QED BY <1>1, Invariant, PTL

\* A handle that names its node leads to the process it was made for wherever it was
\* sent and registered, and one that does not while none was sent to another node.
THEOREM HandlesFaithful == Spec => []Faithful
<1>1. IInv => Faithful
  BY DEF IInv, HandlesSound, Faithful, Sound, At, Reached
<1> QED BY <1>1, Invariant, PTL

\* A request ends with the reply of the process it was sent to, unless that is on
\* another node, or a request or the signal of a process that died has the same tag;
\* the tag of such a signal is an id or a link tag that one of the two took.
THEOREM AnswersOwn == Spec => []OwnAnswers
<1>1. IInv => OwnAnswers
  BY DEF IInv
<1> QED BY <1>1, Invariant, PTL

-------------------------------------------------------------------------------
(*****************************************************************************)
(* Files: reads, writes and listings.                                        *)
(*****************************************************************************)
\* A file that no two writes have open at once is empty while one has it open.
OneWriter ==
  \A i \in Files \ mixed : \A p \in Writers(i) : data[i] = <<>> /\ \A q \in Writers(i) : q = p

\* A reader knows the size of a file that did not change.
SizeKnown == \A p \in Clients : pc[p] = "read" /\ p \notin changed => arg[p] = Len(data[fd[p]])

\* A name that stayed is there, and one that is there is seen.
Watched ==
  \A p \in Clients : pc[p] = "list" => stayed[p] \subseteq Present(dir) /\ Present(dir) \subseteq seen[p]

\* What FilesTypeOK says of the open descriptors.
Descriptors ==
  \A p \in Clients : (fd[p] # Closed <=> pc[p] \in Calling) /\ (fd[p] = Root <=> pc[p] = "list")

FilesIInv == FilesTypeOK /\ OneWriter /\ OneWrite /\ SizeKnown /\ Watched
-----------------------------------------------------------------------------
\* The contents of files are sequences of bytes.
LEMMA Contents ==
  ASSUME FilesTypeOK
  PROVE  /\ Files = 1..Len(data) /\ Len(data) \in Nat
         /\ \A i \in Files : data[i] \in Seq(Bytes) /\ Len(data[i]) \in Nat
BY DEF FilesTypeOK, Files

\* A function on the first numbers is a sequence.
LEMMA Numbered ==
  ASSUME NEW n \in Nat, NEW T, NEW x \in [1..n -> T]
  PROVE  x \in Seq(T)
BY SeqDef, Zenon

\* The initial state satisfies the invariant.
LEMMA FilesInitInvariant == FilesInit => FilesIInv
<1> SUFFICES ASSUME FilesInit
             PROVE  FilesIInv
  OBVIOUS
<1> PICK S \in SUBSET Names, D \in SUBSET Names :
      /\ D \subseteq S
      /\ \E f \in [S -> 1..Cardinality(S)] :
           /\ dir = [n \in Names |-> IF n \in S THEN f[n] ELSE Absent]
           /\ folder = {f[n] : n \in D}
      /\ data = [i \in 1..Cardinality(S) |-> IF i \in folder THEN <<>> ELSE <<First>>]
  BY DEF FilesInit
<1>1. PICK f \in [S -> 1..Cardinality(S)] :
        /\ dir = [n \in Names |-> IF n \in S THEN f[n] ELSE Absent]
        /\ folder = {f[n] : n \in D}
  OBVIOUS
<1>2. Cardinality(S) \in Nat
  BY FilesAssumption, FS_Subset, FS_CardinalityType
<1>3. <<>> \in Seq(Bytes) /\ <<First>> \in Seq(Bytes)
  BY DEF Bytes
<1>4. data \in Seq(Seq(Bytes)) /\ Files = 1..Cardinality(S)
  <2>1. data \in [1..Cardinality(S) -> Seq(Bytes)]
    BY <1>3
  <2>2. data \in Seq(Seq(Bytes))
    BY <1>2, <2>1, Numbered, Zenon
  <2> QED BY <2>1, <2>2 DEF Files
<1>5. dir \in [Names -> Files \cup {Absent}] /\ folder \subseteq Files
  BY <1>1, <1>4
<1>6. FilesTypeOK
  BY <1>4, <1>5, FilesAssumption DEF FilesInit, FilesTypeOK, Events, Calling
<1>7. OneWriter /\ SizeKnown /\ Watched
  BY DEF FilesInit, OneWriter, Writers, SizeKnown, Watched
<1>8. OneWrite
  <2>1. ASSUME NEW i \in Files, NEW j \in DOMAIN data[i]
        PROVE  data[i][j] = data[i][1]
    <3>1. data[i] = <<>> \/ data[i] = <<First>>
      BY <1>1, <1>4
    <3> QED BY <2>1, <3>1
  <2> QED BY <2>1 DEF OneWrite
<1> QED BY <1>6, <1>7, <1>8 DEF FilesIInv
-----------------------------------------------------------------------------
\* No file changes: clients leave, or go on to what is no write.
LEMMA DataKept ==
  ASSUME FilesIInv, UNCHANGED <<data, mixed>>,
         \A q \in Clients : pc'[q] = "write" => pc[q] = "write" /\ fd'[q] = fd[q]
  PROVE  OneWriter' /\ OneWrite'
<1>1. \A i : Writers(i)' \subseteq Writers(i)
  BY DEF Writers
<1> QED BY <1>1 DEF FilesIInv, OneWriter, OneWrite, Files

\* The client p may stop reading, and the others stay at what they do.
LEMMA SizeKept ==
  ASSUME FilesIInv, NEW p \in Clients, UNCHANGED data, changed \subseteq changed' \cup {p}, pc'[p] # "read",
         \A q \in Clients \ {p} : pc'[q] = pc[q] /\ arg'[q] = arg[q] /\ fd'[q] = fd[q]
  PROVE  SizeKnown'
BY DEF FilesIInv, SizeKnown

LEMMA WatchKept ==
  ASSUME FilesIInv, UNCHANGED <<dir, stayed, seen>>, \A q \in Clients : pc'[q] = "list" => pc[q] = "list"
  PROVE  Watched'
BY DEF FilesIInv, Watched, Present

\* The directory changes.
LEMMA Entered ==
  ASSUME FilesIInv, NEW d, Enter(d), \A q \in Clients : pc'[q] = "list" => pc[q] = "list"
  PROVE  Watched' /\ stayed' \in [Clients -> SUBSET Names] /\ seen' \in [Clients -> SUBSET Names]
<1>1. FilesTypeOK /\ Watched /\ Present(d) \subseteq Names
  BY DEF FilesIInv, Present
<1>2. \A q \in Clients : stayed'[q] = stayed[q] \cap Present(d)
  BY DEF Enter
<1>3. \A q \in Clients : pc[q] = "list" => seen'[q] = seen[q] \cup Present(d)
  BY DEF Enter
<1>4. Watched'
  BY <1>1, <1>2, <1>3 DEF Watched, Enter, Present
<1>5. stayed' \in [Clients -> SUBSET Names]
  BY <1>1 DEF Enter, FilesTypeOK
<1>6. seen' \in [Clients -> SUBSET Names]
  BY <1>1 DEF Enter, FilesTypeOK
<1> QED BY <1>4, <1>5, <1>6
-----------------------------------------------------------------------------
\* The first call of WASI preserves the invariant.
LEMMA StartInvariant ==
  ASSUME FilesIInv, NEW p \in Clients, Start(p)
  PROVE  FilesIInv'
<1>1. FilesTypeOK /\ SizeKnown /\ Watched /\ Len(data) \in Nat /\ Files = 1..Len(data)
  BY Contents DEF FilesIInv
<1>2. pc[p] = "idle" /\ fd[p] = Closed
  <2>1. pc[p] = "idle"
    BY DEF Start, OpenDir, Settled, OpenRead, Unlink, OpenWrite, Rename, Begin, Once
  <2> QED BY <1>1, <2>1 DEF FilesTypeOK, Calling
<1>3. ASSUME OpenDir(p)
      PROVE  FilesIInv'
  <2>1. /\ pc' = [pc EXCEPT ![p] = "list"] /\ arg' = [arg EXCEPT ![p] = Capacity] /\ event' = Nothing
        /\ stayed' = [stayed EXCEPT ![p] = Present(dir)] /\ seen' = [seen EXCEPT ![p] = Present(dir)]
        /\ fd' = [fd EXCEPT ![p] = Root] /\ UNCHANGED <<dir, data, folder, changes, changed, mixed>>
    BY <1>3 DEF OpenDir, Begin, store
  <2>2. /\ pc'[p] = "list" /\ fd'[p] = Root
        /\ \A q \in Clients \ {p} : pc'[q] = pc[q] /\ fd'[q] = fd[q]
    BY <1>1, <2>1 DEF FilesTypeOK
  <2>3. Watched'
    BY <1>1, <2>1, <2>2 DEF Watched, Present, FilesTypeOK
  <2>4. OneWriter' /\ OneWrite' /\ SizeKnown'
    BY <1>1, <2>1, <2>2, DataKept, SizeKept DEF FilesTypeOK
  <2>5. pc' \in [Clients -> Calling \cup {"idle", "ended", "stuck"}] /\ arg' \in [Clients -> Nat]
    BY <1>1, <2>1, FilesAssumption DEF FilesTypeOK, Calling
  <2>6. stayed' \in [Clients -> SUBSET Names] /\ seen' \in [Clients -> SUBSET Names] /\ event' \in Events
    BY <1>1, <2>1 DEF FilesTypeOK, Present, Events
  <2>7. Descriptors'
    BY <1>1, <1>2, <2>1, <2>2, FilesAssumption DEF FilesTypeOK, Descriptors, Calling
  <2>8. FilesTypeOK'
    BY <1>1, <2>1, <2>5, <2>6, <2>7 DEF FilesTypeOK, Descriptors, Files
  <2> QED BY <2>3, <2>4, <2>8 DEF FilesIInv
<1>4. ASSUME Once(p), UNCHANGED <<data, folder, changed, mixed>>, changes' \in Nat,
             dir' \in [Names -> Files \cup {Absent}],
             stayed' \in [Clients -> SUBSET Names], seen' \in [Clients -> SUBSET Names], Watched'
      PROVE  FilesIInv'
  <2>1. UNCHANGED <<pc, fd, arg>> /\ event' \in Events
    BY <1>4 DEF Once, Events
  <2>2. OneWriter' /\ OneWrite' /\ SizeKnown'
    BY <1>1, <1>2, <1>4, <2>1, DataKept, SizeKept
  <2>3. FilesTypeOK'
    BY <1>1, <1>4, <2>1 DEF FilesTypeOK, Descriptors, Files
  <2> QED BY <1>4, <2>2, <2>3 DEF FilesIInv
<1>5. ASSUME Settled(p)
      PROVE  FilesIInv'
  <2>1. Once(p) /\ UNCHANGED <<dir, data, folder, changes, changed, mixed, stayed, seen, pc>>
    BY <1>5 DEF Settled, store, ghosts, Once
  <2>2. Watched'
    BY <2>1, WatchKept
  <2> QED BY <1>1, <1>4, <2>1, <2>2 DEF FilesTypeOK
<1>6. ASSUME NEW d \in [Names -> Files \cup {Absent}], Enter(d), Once(p), Change,
             UNCHANGED <<data, folder, changed, mixed>>
      PROVE  FilesIInv'
  <2>1. UNCHANGED pc /\ changes' \in Nat /\ dir' = d
    BY <1>1, <1>6 DEF Once, Change, FilesTypeOK, Enter
  <2> QED BY <1>4, <1>6, <2>1, Entered
<1>7. ASSUME NEW m \in Names, NEW n \in Names, Rename(p, m, n)
      PROVE  FilesIInv'
  <2>1. dir \in [Names -> Files \cup {Absent}]
    BY <1>1 DEF FilesTypeOK
  <2>2. (IF m = n THEN dir ELSE [dir EXCEPT ![n] = dir[m], ![m] = Absent]) \in [Names -> Files \cup {Absent}]
    BY <2>1
  <2> QED BY <1>6, <1>7, <2>2 DEF Rename
<1>8. ASSUME NEW n \in Names, Unlink(p, n)
      PROVE  FilesIInv'
  <2>1. [dir EXCEPT ![n] = Absent] \in [Names -> Files \cup {Absent}]
    BY <1>1 DEF FilesTypeOK
  <2> QED BY <1>6, <1>8, <2>1 DEF Unlink
<1>9. ASSUME NEW n \in Names, OpenRead(p, n)
      PROVE  FilesIInv'
  <2>1. /\ pc' = [pc EXCEPT ![p] = "stat"] /\ arg' = [arg EXCEPT ![p] = 0] /\ event' = Nothing
        /\ fd' = [fd EXCEPT ![p] = dir[n]] /\ dir[n] \in Files
        /\ UNCHANGED <<dir, data, folder, changes, changed, mixed, stayed, seen>>
    BY <1>1, <1>9 DEF OpenRead, Begin, store, ghosts, FilesTypeOK
  <2>2. /\ pc'[p] = "stat" /\ fd'[p] = dir[n]
        /\ \A q \in Clients \ {p} : pc'[q] = pc[q] /\ arg'[q] = arg[q] /\ fd'[q] = fd[q]
    BY <1>1, <2>1 DEF FilesTypeOK
  <2>3. dir[n] \notin {Closed, Root}
    BY <1>1, <2>1, FilesAssumption
  <2>4. OneWriter' /\ OneWrite' /\ SizeKnown' /\ Watched'
    BY <2>1, <2>2, DataKept, SizeKept, WatchKept
  <2>5. Descriptors'
    BY <1>1, <2>2, <2>3 DEF FilesTypeOK, Descriptors, Calling
  <2>6. FilesTypeOK'
    BY <1>1, <2>1, <2>5 DEF FilesTypeOK, Descriptors, Calling, Events, Files
  <2> QED BY <2>4, <2>6 DEF FilesIInv
<1>10. ASSUME NEW n \in Names, NEW len \in Lengths, OpenWrite(p, n, len)
       PROVE  FilesIInv'
  <2>1. /\ pc' = [pc EXCEPT ![p] = "write"] /\ arg' = [arg EXCEPT ![p] = len] /\ event' = Nothing
        /\ changes' \in Nat /\ dir[n] \in Files \cup {Absent}
    BY <1>1, <1>10 DEF OpenWrite, Change, Begin, FilesTypeOK
  <2>2. pc'[p] = "write" /\ \A q \in Clients \ {p} : pc'[q] = pc[q] /\ arg'[q] = arg[q]
    BY <1>1, <2>1 DEF FilesTypeOK
  <2>3. /\ pc' \in [Clients -> Calling \cup {"idle", "ended", "stuck"}] /\ arg' \in [Clients -> Nat]
        /\ event' \in Events
    BY <1>1, <2>1, FilesAssumption DEF FilesTypeOK, Calling, Events
  <2>4. <<>> \in Seq(Bytes)
    OBVIOUS
  <2>5. ASSUME NEW i, i = dir[n], dir[n] # Absent
        PROVE  FilesIInv'
    <3>1. /\ i \in Files /\ fd' = [fd EXCEPT ![p] = i] /\ data' = [data EXCEPT ![i] = <<>>]
          /\ changed' = changed \cup {q \in Clients : pc[q] = "read" /\ fd[q] = i /\ <<>> # data[i]}
          /\ mixed' = IF Writers(i) = {} THEN mixed \ {i} ELSE mixed \cup {i}
          /\ UNCHANGED <<dir, folder, stayed, seen>>
      BY <1>10, <2>1, <2>5 DEF OpenWrite, Emptied, Store
    <3>2. data' \in Seq(Seq(Bytes)) /\ Files' = Files
      BY <1>1, <2>4, <3>1 DEF FilesTypeOK, Files
    <3>3. data'[i] = <<>> /\ \A j \in Files \ {i} : data'[j] = data[j]
      BY <1>1, <3>1 DEF FilesTypeOK
    <3>4. fd'[p] = i /\ i \notin {Closed, Root} /\ \A q \in Clients \ {p} : fd'[q] = fd[q]
      BY <1>1, <3>1, FilesAssumption DEF FilesTypeOK
    <3>5. Writers(i)' = Writers(i) \cup {p} /\ \A j \in Files \ {i} : Writers(j)' = Writers(j)
      BY <1>2, <2>2, <3>4 DEF Writers
    <3>6. OneWriter' /\ OneWrite'
      <4>1. ASSUME NEW j \in Files' \ mixed'
            PROVE  /\ \A q \in Writers(j)' : data'[j] = <<>> /\ \A r \in Writers(j)' : r = q
                   /\ \A k \in DOMAIN data'[j] : data'[j][k] = data'[j][1]
        <5>1. CASE j = i
          BY <3>1, <3>3, <3>5, <4>1, <5>1
        <5>2. CASE j # i
          <6>1. j \in Files \ mixed
            BY <3>1, <3>2, <4>1, <5>2
          <6> QED BY <3>2, <3>3, <3>5, <5>2, <6>1 DEF FilesIInv, OneWriter, OneWrite
        <5> QED BY <5>1, <5>2
      <4> QED BY <4>1 DEF OneWriter, OneWrite
    <3>7. SizeKnown'
      <4>1. ASSUME NEW q \in Clients, pc'[q] = "read", q \notin changed'
            PROVE  arg'[q] = Len(data'[fd'[q]])
        <5>1. /\ q # p /\ pc[q] = "read" /\ q \notin changed /\ fd'[q] = fd[q] /\ arg'[q] = arg[q]
              /\ fd[q] = i => data[i] = <<>>
          BY <2>2, <3>1, <3>4, <4>1
        <5>2. fd[q] \in Files /\ arg[q] = Len(data[fd[q]])
          BY <1>1, <5>1 DEF SizeKnown, FilesTypeOK
        <5>3. data'[fd[q]] = data[fd[q]]
          BY <3>3, <5>1, <5>2
        <5> QED BY <5>1, <5>2, <5>3
      <4> QED BY <4>1 DEF SizeKnown
    <3>8. Watched'
      BY <2>2, <3>1, WatchKept
    <3>9. FilesTypeOK'
      <4>1. fd' \in [Clients -> Files \cup {Closed, Root}] /\ changed' \subseteq Clients /\ mixed' \subseteq Files
        BY <1>1, <3>1 DEF FilesTypeOK
      <4>2. Descriptors'
        BY <1>1, <2>2, <3>4, FilesAssumption DEF FilesTypeOK, Descriptors, Calling
      <4> QED BY <1>1, <2>1, <2>3, <3>1, <3>2, <4>1, <4>2 DEF FilesTypeOK, Descriptors
    <3> QED BY <3>6, <3>7, <3>8, <3>9 DEF FilesIInv
  <2>6. ASSUME NEW i, i = Len(data) + 1, NEW d, d = [dir EXCEPT ![n] = i], dir[n] = Absent
        PROVE  FilesIInv'
    <3>1. /\ fd' = [fd EXCEPT ![p] = i] /\ data' = Append(data, <<>>) /\ Enter(d)
          /\ UNCHANGED <<folder, changed, mixed>>
      BY <1>10, <2>6 DEF OpenWrite, Created
    <3>2. /\ data' \in Seq(Seq(Bytes)) /\ Files' = Files \cup {i} /\ i \notin Files /\ i \in Nat
          /\ data'[i] = <<>> /\ \A j \in Files : data'[j] = data[j]
      BY <1>1, <2>4, <2>6, <3>1 DEF FilesTypeOK, Files
    <3>3. dir' \in [Names -> Files' \cup {Absent}]
      BY <1>1, <2>6, <3>1, <3>2 DEF FilesTypeOK, Enter
    <3>4. fd'[p] = i /\ i \notin {Closed, Root} /\ \A q \in Clients \ {p} : fd'[q] = fd[q]
      BY <1>1, <3>1, <3>2, FilesAssumption DEF FilesTypeOK
    <3>5. Writers(i)' = {p} /\ \A j \in Files : Writers(j)' = Writers(j)
      <4>1. \A q \in Clients : fd[q] # i
        BY <1>1, <3>2, FilesAssumption DEF FilesTypeOK
      <4> QED BY <1>2, <2>2, <3>2, <3>4, <4>1 DEF Writers
    <3>6. OneWriter' /\ OneWrite'
      <4>1. ASSUME NEW j \in Files' \ mixed'
            PROVE  /\ \A q \in Writers(j)' : data'[j] = <<>> /\ \A r \in Writers(j)' : r = q
                   /\ \A k \in DOMAIN data'[j] : data'[j][k] = data'[j][1]
        <5>1. CASE j = i
          BY <3>2, <3>5, <5>1
        <5>2. CASE j # i
          <6>1. j \in Files \ mixed
            BY <3>1, <3>2, <4>1, <5>2
          <6> QED BY <3>2, <3>5, <6>1 DEF FilesIInv, OneWriter, OneWrite
        <5> QED BY <5>1, <5>2
      <4> QED BY <4>1 DEF OneWriter, OneWrite
    <3>7. SizeKnown'
      <4>1. ASSUME NEW q \in Clients, pc'[q] = "read", q \notin changed'
            PROVE  arg'[q] = Len(data'[fd'[q]])
        <5>1. q # p /\ pc[q] = "read" /\ q \notin changed /\ fd'[q] = fd[q] /\ arg'[q] = arg[q]
          BY <2>2, <3>1, <3>4, <4>1
        <5>2. fd[q] \in Files /\ arg[q] = Len(data[fd[q]])
          BY <1>1, <5>1 DEF SizeKnown, FilesTypeOK
        <5> QED BY <3>2, <5>1, <5>2
      <4> QED BY <4>1 DEF SizeKnown
    <3>8. Watched' /\ stayed' \in [Clients -> SUBSET Names] /\ seen' \in [Clients -> SUBSET Names]
      BY <2>2, <3>1, Entered
    <3>9. FilesTypeOK'
      <4>1. fd' \in [Clients -> Files' \cup {Closed, Root}]
        BY <1>1, <3>1, <3>2 DEF FilesTypeOK
      <4>2. folder' \subseteq Files' /\ changed' \subseteq Clients /\ mixed' \subseteq Files'
        BY <1>1, <3>1, <3>2 DEF FilesTypeOK
      <4>3. Descriptors'
        BY <1>1, <2>2, <3>4, FilesAssumption DEF FilesTypeOK, Descriptors, Calling
      <4> QED BY <2>1, <2>3, <3>2, <3>3, <3>8, <4>1, <4>2, <4>3 DEF FilesTypeOK, Descriptors
    <3> QED BY <3>6, <3>7, <3>8, <3>9 DEF FilesIInv
  <2> QED BY <2>5, <2>6
<1> QED BY <1>3, <1>5, <1>7, <1>8, <1>9, <1>10 DEF Start

\* A call is over.
LEMMA Leaves ==
  ASSUME FilesIInv, NEW p \in Clients, NEW next \in {"idle", "ended", "stuck"}, Leave(p, next), event' \in Events,
         changed' \in {changed, changed \ {p}}, UNCHANGED <<dir, folder, changes, mixed>>
  PROVE  /\ pc'[p] = next
         /\ \A q \in Clients \ {p} : pc'[q] = pc[q] /\ arg'[q] = arg[q] /\ fd'[q] = fd[q]
         /\ /\ data' \in Seq(Seq(Bytes)) /\ Files' = Files
            /\ stayed' \in [Clients -> SUBSET Names] /\ seen' \in [Clients -> SUBSET Names]
            => FilesTypeOK'
<1>1. FilesTypeOK
  BY DEF FilesIInv
<1>2. /\ pc' = [pc EXCEPT ![p] = next] /\ fd' = [fd EXCEPT ![p] = Closed] /\ arg' = [arg EXCEPT ![p] = 0]
  BY DEF Leave
<1>3. /\ pc'[p] = next /\ fd'[p] = Closed
      /\ \A q \in Clients \ {p} : pc'[q] = pc[q] /\ arg'[q] = arg[q] /\ fd'[q] = fd[q]
  BY <1>1, <1>2 DEF FilesTypeOK
<1>4. Descriptors'
  BY <1>1, <1>3, FilesAssumption DEF FilesTypeOK, Descriptors, Calling
<1>5. /\ pc' \in [Clients -> Calling \cup {"idle", "ended", "stuck"}] /\ arg' \in [Clients -> Nat]
      /\ fd' \in [Clients -> Files \cup {Closed, Root}]
  BY <1>1, <1>2 DEF FilesTypeOK
<1>6. /\ data' \in Seq(Seq(Bytes)) /\ Files' = Files
      /\ stayed' \in [Clients -> SUBSET Names] /\ seen' \in [Clients -> SUBSET Names]
      => FilesTypeOK'
  BY <1>1, <1>4, <1>5 DEF FilesTypeOK, Descriptors
<1> QED BY <1>3, <1>6

\* So it is when the files stay as they are.
LEMMA LeavesFiles ==
  ASSUME FilesIInv, NEW p \in Clients, NEW next \in {"idle", "ended", "stuck"}, Leave(p, next), event' \in Events,
         changed' \in {changed, changed \ {p}}, UNCHANGED <<store, changes, mixed>>,
         stayed' \in [Clients -> SUBSET Names], seen' \in [Clients -> SUBSET Names],
         \A q \in Clients \ {p} : stayed'[q] = stayed[q] /\ seen'[q] = seen[q]
  PROVE  FilesIInv'
<1>1. FilesTypeOK /\ Watched
  BY DEF FilesIInv
<1>2. UNCHANGED <<dir, data, folder>> /\ Files' = Files
  BY DEF store, Files
<1>3. pc'[p] = next /\ \A q \in Clients \ {p} : pc'[q] = pc[q] /\ arg'[q] = arg[q] /\ fd'[q] = fd[q]
  BY <1>2, Leaves
<1>4. FilesTypeOK'
  BY <1>1, <1>2, Leaves DEF FilesTypeOK, Descriptors
<1>5. OneWriter' /\ OneWrite' /\ SizeKnown'
  BY <1>2, <1>3, DataKept, SizeKept
<1>6. Watched'
  BY <1>1, <1>2, <1>3 DEF Watched, Present
<1> QED BY <1>4, <1>5, <1>6 DEF FilesIInv

\* The bytes that p writes over nothing are all its own.
LEMMA Overwritten ==
  ASSUME NEW b, NEW T, b \in T, NEW t \in Seq(T), NEW k \in Nat
  PROVE  /\ Overwrite(t, b, k) \in Seq(T)
         /\ t = <<>> => \A j \in DOMAIN Overwrite(t, b, k) : Overwrite(t, b, k)[j] = Overwrite(t, b, k)[1]
<1> DEFINE n == IF Len(t) > k THEN Len(t) ELSE k
<1>1. n \in Nat /\ Len(t) \in Nat /\ DOMAIN t = 1..Len(t)
  OBVIOUS
<1>2. \A i \in 1..n : i > k => t[i] \in T
  BY <1>1
<1>3. Overwrite(t, b, k) = [i \in 1..n |-> IF i <= k THEN b ELSE t[i]]
  BY DEF Overwrite
<1>4. t = <<>> => n = k
  BY <1>1
<1> HIDE DEF n
<1>5. Overwrite(t, b, k) \in [1..n -> T]
  BY <1>1, <1>2, <1>3
<1>6. Overwrite(t, b, k) \in Seq(T)
  BY <1>1, <1>5, Numbered
<1>7. t = <<>> => \A j \in DOMAIN Overwrite(t, b, k) : Overwrite(t, b, k)[j] = Overwrite(t, b, k)[1]
  BY <1>1, <1>3, <1>4
<1> QED BY <1>6, <1>7

\* A later call preserves the invariant.
LEMMA ContinueInvariant ==
  ASSUME FilesIInv, NEW p \in Clients, Continue(p)
  PROVE  FilesIInv'
<1>1. FilesTypeOK /\ SizeKnown /\ Watched /\ Len(data) \in Nat /\ Files = 1..Len(data)
  BY Contents DEF FilesIInv
<1>2. \A i \in Files : data[i] \in Seq(Bytes) /\ Len(data[i]) \in Nat
  BY <1>1, Contents
<1>3. Nothing \in Events /\ \A q \in Clients : fd[q] \in {Closed, Root} \/ fd[q] \in Files
  BY <1>1 DEF Events, FilesTypeOK
<1>4. CASE Fail(p)
  <2>1. /\ Leave(p, "idle") /\ event' = Nothing /\ changed' = changed \ {p} /\ UNCHANGED <<store, changes, mixed>>
        /\ stayed' = [stayed EXCEPT ![p] = {}] /\ seen' = [seen EXCEPT ![p] = {}]
    BY <1>4 DEF Fail, Fails, Return
  <2>2. /\ stayed' \in [Clients -> SUBSET Names] /\ seen' \in [Clients -> SUBSET Names]
        /\ \A q \in Clients \ {p} : stayed'[q] = stayed[q] /\ seen'[q] = seen[q]
    BY <1>1, <2>1 DEF FilesTypeOK
  <2> QED BY <1>3, <2>1, <2>2, LeavesFiles
<1>5. ASSUME Stat(p), fd[p] \notin folder
      PROVE  FilesIInv'
  <2>1. /\ pc[p] = "stat" /\ pc' = [pc EXCEPT ![p] = "read"] /\ arg' = [arg EXCEPT ![p] = Len(data[fd[p]])]
        /\ event' = Nothing /\ changed' = changed \ {p}
        /\ UNCHANGED <<dir, data, folder, fd, changes, mixed, stayed, seen>>
    BY <1>5 DEF Stat, store
  <2>2. fd[p] \in Files /\ Len(data[fd[p]]) \in Nat
    BY <1>1, <1>2, <2>1 DEF FilesTypeOK
  <2>3. /\ pc'[p] = "read" /\ arg'[p] = Len(data[fd[p]])
        /\ \A q \in Clients \ {p} : pc'[q] = pc[q] /\ arg'[q] = arg[q]
    BY <1>1, <2>1 DEF FilesTypeOK
  <2>4. OneWriter' /\ OneWrite' /\ Watched'
    BY <2>1, <2>3, DataKept, WatchKept
  <2>5. SizeKnown'
    BY <1>1, <2>1, <2>3 DEF SizeKnown
  <2>6. arg' \in [Clients -> Nat] /\ pc' \in [Clients -> Calling \cup {"idle", "ended", "stuck"}]
    BY <1>1, <2>1, <2>2 DEF FilesTypeOK, Calling
  <2>7. Descriptors'
    BY <1>1, <2>1, <2>3, FilesAssumption DEF FilesTypeOK, Descriptors, Calling
  <2>8. FilesTypeOK'
    BY <1>1, <1>3, <2>1, <2>6, <2>7 DEF FilesTypeOK, Descriptors, Files
  <2> QED BY <2>4, <2>5, <2>8 DEF FilesIInv
<1>6. CASE Stat(p)
  <2>1. CASE fd[p] \in folder
    <3>1. /\ Leave(p, "idle") /\ event' = Nothing /\ changed' = changed \ {p}
          /\ UNCHANGED <<store, changes, mixed, stayed, seen>>
      BY <1>6, <2>1 DEF Stat, Fails, Return
    <3>2. stayed' \in [Clients -> SUBSET Names] /\ seen' \in [Clients -> SUBSET Names]
      BY <1>1, <3>1 DEF FilesTypeOK
    <3> QED BY <1>3, <3>1, <3>2, LeavesFiles
  <2> QED BY <1>5, <1>6, <2>1
<1>7. CASE Read(p)
  <2> DEFINE s == data[fd[p]]
  <2>1. /\ pc[p] = "read" /\ changed' = changed \ {p} /\ UNCHANGED <<store, changes, mixed, stayed, seen>>
        /\ IF Len(s) < arg[p] THEN Trap(p) ELSE Return(p, Data(p, SubSeq(s, 1, arg[p])))
    BY <1>7 DEF Read
  <2>2. s \in Seq(Bytes) /\ Len(s) \in Nat /\ arg[p] \in Nat
    BY <1>1, <1>2, <2>1 DEF FilesTypeOK
  <2>3. stayed' \in [Clients -> SUBSET Names] /\ seen' \in [Clients -> SUBSET Names]
    BY <1>1, <2>1 DEF FilesTypeOK
  <2> HIDE DEF s
  <2>4. CASE Len(s) < arg[p]
    <3>1. PICK next \in {"ended", "stuck"} : Leave(p, next)
      BY <2>1, <2>4 DEF Trap
    <3>2. event' = Nothing
      BY <2>1, <2>4 DEF Trap
    <3> QED BY <1>3, <2>1, <2>3, <3>1, <3>2, LeavesFiles
  <2>5. CASE ~(Len(s) < arg[p])
    <3>1. Leave(p, "idle") /\ event' = Data(p, SubSeq(s, 1, arg[p]))
      BY <2>1, <2>5 DEF Return
    <3>2. SubSeq(s, 1, arg[p]) \in Seq(Bytes)
      BY <2>2, <2>5
    <3>3. event' \in Events
      BY <3>1, <3>2 DEF Data, Events
    <3> QED BY <2>1, <2>3, <3>1, <3>3, LeavesFiles
  <2> QED BY <2>4, <2>5
<1>8. ASSUME Write(p), NEW i, i = fd[p]
      PROVE  FilesIInv'
  <2>1. PICK k \in 0..arg[p] : Store(i, Overwrite(data[i], p, k)) /\ Return(p, Nothing)
    BY <1>8 DEF Write
  <2>2. i \in Files /\ p \in Writers(i) /\ arg[p] \in Nat /\ k \in Nat
    BY <1>1, <1>8 DEF Write, Writers, FilesTypeOK, Calling
  <2>3. PICK t : t = Overwrite(data[i], p, k)
    OBVIOUS
  <2>4. t \in Seq(Bytes) /\ (data[i] = <<>> => \A j \in DOMAIN t : t[j] = t[1])
    <3>1. p \in Bytes /\ data[i] \in Seq(Bytes)
      BY <1>2, <2>2 DEF Bytes
    <3> QED BY <2>2, <2>3, <3>1, Overwritten
  <2>5. /\ data' = [data EXCEPT ![i] = t]
        /\ changed' = changed \cup {q \in Clients : pc[q] = "read" /\ fd[q] = i /\ t # data[i]}
    BY <2>1, <2>3 DEF Store
  <2>6. data' \in Seq(Seq(Bytes)) /\ Files' = Files /\ data'[i] = t /\ \A j \in Files \ {i} : data'[j] = data[j]
    BY <1>1, <2>2, <2>4, <2>5 DEF FilesTypeOK, Files
  <2>7. Leave(p, "idle") /\ event' = Nothing /\ UNCHANGED <<dir, folder, changes, mixed, stayed, seen>>
    BY <1>8, <2>1 DEF Return, Write
  <2>8. pc[p] = "write"
    BY <1>8 DEF Write
  <2>9. /\ pc'[p] = "idle"
        /\ \A q \in Clients \ {p} : pc'[q] = pc[q] /\ arg'[q] = arg[q] /\ fd'[q] = fd[q]
    BY <1>1, <2>7 DEF Leave, FilesTypeOK
  <2>10. \A j : Writers(j)' = Writers(j) \ {p}
    BY <2>9 DEF Writers
  <2>11. OneWriter' /\ OneWrite'
    <3>1. ASSUME NEW j \in Files' \ mixed'
          PROVE  /\ \A q \in Writers(j)' : data'[j] = <<>> /\ \A r \in Writers(j)' : r = q
                 /\ \A l \in DOMAIN data'[j] : data'[j][l] = data'[j][1]
      <4>1. j \in Files \ mixed
        BY <2>6, <2>7, <3>1
      <4>2. /\ \A q \in Writers(j) : data[j] = <<>> /\ \A r \in Writers(j) : r = q
            /\ \A l \in DOMAIN data[j] : data[j][l] = data[j][1]
        BY <4>1 DEF FilesIInv, OneWriter, OneWrite
      <4>3. CASE j = i
        BY <2>2, <2>4, <2>6, <2>10, <4>2, <4>3
      <4>4. CASE j # i
        BY <2>6, <2>10, <4>1, <4>2, <4>4
      <4> QED BY <4>3, <4>4
    <3> QED BY <3>1 DEF OneWriter, OneWrite
  <2>12. SizeKnown'
    <3>1. ASSUME NEW q \in Clients, pc'[q] = "read", q \notin changed'
          PROVE  arg'[q] = Len(data'[fd'[q]])
      <4>1. /\ q # p /\ pc[q] = "read" /\ q \notin changed /\ fd'[q] = fd[q] /\ arg'[q] = arg[q]
            /\ fd[q] = i => data[i] = t
        BY <2>5, <2>9, <3>1
      <4>2. fd[q] \in Files /\ arg[q] = Len(data[fd[q]])
        BY <1>1, <4>1 DEF SizeKnown, FilesTypeOK
      <4>3. data'[fd[q]] = data[fd[q]]
        BY <2>6, <4>1, <4>2
      <4> QED BY <4>1, <4>2, <4>3
    <3> QED BY <3>1 DEF SizeKnown
  <2>13. Watched'
    BY <2>7, <2>9, WatchKept
  <2>14. FilesTypeOK'
    <3>1. changed' \subseteq Clients
      BY <1>1, <2>5 DEF FilesTypeOK
    <3>2. /\ pc' \in [Clients -> Calling \cup {"idle", "ended", "stuck"}] /\ arg' \in [Clients -> Nat]
          /\ fd' \in [Clients -> Files \cup {Closed, Root}] /\ fd'[p] = Closed
      BY <1>1, <2>7 DEF FilesTypeOK, Leave
    <3>3. Descriptors'
      BY <1>1, <2>9, <3>2, FilesAssumption DEF FilesTypeOK, Descriptors, Calling
    <3> QED BY <1>1, <1>3, <2>6, <2>7, <3>1, <3>2, <3>3 DEF FilesTypeOK, Descriptors
  <2> QED BY <2>11, <2>12, <2>13, <2>14 DEF FilesIInv
<1>9. CASE List(p)
  <2>1. /\ pc[p] = "list" /\ UNCHANGED <<store, changes, changed, mixed>>
        /\ Listed(p, Present(dir)) \/ Relist(p, 2 * arg[p])
    BY <1>9 DEF List
  <2>2. CASE Listed(p, Present(dir))
    <3>1. /\ Leave(p, "idle") /\ event' = Listing(p, Present(dir))
          /\ stayed' = [stayed EXCEPT ![p] = {}] /\ seen' = [seen EXCEPT ![p] = {}]
      BY <2>2 DEF Listed, Return
    <3>2. event' \in Events
      BY <3>1 DEF Listing, Events, Present
    <3>3. /\ stayed' \in [Clients -> SUBSET Names] /\ seen' \in [Clients -> SUBSET Names]
          /\ \A q \in Clients \ {p} : stayed'[q] = stayed[q] /\ seen'[q] = seen[q]
      BY <1>1, <3>1 DEF FilesTypeOK
    <3> QED BY <2>1, <3>1, <3>2, <3>3, LeavesFiles
  <2>3. CASE Relist(p, 2 * arg[p])
    <3>1. /\ arg' = [arg EXCEPT ![p] = 2 * arg[p]] /\ event' = Nothing
          /\ UNCHANGED <<dir, data, folder, pc, fd, changes, changed, mixed, stayed, seen>>
      BY <2>1, <2>3 DEF Relist, store
    <3>2. arg' \in [Clients -> Nat] /\ \A q \in Clients \ {p} : arg'[q] = arg[q]
      BY <1>1, <3>1 DEF FilesTypeOK
    <3>3. OneWriter' /\ OneWrite' /\ SizeKnown' /\ Watched'
      BY <2>1, <3>1, <3>2, DataKept, SizeKept, WatchKept
    <3>4. FilesTypeOK'
      BY <1>1, <1>3, <3>1, <3>2 DEF FilesTypeOK, Descriptors, Files
    <3> QED BY <3>3, <3>4 DEF FilesIInv
  <2> QED BY <2>1, <2>2, <2>3
<1>10. Write(p) => FilesIInv'
  BY <1>8
<1> QED BY <1>4, <1>6, <1>7, <1>9, <1>10 DEF Continue
-----------------------------------------------------------------------------
\* The invariant is inductive.
LEMMA FilesStepInvariant == FilesIInv /\ [FilesNext]_filesVars => FilesIInv'
<1> SUFFICES ASSUME FilesIInv, [FilesNext]_filesVars
             PROVE  FilesIInv'
  OBVIOUS
<1>1. CASE FilesNext
  BY <1>1, StartInvariant, ContinueInvariant DEF FilesNext
<1>2. CASE UNCHANGED filesVars
  BY <1>2 DEF filesVars, store, ghosts, FilesIInv, FilesTypeOK, OneWriter, Writers, OneWrite, SizeKnown, Watched, Present, Files
<1> QED BY <1>1, <1>2

THEOREM FilesInvariant == FilesSpec => []FilesIInv
<1> QED BY FilesInitInvariant, FilesStepInvariant, PTL DEF FilesSpec

\* Types: a descriptor is open for exactly the calls that are under way.
THEOREM FilesTypeCorrect == FilesSpec => []FilesTypeOK
<1>1. FilesIInv => FilesTypeOK
  BY DEF FilesIInv
<1> QED BY <1>1, FilesInvariant, PTL

\* A file holds the bytes of one write, unless two had it open at once.
THEOREM WritesApart == FilesSpec => []OneWrite
<1>1. FilesIInv => OneWrite
  BY DEF FilesIInv
<1> QED BY <1>1, FilesInvariant, PTL

\* A file that did not change since its size was fetched is read whole.
THEOREM Reads == FilesSpec => ReadsWhole
<1> DEFINE ReadWhole(p) ==
      pc[p] = "read" /\ pc'[p] # "read" =>
        \/ event' \in {Nothing, Data(p, data[fd[p]])} /\ pc'[p] = "idle"
        \/ /\ p \in changed
           /\ \/ pc'[p] \in {"ended", "stuck"}
              \/ /\ arg[p] <= Len(data[fd[p]])
                 /\ event' = Data(p, SubSeq(data[fd[p]], 1, arg[p]))
<1>1. ASSUME FilesIInv, [FilesNext]_filesVars, NEW p \in Clients, pc[p] = "read", pc'[p] # "read"
      PROVE  ReadWhole(p)
  <2>1. FilesTypeOK /\ SizeKnown /\ fd[p] \in Files /\ data[fd[p]] \in Seq(Bytes) /\ arg[p] \in Nat
    BY <1>1, Contents DEF FilesIInv, FilesTypeOK
  <2>2. PICK q \in Clients : Start(q) \/ Continue(q)
    BY <1>1 DEF FilesNext, filesVars
  <2>3. q = p
    <3>1. CASE q # p
      <4>1. pc'[p] = pc[p]
        <5>1. Start(q) => pc'[p] = pc[p]
          BY <2>1, <3>1 DEF Start, OpenDir, Settled, OpenRead, Unlink, OpenWrite, Rename, Begin, Once, FilesTypeOK
        <5>2. Continue(q) => pc'[p] = pc[p]
          BY <2>1, <3>1 DEF Continue, Fail, Stat, Read, Write, List, Fails, Trap, Return, Leave, Listed, Relist, FilesTypeOK
        <5> QED BY <2>2, <5>1, <5>2
      <4> QED BY <1>1, <4>1
    <3> QED BY <3>1
  <2>4. Read(p) \/ Fail(p)
    <3>1. ~Start(p)
      BY <1>1 DEF Start, OpenDir, Settled, OpenRead, Unlink, OpenWrite, Rename, Begin, Once
    <3> QED BY <1>1, <2>2, <2>3, <3>1 DEF Continue, Stat, Write, List
  <2>5. CASE Fail(p)
    BY <2>1, <2>5 DEF Fail, Fails, Return, Leave, FilesTypeOK
  <2>6. CASE Read(p)
    <3> DEFINE s == data[fd[p]]
    <3>1. IF Len(s) < arg[p] THEN Trap(p) ELSE Return(p, Data(p, SubSeq(s, 1, arg[p])))
      BY <2>6 DEF Read
    <3>2. s \in Seq(Bytes) /\ Len(s) \in Nat /\ (p \notin changed => arg[p] = Len(s))
      BY <1>1, <2>1 DEF SizeKnown
    <3> HIDE DEF s
    <3>3. CASE Len(s) < arg[p]
      <4>1. pc'[p] \in {"ended", "stuck"}
        BY <2>1, <3>1, <3>3 DEF Trap, Leave, FilesTypeOK
      <4> QED BY <3>2, <3>3, <4>1
    <3>4. CASE ~(Len(s) < arg[p])
      <4>1. pc'[p] = "idle" /\ event' = Data(p, SubSeq(s, 1, arg[p])) /\ arg[p] <= Len(s)
        BY <2>1, <3>1, <3>2, <3>4 DEF Return, Leave, FilesTypeOK
      <4>2. CASE p \in changed
        BY <4>1, <4>2 DEF s
      <4>3. CASE p \notin changed
        <5>1. SubSeq(s, 1, Len(s)) = s
          BY <3>2
        <5> QED BY <3>2, <4>1, <4>3, <5>1 DEF s
      <4> QED BY <4>2, <4>3
    <3> QED BY <3>3, <3>4
  <2> QED BY <2>4, <2>5, <2>6
<1>2. FilesIInv /\ [FilesNext]_filesVars => [\A p \in Clients : ReadWhole(p)]_filesVars
  BY <1>1
<1> HIDE DEF ReadWhole
<1>3. [][\A p \in Clients : ReadWhole(p)]_filesVars => ReadsWhole
  BY DEF ReadsWhole, ReadWhole
<1> QED BY <1>2, <1>3, FilesInvariant, PTL DEF FilesSpec

\* A listing has every name that stayed and none that was never there.
THEOREM Lists == FilesSpec => ListsDirectory
<1> DEFINE Complete ==
      event'.kind = "listing" /\ event' # event =>
        /\ stayed[event'.to] \subseteq event'.names
        /\ event'.names \subseteq seen[event'.to]
<1>1. ASSUME FilesIInv, FilesNext, event'.kind = "listing"
      PROVE  Complete
  <2>1. PICK p \in Clients : Start(p) \/ Continue(p)
    BY <1>1 DEF FilesNext
  <2>2. event' # Nothing
    BY <1>1 DEF Nothing
  <2>3. ~Start(p)
    BY <2>2 DEF Start, OpenDir, Settled, OpenRead, Unlink, OpenWrite, Rename, Begin, Once
  <2>4. List(p) \/ Read(p)
    BY <2>1, <2>2, <2>3 DEF Continue, Fail, Fails, Return, Stat, Write
  <2>5. ~Read(p)
    <3>1. ASSUME NEW t
          PROVE  event' # Data(p, t)
      BY <1>1 DEF Data
    <3> QED BY <2>2, <3>1 DEF Read, Trap, Return
  <2>6. pc[p] = "list" /\ event' = Listing(p, Present(dir))
    BY <2>2, <2>4, <2>5 DEF List, Listed, Relist, Return
  <2>7. event'.to = p /\ event'.names = Present(dir)
    BY <2>6 DEF Listing
  <2> QED BY <1>1, <2>6, <2>7 DEF FilesIInv, Watched
<1>2. FilesIInv /\ [FilesNext]_filesVars => [Complete]_filesVars
  BY <1>1 DEF filesVars
<1> HIDE DEF Complete
<1>3. [][Complete]_filesVars => ListsDirectory
  BY DEF ListsDirectory, Complete
<1> QED BY <1>2, <1>3, FilesInvariant, PTL DEF FilesSpec
===============================================================================
