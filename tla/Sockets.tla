------------------------------ MODULE Sockets -------------------------------
(***************************************************************************)
(* The generators of src/assembly/net/tcp.ts: TCPSocket#intoConsumable and *)
(* TCPServer.bindMaybe.  Each is a Yieldable whose callback takes what     *)
(* comes from the network, one item at a time and ahead of who asks for    *)
(* it, and yields it in a Maybe.                                           *)
(*                                                                         *)
(* Bytes, and connections at a listener, are numbered as they arrive.  A   *)
(* listener is the case of one connection at a time, without a timeout and *)
(* without a peer that closes.  The generator's part of the Yieldable is   *)
(* here, with its links and signals, from where each consumer has its      *)
(* handle and has asked for its link; how handles are copied and notices   *)
(* overtake each other is in Yieldable.                                    *)
(*                                                                         *)
(* External: the peer, the host's tcp_read and tcp_accept, and its links   *)
(* between processes, as in HeldLifetime.                                  *)
(***************************************************************************)
EXTENDS Integers, Sequences, FiniteSets

CONSTANTS
  Consumers,  \* the holders of a handle of the generator
  Ending,     \* the consumers whose code may return or trap
  Sizes,      \* the sizes of the buffer
  MaxSent,    \* bound on what arrives
  MaxTraps    \* bound on the processes of Maybes that trap

ASSUME SocketsAssumption ==
  Sizes \subseteq Nat /\ MaxTraps \in Nat /\ IsFiniteSet(Consumers) /\ Consumers # {}

VARIABLES
  kind,       \* "socket" or "listener"
  size,       \* of the buffer
  timed,      \* whether the socket has a read timeout
  conn,       \* "open", "closed" by the peer, or "broken"
  wire,       \* what has arrived and was not taken yet
  sent,       \* how much has arrived
  phase,      \* where the generator is
  buffer,     \* its one buffer, of zeros at first
  item,       \* what it yields
  mbox,       \* the messages it has not received yet
  ref,        \* how many handles it counts
  linked,     \* the consumers it is linked to
  maybes,     \* how many Maybes it has made, up to MaxTraps
  traps,      \* how many processes of these have trapped
  underway,   \* the consumers whose helper has not sent the notice of the drop yet
  running,    \* the consumers that have not ended
  dropped,    \* those that dropped their handle
  calling,    \* those that wait in next
  given,      \* the bytes that were sent to consumers, in order
  elsewhere,  \* the bytes that were read through another handle of the socket
  ended       \* whether a consumer was told that the connection is at its end

network == <<conn, wire, sent>>
generator == <<phase, buffer, item, ref, linked, maybes>>
consumers == <<underway, running, dropped, calling>>
settings == <<kind, size, timed>>
stream == <<given, ended, elsewhere>>
vars == <<settings, network, generator, mbox, traps, consumers, stream>>

Nothing == [type |-> "nothing"]
Timeout == [type |-> "timeout"]
Closed == [type |-> "closed"]
Error == [type |-> "error"]
Success(chunk, n) == [type |-> "success", chunk |-> chunk, count |-> n]

Notice(k, c) == [kind |-> k, from |-> c]
Signal == [kind |-> "signal"]
Messages == [kind : {"next", "drop", "link"}, from : Consumers] \cup {Signal}

Chunks == [1..size -> Nat]
Items == {Nothing, Timeout, Closed, Error} \cup [type : {"success"}, chunk : Chunks, count : 1..size]

TypeOK ==
  /\ kind \in {"socket", "listener"} /\ size \in Nat /\ timed \in BOOLEAN
  /\ conn \in {"open", "closed", "broken"}
  /\ wire \in Seq(1..sent) /\ sent \in Nat
  /\ phase \in {"reading", "yielding", "done", "gone"}
  /\ buffer \in Chunks
  /\ item \in Items /\ (phase = "yielding" <=> item # Nothing)
  /\ mbox \in Seq(Messages)
  /\ ref \in Int /\ (phase \in {"reading", "yielding"} => ref > 0)
  /\ running \subseteq Consumers /\ dropped \subseteq Consumers
  /\ linked \subseteq running /\ calling \subseteq running \ dropped
  /\ maybes \in Nat /\ traps \in Nat
  /\ underway \subseteq dropped
  /\ given \in Seq(1..sent) /\ elsewhere \subseteq 1..sent
  /\ ended \in BOOLEAN

Init ==
  /\ kind \in {"socket", "listener"}
  /\ size \in IF kind = "socket" THEN Sizes ELSE {1}
  /\ timed \in IF kind = "socket" THEN BOOLEAN ELSE {FALSE}
  /\ conn = "open" /\ wire = <<>> /\ sent = 0
  /\ phase = "reading" /\ item = Nothing
  /\ buffer = [i \in 1..size |-> 0]
  /\ \E q \in [1..Cardinality(Consumers) -> Consumers] :
       /\ \A c \in Consumers : \E i \in DOMAIN q : q[i] = c
       /\ mbox = [i \in DOMAIN q |-> Notice("link", q[i])]
  /\ ref = Cardinality(Consumers)
  /\ linked = {} /\ maybes = 0 /\ traps = 0
  /\ underway = {}
  /\ running = Consumers /\ dropped = {} /\ calling = {}
  /\ given = <<>> /\ elsewhere = {}
  /\ ended = FALSE
-----------------------------------------------------------------------------
Least(m, n) == IF m < n THEN m ELSE n

Arrive ==
  /\ conn = "open" /\ sent < MaxSent
  /\ sent' = sent + 1
  /\ wire' = Append(wire, sent + 1)
  /\ UNCHANGED <<settings, conn, generator, mbox, traps, consumers, stream>>

\* The peer closes the connection; it, or the listener, breaks.
Sever ==
  /\ conn = "open"
  /\ conn' \in IF kind = "socket" THEN {"closed", "broken"} ELSE {"broken"}
  /\ UNCHANGED <<settings, wire, sent, generator, mbox, traps, consumers, stream>>

\* A read through a clone of the socket.
ReadElsewhere(n) ==
  /\ kind = "socket" /\ conn # "broken" /\ n \in 1..Len(wire)
  /\ wire' = SubSeq(wire, n + 1, Len(wire))
  /\ elsewhere' = elsewhere \cup {wire[i] : i \in 1..n}
  /\ UNCHANGED <<settings, conn, sent, generator, mbox, traps, consumers, given, ended>>
-----------------------------------------------------------------------------
Reading == phase = "reading"

\* The callback yields i in a new Maybe.
Yield(i) ==
  /\ phase' = "yielding"
  /\ item' = i
  /\ maybes' = Least(maybes + 1, MaxTraps)
  /\ UNCHANGED <<settings, conn, sent, ref, linked, mbox, traps, consumers, stream>>

\* Mutant: what arrived is peeked into the buffer before it is read.
ReadSuccessPeeked ==
  /\ Reading /\ conn # "broken"
  /\ \E n \in 1..Least(size, Len(wire)) :
       /\ buffer' = [i \in 1..size |-> IF i <= Len(wire) THEN wire[i] ELSE buffer[i]]
       /\ wire' = SubSeq(wire, n + 1, Len(wire))
       /\ Yield(Success(buffer', n))

\* Mutant: tcp_peek in the place of tcp_read.
ReadSuccessPeeking ==
  /\ Reading /\ conn # "broken"
  /\ \E n \in 1..Least(size, Len(wire)) :
       /\ buffer' = [i \in 1..size |-> IF i <= n THEN wire[i] ELSE buffer[i]]
       /\ wire' = wire
       /\ Yield(Success(buffer', n))

\* Some of the bytes that have arrived, to the beginning of the buffer, all of
\* which is copied into the Maybe; accept takes the first connection.
ReadSuccess ==
  /\ Reading /\ conn # "broken"
  /\ \E n \in 1..Least(size, Len(wire)) :
       /\ buffer' = [i \in 1..size |-> IF i <= n THEN wire[i] ELSE buffer[i]]
       /\ wire' = SubSeq(wire, n + 1, Len(wire))
       /\ Yield(Success(buffer', n))

\* Mutant: a closed connection is reported before what has arrived is read.
ReadClosedEarly ==
  /\ Reading /\ conn = "closed"
  /\ Yield(Closed)
  /\ UNCHANGED <<wire, buffer>>

\* Zero bytes: the peer has closed, or the buffer is empty.
ReadClosed ==
  /\ Reading /\ conn # "broken"
  /\ size = 0 \/ (conn = "closed" /\ wire = <<>>)
  /\ Yield(Closed)
  /\ UNCHANGED <<wire, buffer>>

\* Mutant: the read goes on waiting.
ReadTimeoutNever ==
  /\ Reading /\ conn = "open" /\ wire = <<>> /\ timed
  /\ UNCHANGED vars

ReadTimeout ==
  /\ Reading /\ conn = "open" /\ wire = <<>> /\ timed
  /\ Yield(Timeout)
  /\ UNCHANGED <<wire, buffer>>

ReadError ==
  /\ Reading /\ conn = "broken"
  /\ Yield(Error)
  /\ UNCHANGED <<wire, buffer>>
-----------------------------------------------------------------------------
Receiving == phase \in {"yielding", "done"}
Receive(k) == Receiving /\ mbox # <<>> /\ Head(mbox).kind = k

\* The loop reads on unless the connection is at its end, as does accept unless it
\* failed.
AfterYield == IF item \in {Closed, Error} THEN "done" ELSE "reading"

\* The caller gets the Maybe that is yielded; if it has ended, the reply is lost.
HandleNext ==
  /\ Receive("next") /\ phase = "yielding"
  /\ mbox' = Tail(mbox)
  /\ calling' = calling \ {Head(mbox).from}
  /\ given' = IF item.type = "success" THEN given \o SubSeq(item.chunk, 1, item.count) ELSE given
  /\ phase' = AfterYield /\ item' = Nothing
  /\ ended' = (ended \/ item.type \in {"closed", "error"})
  /\ UNCHANGED <<settings, network, buffer, ref, linked, maybes, traps, underway, running, dropped, elsewhere>>

HandleNextDone ==
  /\ Receive("next") /\ phase = "done"
  /\ mbox' = Tail(mbox)
  /\ UNCHANGED <<settings, network, generator, traps, consumers, stream>>

\* The generator goes on to its next message, or it ends, and with it what it
\* yields and its mailbox.
Continue ==
  /\ mbox' = Tail(mbox)
  /\ UNCHANGED <<phase, item>>

Ends ==
  /\ phase' = "gone" /\ item' = Nothing /\ mbox' = <<>>
  /\ UNCHANGED linked

\* What every handler of an event without a value leaves alone.
OnlyCounts == UNCHANGED <<settings, network, buffer, maybes, traps, consumers, stream>>

\* process.link traps unless there is such a process.
HandleLink ==
  LET holder == Head(mbox).from IN
  /\ Receive("link")
  /\ \/ holder \notin running /\ Ends
     \/ holder \in running /\ linked' = linked \cup {holder} /\ Continue
  /\ OnlyCounts /\ UNCHANGED ref

\* Mutant: the generator ends one handle too late.
HandleDropLate ==
  LET holder == Head(mbox).from IN
  /\ Receive("drop")
  /\ ref' = ref - 1
  /\ \/ (holder \notin running \/ ref < 1) /\ Ends
     \/ holder \in running /\ ref >= 1 /\ linked' = linked \ {holder} /\ Continue
  /\ OnlyCounts

\* process.unlink traps unless there is such a process; then the last handle ends
\* the generator.
HandleDrop ==
  LET holder == Head(mbox).from IN
  /\ Receive("drop")
  /\ ref' = ref - 1
  /\ \/ (holder \notin running \/ ref - 1 <= 0) /\ Ends
     \/ holder \in running /\ ref - 1 > 0 /\ linked' = linked \ {holder} /\ Continue
  /\ OnlyCounts

\* Mutant: in yield, too, a signal only lowers the count.
HandleSignalUnchecked ==
  /\ Receive("signal") /\ phase = "yielding"
  /\ ref' = ref - 1
  /\ Continue
  /\ OnlyCounts /\ UNCHANGED linked

\* In yield a signal is handled as a drop by the process whose id is the signal's
\* tag.  Whether there is such a process, and which, is an accident.
HandleSignalYielding ==
  /\ Receive("signal") /\ phase = "yielding"
  /\ ref' = ref - 1
  /\ \/ Ends
     \/ ref - 1 > 0 /\ linked' \in {linked} \cup {linked \ {c} : c \in running} /\ Continue
  /\ OnlyCounts

\* After the callback a signal lowers the count and is no more than that.
HandleSignalDone ==
  /\ Receive("signal") /\ phase = "done"
  /\ ref' = ref - 1
  /\ Continue
  /\ OnlyCounts /\ UNCHANGED linked
-----------------------------------------------------------------------------
\* A message to a process that ended is lost.
Send(m) == mbox' = IF phase = "gone" THEN mbox ELSE Append(mbox, m)

\* A consumer that has its handle and does not wait in next.
Free(c) == c \in running \ (dropped \cup calling)

Next(c) ==
  /\ Free(c)
  /\ Send(Notice("next", c))
  /\ calling' = calling \cup {c}
  /\ UNCHANGED <<settings, network, generator, traps, underway, running, dropped, stream>>

\* The handle is collected; a helper tells the generator.
Drop(c) ==
  /\ Free(c)
  /\ dropped' = dropped \cup {c}
  /\ underway' = underway \cup {c}
  /\ UNCHANGED <<settings, network, generator, mbox, traps, running, calling, stream>>

Notify(c) ==
  /\ c \in underway
  /\ underway' = underway \ {c}
  /\ Send(Notice("drop", c))
  /\ UNCHANGED <<settings, network, generator, traps, running, dropped, calling, stream>>

\* A consumer returns, or it traps, as one does that is linked to the generator when
\* that has ended.  A trap is a signal to the generator if the link was complete.
Stop(c) ==
  /\ c \in running /\ (c \in Ending \/ (phase = "gone" /\ c \in linked))
  /\ running' = running \ {c} /\ linked' = linked \ {c} /\ calling' = calling \ {c}
  /\ \/ UNCHANGED mbox
     \/ c \in linked /\ Send(Signal)
  /\ UNCHANGED <<settings, network, phase, buffer, item, ref, maybes, traps, underway, dropped, stream>>

\* The process of a Maybe traps, as the Held that it is does when a consumer has
\* ended.  The generator made it and is linked to it.
MaybeTraps ==
  /\ phase # "gone" /\ traps < maybes
  /\ traps' = traps + 1
  /\ Send(Signal)
  /\ UNCHANGED <<settings, network, generator, consumers, stream>>
-----------------------------------------------------------------------------
Read == ReadSuccess \/ ReadClosed \/ ReadTimeout \/ ReadError

Handle ==
  \/ HandleNext \/ HandleNextDone \/ HandleLink \/ HandleDrop
  \/ HandleSignalYielding \/ HandleSignalDone

HelperNext == \E c \in Consumers : Notify(c)

Step ==
  \/ Arrive \/ Sever \/ \E n \in 1..MaxSent : ReadElsewhere(n)
  \/ Read \/ Handle \/ MaybeTraps
  \/ HelperNext
  \/ \E c \in Consumers : Next(c) \/ Drop(c) \/ Stop(c)

Spec == Init /\ [][Step]_vars

\* Lunatic runs the helpers, and the generator while it can go on; nothing is asked
\* of the peer.
FairSpec == Spec /\ WF_vars(Read \/ Handle) /\ WF_vars(HelperNext)
-----------------------------------------------------------------------------
Pending == IF item.type = "success" THEN SubSeq(item.chunk, 1, item.count) ELSE <<>>
Stream == given \o Pending \o wire

\* What arrives is sent to the consumers in its order and once, what was read
\* elsewhere apart.  What is lost is lost with a consumer that ended in a call, or
\* with the generator, which has read ahead (tcp.ts:362-398).
InOrder ==
  /\ \A i, j \in DOMAIN Stream : i < j => Stream[i] < Stream[j]
  /\ {Stream[i] : i \in DOMAIN Stream} \cap elsewhere = {}
  /\ phase # "gone" => 1..sent = {Stream[i] : i \in DOMAIN Stream} \cup elsewhere

\* The buffer is used again for every read: what a consumer gets past the bytes
\* that were read, whose number it is not told, are bytes that were sent out
\* earlier, or zeros (tcp.ts:366, 370, 388-390).
TailIsOld ==
  item.type = "success" =>
    \A i \in item.count + 1..size : item.chunk[i] \in {0} \cup {given[j] : j \in DOMAIN given}

\* A consumer is told that the connection is closed once every byte of it was
\* given, or read elsewhere, or if it asked for an empty buffer; and after the end
\* nothing is given (tcp.ts:137-142, 374-383, 499-510).
Handed == phase = "yielding" /\ phase' \in {"reading", "done"}
ClosedIsLast ==
  [][/\ Handed /\ item.type = "closed" =>
         \/ size = 0
         \/ wire = <<>> /\ 1..sent = elsewhere \cup {given[j] : j \in DOMAIN given}
     /\ ended => ~Handed /\ given' = given]_vars

Silent == Reading /\ conn = "open" /\ wire = <<>> /\ ~timed

\* A consumer has ended, or a process the generator is linked to has trapped.
Disturbed == running # Consumers \/ traps > 0

\* A call of next ends, unless the generator is done or waits for a peer that sends
\* nothing; or unless it has ended under the call, and that it does only after some
\* consumer or some Maybe has ended (tcp.ts:370, 501, yieldable.ts:44-59, 99-104,
\* 148-156).
Answered ==
  \A c \in Consumers :
    \/ c \in calling ~> c \notin calling \/ phase = "done" \/ (phase = "gone" /\ Disturbed)
    \/ <>[]Silent

\* The generator does not outlive its handles once each was dropped, whichever
\* signals were counted as drops and whoever ends after its drop; unless it waits for
\* a peer that sends nothing, when no message can end it (tcp.ts:370, 501,
\* yieldable.ts:55-58, 99-104, 153-154).
Reclaimed == (dropped = Consumers ~> phase = "gone") \/ <>[]Silent
=============================================================================
