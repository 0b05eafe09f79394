--------------------------- MODULE Sockets_proofs ---------------------------
(***************************************************************************)
(* What arrives reaches the consumers in order, and the end last: for any  *)
(* consumers, sizes of the buffer and numbers of bytes.                    *)
(***************************************************************************)
EXTENDS Sockets, FiniteSetTheorems, SequenceTheorems, TLAPS

Elems(s) == {s[i] : i \in DOMAIN s}
Rising(s) == \A i, j \in DOMAIN s : i < j => s[i] < s[j]

\* The generator's buffer has bytes it gave out, bytes it yields, or zeros; it
\* yields the end when nothing can arrive any more, and then is done.
Flow ==
  /\ Pending \in Seq(1..sent)
  /\ item.type = "success" => item.chunk = buffer
  /\ phase \in {"reading", "yielding"} => \A i \in 1..size : buffer[i] \in {0} \cup Elems(given) \cup Elems(Pending)
  /\ item = Closed => size = 0 \/ (conn # "open" /\ wire = <<>>)
  /\ ended => phase \in {"done", "gone"}

IInv == TypeOK /\ Flow /\ InOrder /\ TailIsOld
-----------------------------------------------------------------------------
\* What is in a concatenation.
LEMMA Joined ==
  ASSUME NEW T, NEW s \in Seq(T), NEW t \in Seq(T)
  PROVE  s \o t \in Seq(T) /\ Elems(s \o t) = Elems(s) \cup Elems(t) /\ Elems(s) \subseteq T
<1>1. /\ s \o t \in Seq(T) /\ Len(s \o t) = Len(s) + Len(t) /\ Len(s) \in Nat /\ Len(t) \in Nat
      /\ DOMAIN s = 1..Len(s) /\ DOMAIN t = 1..Len(t) /\ DOMAIN (s \o t) = 1..(Len(s) + Len(t))
  OBVIOUS
<1>2. \A i \in 1..(Len(s) + Len(t)) : (s \o t)[i] = IF i <= Len(s) THEN s[i] ELSE t[i - Len(s)]
  BY ConcatProperties
<1> DEFINE r == s \o t
           m == Len(s)
           n == Len(t)
<1>3. /\ m \in Nat /\ n \in Nat /\ DOMAIN s = 1..m /\ DOMAIN t = 1..n /\ DOMAIN r = 1..(m + n)
      /\ \A i \in 1..(m + n) : r[i] = IF i <= m THEN s[i] ELSE t[i - m]
  BY <1>1, <1>2
<1> HIDE DEF r, m, n
<1>4. ASSUME NEW i \in DOMAIN r
      PROVE  r[i] \in Elems(s) \cup Elems(t)
  <2>1. CASE i <= m
    <3>1. i \in DOMAIN s /\ r[i] = s[i]
      BY <1>3, <2>1
    <3> QED BY <3>1 DEF Elems
  <2>2. CASE ~(i <= m)
    <3>1. i - m \in DOMAIN t /\ r[i] = t[i - m]
      BY <1>3, <2>2
    <3> QED BY <3>1 DEF Elems
  <2> QED BY <2>1, <2>2
<1>5. ASSUME NEW i \in DOMAIN s
      PROVE  s[i] \in Elems(r)
  <2>1. i \in DOMAIN r /\ r[i] = s[i]
    BY <1>3
  <2> QED BY <2>1 DEF Elems
<1>6. ASSUME NEW i \in DOMAIN t
      PROVE  t[i] \in Elems(r)
  <2>1. i + m \in DOMAIN r /\ ~(i + m <= m) /\ i + m - m = i
    BY <1>3
  <2>2. r[i + m] = t[i]
    BY <1>3, <2>1
  <2> QED BY <2>1, <2>2 DEF Elems
<1>7. Elems(r) = Elems(s) \cup Elems(t)
  <2>1. Elems(r) \subseteq Elems(s) \cup Elems(t)
    BY <1>4 DEF Elems
  <2>2. Elems(s) \subseteq Elems(r)
    BY <1>5 DEF Elems
  <2>3. Elems(t) \subseteq Elems(r)
    BY <1>6 DEF Elems
  <2> QED BY <2>1, <2>2, <2>3
<1>8. Elems(s) \subseteq T
  BY DEF Elems
<1> QED BY <1>1, <1>7, <1>8 DEF r

\* A sequence is its first n members and the rest.
LEMMA Halves ==
  ASSUME NEW T, NEW w \in Seq(T), NEW n \in 1..Len(w)
  PROVE  /\ SubSeq(w, 1, n) \in Seq(T) /\ SubSeq(w, n + 1, Len(w)) \in Seq(T)
         /\ w = SubSeq(w, 1, n) \o SubSeq(w, n + 1, Len(w))
         /\ Len(SubSeq(w, 1, n)) = n /\ \A i \in 1..n : SubSeq(w, 1, n)[i] = w[i]
<1>1. /\ 1 \in 1..(Len(w) + 1) /\ n \in 0..Len(w) /\ 1 - 1 = 0
      /\ Len(w) \in n..Len(w)
  OBVIOUS
<1>2. SubSeq(w, 1, n) \o SubSeq(w, n + 1, Len(w)) = SubSeq(w, 1, Len(w))
  BY <1>1, ConcatAdjacentSubSeq
<1>3. SubSeq(w, 1, Len(w)) = w
  BY SubSeqFull
<1>4. /\ SubSeq(w, 1, n) \in Seq(T) /\ SubSeq(w, n + 1, Len(w)) \in Seq(T)
      /\ Len(SubSeq(w, 1, n)) = n /\ \A i \in 1..n : SubSeq(w, 1, n)[i] = w[i]
  OBVIOUS
<1> QED BY <1>2, <1>3, <1>4

\* A rising sequence without its middle part rises, and has nothing of that part.
LEMMA Cut ==
  ASSUME NEW a \in Seq(Nat), NEW b \in Seq(Nat), NEW c \in Seq(Nat), Rising(a \o b \o c)
  PROVE  Rising(a \o c) /\ Elems(b) \cap Elems(a \o c) = {}
<1> DEFINE x == Len(a)
           y == Len(b)
           z == Len(c)
           s == a \o b \o c
           r == a \o c
<1>1. /\ x \in Nat /\ y \in Nat /\ z \in Nat
      /\ DOMAIN a = 1..x /\ DOMAIN b = 1..y /\ DOMAIN c = 1..z
  OBVIOUS
<1>2. /\ a \o b \in Seq(Nat) /\ Len(a \o b) = x + y
      /\ \A i \in 1..(x + y) : (a \o b)[i] = IF i <= x THEN a[i] ELSE b[i - x]
  BY ConcatProperties
<1>3. /\ s \in Seq(Nat) /\ Len(s) = x + y + z /\ DOMAIN s = 1..(x + y + z)
      /\ \A i \in 1..(x + y + z) : s[i] = IF i <= x + y THEN (a \o b)[i] ELSE c[i - (x + y)]
  BY <1>2, ConcatProperties
<1>4. /\ r \in Seq(Nat) /\ Len(r) = x + z /\ DOMAIN r = 1..(x + z)
      /\ \A i \in 1..(x + z) : r[i] = IF i <= x THEN a[i] ELSE c[i - x]
  BY ConcatProperties
<1>5. Rising(s)
  OBVIOUS
<1> HIDE DEF x, y, z, s, r
<1>6. ASSUME NEW i \in 1..(x + z)
      PROVE  /\ i <= x => i \in DOMAIN s /\ r[i] = s[i]
             /\ i > x => i + y \in DOMAIN s /\ r[i] = s[i + y]
  <2>1. CASE i <= x
    <3>1. i \in 1..(x + y) /\ i \in 1..(x + y + z) /\ i <= x + y
      BY <1>1, <2>1
    <3> QED BY <1>1, <1>2, <1>3, <1>4, <2>1, <3>1
  <2>2. CASE i > x
    <3>1. i + y \in 1..(x + y + z) /\ ~(i + y <= x + y) /\ (i + y) - (x + y) = i - x /\ ~(i <= x)
      BY <1>1, <2>2
    <3>2. s[i + y] = c[i - x]
      BY <1>3, <3>1
    <3> QED BY <1>1, <1>3, <1>4, <2>2, <3>1, <3>2
  <2> QED BY <1>1, <2>1, <2>2
<1>7. ASSUME NEW k \in 1..y
      PROVE  x + k \in DOMAIN s /\ b[k] = s[x + k]
  <2>1. x + k \in 1..(x + y) /\ x + k \in 1..(x + y + z) /\ ~(x + k <= x) /\ (x + k) - x = k /\ x + k <= x + y
    BY <1>1
  <2> QED BY <1>2, <1>3, <2>1
<1>8. ASSUME NEW i \in DOMAIN r, NEW j \in DOMAIN r, i < j
      PROVE  r[i] < r[j]
  <2>1. CASE j <= x
    BY <1>1, <1>4, <1>5, <1>6, <1>8, <2>1 DEF Rising
  <2>2. CASE i <= x /\ j > x
    <3>1. i < j + y
      BY <1>1, <1>4, <1>8
    <3> QED BY <1>4, <1>5, <1>6, <2>2, <3>1 DEF Rising
  <2>3. CASE i > x
    <3>1. i + y < j + y /\ j > x
      BY <1>1, <1>4, <1>8, <2>3
    <3> QED BY <1>4, <1>5, <1>6, <2>3, <3>1 DEF Rising
  <2> QED BY <1>1, <1>4, <1>8, <2>1, <2>2, <2>3
<1>9. ASSUME NEW k \in 1..y, NEW i \in DOMAIN r
      PROVE  b[k] # r[i]
  <2>1. \A g \in DOMAIN s : s[g] \in Nat
    BY <1>3
  <2>4. i \in 1..(x + z) /\ i \in Nat /\ k \in Nat
    BY <1>1, <1>4
  <2>5. x + k \in DOMAIN s /\ b[k] = s[x + k]
    BY <1>7
  <2>2. CASE i <= x
    <3>1. i < x + k
      BY <1>1, <2>2, <2>4
    <3>2. i \in DOMAIN s /\ r[i] = s[i]
      BY <1>6, <2>2, <2>4
    <3>3. s[i] < s[x + k]
      BY <1>5, <2>5, <3>1, <3>2 DEF Rising
    <3> QED BY <2>1, <2>5, <3>2, <3>3
  <2>3. CASE i > x
    <3>1. x + k < i + y
      BY <1>1, <2>3, <2>4
    <3>2. i + y \in DOMAIN s /\ r[i] = s[i + y]
      BY <1>6, <2>3, <2>4
    <3>3. s[x + k] < s[i + y]
      BY <1>5, <2>5, <3>1, <3>2 DEF Rising
    <3> QED BY <2>1, <2>5, <3>2, <3>3
  <2> QED BY <1>1, <1>4, <2>2, <2>3
<1>10. Rising(r) /\ Elems(b) \cap Elems(r) = {}
  BY <1>1, <1>8, <1>9 DEF Rising, Elems
<1> QED BY <1>10 DEF r

\* A rising sequence of numbers up to k goes on with the next.
LEMMA Continued ==
  ASSUME NEW k \in Nat, NEW s \in Seq(1..k), Rising(s)
  PROVE  Rising(Append(s, k + 1)) /\ Elems(Append(s, k + 1)) = Elems(s) \cup {k + 1}
<1> DEFINE r == Append(s, k + 1)
<1>1. /\ Len(s) \in Nat /\ DOMAIN s = 1..Len(s) /\ DOMAIN r = 1..(Len(s) + 1)
      /\ \A i \in 1..Len(s) : r[i] = s[i] /\ s[i] \in 1..k
      /\ r[Len(s) + 1] = k + 1
  OBVIOUS
<1> HIDE DEF r
<1>2. ASSUME NEW i \in DOMAIN r, NEW j \in DOMAIN r, i < j
      PROVE  r[i] < r[j]
  <2>1. CASE j = Len(s) + 1
    BY <1>1, <1>2, <2>1
  <2>2. CASE j # Len(s) + 1
    <3>1. i \in DOMAIN s /\ j \in DOMAIN s /\ r[i] = s[i] /\ r[j] = s[j]
      BY <1>1, <1>2, <2>2
    <3> QED BY <1>2, <3>1 DEF Rising
  <2> QED BY <2>1, <2>2
<1>3. Elems(r) = Elems(s) \cup {k + 1}
  <2>1. \A i \in DOMAIN r : r[i] \in Elems(s) \cup {k + 1}
    BY <1>1 DEF Elems
  <2>2. \A i \in DOMAIN s : i \in DOMAIN r /\ r[i] = s[i]
    BY <1>1
  <2>3. Len(s) + 1 \in DOMAIN r
    BY <1>1
  <2> QED BY <1>1, <2>1, <2>2, <2>3 DEF Elems
<1> QED BY <1>2, <1>3 DEF Rising, r

\* What the generator receives.
LEMMA Received ==
  ASSUME TypeOK, NEW k, Receive(k)
  PROVE  /\ Head(mbox) \in Messages /\ Tail(mbox) \in Seq(Messages)
         /\ k \in {"next", "drop", "link"} => Head(mbox).from \in Consumers
<1>1. mbox \in Seq(Messages) /\ mbox # <<>> /\ Head(mbox).kind = k
  BY DEF TypeOK, Receive
<1>2. Head(mbox) \in Messages /\ Tail(mbox) \in Seq(Messages)
  BY <1>1, HeadTailProperties
<1>3. ASSUME NEW m \in Messages, m.kind \in {"next", "drop", "link"}
      PROVE  m.from \in Consumers
  BY <1>3 DEF Messages, Signal
<1> QED BY <1>1, <1>2, <1>3

\* What is sent to it.
LEMMA Sent ==
  ASSUME TypeOK, NEW m \in Messages, Send(m)
  PROVE  mbox' \in Seq(Messages)
BY DEF TypeOK, Send

LEMMA Notices ==
  ASSUME NEW c \in Consumers, NEW k \in {"next", "drop", "link"}
  PROVE  Notice(k, c) \in Messages
BY DEF Notice, Messages
-----------------------------------------------------------------------------
\* What is in the stream.
LEMMA Streams ==
  ASSUME TypeOK, Flow
  PROVE  /\ sent \in Nat /\ given \in Seq(1..sent) /\ Pending \in Seq(1..sent) /\ wire \in Seq(1..sent)
         /\ given \o Pending \in Seq(1..sent) /\ Stream \in Seq(1..sent)
         /\ Elems(given \o Pending) = Elems(given) \cup Elems(Pending)
         /\ Elems(Stream) = Elems(given) \cup Elems(Pending) \cup Elems(wire)
<1>1. sent \in Nat /\ given \in Seq(1..sent) /\ Pending \in Seq(1..sent) /\ wire \in Seq(1..sent)
  BY DEF TypeOK, Flow
<1>2. given \o Pending \in Seq(1..sent) /\ Elems(given \o Pending) = Elems(given) \cup Elems(Pending)
  BY <1>1, Joined
<1>3. Stream \in Seq(1..sent) /\ Elems(Stream) = Elems(given \o Pending) \cup Elems(wire)
  <2> DEFINE g == given \o Pending
  <2>1. g \in Seq(1..sent) /\ wire \in Seq(1..sent)
    BY <1>1, <1>2
  <2>2. Stream = g \o wire
    BY DEF Stream
  <2> HIDE DEF g
  <2>3. Stream \in Seq(1..sent) /\ Elems(Stream) = Elems(g) \cup Elems(wire)
    BY <2>1, <2>2, Joined
  <2> QED BY <2>3 DEF g
<1> QED BY <1>1, <1>2, <1>3

LEMMA Ordered ==
  ASSUME InOrder
  PROVE  /\ Rising(Stream) /\ Elems(Stream) \cap elsewhere = {}
         /\ phase # "gone" => 1..sent = Elems(Stream) \cup elsewhere
BY DEF InOrder, Rising, Elems

LEMMA OrderedNext ==
  ASSUME NEW s, s = Stream', Rising(s), Elems(s) \cap elsewhere' = {},
         phase' # "gone" => 1..sent' = Elems(s) \cup elsewhere'
  PROVE  InOrder'
BY DEF InOrder, Rising, Elems

\* A step that keeps the stream keeps its order.
LEMMA SameStream ==
  ASSUME InOrder, Stream' = Stream, UNCHANGED <<sent, elsewhere>>, phase' # "gone" => phase # "gone"
  PROVE  InOrder'
BY DEF InOrder

\* What the generator yields.
LEMMA ItemKinds ==
  ASSUME NEW i \in Items
  PROVE  /\ i.type = "success" => i.chunk \in Chunks /\ i.count \in 1..size
         /\ i.type = "closed" <=> i = Closed
         /\ i.type = "error" <=> i = Error
BY DEF Items, Nothing, Timeout, Closed, Error

\* A step that leaves the generator alone.
LEMMA SameGenerator ==
  ASSUME TypeOK, Flow, TailIsOld, UNCHANGED <<size, phase, buffer, item, given, ended>>,
         sent' \in Nat, sent <= sent', item = Closed => size = 0 \/ (conn' # "open" /\ wire' = <<>>)
  PROVE  Flow' /\ TailIsOld' /\ Pending' = Pending
<1>1. Pending' = Pending
  BY DEF Pending
<1>2. 1..sent \subseteq 1..sent'
  BY DEF TypeOK
<1>3. Pending' \in Seq(1..sent')
  BY <1>1, <1>2, SeqMonotonic DEF Flow
<1>4. Flow'
  BY <1>1, <1>3 DEF Flow, Elems
<1>5. TailIsOld'
  BY DEF TailIsOld
<1> QED BY <1>1, <1>4, <1>5

\* A step that leaves the stream alone.
LEMMA Aside ==
  ASSUME IInv, TypeOK', UNCHANGED <<settings, network, phase, buffer, item, stream>>
  PROVE  IInv'
<1> USE DEF IInv
<1>1. UNCHANGED <<kind, size, timed, conn, wire, sent, phase, buffer, item, given, ended, elsewhere>>
  BY DEF settings, network, stream
<1>2. sent' \in Nat /\ sent <= sent'
  BY <1>1 DEF TypeOK
<1>3. Flow' /\ TailIsOld' /\ Pending' = Pending
  BY <1>1, <1>2, SameGenerator DEF Flow
<1>4. InOrder'
  BY <1>1, <1>3, SameStream DEF Stream
<1> QED BY <1>3, <1>4

LEMMA InitInvariant == Init => IInv
<1> SUFFICES ASSUME Init PROVE IInv
  OBVIOUS
<1> USE DEF Init
<1>1. size \in Nat /\ IsFiniteSet(Consumers)
  BY SocketsAssumption
<1>2. TypeOK
  <2>1. ref \in Int /\ ref > 0
    <3>1. Cardinality(Consumers) \in Nat /\ Cardinality(Consumers) # 0
      BY SocketsAssumption, FS_CardinalityType, FS_EmptySet
    <3> QED BY <3>1
  <2>2. buffer \in Chunks
    BY DEF Chunks
  <2>3. wire \in Seq(1..sent) /\ given \in Seq(1..sent)
    OBVIOUS
  <2>5. mbox \in Seq(Messages)
    <3>1. PICK q \in [1..Cardinality(Consumers) -> Consumers] : mbox = [i \in DOMAIN q |-> Notice("link", q[i])]
      OBVIOUS
    <3>2. Cardinality(Consumers) \in Nat
      BY SocketsAssumption, FS_CardinalityType
    <3>3. DOMAIN q = 1..Cardinality(Consumers) /\ \A i \in DOMAIN q : Notice("link", q[i]) \in Messages
      BY Notices
    <3> QED BY <3>1, <3>2, <3>3
  <2>4. item \in Items /\ ~(phase = "yielding") /\ ~(item # Nothing)
    BY DEF Items
  <2> QED BY <1>1, <2>1, <2>2, <2>3, <2>4, <2>5 DEF TypeOK
<1>3. Pending = <<>> /\ item.type = "nothing" /\ item # Closed
  BY DEF Pending, Nothing, Closed
<1>4. Flow
  BY <1>3 DEF Flow
<1>6. InOrder
  BY <1>3 DEF InOrder, Stream
<1>7. TailIsOld
  BY <1>3 DEF TailIsOld
<1> QED BY <1>2, <1>4, <1>6, <1>7 DEF IInv
-----------------------------------------------------------------------------
LEMMA ArriveInvariant ==
  ASSUME IInv, Arrive
  PROVE  IInv'
<1> USE DEF IInv
<1>1. sent \in Nat /\ sent' = sent + 1 /\ wire' = Append(wire, sent + 1) /\ wire \in Seq(1..sent)
  BY DEF Arrive, TypeOK
<1>2. /\ 1..sent \subseteq 1..sent' /\ sent' \in Nat /\ sent <= sent'
      /\ sent + 1 \in 1..sent' /\ 1..sent' = 1..sent \cup {sent + 1}
  BY <1>1
<1>3. wire \in Seq(1..sent') /\ given \in Seq(1..sent') /\ Pending \in Seq(1..sent')
  BY <1>1, <1>2, Streams, SeqMonotonic
<1>4. UNCHANGED <<settings, kind, size, timed, conn, generator, mbox, traps, consumers, given, ended, elsewhere>> /\ conn = "open"
  BY DEF Arrive, settings, stream
<1>5. wire' \in Seq(1..sent')
  BY <1>1, <1>2, <1>3
<1>6. TypeOK'
  BY <1>2, <1>3, <1>4, <1>5 DEF TypeOK, generator, consumers, Items, Chunks
<1>7. Flow' /\ TailIsOld' /\ Pending' = Pending
  BY <1>2, <1>4, SameGenerator DEF Flow, generator
<1>8. Stream' = Append(Stream, sent + 1)
  <2>1. /\ given \o Pending \in Seq(1..sent') /\ <<sent + 1>> \in Seq(1..sent')
    BY <1>2, <1>3
  <2>2. (given \o Pending) \o (wire \o <<sent + 1>>) = ((given \o Pending) \o wire) \o <<sent + 1>>
    BY <1>3, <2>1, ConcatAssociative
  <2>3. Append(wire, sent + 1) = wire \o <<sent + 1>> 
    BY <1>2, <1>3
  <2>4. Stream \in Seq(1..sent')
    BY <1>2, Streams, SeqMonotonic
  <2>5. Append(Stream, sent + 1) = Stream \o <<sent + 1>>
    BY <1>2, <2>4
  <2> QED BY <1>1, <1>4, <1>7, <2>2, <2>3, <2>5 DEF Stream
<1>9. InOrder'
  <2>1. Rising(Stream) /\ Stream \in Seq(1..sent)
    BY Ordered, Streams
  <2>2. /\ Rising(Append(Stream, sent + 1))
        /\ Elems(Append(Stream, sent + 1)) = Elems(Stream) \cup {sent + 1}
    BY <1>1, <2>1, Continued
  <2>3. elsewhere' = elsewhere /\ elsewhere \subseteq 1..sent /\ phase' = phase /\ sent + 1 \notin 1..sent
    BY <1>1, <1>4 DEF TypeOK, generator
  <2>4. Elems(Append(Stream, sent + 1)) \cap elsewhere' = {}
    BY <2>2, <2>3, Ordered
  <2>5. phase' # "gone" => 1..sent' = Elems(Append(Stream, sent + 1)) \cup elsewhere'
    BY <1>1, <1>2, <2>2, <2>3, Ordered
  <2> QED BY <1>8, <2>2, <2>4, <2>5, OrderedNext
<1> QED BY <1>6, <1>7, <1>9

LEMMA SeverInvariant ==
  ASSUME IInv, Sever
  PROVE  IInv'
<1> USE DEF IInv
<1>1. UNCHANGED <<kind, size, timed, wire, sent, generator, mbox, traps, consumers, given, ended, elsewhere>>
      /\ conn = "open" /\ conn' \in {"closed", "broken"}
  BY DEF Sever, settings, stream
<1>2. TypeOK'
  BY <1>1 DEF TypeOK, generator, consumers, Items, Chunks
<1>3. Flow' /\ TailIsOld' /\ Pending' = Pending
  <2>1. sent' \in Nat /\ sent <= sent'
    BY <1>1 DEF TypeOK
  <2>2. item = Closed => size = 0
    BY <1>1 DEF Flow
  <2> QED BY <1>1, <2>1, <2>2, SameGenerator DEF generator
<1>4. InOrder'
  BY <1>1, <1>3, SameStream DEF Stream, generator
<1> QED BY <1>2, <1>3, <1>4

LEMMA ReadElsewhereInvariant ==
  ASSUME IInv, NEW n \in 1..MaxSent, ReadElsewhere(n)
  PROVE  IInv'
<1> USE DEF IInv
<1>1. /\ UNCHANGED <<kind, size, timed, conn, sent, generator, mbox, traps, consumers, given, ended>>
      /\ n \in 1..Len(wire) /\ wire' = SubSeq(wire, n + 1, Len(wire))
      /\ elsewhere' = elsewhere \cup {wire[i] : i \in 1..n}
  BY DEF ReadElsewhere, settings
<1>2. wire \in Seq(1..sent) /\ sent \in Nat
  BY DEF TypeOK
<1> DEFINE h == SubSeq(wire, 1, n)
           t == SubSeq(wire, n + 1, Len(wire))
<1>3. /\ h \in Seq(1..sent) /\ t \in Seq(1..sent) /\ wire = h \o t
      /\ Len(h) = n /\ \A i \in 1..n : h[i] = wire[i]
  BY <1>1, <1>2, Halves
<1>4. wire' = t
  BY <1>1
<1> HIDE DEF h, t
<1>5. DOMAIN h = 1..n
  BY <1>3
<1>6. Elems(h) = {wire[i] : i \in 1..n} /\ Elems(h) \subseteq 1..sent
  <2>1. Elems(h) = {wire[i] : i \in 1..n}
    BY <1>3, <1>5 DEF Elems
  <2>2. Elems(h) \subseteq 1..sent
    BY <1>3, Joined
  <2> QED BY <2>1, <2>2
<1>7. TypeOK'
  <2>1. elsewhere' \subseteq 1..sent'
    BY <1>1, <1>6 DEF TypeOK
  <2> QED BY <1>1, <1>3, <1>4, <2>1 DEF TypeOK, generator, consumers, Items, Chunks
<1>8. Flow' /\ TailIsOld' /\ Pending' = Pending
  <2>1. sent' \in Nat /\ sent <= sent'
    BY <1>1 DEF TypeOK
  <2>2. item = Closed => size = 0
    <3>1. wire # <<>>
      BY <1>1
    <3> QED BY <3>1 DEF Flow
  <2> QED BY <1>1, <2>1, <2>2, SameGenerator DEF generator
<1>9. InOrder'
  <2> DEFINE g == given \o Pending
  <2>1. g \in Seq(1..sent) /\ 1..sent \subseteq Nat
    BY <1>2, Streams
  <2>2. Stream = g \o (h \o t) /\ Stream' = g \o t
    BY <1>1, <1>3, <1>4, <1>8 DEF Stream
  <2> HIDE DEF g
  <2>3. Stream = g \o h \o t
    BY <1>3, <2>1, <2>2, ConcatAssociative
  <2>4. g \in Seq(Nat) /\ h \in Seq(Nat) /\ t \in Seq(Nat)
    BY <1>3, <2>1, SeqMonotonic
  <2>5. Rising(g \o t) /\ Elems(h) \cap Elems(g \o t) = {}
    BY <2>3, <2>4, Ordered, Cut
  <2>6. /\ Elems(Stream) = Elems(g) \cup Elems(h) \cup Elems(t)
        /\ Elems(g \o t) = Elems(g) \cup Elems(t)
    <3>1. g \o h \in Seq(Nat) /\ Elems(g \o h) = Elems(g) \cup Elems(h)
      BY <2>4, Joined
    <3>2. ASSUME NEW u \in Seq(Nat)
          PROVE  Elems(u \o t) = Elems(u) \cup Elems(t)
      BY <2>4, Joined
    <3>3. Elems(g \o t) = Elems(g) \cup Elems(t)
      BY <2>4, Joined
    <3> QED BY <2>3, <3>1, <3>2, <3>3
  <2>7. elsewhere' = elsewhere \cup Elems(h) /\ sent' = sent /\ phase' = phase
    BY <1>1, <1>6 DEF generator
  <2>8. Elems(g \o t) \cap elsewhere' = {}
    BY <2>5, <2>6, <2>7, Ordered
  <2>9. phase' # "gone" => 1..sent' = Elems(g \o t) \cup elsewhere'
    BY <2>6, <2>7, Ordered
  <2> QED BY <2>2, <2>5, <2>8, <2>9, OrderedNext
<1> QED BY <1>7, <1>8, <1>9
-----------------------------------------------------------------------------
\* A read that ends without bytes.
LEMMA YieldInvariant ==
  ASSUME IInv, Reading, NEW i \in {Timeout, Closed, Error}, Yield(i), UNCHANGED <<wire, buffer>>,
         i = Closed => size = 0 \/ (conn # "open" /\ wire = <<>>)
  PROVE  IInv'
<1> USE DEF IInv
<1>1. /\ phase' = "yielding" /\ item' = i /\ phase = "reading" /\ item = Nothing
      /\ maybes' = Least(maybes + 1, MaxTraps)
      /\ UNCHANGED <<kind, size, timed, conn, sent, mbox, ref, linked, traps, consumers, given, ended, elsewhere, wire, buffer>>
  BY DEF Yield, Reading, TypeOK, settings, stream
<1>2. i \in Items /\ i # Nothing /\ i.type # "success" /\ Nothing.type # "success"
  BY DEF Items, Nothing, Timeout, Closed, Error
<1>3. TypeOK'
  <2>1. maybes' \in Nat
    BY <1>1, SocketsAssumption DEF TypeOK, Least
  <2> QED BY <1>1, <1>2, <2>1 DEF TypeOK, consumers, Items, Chunks
<1>4. Pending = <<>> /\ Pending' = <<>>
  BY <1>1, <1>2 DEF Pending
<1>5. Flow'
  BY <1>1, <1>2, <1>4 DEF Flow, Elems
<1>6. TailIsOld'
  BY <1>1, <1>2 DEF TailIsOld
<1>7. InOrder'
  BY <1>1, <1>4, SameStream DEF Stream
<1> QED BY <1>3, <1>5, <1>6, <1>7

LEMMA ReadSuccessInvariant ==
  ASSUME IInv, ReadSuccess
  PROVE  IInv'
<1> USE DEF IInv
<1>1. PICK n \in 1..Least(size, Len(wire)) :
        /\ buffer' = [i \in 1..size |-> IF i <= n THEN wire[i] ELSE buffer[i]]
        /\ wire' = SubSeq(wire, n + 1, Len(wire))
        /\ Yield(Success(buffer', n))
  BY DEF ReadSuccess
<1>2. wire \in Seq(1..sent) /\ sent \in Nat /\ size \in Nat /\ given \in Seq(1..sent) /\ buffer \in [1..size -> Nat]
  BY DEF TypeOK, Chunks
<1>3. n \in 1..Len(wire) /\ n \in 1..size
  BY <1>1, <1>2 DEF Least
<1> DEFINE h == SubSeq(wire, 1, n)
           t == SubSeq(wire, n + 1, Len(wire))
<1>4. /\ h \in Seq(1..sent) /\ t \in Seq(1..sent) /\ wire = h \o t
      /\ Len(h) = n /\ \A i \in 1..n : h[i] = wire[i]
  BY <1>2, <1>3, Halves
<1>5. wire' = t
  BY <1>1
<1> HIDE DEF h, t
<1>6. DOMAIN h = 1..n /\ \A i \in 1..n : h[i] \in 1..sent
  <2>1. DOMAIN h = 1..n
    BY <1>4, LenProperties
  <2>2. \A i \in 1..Len(h) : h[i] \in 1..sent
    BY <1>4, ElementOfSeq
  <2> QED BY <1>4, <2>1, <2>2
<1>7. /\ phase' = "yielding" /\ phase = "reading" /\ item = Nothing
      /\ item' = [type |-> "success", chunk |-> buffer', count |-> n]
      /\ maybes' = Least(maybes + 1, MaxTraps)
      /\ UNCHANGED <<kind, size, timed, conn, sent, mbox, ref, linked, traps, consumers, given, ended, elsewhere>>
  BY <1>1 DEF ReadSuccess, Reading, Yield, Success, TypeOK, settings, stream
<1>8. buffer' \in [1..size -> Nat] /\ \A i \in 1..size : buffer'[i] = IF i <= n THEN h[i] ELSE buffer[i]
  <2>1. \A i \in 1..size : buffer'[i] = IF i <= n THEN h[i] ELSE buffer[i]
    BY <1>1, <1>2, <1>3, <1>4
  <2>2. \A i \in 1..size : (IF i <= n THEN h[i] ELSE buffer[i]) \in Nat
    BY <1>2, <1>3, <1>6
  <2>3. buffer' = [i \in 1..size |-> buffer'[i]]
    BY <1>1
  <2> QED BY <2>1, <2>2, <2>3
<1>9. TypeOK'
  <2>1. item' \in Items' /\ item' # Nothing
    BY <1>3, <1>7, <1>8 DEF Items, Chunks, Nothing
  <2>2. buffer' \in Chunks' /\ wire' \in Seq(1..sent')
    BY <1>4, <1>5, <1>7, <1>8 DEF Chunks
  <2>3. maybes' \in Nat
    BY <1>7, SocketsAssumption DEF TypeOK, Least
  <2> QED BY <1>7, <2>1, <2>2, <2>3 DEF TypeOK, consumers
<1>10. Pending = <<>> /\ Pending' = h
  <2>1. Pending = <<>>
    BY <1>7 DEF Pending, Nothing
  <2>2. Pending' = SubSeq(buffer', 1, n)
    BY <1>7 DEF Pending
  <2>3. ASSUME NEW b, b = buffer'
        PROVE  SubSeq(b, 1, n) = h
    <3>1. \A i \in 1..n : b[i] = h[i] /\ b[i] \in 1..sent
      <4>1. \A i \in 1..n : i \in 1..size /\ i <= n
        BY <1>2, <1>3
      <4> QED BY <1>6, <1>8, <2>3, <4>1
    <3>2. /\ SubSeq(b, 1, n) \in Seq(1..sent) /\ Len(SubSeq(b, 1, n)) = n
          /\ \A i \in 1..n : SubSeq(b, 1, n)[i] = b[i]
      BY <1>3, <3>1
    <3> QED BY <1>4, <3>1, <3>2, SeqEqual
  <2> QED BY <2>1, <2>2, <2>3
<1>11. Flow'
  <2>1. \A i \in 1..size : buffer'[i] \in {0} \cup Elems(given) \cup Elems(h)
    <3>1. ASSUME NEW i \in 1..size
          PROVE  buffer'[i] \in {0} \cup Elems(given) \cup Elems(h)
      <4>1. CASE i <= n
        <5>1. i \in DOMAIN h /\ buffer'[i] = h[i]
          BY <1>3, <1>6, <1>8, <4>1
        <5> QED BY <5>1 DEF Elems
      <4>2. CASE ~(i <= n)
        <5>1. buffer'[i] = buffer[i]
          BY <1>8, <4>2
        <5>2. buffer[i] \in {0} \cup Elems(given)
          BY <1>7, <1>10 DEF Flow, Elems
        <5> QED BY <5>1, <5>2
      <4> QED BY <4>1, <4>2
    <3> QED BY <3>1
  <2>2. Pending' \in Seq(1..sent') /\ item' # Closed /\ ~ended'
    BY <1>4, <1>7, <1>10 DEF Closed, Flow
  <2>3. item'.type = "success" => item'.chunk = buffer'
    BY <1>7
  <2>4. \A i \in 1..size' : buffer'[i] \in {0} \cup Elems(given)' \cup Elems(Pending)'
    BY <1>7, <1>10, <2>1 DEF Elems
  <2> QED BY <2>2, <2>3, <2>4 DEF Flow
<1>12. TailIsOld'
  <2>1. \A i \in n + 1..size : buffer'[i] \in {0} \cup {given[j] : j \in DOMAIN given}
    <3>1. \A i \in n + 1..size : i \in 1..size /\ ~(i <= n)
      BY <1>2, <1>3
    <3>2. \A i \in 1..size : buffer[i] \in {0} \cup {given[j] : j \in DOMAIN given}
      BY <1>7, <1>10 DEF Flow, Elems
    <3> QED BY <1>8, <3>1, <3>2
  <2> QED BY <1>7, <2>1 DEF TailIsOld
<1>13. InOrder'
  <2>1. Stream = given \o (h \o t) /\ Stream' = (given \o h) \o t
    BY <1>2, <1>4, <1>5, <1>7, <1>10, ConcatEmptySeq DEF Stream
  <2>2. Stream' = Stream
    <3>1. (given \o h) \o t = given \o (h \o t)
      <4>1. given \in Seq(1..sent) /\ h \in Seq(1..sent) /\ t \in Seq(1..sent)
        BY <1>2, <1>4
      <4> QED BY <4>1, ConcatAssociative
    <3> QED BY <2>1, <3>1
  <2> QED BY <1>7, <2>2, SameStream
<1> QED BY <1>9, <1>11, <1>12, <1>13

LEMMA ReadInvariant ==
  ASSUME IInv, Read
  PROVE  IInv'
<1>1. CASE ReadSuccess
  BY <1>1, ReadSuccessInvariant
<1>2. CASE ReadClosed
  <2>1. size = 0 \/ (conn # "open" /\ wire = <<>>)
    BY <1>2 DEF ReadClosed
  <2>2. Reading /\ Yield(Closed) /\ UNCHANGED <<wire, buffer>>
    BY <1>2 DEF ReadClosed
  <2> QED BY <2>1, <2>2, YieldInvariant
<1>3. CASE ReadTimeout
  <2>1. Reading /\ Yield(Timeout) /\ UNCHANGED <<wire, buffer>> /\ Timeout # Closed
    BY <1>3 DEF ReadTimeout, Timeout, Closed
  <2> QED BY <2>1, YieldInvariant
<1>4. CASE ReadError
  <2>1. Reading /\ Yield(Error) /\ UNCHANGED <<wire, buffer>> /\ Error # Closed
    BY <1>4 DEF ReadError, Error, Closed
  <2> QED BY <2>1, YieldInvariant
<1> QED BY <1>1, <1>2, <1>3, <1>4 DEF Read
-----------------------------------------------------------------------------
LEMMA HandleNextInvariant ==
  ASSUME IInv, HandleNext
  PROVE  IInv'
<1> USE DEF IInv
<1>1. /\ Receive("next") /\ phase = "yielding" /\ mbox' = Tail(mbox)
      /\ calling' = calling \ {Head(mbox).from}
      /\ given' = IF item.type = "success" THEN given \o SubSeq(item.chunk, 1, item.count) ELSE given
      /\ phase' = AfterYield /\ item' = Nothing
      /\ UNCHANGED <<kind, size, timed, conn, wire, sent, buffer, ref, linked, maybes, traps, underway, running, dropped, elsewhere>>
  BY DEF HandleNext, settings, network
<1>2. ended' = (ended \/ item.type \in {"closed", "error"})
  BY DEF HandleNext
<1>3. item \in Items /\ wire \in Seq(1..sent) /\ sent \in Nat /\ given \in Seq(1..sent)
  BY DEF TypeOK
<1>4. given' = given \o Pending /\ Pending' = <<>>
  <2>1. Pending' = <<>>
    BY <1>1 DEF Pending, Nothing
  <2>2. CASE item.type = "success"
    BY <1>1, <2>1, <2>2 DEF Pending
  <2>3. CASE item.type # "success"
    BY <1>1, <1>3, <2>1, <2>3, ConcatEmptySeq DEF Pending
  <2> QED BY <2>2, <2>3
<1>5. given \o Pending \in Seq(1..sent) /\ Elems(given \o Pending) = Elems(given) \cup Elems(Pending)
  BY Streams
<1>6. Tail(mbox) \in Seq(Messages)
  BY <1>1, Received
<1>7. TypeOK'
  <2>1. ended' \in BOOLEAN
    BY <1>2
  <2>2. calling' \subseteq running' \ dropped'
    BY <1>1 DEF TypeOK
  <2>3. phase' \in {"done", "reading"}
    BY <1>1 DEF AfterYield
  <2>4. item' \in Items' /\ item' = Nothing
    BY <1>1 DEF Items
  <2>5. mbox' \in Seq(Messages) /\ given' \in Seq(1..sent')
    BY <1>1, <1>4, <1>5, <1>6
  <2>6. buffer' \in Chunks'
    BY <1>1 DEF TypeOK, Chunks
  <2> QED BY <1>1, <2>1, <2>2, <2>3, <2>4, <2>5, <2>6 DEF TypeOK
<1>8. Flow'
  <2>1. Pending' \in Seq(1..sent')
    BY <1>4
  <2>2. item'.type # "success" /\ item' # Closed
    BY <1>1 DEF Nothing, Closed
  <2>3. \A i \in 1..size : buffer[i] \in {0} \cup Elems(given \o Pending)
    BY <1>1, <1>5 DEF Flow
  <2>4. \A i \in 1..size' : buffer'[i] \in {0} \cup Elems(given)' \cup Elems(Pending)'
    BY <1>1, <1>4, <2>3 DEF Elems
  <2>5. ended' => phase' = "done"
    <3>1. ~ended
      BY <1>1 DEF Flow
    <3>2. item.type \in {"closed", "error"} => item \in {Closed, Error}
      BY <1>3, ItemKinds
    <3> QED BY <1>1, <1>2, <3>1, <3>2 DEF AfterYield
  <2> QED BY <2>1, <2>2, <2>4, <2>5 DEF Flow
<1>9. TailIsOld'
  BY <1>1 DEF TailIsOld, Nothing
<1>10. InOrder'
  <2>1. given' \o Pending' = given \o Pending
    BY <1>4, <1>5, ConcatEmptySeq
  <2>2. Stream' = Stream
    BY <1>1, <2>1 DEF Stream
  <2> QED BY <1>1, <2>2, SameStream
<1> QED BY <1>7, <1>8, <1>9, <1>10

LEMMA HandleNextDoneInvariant ==
  ASSUME IInv, HandleNextDone
  PROVE  IInv'
<1>1. /\ Receive("next") /\ mbox' = Tail(mbox) /\ TypeOK
      /\ UNCHANGED <<settings, network, generator, traps, consumers, stream>>
  BY DEF HandleNextDone, IInv
<1>2. Tail(mbox) \in Seq(Messages)
  BY <1>1, Received
<1>3. TypeOK'
  BY <1>1, <1>2 DEF TypeOK, settings, network, generator, consumers, stream, Items, Chunks
<1> QED BY <1>1, <1>3, Aside DEF generator

\* The end of the generator, which takes along what it yields.
LEMMA EndsInvariant ==
  ASSUME IInv, Ends, OnlyCounts, ref' \in Int
  PROVE  IInv'
<1> USE DEF IInv
<1>1. /\ phase' = "gone" /\ item' = Nothing /\ mbox' = <<>>
      /\ UNCHANGED <<kind, size, timed, conn, wire, sent, buffer, linked, maybes, traps, consumers, given, ended, elsewhere>>
  BY DEF Ends, OnlyCounts, settings, network, stream
<1>2. sent \in Nat /\ given \in Seq(1..sent) /\ Pending \in Seq(1..sent) /\ wire \in Seq(1..sent)
  BY Streams
<1>3. TypeOK'
  <2>1. item' \in Items' /\ mbox' \in Seq(Messages)
    BY <1>1 DEF Items
  <2> QED BY <1>1, <2>1 DEF TypeOK, consumers, Chunks
<1>4. Pending' = <<>> /\ Nothing # Closed /\ Nothing.type # "success"
  BY <1>1 DEF Pending, Nothing, Closed
<1>5. Flow' /\ TailIsOld'
  BY <1>1, <1>4 DEF Flow, TailIsOld
<1>6. InOrder'
  <2>1. given \in Seq(Nat) /\ Pending \in Seq(Nat) /\ wire \in Seq(Nat)
    <3>1. 1..sent \subseteq Nat
      BY <1>2
    <3> QED BY <1>2, <3>1, SeqMonotonic
  <2>2. Rising(given \o wire)
    BY <2>1, Ordered, Cut DEF Stream
  <2>3. Stream' = given \o wire
    BY <1>1, <1>2, <1>4, ConcatEmptySeq DEF Stream
  <2>4. Elems(given \o wire) = Elems(given) \cup Elems(wire)
    BY <1>2, Joined
  <2>5. Elems(given \o wire) \cap elsewhere' = {}
    BY <1>1, <2>4, Streams, Ordered
  <2> QED BY <1>1, <2>2, <2>3, <2>5, OrderedNext
<1> QED BY <1>3, <1>5, <1>6

\* The generator goes on after an event without a value.
LEMMA ContinueInvariant ==
  ASSUME IInv, NEW k, Receive(k), Continue, OnlyCounts,
         ref' \in Int, phase = "yielding" => ref' > 0, linked' \subseteq running
  PROVE  IInv'
<1>1. TypeOK /\ Tail(mbox) \in Seq(Messages) /\ phase \in {"yielding", "done"}
  BY Received DEF IInv, Receive, Receiving
<1>2. /\ mbox' = Tail(mbox)
      /\ UNCHANGED <<phase, item, settings, network, buffer, maybes, traps, consumers, stream>>
  BY DEF Continue, OnlyCounts
<1>3. TypeOK'
  BY <1>1, <1>2 DEF TypeOK, settings, network, consumers, stream, Items, Chunks
<1> QED BY <1>2, <1>3, Aside

LEMMA HandleLinkInvariant ==
  ASSUME IInv, HandleLink
  PROVE  IInv'
<1> DEFINE c == Head(mbox).from
<1>1. /\ Receive("link") /\ OnlyCounts /\ ref' = ref
      /\ \/ Ends
         \/ c \in running /\ linked' = linked \cup {c} /\ Continue
  BY DEF HandleLink
<1>2. ref' \in Int /\ (phase = "yielding" => ref' > 0) /\ linked \subseteq running
  BY <1>1 DEF IInv, TypeOK
<1>3. CASE Ends
  BY <1>1, <1>2, <1>3, EndsInvariant
<1>4. CASE c \in running /\ linked' = linked \cup {c} /\ Continue
  <2>1. linked' \subseteq running
    BY <1>2, <1>4
  <2> QED BY <1>1, <1>2, <1>4, <2>1, ContinueInvariant
<1> QED BY <1>1, <1>3, <1>4

LEMMA HandleDropInvariant ==
  ASSUME IInv, HandleDrop
  PROVE  IInv'
<1> DEFINE c == Head(mbox).from
<1>1. /\ Receive("drop") /\ OnlyCounts /\ ref' = ref - 1
      /\ \/ Ends
         \/ ref - 1 > 0 /\ linked' = linked \ {c} /\ Continue
  BY DEF HandleDrop
<1>2. ref' \in Int /\ linked \subseteq running
  BY <1>1 DEF IInv, TypeOK
<1>3. CASE Ends
  BY <1>1, <1>2, <1>3, EndsInvariant
<1>4. CASE ref - 1 > 0 /\ linked' = linked \ {c} /\ Continue
  <2>1. linked' \subseteq running /\ ref' > 0
    BY <1>1, <1>2, <1>4
  <2> QED BY <1>1, <1>2, <1>4, <2>1, ContinueInvariant
<1> QED BY <1>1, <1>3, <1>4

LEMMA HandleSignalYieldingInvariant ==
  ASSUME IInv, HandleSignalYielding
  PROVE  IInv'
<1>1. /\ Receive("signal") /\ OnlyCounts /\ ref' = ref - 1
      /\ \/ Ends
         \/ /\ ref - 1 > 0 /\ Continue
            /\ linked' \in {linked} \cup {linked \ {c} : c \in running}
  BY DEF HandleSignalYielding
<1>2. ref' \in Int /\ linked \subseteq running
  BY <1>1 DEF IInv, TypeOK
<1>3. CASE Ends
  BY <1>1, <1>2, <1>3, EndsInvariant
<1>4. CASE ref - 1 > 0 /\ Continue /\ linked' \in {linked} \cup {linked \ {c} : c \in running}
  <2>1. linked' \subseteq running /\ ref' > 0
    BY <1>1, <1>2, <1>4
  <2> QED BY <1>1, <1>2, <1>4, <2>1, ContinueInvariant
<1> QED BY <1>1, <1>3, <1>4

LEMMA HandleSignalDoneInvariant ==
  ASSUME IInv, HandleSignalDone
  PROVE  IInv'
<1>1. /\ Receive("signal") /\ phase = "done" /\ Continue /\ OnlyCounts
      /\ ref' = ref - 1 /\ linked' = linked
  BY DEF HandleSignalDone
<1>2. ref' \in Int /\ linked' \subseteq running /\ ~(phase = "yielding")
  BY <1>1 DEF IInv, TypeOK
<1> QED BY <1>1, <1>2, ContinueInvariant
-----------------------------------------------------------------------------
\* What the consumers, their helpers and the Maybes do.
LEMMA NextInvariant ==
  ASSUME IInv, NEW c \in Consumers, Next(c)
  PROVE  IInv'
<1>1. /\ c \in running \ (dropped \cup calling) /\ Send(Notice("next", c)) /\ calling' = calling \cup {c} /\ TypeOK
      /\ UNCHANGED <<settings, network, generator, traps, underway, running, dropped, stream>>
  BY DEF Next, Free, IInv
<1>2. mbox' \in Seq(Messages)
  BY <1>1, Sent, Notices
<1>3. calling' \subseteq running' \ dropped'
  BY <1>1 DEF TypeOK
<1>4. TypeOK'
  BY <1>1, <1>2, <1>3 DEF TypeOK, settings, network, generator, stream, Items, Chunks
<1> QED BY <1>1, <1>4, Aside DEF generator

LEMMA DropInvariant ==
  ASSUME IInv, NEW c \in Consumers, Drop(c)
  PROVE  IInv'
<1>1. /\ c \in running \ (dropped \cup calling) /\ dropped' = dropped \cup {c} /\ underway' = underway \cup {c} /\ TypeOK
      /\ UNCHANGED <<settings, network, generator, mbox, traps, running, calling, stream>>
  BY DEF Drop, Free, IInv
<1>2. calling' \subseteq running' \ dropped' /\ dropped' \subseteq Consumers /\ underway' \subseteq dropped'
  BY <1>1 DEF TypeOK
<1>3. TypeOK'
  BY <1>1, <1>2 DEF TypeOK, settings, network, generator, stream, Items, Chunks
<1> QED BY <1>1, <1>3, Aside DEF generator

LEMMA NotifyInvariant ==
  ASSUME IInv, NEW c \in Consumers, Notify(c)
  PROVE  IInv'
<1>1. /\ underway' = underway \ {c} /\ Send(Notice("drop", c)) /\ TypeOK
      /\ UNCHANGED <<settings, network, generator, traps, running, dropped, calling, stream>>
  BY DEF Notify, IInv
<1>2. mbox' \in Seq(Messages)
  BY <1>1, Sent, Notices
<1>3. underway' \subseteq dropped'
  BY <1>1 DEF TypeOK
<1>4. TypeOK'
  BY <1>1, <1>2, <1>3 DEF TypeOK, settings, network, generator, stream, Items, Chunks
<1> QED BY <1>1, <1>4, Aside DEF generator

LEMMA StopInvariant ==
  ASSUME IInv, NEW c \in Consumers, Stop(c)
  PROVE  IInv'
<1>1. /\ running' = running \ {c} /\ linked' = linked \ {c} /\ calling' = calling \ {c} /\ TypeOK
      /\ \/ mbox' = mbox
         \/ Send(Signal)
      /\ UNCHANGED <<settings, network, phase, buffer, item, ref, maybes, traps, underway, dropped, stream>>
  BY DEF Stop, IInv
<1>2. mbox' \in Seq(Messages)
  <2>1. Signal \in Messages /\ mbox \in Seq(Messages)
    BY <1>1 DEF Messages, TypeOK
  <2> QED BY <1>1, <2>1, Sent
<1>3. linked' \subseteq running' /\ calling' \subseteq running' \ dropped' /\ running' \subseteq Consumers
  BY <1>1 DEF TypeOK
<1>4. TypeOK'
  BY <1>1, <1>2, <1>3 DEF TypeOK, settings, network, stream, Items, Chunks
<1> QED BY <1>1, <1>4, Aside

LEMMA MaybeTrapsInvariant ==
  ASSUME IInv, MaybeTraps
  PROVE  IInv'
<1>1. /\ traps' = traps + 1 /\ Send(Signal) /\ TypeOK
      /\ UNCHANGED <<settings, network, generator, consumers, stream>>
  BY DEF MaybeTraps, IInv
<1>2. mbox' \in Seq(Messages) /\ traps' \in Nat
  <2>1. Signal \in Messages
    BY DEF Messages
  <2> QED BY <1>1, <2>1, Sent DEF TypeOK
<1>3. TypeOK'
  BY <1>1, <1>2 DEF TypeOK, settings, network, generator, consumers, stream, Items, Chunks
<1> QED BY <1>1, <1>3, Aside DEF generator
-----------------------------------------------------------------------------
LEMMA StepInvariant == IInv /\ [Step]_vars => IInv'
<1> SUFFICES ASSUME IInv, [Step]_vars PROVE IInv'
  OBVIOUS
<1>1. CASE Arrive \/ Sever
  BY <1>1, ArriveInvariant, SeverInvariant
<1>2. CASE \E n \in 1..MaxSent : ReadElsewhere(n)
  BY <1>2, ReadElsewhereInvariant
<1>3. CASE Read
  BY <1>3, ReadInvariant
<1>4. CASE Handle
  BY <1>4, HandleNextInvariant, HandleNextDoneInvariant, HandleLinkInvariant, HandleDropInvariant,
     HandleSignalYieldingInvariant, HandleSignalDoneInvariant DEF Handle
<1>5. CASE HelperNext \/ \E c \in Consumers : Next(c) \/ Drop(c) \/ Stop(c)
  BY <1>5, NotifyInvariant, NextInvariant, DropInvariant, StopInvariant DEF HelperNext
<1>7. CASE MaybeTraps
  BY <1>7, MaybeTrapsInvariant
<1>6. CASE UNCHANGED vars
  <2>1. TypeOK' /\ UNCHANGED <<settings, network, phase, buffer, item, stream>>
    BY <1>6 DEF IInv, TypeOK, vars, settings, network, generator, consumers, stream, Items, Chunks
  <2> QED BY <2>1, Aside
<1> QED BY <1>1, <1>2, <1>3, <1>4, <1>5, <1>6, <1>7 DEF Step

THEOREM Invariant == Spec => []IInv
<1> QED BY InitInvariant, StepInvariant, PTL DEF Spec

\* Types: the generator yields exactly while it holds an item, which fits its buffer;
\* and while its callback runs it counts at least one handle, whatever signals it
\* has taken for drops.  After the callback they may bring the count below zero.
THEOREM TypeCorrect == Spec => []TypeOK
<1>1. IInv => TypeOK
  BY DEF IInv
<1> QED BY <1>1, Invariant, PTL

\* What arrives is given to the consumers in its order and once.
THEOREM Ordering == Spec => []InOrder
<1>1. IInv => InOrder
  BY DEF IInv
<1> QED BY <1>1, Invariant, PTL

\* Behind a short read are bytes that were given out earlier, or zeros.
THEOREM Tails == Spec => []TailIsOld
<1>1. IInv => TailIsOld
  BY DEF IInv
<1> QED BY <1>1, Invariant, PTL

\* A consumer is told of the end after every byte was given, and gets nothing after.
THEOREM EndIsLast == Spec => ClosedIsLast
<1> DEFINE Last ==
      /\ Handed /\ item.type = "closed" =>
           \/ size = 0
           \/ wire = <<>> /\ 1..sent = elsewhere \cup {given[j] : j \in DOMAIN given}
      /\ ended => ~Handed /\ given' = given
<1>1. ASSUME IInv, Step
      PROVE  Last
  <2>1. CASE HandleNext
    <3>1. phase = "yielding"
      BY <2>1 DEF HandleNext
    <3>2. ~ended
      BY <1>1, <3>1 DEF IInv, Flow
    <3>3. ASSUME item.type = "closed", size # 0
          PROVE  wire = <<>> /\ 1..sent = elsewhere \cup {given[j] : j \in DOMAIN given}
      <4>1. item = Closed
        BY <1>1, <3>3, ItemKinds DEF IInv, TypeOK
      <4>2. wire = <<>> /\ Pending = <<>>
        BY <1>1, <3>3, <4>1 DEF IInv, Flow, Pending, Closed
      <4>3. Elems(Stream) = Elems(given)
        <5>1. Elems(Stream) = Elems(given) \cup Elems(Pending) \cup Elems(wire)
          BY <1>1, Streams DEF IInv
        <5>2. Elems(<<>>) = {}
          BY DEF Elems
        <5> QED BY <4>2, <5>1, <5>2
      <4>4. 1..sent = Elems(Stream) \cup elsewhere
        BY <1>1, <3>1, Ordered DEF IInv
      <4> QED BY <4>2, <4>3, <4>4 DEF Elems
    <3> QED BY <3>2, <3>3
  <2>2. CASE ~HandleNext
    <3>1. ~Handed
      BY <1>1, <2>2 DEF Handed, Step, Arrive, Sever, ReadElsewhere, Read, ReadSuccess, ReadClosed, ReadTimeout, ReadError, Yield,
         Handle, HandleNextDone, HandleLink, HandleDrop, HandleSignalYielding, HandleSignalDone, Continue, Ends,
         MaybeTraps, HelperNext, Notify, Next, Drop, Stop, generator
    <3>2. given' = given
      BY <1>1, <2>2 DEF Step, Arrive, Sever, ReadElsewhere, Read, ReadSuccess, ReadClosed, ReadTimeout, ReadError, Yield,
         Handle, HandleNextDone, HandleLink, HandleDrop, HandleSignalYielding, HandleSignalDone, OnlyCounts,
         MaybeTraps, HelperNext, Notify, Next, Drop, Stop, stream
    <3> QED BY <3>1, <3>2
  <2> QED BY <2>1, <2>2
<1>2. IInv /\ [Step]_vars => [Last]_vars
  BY <1>1
<1>3. []IInv /\ [][Step]_vars => [][Last]_vars
  BY <1>2, PTL
<1>4. [][Last]_vars => ClosedIsLast
  BY DEF ClosedIsLast
<1> QED BY <1>3, <1>4, Invariant, PTL DEF Spec
=============================================================================
