-------------------------- MODULE SharedMap_proofs --------------------------
(***************************************************************************)
(* Proofs about SharedMap: its state keeps its type, and whatever the      *)
(* clients and the map's process do, the map behaves as the AtomicMap.     *)
(*                                                                         *)
(* The events that wait in the mailbox are calls that already took effect  *)
(* in the AtomicMap, so the argument is about Run, the map after each of   *)
(* them: a call adds an event at the end and leaves the earlier maps, and  *)
(* the map's process takes the first event and leaves the later ones.      *)
(***************************************************************************)
EXTENDS SharedMap, WellFoundedInduction, TLAPS

Message == [from : Clients, event : Writes \cup Reads]

-----------------------------------------------------------------------------
\* Induction over the natural numbers, for a set of them.
LEMMA Induction ==
  ASSUME NEW T \in SUBSET Nat, 0 \in T, \A n \in T : n + 1 \in T
  PROVE  T = Nat
<1> DEFINE U == Nat \ T
           R == OpToRel(<, Nat)
<1>1. SUFFICES ASSUME U # {} PROVE FALSE
  OBVIOUS
<1>2. IsWellFoundedOn(R, Nat)
  BY NatLessThanWellFounded
<1>3. \A a, b \in Nat : a < b => <<a, b>> \in R
  BY DEF OpToRel
<1> HIDE DEF R
<1>4. PICK x \in U : \A y \in U : ~(<<y, x>> \in R)
  BY <1>1, <1>2, WFMin
<1>5. x - 1 \in Nat /\ x - 1 < x /\ (x - 1) + 1 = x
  <2>1. x \in Nat /\ x # 0
    OBVIOUS
  <2> QED BY <2>1
<1>6. x - 1 \notin U
  BY <1>3, <1>4, <1>5
<1> QED BY <1>5, <1>6

\* The recursive definition of Run defines a function.
Unfolded(q, s, n, f) == [i \in 0..n |-> IF i = 0 THEN s ELSE After(q[i], f[i - 1])]

LEMMA RunExists ==
  ASSUME NEW q, NEW s, NEW n \in Nat
  PROVE  \E f : f = Unfolded(q, s, n, f)
<1> DEFINE Defined(m) == \E f : f = Unfolded(q, s, m, f)
           T == {m \in Nat : Defined(m)}
<1>1. 0 \in T
  <2> DEFINE f == [i \in 0..0 |-> s]
  <2>1. f = Unfolded(q, s, 0, f)
    BY DEF Unfolded
  <2> QED BY <2>1
<1>2. ASSUME NEW m \in T PROVE m + 1 \in T
  <2>1. PICK f : f = [i \in 0..m |-> IF i = 0 THEN s ELSE After(q[i], f[i - 1])]
    BY DEF Unfolded
  <2> DEFINE g == [i \in 0..m + 1 |-> IF i = m + 1 THEN After(q[i], f[m]) ELSE f[i]]
             h == [i \in 0..m + 1 |-> IF i = 0 THEN s ELSE After(q[i], g[i - 1])]
  <2>2. ASSUME NEW i \in 0..m + 1 PROVE g[i] = h[i]
    <3>1. CASE i = 0
      BY <3>1, <2>1
    <3>2. CASE i = m + 1
      <4>1. g[i - 1] = f[m] /\ i # 0
        BY <3>2
      <4> QED BY <3>2, <4>1
    <3>3. CASE i \in 1..m
      <4>1. g[i - 1] = f[i - 1] /\ g[i] = f[i] /\ h[i] = After(q[i], g[i - 1])
        BY <3>3
      <4>2. f[i] = After(q[i], f[i - 1])
        BY <2>1, <3>3
      <4> QED BY <4>1, <4>2
    <3> QED BY <3>1, <3>2, <3>3
  <2>3. g = h
    BY <2>2
  <2>4. g = Unfolded(q, s, m + 1, g)
    BY <2>3 DEF Unfolded
  <2>5. Defined(m + 1)
    BY <2>4
  <2> HIDE DEF Defined
  <2> QED BY <2>5
<1> HIDE DEF T
<1>3. T \in SUBSET Nat
  BY DEF T
<1>4. T = Nat
  BY <1>1, <1>2, <1>3, Induction
<1>5. n \in T
  BY <1>4
<1> QED BY <1>5 DEF T

\* What Run computes.
LEMMA RunDef ==
  ASSUME NEW q, Len(q) \in Nat, NEW s
  PROVE  /\ Run(q, s)[0] = s
         /\ \A i \in 1..Len(q) : Run(q, s)[i] = After(q[i], Run(q, s)[i - 1])
<1> DEFINE r == Run(q, s)
<1>1. r = [i \in 0..Len(q) |-> IF i = 0 THEN s ELSE After(q[i], r[i - 1])]
  <2>1. \E f : f = Unfolded(q, s, Len(q), f)
    BY RunExists
  <2>2. r = CHOOSE f : f = Unfolded(q, s, Len(q), f)
    BY DEF Run, Unfolded
  <2>3. r = Unfolded(q, s, Len(q), r)
    BY <2>1, <2>2, Zenon
  <2> QED BY <2>3 DEF Unfolded
<1> HIDE DEF r
<1>2. r[0] = s /\ \A i \in 1..Len(q) : r[i] = After(q[i], r[i - 1])
  BY <1>1
<1> QED BY <1>2 DEF r

\* An event that comes leaves the earlier maps.
LEMMA RunAppend ==
  ASSUME NEW q \in Seq(Message), NEW x \in Message, NEW s
  PROVE  /\ \A i \in 0..Len(q) : Run(Append(q, x), s)[i] = Run(q, s)[i]
         /\ Run(Append(q, x), s)[Len(q) + 1] = After(x, Run(q, s)[Len(q)])
<1> DEFINE p == Append(q, x)
           T == {i \in Nat : i <= Len(q) => Run(p, s)[i] = Run(q, s)[i]}
<1>1. Len(q) \in Nat /\ Len(p) = Len(q) + 1 /\ p[Len(p)] = x /\ \A i \in 1..Len(q) : p[i] = q[i]
  OBVIOUS
<1> HIDE DEF p
<1>2. /\ Run(q, s)[0] = s
      /\ \A i \in 1..Len(q) : Run(q, s)[i] = After(q[i], Run(q, s)[i - 1])
  BY <1>1, RunDef
<1>3. /\ Run(p, s)[0] = s
      /\ \A i \in 1..Len(p) : Run(p, s)[i] = After(p[i], Run(p, s)[i - 1])
  BY <1>1, RunDef
<1>4. 0 \in T
  BY <1>2, <1>3
<1>5. ASSUME NEW i \in T PROVE i + 1 \in T
  <2>1. CASE i + 1 <= Len(q)
    <3>1. i \in Nat /\ i + 1 \in 1..Len(q) /\ i + 1 \in 1..Len(p) /\ (i + 1) - 1 = i
      BY <1>1, <2>1
    <3>2. Run(p, s)[i] = Run(q, s)[i] /\ p[i + 1] = q[i + 1]
      BY <1>1, <2>1, <3>1
    <3> QED BY <1>2, <1>3, <3>1, <3>2
  <2> QED BY <2>1
<1>6. T = Nat
  <2> HIDE DEF T
  <2>1. T \in SUBSET Nat
    BY DEF T
  <2> QED BY <1>4, <1>5, <2>1, Induction
<1>7. \A i \in 0..Len(q) : Run(p, s)[i] = Run(q, s)[i]
  BY <1>1, <1>6
<1>8. Run(p, s)[Len(q) + 1] = After(x, Run(q, s)[Len(q)])
  <2>1. Len(q) + 1 \in 1..Len(p) /\ (Len(q) + 1) - 1 = Len(q) /\ Len(q) \in 0..Len(q)
    BY <1>1
  <2> QED BY <1>1, <1>3, <1>7, <2>1
<1> QED BY <1>7, <1>8 DEF p

\* The first event taken leaves the later maps.
LEMMA RunTail ==
  ASSUME NEW q \in Seq(Message), q # <<>>, NEW s
  PROVE  \A i \in 0..Len(q) - 1 : Run(Tail(q), After(Head(q), s))[i] = Run(q, s)[i + 1]
<1> DEFINE p == Tail(q)
           t == After(Head(q), s)
           T == {i \in Nat : i <= Len(q) - 1 => Run(p, t)[i] = Run(q, s)[i + 1]}
<1>1. /\ Len(q) \in Nat \ {0} /\ Len(p) = Len(q) - 1 /\ Len(p) \in Nat
      /\ \A i \in 1..Len(p) : p[i] = q[i + 1]
      /\ Head(q) = q[1]
  OBVIOUS
<1> HIDE DEF p
<1>2. /\ Run(q, s)[0] = s
      /\ \A i \in 1..Len(q) : Run(q, s)[i] = After(q[i], Run(q, s)[i - 1])
  BY <1>1, RunDef
<1>3. t = After(q[1], Run(q, s)[0]) /\ t = Run(q, s)[1]
  BY <1>1, <1>2
<1> HIDE DEF t
<1>4. /\ Run(p, t)[0] = t
      /\ \A i \in 1..Len(p) : Run(p, t)[i] = After(p[i], Run(p, t)[i - 1])
  BY <1>1, RunDef
<1>5. 0 \in T
  BY <1>3, <1>4
<1>6. ASSUME NEW i \in T PROVE i + 1 \in T
  <2>1. CASE i + 1 <= Len(q) - 1
    <3>1. i \in Nat /\ i + 1 \in 1..Len(p) /\ (i + 1) - 1 = i /\ (i + 1) + 1 \in 1..Len(q) /\ ((i + 1) + 1) - 1 = i + 1
      BY <1>1, <2>1
    <3>2. Run(p, t)[i] = Run(q, s)[i + 1] /\ p[i + 1] = q[(i + 1) + 1]
      BY <1>1, <2>1, <3>1
    <3> QED BY <1>2, <1>4, <3>1, <3>2
  <2> QED BY <2>1
<1>7. T = Nat
  <2> HIDE DEF T
  <2>1. T \in SUBSET Nat
    BY DEF T
  <2> QED BY <1>5, <1>6, <2>1, Induction
<1>8. \A i \in 0..Len(q) - 1 : Run(p, t)[i] = Run(q, s)[i + 1]
  BY <1>1, <1>7
<1> QED BY <1>8 DEF p, t
-----------------------------------------------------------------------------
\* The kinds of the events.
LEMMA WriteKinds ==
  ASSUME NEW e \in Writes
  PROVE  /\ e \notin Reads /\ ~\E m : Missing(e, m)
         /\ \/ e.kind = "set" /\ e.key \in Keys /\ e.value \in Values
            \/ e.kind = "delete" /\ e.key \in Keys
            \/ e.kind = "clear"
BY DEF Writes, Reads, Missing

LEMMA ReadKinds ==
  ASSUME NEW e \in Reads
  PROVE  /\ e \notin Writes
         /\ \/ e.kind \in {"get", "has"} /\ e.key \in Keys
            \/ e.kind \in {"size", "keys", "values"}
BY DEF Writes, Reads

\* A map is a function of some keys.
LEMMA MapsDef ==
  ASSUME NEW m \in Maps
  PROVE  /\ DOMAIN m \subseteq Keys
         /\ m \in [DOMAIN m -> Values]
         /\ \A k \in DOMAIN m : m[k] \in Values
BY DEF Maps

LEMMA MapsIntro ==
  ASSUME NEW K \in SUBSET Keys, NEW m \in [K -> Values]
  PROVE  m \in Maps
BY DEF Maps

LEMMA EmptyMap == <<>> \in Maps /\ DOMAIN <<>> = {}
<1>1. <<>> \in [{} -> Values] /\ {} \in SUBSET Keys
  OBVIOUS
<1> QED BY <1>1, MapsIntro

\* What an event does to a map gives a map.
LEMMA EffectMaps ==
  ASSUME NEW e \in Writes, NEW m \in Maps
  PROVE  Effect(e, m) \in Maps
<1>1. DOMAIN m \subseteq Keys /\ \A k \in DOMAIN m : m[k] \in Values
  BY MapsDef
<1>2. CASE e.kind = "set"
  <2>1. e.key \in Keys /\ e.value \in Values
    BY <1>2, WriteKinds
  <2> DEFINE K == DOMAIN m \cup {e.key}
             f == [k \in K |-> IF k = e.key THEN e.value ELSE m[k]]
  <2>2. f \in [K -> Values] /\ K \in SUBSET Keys
    BY <1>1, <2>1
  <2>3. Effect(e, m) = f
    BY <1>2 DEF Effect
  <2> QED BY <2>2, <2>3, MapsIntro
<1>3. CASE e.kind = "delete"
  <2> DEFINE K == DOMAIN m \ {e.key}
             f == [k \in K |-> m[k]]
  <2>1. f \in [K -> Values] /\ K \in SUBSET Keys
    BY <1>1
  <2>2. Effect(e, m) = f
    BY <1>3 DEF Effect
  <2> QED BY <2>1, <2>2, MapsIntro
<1>4. CASE e.kind = "clear"
  BY <1>4, EmptyMap DEF Effect
<1> QED BY <1>2, <1>3, <1>4, WriteKinds

\* An event that is answered has an answer of its kind.
LEMMA AnswerAnswers ==
  ASSUME NEW e \in Reads, NEW m \in Maps, ~Missing(e, m)
  PROVE  Answer(e, m) \in Answers /\ Answer(e, m) # Nothing /\ Answer(e, m) # Never
<1> SUFFICES Answer(e, m) \in Answers
  BY SharedMapAssumption
<1>1. DOMAIN m \in SUBSET Keys /\ \A k \in DOMAIN m : m[k] \in Values
  BY MapsDef
<1>2. CASE e.kind = "get"
  <2>1. m[e.key] \in Values
    BY <1>1, <1>2 DEF Missing
  <2>2. Answer(e, m) \in [get : Values]
    BY <1>2, <2>1 DEF Answer
  <2> QED BY <2>2 DEF Answers
<1>3. CASE e.kind = "has"
  <2>1. Answer(e, m) \in [has : BOOLEAN]
    BY <1>3 DEF Answer
  <2> QED BY <2>1 DEF Answers
<1>4. CASE e.kind = "size"
  <2>1. Answer(e, m) \in [size : {Cardinality(K) : K \in SUBSET Keys}]
    BY <1>1, <1>4 DEF Answer
  <2> QED BY <2>1 DEF Answers
<1>5. CASE e.kind = "keys"
  <2>1. Answer(e, m) \in [keys : SUBSET Keys]
    BY <1>1, <1>5 DEF Answer
  <2> QED BY <2>1 DEF Answers
<1>6. CASE e.kind = "values"
  <2>1. Answer(e, m) \in [values : Maps]
    BY <1>6 DEF Answer
  <2> QED BY <2>1 DEF Answers
<1> QED BY <1>2, <1>3, <1>4, <1>5, <1>6, ReadKinds

\* A map or its loss.
Sound(s) == s \in [map : Maps, lost : BOOLEAN] /\ (s.lost => s = Lost)

LEMMA LostSound == Sound(Lost)
BY EmptyMap DEF Sound, Lost

LEMMA AfterSound ==
  ASSUME NEW x \in Message, NEW s, Sound(s)
  PROVE  Sound(After(x, s))
<1>1. s \in [map : Maps, lost : BOOLEAN] /\ s.map \in Maps
  BY DEF Sound
<1>2. CASE s.lost \/ Missing(x.event, s.map)
  BY <1>2, LostSound DEF After
<1>3. CASE ~(s.lost \/ Missing(x.event, s.map)) /\ x.event \in Reads
  BY <1>3 DEF After
<1>4. CASE ~(s.lost \/ Missing(x.event, s.map)) /\ x.event \notin Reads
  <2>1. x.event \in Writes
    BY <1>4 DEF Message
  <2>2. Effect(x.event, s.map) \in Maps
    BY <1>1, <2>1, EffectMaps
  <2>3. After(x, s) = [s EXCEPT !.map = Effect(x.event, s.map)]
    BY <1>4 DEF After
  <2> QED BY <1>1, <1>4, <2>2, <2>3 DEF Sound
<1> QED BY <1>2, <1>3, <1>4

\* The maps after each of the events are maps, and a lost one stays lost.
LEMMA RunSound ==
  ASSUME NEW q \in Seq(Message), NEW s, Sound(s)
  PROVE  \A i \in 0..Len(q) : Sound(Run(q, s)[i]) /\ (s = Lost => Run(q, s)[i] = Lost)
<1> DEFINE Good(i) == Sound(Run(q, s)[i]) /\ (s = Lost => Run(q, s)[i] = Lost)
           T == {i \in Nat : i <= Len(q) => Good(i)}
<1>1. Len(q) \in Nat /\ \A i \in 1..Len(q) : q[i] \in Message
  OBVIOUS
<1>2. /\ Run(q, s)[0] = s
      /\ \A i \in 1..Len(q) : Run(q, s)[i] = After(q[i], Run(q, s)[i - 1])
  BY <1>1, RunDef
<1>3. Good(0)
  BY <1>2
<1>4. ASSUME NEW i \in 1..Len(q), Good(i - 1) PROVE Good(i)
  <2>1. Run(q, s)[i] = After(q[i], Run(q, s)[i - 1]) /\ q[i] \in Message
    BY <1>1, <1>2
  <2>2. Sound(Run(q, s)[i])
    BY <1>4, <2>1, AfterSound
  <2>3. s = Lost => Run(q, s)[i] = Lost
    BY <1>4, <2>1 DEF After, Lost
  <2> QED BY <2>2, <2>3
<1> HIDE DEF Good
<1>5. ASSUME NEW i \in T PROVE i + 1 \in T
  <2>1. CASE i + 1 <= Len(q)
    <3>1. i + 1 \in 1..Len(q) /\ (i + 1) - 1 = i /\ Good(i)
      BY <1>1, <2>1
    <3>2. Good(i + 1)
      BY <1>4, <3>1
    <3> QED BY <3>2
  <2> QED BY <2>1
<1>6. T = Nat
  <2>1. 0 \in T
    BY <1>3
  <2> HIDE DEF T
  <2>2. T \in SUBSET Nat
    BY DEF T
  <2> QED BY <1>5, <2>1, <2>2, Induction
<1>7. \A i \in 0..Len(q) : Good(i)
  BY <1>1, <1>6
<1> QED BY <1>7 DEF Good
-----------------------------------------------------------------------------
\* The reads of client c in the mailbox q.
Reading(q, c) == {i \in DOMAIN q : q[i].from = c /\ q[i].event \in Reads}

LEMMA ReadingAppend ==
  ASSUME NEW q \in Seq(Message), NEW x \in Message, NEW c
  PROVE  Reading(Append(q, x), c) =
           IF x.from = c /\ x.event \in Reads THEN Reading(q, c) \cup {Len(q) + 1} ELSE Reading(q, c)
<1> DEFINE p == Append(q, x)
<1>1. /\ Len(q) \in Nat /\ DOMAIN q = 1..Len(q) /\ DOMAIN p = 1..Len(q) + 1
      /\ p[Len(q) + 1] = x /\ \A i \in 1..Len(q) : p[i] = q[i]
  OBVIOUS
<1> HIDE DEF p
<1>2. DOMAIN p = DOMAIN q \cup {Len(q) + 1} /\ Len(q) + 1 \notin DOMAIN q
  BY <1>1
<1> QED BY <1>1, <1>2 DEF Reading, p

LEMMA ReadingTail ==
  ASSUME NEW q \in Seq(Message), q # <<>>, NEW c
  PROVE  /\ \A i \in Reading(q, c) : i \in Nat \ {0}
         /\ \A i : i \in Reading(Tail(q), c) <=> i \in Nat \ {0} /\ i + 1 \in Reading(q, c)
<1> DEFINE p == Tail(q)
<1>1. /\ Len(q) \in Nat \ {0} /\ DOMAIN q = 1..Len(q) /\ DOMAIN p = 1..Len(q) - 1
      /\ \A i \in 1..Len(q) - 1 : p[i] = q[i + 1]
  OBVIOUS
<1> HIDE DEF p
<1>2. \A i : i \in DOMAIN p <=> i \in Nat \ {0} /\ i + 1 \in DOMAIN q
  BY <1>1
<1>3. \A i \in Reading(q, c) : i \in Nat \ {0}
  BY <1>1 DEF Reading
<1>4. \A i \in DOMAIN p : p[i] = q[i + 1]
  BY <1>1
<1>5. \A i : i \in Reading(p, c) <=> i \in Nat \ {0} /\ i + 1 \in Reading(q, c)
  BY <1>2, <1>4 DEF Reading
<1> QED BY <1>3, <1>5 DEF p

-----------------------------------------------------------------------------
\* What a client that runs is owed: an event or a reply while it waits, and
\* neither while it does not.
Fits(q, serves, waits, r, c) ==
  /\ Reading(q, c) = {} \/ r = Nothing
  /\ \A i, j \in Reading(q, c) : i = j
  /\ serves /\ waits => Reading(q, c) # {} \/ r # Nothing
  /\ ~waits => Reading(q, c) = {} /\ r = Nothing

Balanced == \A c \in running : Fits(mbox, server, calling[c], reply[c], c)

Typed ==
  /\ running \subseteq Clients
  /\ linked \in BOOLEAN /\ dies \in BOOLEAN /\ server \in BOOLEAN
  /\ map \in Maps
  /\ mbox \in Seq(Message)
  /\ calling \in [Clients -> BOOLEAN]
  /\ reply \in [Clients -> Answers \cup {Nothing}]
  /\ last \in Writes \cup {Nothing}

\* The inductive invariant: a map's process that ended has no mail.
IInv == Typed /\ Balanced /\ (~server => mbox = <<>>)

LEMMA InvariantType == IInv => TypeOK
BY DEF IInv, Typed, Balanced, Fits, TypeOK, Reading, Waits, Message

LEMMA InitInvariant == Init => IInv
<1> SUFFICES ASSUME Init
             PROVE  IInv
  OBVIOUS
<1>1. Typed
  <2>1. mbox \in Seq(Message) /\ map \in Maps
    BY EmptyMap DEF Init
  <2>2. linked \in BOOLEAN /\ dies \in BOOLEAN /\ server \in BOOLEAN
    BY DEF Init
  <2>3. /\ running \subseteq Clients /\ calling \in [Clients -> BOOLEAN]
        /\ reply \in [Clients -> Answers \cup {Nothing}] /\ last \in Writes \cup {Nothing}
    BY DEF Init
  <2> QED BY <2>1, <2>2, <2>3 DEF Typed
<1>2. \A c : Reading(<<>>, c) = {}
  BY DEF Reading
<1>3. Balanced
  BY <1>2 DEF Init, Balanced, Fits
<1> QED BY <1>1, <1>3 DEF Init, IInv

\* The step of Balanced, with the next mailbox as a value.
LEMMA BalancedNext ==
  ASSUME NEW q, q = mbox', \A c \in running' : Fits(q, server', calling'[c], reply'[c], c)
  PROVE  Balanced'
BY DEF Balanced, Fits, Reading

\* A message that is sent, to a process that runs or to one that ended.
LEMMA SendTyped ==
  ASSUME IInv, NEW c \in Clients, NEW e \in Writes \cup Reads, Send(c, e)
  PROVE  mbox' \in Seq(Message)
<1>1. [from |-> c, event |-> e] \in Message /\ mbox \in Seq(Message)
  BY DEF Message, IInv, Typed
<1> QED BY <1>1 DEF Send

LEMMA WriteInvariant ==
  ASSUME IInv, NEW c \in Clients, NEW e \in Writes, Write(c, e)
  PROVE  IInv'
<1>1. Send(c, e) /\ last' = e /\ UNCHANGED <<running, linked, dies, server, map, calling, reply>>
  BY DEF Write
<1>2. Typed'
  BY <1>1, SendTyped DEF IInv, Typed
<1>3. ~server' => mbox' = <<>>
  BY <1>1 DEF IInv, Send
<1>4. ASSUME NEW q, q = mbox', NEW d PROVE Reading(q, d) = Reading(mbox, d)
  <2> DEFINE x == [from |-> c, event |-> e]
  <2>1. x \in Message /\ mbox \in Seq(Message) /\ x.event \notin Reads
    BY WriteKinds DEF Message, IInv, Typed
  <2> HIDE DEF x
  <2>2. q = Append(mbox, x) \/ q = mbox
    BY <1>1, <1>4 DEF Send, x
  <2> QED BY <2>1, <2>2, ReadingAppend
<1>5. Balanced'
  <2> SUFFICES ASSUME NEW q, q = mbox', NEW d \in running
               PROVE  Fits(q, server', calling'[d], reply'[d], d)
    BY <1>1, BalancedNext
  <2> QED BY <1>1, <1>4 DEF IInv, Balanced, Fits
<1> QED BY <1>2, <1>3, <1>5 DEF IInv

LEMMA RequestInvariant ==
  ASSUME IInv, NEW c \in Clients, NEW e \in Reads, Request(c, e)
  PROVE  IInv'
<1>1. /\ Send(c, e) /\ UNCHANGED <<running, linked, dies, server, map, reply, last>>
      /\ calling' = [calling EXCEPT ![c] = TRUE] /\ c \in running /\ ~calling[c]
  BY DEF Request, Ready
<1>2. Typed'
  BY <1>1, SendTyped DEF IInv, Typed
<1>3. ~server' => mbox' = <<>>
  BY <1>1 DEF IInv, Send
<1>4. ASSUME NEW q, q = mbox', NEW d
      PROVE  Reading(q, d) = IF server /\ d = c THEN Reading(mbox, d) \cup {Len(mbox) + 1} ELSE Reading(mbox, d)
  <2> DEFINE x == [from |-> c, event |-> e]
  <2>1. x \in Message /\ mbox \in Seq(Message) /\ x.event \in Reads /\ x.from = c
    BY DEF Message, IInv, Typed
  <2> HIDE DEF x
  <2>2. IF server THEN q = Append(mbox, x) ELSE q = mbox
    BY <1>1, <1>4 DEF Send, x
  <2> QED BY <2>1, <2>2, ReadingAppend
<1>5. Balanced'
  <2> SUFFICES ASSUME NEW q, q = mbox', NEW d \in running
               PROVE  Fits(q, server', calling'[d], reply'[d], d)
    BY <1>1, BalancedNext
  <2>1. Fits(mbox, server, calling[d], reply[d], d) /\ Fits(mbox, server, calling[c], reply[c], c)
    BY <1>1 DEF IInv, Balanced
  <2>2. server' = server /\ reply' = reply /\ calling'[d] = (d = c \/ calling[d])
    BY <1>1 DEF IInv, Typed
  <2>3. CASE d = c
    <3>1. reply[d] = Nothing /\ Reading(mbox, d) = {} /\ calling'[d] /\ reply'[d] = Nothing
      BY <1>1, <2>1, <2>2, <2>3 DEF Fits
    <3>2. Reading(q, d) = IF server THEN {Len(mbox) + 1} ELSE {}
      BY <1>4, <2>3, <3>1
    <3> QED BY <2>2, <3>1, <3>2 DEF Fits
  <2>4. CASE d # c
    BY <1>4, <2>1, <2>2, <2>4 DEF Fits
  <2> QED BY <2>3, <2>4
<1> QED BY <1>2, <1>3, <1>5 DEF IInv

LEMMA ReturnInvariant ==
  ASSUME IInv, NEW c \in Clients, Return(c)
  PROVE  IInv'
<1>1. /\ c \in running /\ reply[c] # Nothing
      /\ calling' = [calling EXCEPT ![c] = FALSE] /\ reply' = [reply EXCEPT ![c] = Nothing]
      /\ UNCHANGED <<running, linked, dies, server, map, mbox, last>>
  BY DEF Return
<1>2. Typed' /\ (~server' => mbox' = <<>>)
  BY <1>1 DEF IInv, Typed
<1>3. Balanced'
  <2> SUFFICES ASSUME NEW q, q = mbox', NEW d \in running
               PROVE  Fits(q, server', calling'[d], reply'[d], d)
    BY <1>1, BalancedNext
  <2>1. Fits(mbox, server, calling[d], reply[d], d) /\ Fits(mbox, server, calling[c], reply[c], c) /\ q = mbox
    BY <1>1 DEF IInv, Balanced
  <2>2. CASE d = c
    <3>1. calling'[d] = FALSE /\ reply'[d] = Nothing
      BY <1>1, <2>2 DEF IInv, Typed
    <3> QED BY <1>1, <2>1, <2>2, <3>1 DEF Fits
  <2>3. CASE d # c
    <3>1. calling'[d] = calling[d] /\ reply'[d] = reply[d]
      BY <1>1, <2>3 DEF IInv, Typed
    <3> QED BY <1>1, <2>1, <3>1 DEF Fits
  <2> QED BY <2>2, <2>3
<1> QED BY <1>2, <1>3 DEF IInv

\* The end of the map's process empties its mailbox.
LEMMA EndInvariant ==
  ASSUME IInv, running' \subseteq running, server' = FALSE, mbox' = <<>>,
         UNCHANGED <<linked, dies, map, calling, reply, last>>
  PROVE  IInv'
<1>1. Typed'
  <2>1. mbox' \in Seq(Message) /\ running' \subseteq Clients
    BY DEF IInv, Typed
  <2>2. server' \in BOOLEAN
    OBVIOUS
  <2> QED BY <2>1, <2>2 DEF IInv, Typed
<1>2. Balanced'
  <2> SUFFICES ASSUME NEW q, q = mbox', NEW d \in running'
               PROVE  Fits(q, server', calling'[d], reply'[d], d)
    BY BalancedNext
  <2>1. Fits(mbox, server, calling[d], reply[d], d) /\ q = <<>>
    BY DEF IInv, Balanced
  <2>2. Reading(q, d) = {}
    BY <2>1 DEF Reading
  <2> QED BY <2>1, <2>2 DEF Fits
<1> QED BY <1>1, <1>2 DEF IInv

LEMMA TrapInvariant ==
  ASSUME IInv, NEW c \in Clients, Trap(c)
  PROVE  IInv'
<1>1. CASE c = Creator /\ linked
  BY <1>1, EndInvariant DEF Trap
<1>2. CASE ~(c = Creator /\ linked)
  <2>1. running' \subseteq running /\ UNCHANGED <<linked, dies, server, map, mbox, calling, reply, last>>
    BY <1>2 DEF Trap
  <2>2. Typed' /\ (~server' => mbox' = <<>>)
    BY <2>1 DEF IInv, Typed
  <2>3. Balanced'
    BY <2>1 DEF IInv, Balanced, Fits, Reading
  <2> QED BY <2>2, <2>3 DEF IInv
<1> QED BY <1>1, <1>2

\* The first event is the only read of its client, if it is a read.
LEMMA TakeReading ==
  ASSUME IInv, mbox # <<>>, NEW q, q = Tail(mbox), NEW d \in running
  PROVE  /\ Fits(mbox, server, calling[d], reply[d], d)
         /\ Event \in Reads /\ Head(mbox).from = d => Reading(mbox, d) = {1} /\ Reading(q, d) = {}
         /\ ~(Event \in Reads /\ Head(mbox).from = d) =>
              /\ Reading(q, d) = {} <=> Reading(mbox, d) = {}
              /\ \A i \in Reading(q, d) : i \in Nat \ {0} /\ i + 1 \in Reading(mbox, d)
<1>1. Fits(mbox, server, calling[d], reply[d], d) /\ mbox \in Seq(Message)
  BY DEF IInv, Balanced, Typed
<1>2. /\ \A i \in Reading(mbox, d) : i \in Nat \ {0}
      /\ \A i : i \in Reading(q, d) <=> i \in Nat \ {0} /\ i + 1 \in Reading(mbox, d)
  BY <1>1, ReadingTail
<1>3. 1 \in Reading(mbox, d) <=> Event \in Reads /\ Head(mbox).from = d
  <2>1. 1 \in DOMAIN mbox /\ mbox[1] = Head(mbox)
    BY <1>1
  <2> QED BY <2>1 DEF Reading, Event
<1>4. CASE Event \in Reads /\ Head(mbox).from = d
  <2>1. Reading(mbox, d) = {1}
    BY <1>1, <1>3, <1>4 DEF Fits
  <2>2. \A i \in Nat \ {0} : i + 1 # 1
    OBVIOUS
  <2> QED BY <1>1, <1>2, <1>4, <2>1, <2>2
<1>5. CASE ~(Event \in Reads /\ Head(mbox).from = d)
  <2>1. \A i \in Reading(mbox, d) : i - 1 \in Nat \ {0} /\ (i - 1) + 1 = i
    BY <1>2, <1>3, <1>5
  <2>2. Reading(q, d) = {} <=> Reading(mbox, d) = {}
    BY <1>2, <2>1
  <2> QED BY <1>1, <1>2, <1>5, <2>2
<1> QED BY <1>4, <1>5

LEMMA HandleWriteInvariant ==
  ASSUME IInv, HandleWrite
  PROVE  IInv'
<1>1. /\ server /\ mbox # <<>> /\ Event \in Writes /\ map' = Effect(Event, map) /\ mbox' = Tail(mbox)
      /\ UNCHANGED <<running, linked, dies, server, calling, reply, last>>
  BY DEF HandleWrite, Received
<1>2. Typed' /\ (~server' => mbox' = <<>>)
  BY <1>1, EffectMaps DEF IInv, Typed
<1>3. Balanced'
  <2> SUFFICES ASSUME NEW q, q = mbox', NEW d \in running
               PROVE  Fits(q, server', calling'[d], reply'[d], d)
    BY <1>1, BalancedNext
  <2>1. Event \notin Reads /\ q = Tail(mbox)
    BY <1>1, WriteKinds
  <2>2. /\ Fits(mbox, server, calling[d], reply[d], d)
        /\ Reading(q, d) = {} <=> Reading(mbox, d) = {}
        /\ \A i \in Reading(q, d) : i \in Nat \ {0} /\ i + 1 \in Reading(mbox, d)
    BY <1>1, <2>1, TakeReading
  <2>3. \A i, j \in Reading(q, d) : i = j
    BY <2>2 DEF Fits
  <2> QED BY <1>1, <2>2, <2>3 DEF Fits
<1> QED BY <1>2, <1>3 DEF IInv

LEMMA HandleReadInvariant ==
  ASSUME IInv, HandleRead
  PROVE  IInv'
<1> DEFINE c == Head(mbox).from
<1>1. /\ server /\ mbox # <<>> /\ Event \in Reads /\ ~Missing(Event, map)
      /\ reply' = [reply EXCEPT ![c] = Answer(Event, map)] /\ mbox' = Tail(mbox)
      /\ UNCHANGED <<running, linked, dies, server, map, calling, last>>
  BY DEF HandleRead, Received
<1>2. Answer(Event, map) \in Answers /\ Answer(Event, map) # Nothing
  BY <1>1, AnswerAnswers DEF IInv, Typed
<1>3. c \in Clients
  <2>1. mbox \in Seq(Message) /\ mbox # <<>>
    BY <1>1 DEF IInv, Typed
  <2>2. Head(mbox) \in Message
    BY <2>1
  <2> QED BY <2>2 DEF Message
<1>4. Typed' /\ (~server' => mbox' = <<>>)
  <2>1. mbox' \in Seq(Message)
    BY <1>1 DEF IInv, Typed
  <2>2. reply' \in [Clients -> Answers \cup {Nothing}]
    BY <1>1, <1>2 DEF IInv, Typed
  <2> QED BY <1>1, <2>1, <2>2 DEF IInv, Typed
<1>5. Balanced'
  <2> SUFFICES ASSUME NEW q, q = mbox', NEW d \in running
               PROVE  Fits(q, server', calling'[d], reply'[d], d)
    BY <1>1, BalancedNext
  <2>1. d \in Clients /\ q = Tail(mbox)
    BY <1>1 DEF IInv, Typed
  <2>2. CASE d = c
    <3>1. Fits(mbox, server, calling[d], reply[d], d) /\ Reading(mbox, d) = {1} /\ Reading(q, d) = {}
      BY <1>1, <2>1, <2>2, TakeReading
    <3>2. reply'[d] = Answer(Event, map) /\ calling' = calling
      BY <1>1, <1>3, <2>2 DEF IInv, Typed
    <3>3. calling[d]
      BY <3>1 DEF Fits
    <3> QED BY <1>2, <3>1, <3>2, <3>3 DEF Fits
  <2>3. CASE d # c
    <3>1. /\ Fits(mbox, server, calling[d], reply[d], d)
          /\ Reading(q, d) = {} <=> Reading(mbox, d) = {}
          /\ \A i \in Reading(q, d) : i \in Nat \ {0} /\ i + 1 \in Reading(mbox, d)
      BY <1>1, <2>1, <2>3, TakeReading
    <3>2. reply'[d] = reply[d] /\ calling' = calling /\ server' = server
      BY <1>1, <2>1, <2>3 DEF IInv, Typed
    <3>3. \A i, j \in Reading(q, d) : i = j
      BY <3>1 DEF Fits
    <3> QED BY <3>1, <3>2, <3>3 DEF Fits
  <2> QED BY <2>2, <2>3
<1> QED BY <1>4, <1>5 DEF IInv

LEMMA HandleMissingInvariant ==
  ASSUME IInv, HandleMissing
  PROVE  IInv'
<1>1. /\ running' \subseteq running /\ server' = FALSE /\ mbox' = <<>>
      /\ UNCHANGED <<linked, dies, map, calling, reply, last>>
  BY DEF HandleMissing, Received
<1> QED BY <1>1, EndInvariant

LEMMA StepInvariant == IInv /\ [Next]_vars => IInv'
<1> SUFFICES ASSUME IInv, [Next]_vars
             PROVE  IInv'
  OBVIOUS
<1>1. ASSUME NEW c \in Clients, NEW e \in Writes, Write(c, e) PROVE IInv'
  BY <1>1, WriteInvariant
<1>2. ASSUME NEW c \in Clients, NEW e \in Reads, Request(c, e) PROVE IInv'
  BY <1>2, RequestInvariant
<1>3. ASSUME NEW c \in Clients, Return(c) \/ Trap(c) PROVE IInv'
  BY <1>3, ReturnInvariant, TrapInvariant
<1>4. CASE ServerNext
  BY <1>4, HandleWriteInvariant, HandleReadInvariant, HandleMissingInvariant DEF ServerNext
<1>5. CASE UNCHANGED vars
  BY <1>5 DEF vars, IInv, Typed, Balanced, Fits, Reading
<1> QED BY <1>1, <1>2, <1>3, <1>4, <1>5 DEF Next

LEMMA Invariant == Spec => []IInv
BY InitInvariant, StepInvariant, PTL DEF Spec

\* The state keeps its type: above all, a client that waits is owed one answer,
\* by its event in the mailbox or by the reply, never by both and, while the
\* map's process runs, never by none (managed/index.ts:12-33).
THEOREM TypeCorrect == Spec => []TypeOK
BY Invariant, InvariantType, PTL
-----------------------------------------------------------------------------
\* The map of the AtomicMap: every key with its value or Absent.
View(m) == [k \in Keys |-> IF k \in DOMAIN m THEN m[k] ELSE Absent]

LEMMA ViewEmpty == View(<<>>) = [k \in Keys |-> Absent]
BY EmptyMap DEF View

\* A write to the map is the write to its view.
LEMMA ViewEffect ==
  ASSUME NEW e \in Writes, NEW m \in Maps
  PROVE  /\ e.kind = "set" => View(Effect(e, m)) = [View(m) EXCEPT ![e.key] = e.value]
         /\ e.kind = "delete" => View(Effect(e, m)) = [View(m) EXCEPT ![e.key] = Absent]
         /\ e.kind = "clear" => View(Effect(e, m)) = [k \in Keys |-> Absent]
<1>1. CASE e.kind = "set"
  <2>1. Effect(e, m) = [k \in DOMAIN m \cup {e.key} |-> IF k = e.key THEN e.value ELSE m[k]]
    BY <1>1 DEF Effect
  <2> QED BY <1>1, <2>1 DEF View
<1>2. CASE e.kind = "delete"
  <2>1. Effect(e, m) = [k \in DOMAIN m \ {e.key} |-> m[k]]
    BY <1>2 DEF Effect
  <2> QED BY <1>2, <2>1 DEF View
<1>3. CASE e.kind = "clear"
  BY <1>3, ViewEmpty DEF Effect
<1> QED BY <1>1, <1>2, <1>3, WriteKinds

\* The view tells which keys are in the map.
LEMMA ViewKeys ==
  ASSUME NEW m \in Maps
  PROVE  /\ \A k \in Keys : View(m)[k] # Absent <=> k \in DOMAIN m
         /\ \A k \in DOMAIN m : k \in Keys /\ View(m)[k] = m[k]
         /\ {k \in Keys : View(m)[k] # Absent} = DOMAIN m
         /\ [k \in DOMAIN m |-> View(m)[k]] = m
<1>1. DOMAIN m \subseteq Keys /\ m \in [DOMAIN m -> Values] /\ \A k \in DOMAIN m : m[k] # Absent
  BY MapsDef, SharedMapAssumption
<1>2. \A k \in Keys : View(m)[k] = IF k \in DOMAIN m THEN m[k] ELSE Absent
  BY DEF View
<1>3. \A k \in DOMAIN m : k \in Keys /\ View(m)[k] = m[k]
  BY <1>1, <1>2
<1>4. [k \in DOMAIN m |-> View(m)[k]] = m
  BY <1>1, <1>3
<1> QED BY <1>1, <1>2, <1>3, <1>4

-----------------------------------------------------------------------------
\* What a read answers, on a map or its loss.
Outcome(e, s) == IF s.lost \/ Missing(e, s.map) THEN Never ELSE Answer(e, s.map)

\* What client c is owed by the events of the mailbox q.
Pending(q, s, c) ==
  IF Reading(q, c) = {} THEN Never
  ELSE LET i == CHOOSE j \in Reading(q, c) : TRUE IN Outcome(q[i].event, Run(q, s)[i - 1])

Single(q, c) == \A i, j \in Reading(q, c) : i = j

LEMMA PendingAt ==
  ASSUME NEW q, NEW c, Single(q, c), NEW i \in Reading(q, c), NEW s
  PROVE  Pending(q, s, c) = Outcome(q[i].event, Run(q, s)[i - 1])
<1> DEFINE j == CHOOSE n \in Reading(q, c) : TRUE
<1>1. j \in Reading(q, c)
  OBVIOUS
<1>2. j = i
  BY <1>1 DEF Single
<1>3. Pending(q, s, c) = Outcome(q[j].event, Run(q, s)[j - 1])
  BY DEF Pending
<1> HIDE DEF j
<1> QED BY <1>2, <1>3

LEMMA ReadingIn ==
  ASSUME NEW q \in Seq(Message), NEW c, NEW i \in Reading(q, c)
  PROVE  i \in 1..Len(q) /\ q[i] \in Message /\ q[i].event \in Reads /\ i - 1 \in 0..Len(q)
BY DEF Reading

\* What an event that comes changes.
LEMMA PendingAppend ==
  ASSUME NEW q \in Seq(Message), NEW x \in Message, NEW s, NEW c, Single(q, c)
  PROVE  /\ ~(x.from = c /\ x.event \in Reads) => Pending(Append(q, x), s, c) = Pending(q, s, c)
         /\ x.from = c /\ x.event \in Reads /\ Reading(q, c) = {} =>
              Pending(Append(q, x), s, c) = Outcome(x.event, Run(q, s)[Len(q)])
<1> DEFINE p == Append(q, x)
<1>1. /\ Len(q) \in Nat /\ p[Len(q) + 1] = x /\ \A i \in 1..Len(q) : p[i] = q[i]
  OBVIOUS
<1>2. \A i \in 0..Len(q) : Run(p, s)[i] = Run(q, s)[i]
  BY RunAppend
<1>3. Reading(p, c) =
           IF x.from = c /\ x.event \in Reads THEN Reading(q, c) \cup {Len(q) + 1} ELSE Reading(q, c)
  BY ReadingAppend
<1> HIDE DEF p
<1>4. ASSUME ~(x.from = c /\ x.event \in Reads) PROVE Pending(p, s, c) = Pending(q, s, c)
  <2>1. Reading(p, c) = Reading(q, c) /\ Single(p, c)
    BY <1>3, <1>4 DEF Single
  <2>2. CASE Reading(q, c) = {}
    BY <2>1, <2>2 DEF Pending
  <2>3. CASE Reading(q, c) # {}
    <3>1. PICK i \in Reading(q, c) : i \in Reading(p, c)
      BY <2>1, <2>3
    <3>2. p[i] = q[i] /\ Run(p, s)[i - 1] = Run(q, s)[i - 1]
      BY <1>1, <1>2, ReadingIn
    <3> QED BY <2>1, <3>1, <3>2, PendingAt
  <2> QED BY <2>2, <2>3
<1>5. ASSUME x.from = c /\ x.event \in Reads /\ Reading(q, c) = {}
      PROVE  Pending(p, s, c) = Outcome(x.event, Run(q, s)[Len(q)])
  <2>1. Reading(p, c) = {Len(q) + 1}
    BY <1>3, <1>5
  <2>2. Pending(p, s, c) = Outcome(p[Len(q) + 1].event, Run(p, s)[(Len(q) + 1) - 1])
    BY <2>1, PendingAt DEF Single
  <2>3. (Len(q) + 1) - 1 = Len(q) /\ Len(q) \in 0..Len(q)
    BY <1>1
  <2> QED BY <1>1, <1>2, <2>2, <2>3
<1> QED BY <1>4, <1>5 DEF p

\* What the first event taken leaves.
LEMMA PendingTail ==
  ASSUME NEW q \in Seq(Message), q # <<>>, NEW s, NEW c, Single(q, c), 1 \notin Reading(q, c)
  PROVE  Pending(Tail(q), After(Head(q), s), c) = Pending(q, s, c)
<1> DEFINE p == Tail(q)
           t == After(Head(q), s)
<1>1. /\ Len(q) \in Nat \ {0} /\ \A i \in 1..Len(q) - 1 : p[i] = q[i + 1]
  OBVIOUS
<1>2. \A i \in 0..Len(q) - 1 : Run(p, t)[i] = Run(q, s)[i + 1]
  BY RunTail
<1>3. /\ \A i \in Reading(q, c) : i \in Nat \ {0}
      /\ \A i : i \in Reading(p, c) <=> i \in Nat \ {0} /\ i + 1 \in Reading(q, c)
  BY ReadingTail
<1> HIDE DEF p, t
<1>4. Single(p, c)
  BY <1>3 DEF Single
<1>5. CASE Reading(q, c) = {}
  <2>1. Reading(p, c) = {}
    BY <1>3, <1>5
  <2> QED BY <1>5, <2>1 DEF Pending, p, t
<1>6. ASSUME NEW i \in Reading(q, c) PROVE Pending(p, t, c) = Pending(q, s, c)
  <2>1. i \in 2..Len(q) /\ i - 1 \in Nat \ {0} /\ (i - 1) + 1 = i /\ ((i - 1) - 1) + 1 = i - 1
        /\ i - 1 \in 1..Len(q) - 1 /\ (i - 1) - 1 \in 0..Len(q) - 1
    <3>1. i \in 1..Len(q) /\ i # 1
      BY ReadingIn
    <3> QED BY <1>1, <3>1
  <2>2. i - 1 \in Reading(p, c)
    BY <1>3, <2>1
  <2>3. p[i - 1] = q[i] /\ Run(p, t)[(i - 1) - 1] = Run(q, s)[i - 1]
    BY <1>1, <1>2, <2>1
  <2>4. Pending(p, t, c) = Outcome(p[i - 1].event, Run(p, t)[(i - 1) - 1])
    BY <1>4, <2>2, PendingAt
  <2>5. Pending(q, s, c) = Outcome(q[i].event, Run(q, s)[i - 1])
    BY PendingAt
  <2> QED BY <2>3, <2>4, <2>5
<1> QED BY <1>5, <1>6 DEF p, t

\* What the first event owes.
LEMMA PendingHead ==
  ASSUME NEW q \in Seq(Message), q # <<>>, NEW s, NEW c, Reading(q, c) = {1}
  PROVE  Pending(q, s, c) = Outcome(Head(q).event, s)
<1>1. Head(q) = q[1] /\ 1 - 1 = 0 /\ Len(q) \in Nat
  OBVIOUS
<1>2. Run(q, s)[0] = s
  BY <1>1, RunDef
<1>3. Pending(q, s, c) = Outcome(q[1].event, Run(q, s)[1 - 1])
  BY PendingAt DEF Single
<1> QED BY <1>1, <1>2, <1>3

\* A lost map answers nothing, and what is pending is something.
LEMMA PendingSome ==
  ASSUME NEW q \in Seq(Message), NEW s, Sound(s), NEW c, Single(q, c)
  PROVE  /\ s = Lost => Pending(q, s, c) = Never
         /\ Pending(q, s, c) # Nothing
<1>1. CASE Reading(q, c) = {}
  BY <1>1, SharedMapAssumption DEF Pending
<1>2. ASSUME NEW i \in Reading(q, c)
      PROVE  (s = Lost => Pending(q, s, c) = Never) /\ Pending(q, s, c) # Nothing
  <2> DEFINE e == q[i].event
             t == Run(q, s)[i - 1]
  <2>1. e \in Reads /\ Sound(t) /\ (s = Lost => t = Lost)
    BY ReadingIn, RunSound
  <2>2. Pending(q, s, c) = Outcome(e, t)
    BY PendingAt
  <2> HIDE DEF e, t
  <2>3. s = Lost => Outcome(e, t) = Never
    BY <2>1 DEF Outcome, Lost
  <2>4. CASE t.lost \/ Missing(e, t.map)
    BY <2>2, <2>3, <2>4, SharedMapAssumption DEF Outcome
  <2>5. CASE ~(t.lost \/ Missing(e, t.map))
    <3>1. t.map \in Maps
      BY <2>1 DEF Sound
    <3>2. Answer(e, t.map) # Nothing
      BY <2>1, <2>5, <3>1, AnswerAnswers
    <3> QED BY <2>2, <2>3, <2>5, <3>2 DEF Outcome
  <2> QED BY <2>4, <2>5
<1> QED BY <1>1, <1>2
-----------------------------------------------------------------------------
\* What a client that runs is owed.
Owing(q, s, waits, r, c) ==
  IF ~waits THEN Nothing ELSE IF r # Nothing THEN r ELSE Pending(q, s, c)

mapped == <<FinalMap, LastCall, Final.lost, AllOwed>>

\* The mapping, here and after a step, with the next mailbox and map as values.
LEMMA OwedHere ==
  ASSUME NEW c \in Clients
  PROVE  AllOwed[c] = IF c \notin running THEN Nothing ELSE Owing(mbox, Now, calling[c], reply[c], c)
BY DEF AllOwed, Owed, Owing, Pending, Outcome, Reading, Waits, State

LEMMA OwedNext ==
  ASSUME NEW q, q = mbox', NEW s, s = Now', NEW c \in Clients
  PROVE  Owed(c)' = IF c \notin running' THEN Nothing ELSE Owing(q, s, calling'[c], reply'[c], c)
BY DEF Owed, Owing, Pending, Outcome, Reading, Waits, State

LEMMA FinalNext ==
  ASSUME NEW q, q = mbox', NEW s, s = Now'
  PROVE  Final' = Run(q, s)[Len(q)]
BY DEF Final, State

LEMMA ViewHere ==
  /\ FinalMap = View(Final.map)
  /\ \A g : g = Final' => FinalMap' = View(g.map) /\ (Final.lost)' = g.lost
BY DEF FinalMap, View

\* The map now and the map after all the events.
LEMMA FinalSound ==
  ASSUME IInv
  PROVE  /\ Sound(Now) /\ (~server => Now = Lost) /\ (server => Now = [map |-> map, lost |-> FALSE])
         /\ mbox \in Seq(Message) /\ Len(mbox) \in Nat
         /\ Final = Run(mbox, Now)[Len(mbox)]
         /\ Sound(Final) /\ (Now = Lost => Final = Lost)
<1>1. Sound(Now) /\ (~server => Now = Lost) /\ (server => Now = [map |-> map, lost |-> FALSE])
  <2>1. CASE server
    BY <2>1 DEF Now, Sound, IInv, Typed
  <2>2. CASE ~server
    BY <2>2, LostSound DEF Now
  <2> QED BY <2>1, <2>2
<1>2. mbox \in Seq(Message) /\ Len(mbox) \in Nat
  BY DEF IInv, Typed
<1>3. Final = Run(mbox, Now)[Len(mbox)]
  BY DEF Final, State
<1> QED BY <1>1, <1>2, <1>3, RunSound

\* A client that runs has one read in the mailbox at most.
LEMMA SingleHere ==
  ASSUME IInv, NEW c \in running
  PROVE  c \in Clients /\ Single(mbox, c) /\ Fits(mbox, server, calling[c], reply[c], c)
BY DEF IInv, Typed, Balanced, Fits, Single

\* A message that is sent takes effect at once.
LEMMA Sent ==
  ASSUME IInv, NEW c \in Clients, NEW e \in Writes \cup Reads, Send(c, e), UNCHANGED <<server, map>>,
         NEW q, q = mbox'
  PROVE  /\ Now' = Now
         /\ Run(q, Now)[Len(q)] = After([from |-> c, event |-> e], Final)
         /\ \A d \in running :
              /\ ~(d = c /\ e \in Reads) => Pending(q, Now, d) = Pending(mbox, Now, d)
              /\ d = c /\ e \in Reads /\ Reading(mbox, d) = {} => Pending(q, Now, d) = Outcome(e, Final)
<1> DEFINE x == [from |-> c, event |-> e]
<1>1. Now' = Now
  BY DEF Now
<1>2. x \in Message /\ x.from = c /\ x.event = e
  BY DEF Message
<1> HIDE DEF x
<1>3. CASE server
  <2>1. q = Append(mbox, x)
    BY <1>3 DEF Send, x
  <2>2. Len(q) = Len(mbox) + 1 /\ mbox \in Seq(Message)
    BY <2>1, FinalSound
  <2>3. Run(q, Now)[Len(q)] = After(x, Final)
    BY <1>2, <2>1, <2>2, FinalSound, RunAppend
  <2>4. \A d \in running :
          /\ ~(d = c /\ e \in Reads) => Pending(q, Now, d) = Pending(mbox, Now, d)
          /\ d = c /\ e \in Reads /\ Reading(mbox, d) = {} => Pending(q, Now, d) = Outcome(e, Final)
    BY <1>2, <2>1, <2>2, FinalSound, SingleHere, PendingAppend
  <2> QED BY <1>1, <2>3, <2>4 DEF x
<1>4. CASE ~server
  <2>1. q = mbox /\ Now = Lost /\ Final = Lost /\ mbox = <<>>
    BY <1>4, FinalSound DEF Send, IInv
  <2>2. Run(q, Now)[Len(q)] = After(x, Final)
    BY <2>1, FinalSound DEF After, Lost
  <2>3. \A d : Reading(q, d) = {}
    BY <2>1 DEF Reading
  <2>4. \A d : Pending(q, Now, d) = Never /\ Outcome(e, Final) = Never
    BY <2>1, <2>3 DEF Pending, Outcome, Lost
  <2> QED BY <1>1, <2>1, <2>2, <2>4 DEF x
<1> QED BY <1>3, <1>4

\* set, delete and clear take effect when they are called.
LEMMA WriteRefines ==
  ASSUME IInv, NEW c \in Clients, NEW e \in Writes, Write(c, e)
  PROVE  Abstract!Next
<1>1. PICK q, s, g : q = mbox' /\ s = Now' /\ g = Final'
  OBVIOUS
<1>2. /\ c \in running /\ ~calling[c] /\ Send(c, e) /\ last' = e
      /\ UNCHANGED <<running, linked, dies, server, map, calling, reply>>
  BY DEF Write, Ready
<1>3. /\ s = Now /\ g = After([from |-> c, event |-> e], Final)
      /\ \A d \in running : Pending(q, Now, d) = Pending(mbox, Now, d)
  BY <1>1, <1>2, Sent, WriteKinds, FinalNext
<1>4. AllOwed' = AllOwed
  <2>1. \A d \in Clients : Owed(d)' = AllOwed[d]
    BY <1>1, <1>2, <1>3, OwedHere, OwedNext DEF Owing
  <2>2. \A d \in Clients : Owed(d)' = Owed(d)
    BY <2>1 DEF AllOwed
  <2> QED BY <2>2 DEF AllOwed
<1>5. AllOwed[c] = Nothing
  BY <1>2, OwedHere DEF Owing
<1>6. g = IF Final.lost THEN Final ELSE [Final EXCEPT !.map = Effect(e, Final.map)]
  BY <1>3, WriteKinds, FinalSound DEF After, Sound
<1>7. /\ FinalMap = View(Final.map) /\ FinalMap' = View(g.map) /\ (Final.lost)' = g.lost
      /\ Final.map \in Maps /\ Final \in [map : Maps, lost : BOOLEAN]
  BY <1>1, ViewHere, FinalSound DEF Sound
<1>8. (Final.lost)' = Final.lost /\ FinalMap' = IF Final.lost THEN FinalMap ELSE View(Effect(e, Final.map))
  <2>1. g.lost = Final.lost /\ g.map = IF Final.lost THEN Final.map ELSE Effect(e, Final.map)
    BY <1>6, <1>7
  <2> QED BY <1>7, <2>1
<1>9. e # Nothing
  BY SharedMapAssumption
<1>10. CASE e.kind = "set"
  <2>1. LastCall' = <<"set", e.key, e.value>> /\ e.key \in Keys /\ e.value \in Values
    BY <1>2, <1>9, <1>10, WriteKinds DEF LastCall
  <2>2. View(Effect(e, Final.map)) = [FinalMap EXCEPT ![e.key] = e.value]
    BY <1>7, <1>10, ViewEffect
  <2>3. Abstract!Write(c, <<"set", e.key, e.value>>, [FinalMap EXCEPT ![e.key] = e.value])
    BY <1>4, <1>5, <1>8, <2>1, <2>2 DEF Abstract!Write
  <2> QED BY <2>1, <2>3 DEF Abstract!Next
<1>11. CASE e.kind = "delete"
  <2>1. LastCall' = <<"delete", e.key>> /\ e.key \in Keys
    BY <1>2, <1>9, <1>11, WriteKinds DEF LastCall
  <2>2. View(Effect(e, Final.map)) = [FinalMap EXCEPT ![e.key] = Absent]
    BY <1>7, <1>11, ViewEffect
  <2>3. Abstract!Write(c, <<"delete", e.key>>, [FinalMap EXCEPT ![e.key] = Absent])
    BY <1>4, <1>5, <1>8, <2>1, <2>2 DEF Abstract!Write
  <2> QED BY <2>1, <2>3 DEF Abstract!Next
<1>12. CASE e.kind = "clear"
  <2>1. LastCall' = <<"clear">>
    BY <1>2, <1>9, <1>12 DEF LastCall
  <2>2. View(Effect(e, Final.map)) = Abstract!Empty
    BY <1>7, <1>12, ViewEffect DEF Abstract!Empty
  <2>3. Abstract!Write(c, <<"clear">>, Abstract!Empty)
    BY <1>4, <1>5, <1>8, <2>1, <2>2 DEF Abstract!Write
  <2> QED BY <2>3 DEF Abstract!Next
<1> QED BY <1>10, <1>11, <1>12, WriteKinds

\* The reads take effect when they are called: the reply is what the map will
\* be after the events before them.
LEMMA RequestRefines ==
  ASSUME IInv, NEW c \in Clients, NEW e \in Reads, Request(c, e)
  PROVE  Abstract!Next
<1>1. PICK q, s, g : q = mbox' /\ s = Now' /\ g = Final'
  OBVIOUS
<1>2. /\ c \in running /\ ~calling[c] /\ Send(c, e)
      /\ calling' = [calling EXCEPT ![c] = TRUE] /\ calling \in [Clients -> BOOLEAN]
      /\ UNCHANGED <<running, linked, dies, server, map, reply, last>>
  BY DEF Request, Ready, IInv, Typed
<1>3. Reading(mbox, c) = {} /\ reply[c] = Nothing
  BY <1>2, SingleHere DEF Fits
<1>4. /\ s = Now /\ g = After([from |-> c, event |-> e], Final)
      /\ \A d \in running \ {c} : Pending(q, Now, d) = Pending(mbox, Now, d)
      /\ Pending(q, Now, c) = Outcome(e, Final)
  BY <1>1, <1>2, <1>3, Sent, FinalNext
<1>5. AllOwed' = [AllOwed EXCEPT ![c] = Outcome(e, Final)]
  <2>1. Owed(c)' = Outcome(e, Final)
    BY <1>1, <1>2, <1>3, <1>4, OwedNext DEF Owing
  <2>2. \A d \in Clients \ {c} : Owed(d)' = AllOwed[d]
    BY <1>1, <1>2, <1>4, OwedHere, OwedNext DEF Owing
  <2>3. \A d \in Clients \ {c} : Owed(d)' = Owed(d)
    BY <2>2 DEF AllOwed
  <2> QED BY <2>1, <2>3 DEF AllOwed
<1>6. AllOwed[c] = Nothing
  BY <1>2, OwedHere DEF Owing
<1>7. LastCall' = LastCall
  BY <1>2 DEF LastCall
<1>8. /\ FinalMap = View(Final.map) /\ FinalMap' = View(g.map) /\ (Final.lost)' = g.lost
      /\ Final.map \in Maps /\ Sound(Final)
  BY <1>1, ViewHere, FinalSound DEF Sound
<1>9. CASE ~Final.lost /\ Missing(e, Final.map)
  <2>1. e.key \in Keys /\ FinalMap[e.key] = Absent
    BY <1>8, <1>9, ReadKinds, ViewKeys DEF Missing
  <2>2. g = Lost /\ Outcome(e, Final) = Never
    BY <1>4, <1>9 DEF After, Outcome
  <2>3. (Final.lost)' = TRUE /\ FinalMap' = Abstract!Empty
    BY <1>8, <2>2, ViewEmpty DEF Lost, Abstract!Empty
  <2>4. Abstract!ReadAbsent(c, e.key)
    BY <1>5, <1>6, <1>7, <1>9, <2>1, <2>2, <2>3 DEF Abstract!ReadAbsent
  <2> QED BY <2>1, <2>4 DEF Abstract!Next
<1>10. CASE ~(~Final.lost /\ Missing(e, Final.map))
  <2>1. g = Final
    <3>1. Final.lost => Final = Lost
      BY <1>8 DEF Sound
    <3> QED BY <1>4, <1>10, <3>1 DEF After
  <2>2. UNCHANGED <<FinalMap, LastCall, Final.lost>>
    BY <1>7, <1>8, <2>1
  <2>3. Outcome(e, Final) = IF Final.lost THEN Never ELSE Answer(e, Final.map)
    BY <1>10 DEF Outcome
  <2>4. ASSUME NEW answer, ~Final.lost => answer = Answer(e, Final.map)
        PROVE  Abstract!Read(c, answer)
    BY <1>5, <1>6, <2>2, <2>3, <2>4 DEF Abstract!Read
  <2>5. CASE e.kind = "get"
    <3>1. e.key \in Keys /\ (~Final.lost => e.key \in DOMAIN Final.map)
      BY <1>10, <2>5, ReadKinds DEF Missing
    <3>2. ~Final.lost => FinalMap[e.key] # Absent /\ [get |-> FinalMap[e.key]] = Answer(e, Final.map)
      BY <1>8, <2>5, <3>1, ViewKeys DEF Answer
    <3>3. Abstract!Read(c, [get |-> FinalMap[e.key]])
      BY <2>4, <3>2
    <3> QED BY <3>1, <3>2, <3>3 DEF Abstract!Next
  <2>6. CASE e.kind = "has"
    <3>1. e.key \in Keys
      BY <2>6, ReadKinds
    <3>2. [has |-> FinalMap[e.key] # Absent] = Answer(e, Final.map)
      <4>1. FinalMap[e.key] # Absent <=> e.key \in DOMAIN Final.map
        BY <1>8, <3>1, ViewKeys
      <4>2. Answer(e, Final.map) = [has |-> e.key \in DOMAIN Final.map]
        BY <2>6 DEF Answer
      <4>3. CASE e.key \in DOMAIN Final.map
        <5>1. (FinalMap[e.key] # Absent) = TRUE /\ (e.key \in DOMAIN Final.map) = TRUE
          BY <4>1, <4>3
        <5> QED BY <4>2, <5>1
      <4>4. CASE e.key \notin DOMAIN Final.map
        <5>1. (FinalMap[e.key] # Absent) = FALSE /\ (e.key \in DOMAIN Final.map) = FALSE
          BY <4>1, <4>4
        <5> QED BY <4>2, <5>1
      <4> QED BY <4>3, <4>4
    <3>3. Abstract!Read(c, [has |-> FinalMap[e.key] # Absent])
      BY <2>4, <3>2
    <3> QED BY <3>1, <3>3 DEF Abstract!Next
  <2>7. Abstract!Present = DOMAIN Final.map
    BY <1>8, ViewKeys DEF Abstract!Present
  <2>8. CASE e.kind = "size"
    <3>1. Abstract!Cardinality(DOMAIN Final.map) = Cardinality(DOMAIN Final.map)
      BY Zenon DEF Cardinality, Abstract!Cardinality
    <3>2. Abstract!Read(c, [size |-> Abstract!Cardinality(Abstract!Present)])
      BY <2>4, <2>7, <2>8, <3>1 DEF Answer
    <3> QED BY <3>2 DEF Abstract!Next
  <2>9. CASE e.kind = "keys"
    <3>1. Abstract!Read(c, [keys |-> Abstract!Present])
      BY <2>4, <2>7, <2>9 DEF Answer
    <3> QED BY <3>1 DEF Abstract!Next
  <2>10. CASE e.kind = "values"
    <3>1. [k \in Abstract!Present |-> FinalMap[k]] = Final.map
      BY <1>8, <2>7, ViewKeys
    <3>2. Abstract!Read(c, [values |-> [k \in Abstract!Present |-> FinalMap[k]]])
      BY <2>4, <2>10, <3>1 DEF Answer
    <3> QED BY <3>2 DEF Abstract!Next
  <2> QED BY <2>5, <2>6, <2>8, <2>9, <2>10, ReadKinds
<1> QED BY <1>9, <1>10

\* The reply that comes is the answer that was owed.
LEMMA ReturnRefines ==
  ASSUME IInv, NEW c \in Clients, Return(c)
  PROVE  Abstract!Next
<1>1. PICK q, s, g : q = mbox' /\ s = Now' /\ g = Final'
  OBVIOUS
<1>2. /\ c \in running /\ reply[c] # Nothing
      /\ calling' = [calling EXCEPT ![c] = FALSE] /\ reply' = [reply EXCEPT ![c] = Nothing]
      /\ calling \in [Clients -> BOOLEAN] /\ reply \in [Clients -> Answers \cup {Nothing}]
      /\ UNCHANGED <<running, linked, dies, server, map, mbox, last>>
  BY DEF Return, IInv, Typed
<1>3. Now' = Now
  BY <1>2 DEF Now
<1>4. /\ q = mbox /\ s = Now /\ g = Final
  BY <1>1, <1>2, <1>3 DEF Final, State
<1>5. UNCHANGED <<FinalMap, LastCall, Final.lost>>
  BY <1>1, <1>2, <1>4, ViewHere DEF LastCall
<1>6. AllOwed[c] \notin {Nothing, Never}
  <2>1. calling[c]
    BY <1>2, SingleHere DEF Fits
  <2>2. AllOwed[c] = reply[c]
    BY <1>2, <2>1, OwedHere DEF Owing
  <2>3. reply[c] \in Answers
    BY <1>2
  <2> QED BY <1>2, <2>2, <2>3, SharedMapAssumption
<1>7. AllOwed' = [AllOwed EXCEPT ![c] = Nothing]
  <2>1. Owed(c)' = Nothing
    BY <1>1, <1>2, OwedNext DEF Owing
  <2>2. \A d \in Clients \ {c} : Owed(d)' = AllOwed[d]
    BY <1>1, <1>2, <1>4, OwedHere, OwedNext DEF Owing
  <2>3. \A d \in Clients \ {c} : Owed(d)' = Owed(d)
    BY <2>2 DEF AllOwed
  <2> QED BY <2>1, <2>3 DEF AllOwed
<1> QED BY <1>5, <1>6, <1>7 DEF Abstract!Return, Abstract!Next

\* The end of a client, of the creator too unless the map dies with it.
LEMMA ClientEnds ==
  ASSUME IInv, NEW c \in Clients, running' = running \ {c}, UNCHANGED <<server, map, mbox, calling, reply, last>>
  PROVE  Abstract!End(c)
<1>1. PICK q, s, g : q = mbox' /\ s = Now' /\ g = Final'
  OBVIOUS
<1>2. Now' = Now
  BY DEF Now
<1>3. /\ q = mbox /\ s = Now /\ g = Final
  BY <1>1, <1>2 DEF Final, State
<1>4. UNCHANGED <<FinalMap, LastCall, Final.lost>>
  BY <1>1, <1>3, ViewHere DEF LastCall
<1>5. AllOwed' = [AllOwed EXCEPT ![c] = Nothing]
  <2>1. Owed(c)' = Nothing
    BY <1>1, OwedNext
  <2>2. \A d \in Clients \ {c} : Owed(d)' = AllOwed[d]
    BY <1>1, <1>3, OwedHere, OwedNext
  <2>3. \A d \in Clients \ {c} : Owed(d)' = Owed(d)
    BY <2>2 DEF AllOwed
  <2> QED BY <2>1, <2>3 DEF AllOwed
<1> QED BY <1>4, <1>5 DEF Abstract!End

\* The map's process dies: what it has not answered is never answered.
LEMMA MapEnds ==
  ASSUME IInv, server' = FALSE, mbox' = <<>>, UNCHANGED <<calling, reply, last>>, running' \subseteq running
  PROVE  /\ FinalMap' = Abstract!Empty /\ (Final.lost)' = TRUE /\ LastCall' = LastCall
         /\ \A d \in Clients : Owed(d)' = IF d \notin running' \/ ~calling[d] THEN Nothing
                                          ELSE IF reply[d] # Nothing THEN reply[d] ELSE Never
<1>1. PICK q, s, g : q = mbox' /\ s = Now' /\ g = Final'
  OBVIOUS
<1>2. q = <<>> /\ s = Lost /\ Len(q) = 0 /\ q \in Seq(Message)
  BY <1>1 DEF Now
<1>3. g = Lost
  <2>1. Run(q, s)[0] = s
    BY <1>2, RunDef
  <2> QED BY <1>1, <1>2, <2>1, FinalNext
<1>4. FinalMap' = Abstract!Empty /\ (Final.lost)' = TRUE
  BY <1>1, <1>3, ViewHere, ViewEmpty DEF Lost, Abstract!Empty
<1>5. \A d : Pending(q, s, d) = Never
  BY <1>2 DEF Pending, Reading
<1>6. LastCall' = LastCall
  BY DEF LastCall
<1> QED BY <1>1, <1>4, <1>5, <1>6, OwedNext DEF Owing

LEMMA TrapRefines ==
  ASSUME IInv, NEW c \in Clients, Trap(c)
  PROVE  Abstract!Next
<1>1. CASE c = Creator /\ linked
  <2> DEFINE S == {d \in Clients : reply[d] = Nothing}
  <2>1. /\ server' = FALSE /\ mbox' = <<>> /\ UNCHANGED <<map, calling, reply, last>>
        /\ running' = running \ {c}
    BY <1>1 DEF Trap
  <2>2. /\ FinalMap' = Abstract!Empty /\ (Final.lost)' = TRUE /\ LastCall' = LastCall
        /\ \A d \in Clients : Owed(d)' = IF d \notin running' \/ ~calling[d] THEN Nothing
                                         ELSE IF reply[d] # Nothing THEN reply[d] ELSE Never
    BY <2>1, MapEnds
  <2>3. ASSUME NEW d \in Clients
        PROVE  Owed(d)' = IF d = c \/ AllOwed[d] = Nothing THEN Nothing
                          ELSE IF d \in S THEN Never ELSE AllOwed[d]
    <3>1. CASE d = c \/ d \notin running \/ ~calling[d]
      BY <2>1, <2>2, <3>1, OwedHere DEF Owing
    <3>2. CASE d # c /\ d \in running /\ calling[d]
      <4>1. Pending(mbox, Now, d) # Nothing
        BY <3>2, SingleHere, FinalSound, PendingSome
      <4>2. AllOwed[d] # Nothing
        BY <3>2, <4>1, OwedHere DEF Owing
      <4>3. reply[d] # Nothing => AllOwed[d] = reply[d]
        BY <3>2, OwedHere DEF Owing
      <4>4. Owed(d)' = IF reply[d] # Nothing THEN reply[d] ELSE Never
        BY <2>1, <2>2, <3>2
      <4> QED BY <3>2, <4>2, <4>3, <4>4
    <3> QED BY <3>1, <3>2
  <2>4. AllOwed' = [d \in Clients |-> IF d = c \/ AllOwed[d] = Nothing THEN Nothing
                                      ELSE IF d \in S THEN Never ELSE AllOwed[d]]
    <3> HIDE DEF S
    <3> QED BY <2>3 DEF AllOwed
  <2>5. S \in SUBSET Clients
    OBVIOUS
  <2> HIDE DEF S
  <2>6. Abstract!Lose(c)
    BY <2>2, <2>4, <2>5 DEF Abstract!Lose
  <2> QED BY <2>6 DEF Abstract!Next
<1>2. CASE ~(c = Creator /\ linked)
  <2>1. Abstract!End(c)
    BY <1>2, ClientEnds DEF Trap
  <2> QED BY <2>1 DEF Abstract!Next
<1> QED BY <1>1, <1>2

\* The map's process takes an event that does not trap: what was called stays
\* as it was.
LEMMA Taken ==
  ASSUME IInv, mbox # <<>>, server, NEW q, q = mbox', q = Tail(mbox), NEW s, s = Now',
         s = After(Head(mbox), Now)
  PROVE  /\ Final' = Final
         /\ \A d \in running : 1 \notin Reading(mbox, d) => Pending(q, s, d) = Pending(mbox, Now, d)
<1>1. mbox \in Seq(Message) /\ Len(mbox) \in Nat \ {0} /\ Len(q) = Len(mbox) - 1
  BY FinalSound
<1>2. Final' = Run(mbox, Now)[Len(q) + 1]
  <2>1. Len(q) \in 0..Len(mbox) - 1
    BY <1>1
  <2>2. Run(q, s)[Len(q)] = Run(mbox, Now)[Len(q) + 1]
    BY <1>1, <2>1, RunTail
  <2> QED BY <2>2, FinalNext
<1>3. Len(q) + 1 = Len(mbox)
  BY <1>1
<1>4. Final' = Final
  BY <1>2, <1>3, FinalSound
<1>5. \A d \in running : 1 \notin Reading(mbox, d) => Pending(q, s, d) = Pending(mbox, Now, d)
  BY <1>1, SingleHere, PendingTail
<1> QED BY <1>4, <1>5

\* The first event is a read of client d.
LEMMA FirstReading ==
  ASSUME IInv, mbox # <<>>, NEW d
  PROVE  1 \in Reading(mbox, d) <=> Event \in Reads /\ Head(mbox).from = d
<1>1. 1 \in DOMAIN mbox /\ mbox[1] = Head(mbox)
  BY DEF IInv, Typed
<1> QED BY <1>1 DEF Reading, Event

LEMMA HandleWriteRefines ==
  ASSUME IInv, HandleWrite
  PROVE  UNCHANGED mapped
<1>1. PICK q, s, g : q = mbox' /\ s = Now' /\ g = Final'
  OBVIOUS
<1>2. /\ server /\ mbox # <<>> /\ Event \in Writes /\ map' = Effect(Event, map) /\ mbox' = Tail(mbox)
      /\ UNCHANGED <<running, linked, dies, server, calling, reply, last>>
  BY DEF HandleWrite, Received
<1>3. s = After(Head(mbox), Now)
  <2>1. Now = [map |-> map, lost |-> FALSE] /\ Now' = [map |-> map', lost |-> FALSE]
    BY <1>2 DEF Now
  <2>2. Event \notin Reads /\ ~Missing(Event, map)
    BY <1>2, WriteKinds
  <2> QED BY <1>1, <1>2, <2>1, <2>2 DEF After, Event
<1>4. /\ Final' = Final
      /\ \A d \in running : Pending(q, s, d) = Pending(mbox, Now, d)
  BY <1>1, <1>2, <1>3, Taken, FirstReading, WriteKinds
<1>5. UNCHANGED <<FinalMap, LastCall, Final.lost>>
  BY <1>1, <1>2, <1>4, ViewHere DEF LastCall
<1>6. AllOwed' = AllOwed
  <2>1. \A d \in Clients : Owed(d)' = AllOwed[d]
    BY <1>1, <1>2, <1>4, OwedHere, OwedNext DEF Owing
  <2>2. \A d \in Clients : Owed(d)' = Owed(d)
    BY <2>1 DEF AllOwed
  <2> QED BY <2>2 DEF AllOwed
<1> QED BY <1>5, <1>6 DEF mapped

\* The answer that is sent is the one that was owed since the call.
LEMMA HandleReadRefines ==
  ASSUME IInv, HandleRead
  PROVE  UNCHANGED mapped
<1>1. PICK q, s, g, c : q = mbox' /\ s = Now' /\ g = Final' /\ c = Head(mbox).from
  OBVIOUS
<1>2. /\ server /\ mbox # <<>> /\ Event \in Reads /\ ~Missing(Event, map)
      /\ reply' = [reply EXCEPT ![c] = Answer(Event, map)] /\ mbox' = Tail(mbox)
      /\ reply \in [Clients -> Answers \cup {Nothing}]
      /\ UNCHANGED <<running, linked, dies, server, map, calling, last>>
  BY <1>1 DEF HandleRead, Received, IInv, Typed
<1>3. Now = [map |-> map, lost |-> FALSE] /\ Now' = Now
  BY <1>2 DEF Now
<1>4. s = After(Head(mbox), Now)
  BY <1>1, <1>2, <1>3 DEF After, Event
<1>5. /\ Final' = Final
      /\ \A d \in running \ {c} : Pending(q, s, d) = Pending(mbox, Now, d)
  BY <1>1, <1>2, <1>4, Taken, FirstReading
<1>6. UNCHANGED <<FinalMap, LastCall, Final.lost>>
  BY <1>1, <1>2, <1>5, ViewHere DEF LastCall
<1>7. AllOwed' = AllOwed
  <2>1. ASSUME NEW d \in Clients \ {c} PROVE Owed(d)' = AllOwed[d]
    BY <1>1, <1>2, <1>5, OwedHere, OwedNext DEF Owing
  <2>2. ASSUME c \in Clients, c \in running PROVE Owed(c)' = AllOwed[c]
    <3>1. Tail(mbox) = q
      BY <1>1, <1>2
    <3>2. Reading(mbox, c) = {1} /\ calling[c] /\ reply[c] = Nothing
      BY <1>1, <1>2, <2>2, <3>1, TakeReading DEF Fits
    <3>3. Pending(mbox, Now, c) = Outcome(Event, Now)
      BY <1>2, <3>2, PendingHead, FinalSound DEF Event
    <3>4. Outcome(Event, Now) = Answer(Event, map)
      BY <1>2, <1>3 DEF Outcome
    <3>5. reply'[c] = Answer(Event, map) /\ Answer(Event, map) # Nothing
      BY <1>2, <2>2, AnswerAnswers DEF IInv, Typed
    <3>6. Owed(c)' = Answer(Event, map)
      BY <1>1, <1>2, <2>2, <3>2, <3>5, OwedNext DEF Owing
    <3> QED BY <2>2, <3>2, <3>3, <3>4, <3>6, OwedHere DEF Owing
  <2>3. ASSUME c \in Clients, c \notin running PROVE Owed(c)' = AllOwed[c]
    BY <1>1, <1>2, <2>3, OwedHere, OwedNext
  <2>4. \A d \in Clients : Owed(d)' = AllOwed[d]
    BY <2>1, <2>2, <2>3
  <2>5. \A d \in Clients : Owed(d)' = Owed(d)
    BY <2>4 DEF AllOwed
  <2> QED BY <2>5 DEF AllOwed
<1> QED BY <1>6, <1>7 DEF mapped

\* The get of a missing key lost the map when it was called: the trap that it
\* ends in ends the creator, or nothing.
LEMMA HandleMissingRefines ==
  ASSUME IInv, HandleMissing
  PROVE  Abstract!Next \/ UNCHANGED mapped
<1>1. /\ server /\ mbox # <<>> /\ Missing(Event, map) /\ server' = FALSE /\ mbox' = <<>>
      /\ running' = IF linked /\ dies THEN running \ {Creator} ELSE running
      /\ UNCHANGED <<calling, reply, last>> /\ running' \subseteq running
  BY DEF HandleMissing, Received
<1>2. /\ FinalMap' = Abstract!Empty /\ (Final.lost)' = TRUE /\ LastCall' = LastCall
      /\ \A d \in Clients : Owed(d)' = IF d \notin running' \/ ~calling[d] THEN Nothing
                                       ELSE IF reply[d] # Nothing THEN reply[d] ELSE Never
  BY <1>1, MapEnds
<1>3. Now = [map |-> map, lost |-> FALSE] /\ mbox \in Seq(Message) /\ Len(mbox) \in Nat \ {0}
  BY <1>1, FinalSound
<1>4. After(Head(mbox), Now) = Lost
  BY <1>1, <1>3 DEF After, Event
<1>5. Final = Lost
  <2>1. Tail(mbox) \in Seq(Message) /\ Len(mbox) - 1 \in 0..Len(mbox) - 1 /\ Len(Tail(mbox)) = Len(mbox) - 1
        /\ (Len(mbox) - 1) + 1 = Len(mbox)
    BY <1>1, <1>3
  <2>2. Run(Tail(mbox), Lost)[Len(mbox) - 1] = Lost
    BY <2>1, RunSound, LostSound
  <2>3. Run(Tail(mbox), Lost)[Len(mbox) - 1] = Run(mbox, Now)[Len(mbox)]
    BY <1>1, <1>3, <1>4, <2>1, RunTail
  <2> QED BY <2>2, <2>3, FinalSound
<1>6. FinalMap = Abstract!Empty /\ Final.lost = TRUE
  BY <1>5, ViewHere, ViewEmpty DEF Lost, Abstract!Empty
<1>7. ASSUME NEW d \in running PROVE Pending(mbox, Now, d) = Never
  <2>1. Single(mbox, d) /\ Fits(mbox, server, calling[d], reply[d], d)
    BY SingleHere
  <2>2. CASE 1 \in Reading(mbox, d)
    <3>1. Reading(mbox, d) = {1}
      BY <2>1, <2>2 DEF Single
    <3>2. Pending(mbox, Now, d) = Outcome(Event, Now)
      BY <1>1, <1>3, <3>1, PendingHead DEF Event
    <3> QED BY <1>1, <1>3, <3>2 DEF Outcome
  <2>3. CASE 1 \notin Reading(mbox, d)
    <3>1. Pending(Tail(mbox), Lost, d) = Pending(mbox, Now, d)
      BY <1>1, <1>3, <1>4, <2>1, <2>3, PendingTail
    <3>2. Tail(mbox) \in Seq(Message)
      BY <1>1, <1>3
    <3>3. Single(Tail(mbox), d)
      BY <1>1, <1>3, <2>1, ReadingTail DEF Single
    <3> QED BY <3>1, <3>2, <3>3, PendingSome, LostSound
  <2> QED BY <2>2, <2>3
<1>8. \A d \in Clients : Owed(d)' = IF d \notin running' THEN Nothing ELSE AllOwed[d]
  BY <1>1, <1>2, <1>7, OwedHere DEF Owing
<1>9. CASE linked /\ dies
  <2>1. \A d \in Clients : Owed(d)' = IF d = Creator THEN Nothing ELSE AllOwed[d]
    BY <1>1, <1>8, <1>9, OwedHere
  <2>2. AllOwed' = [AllOwed EXCEPT ![Creator] = Nothing]
    <3>1. \A d \in Clients : Owed(d)' = IF d = Creator THEN Nothing ELSE Owed(d)
      BY <2>1 DEF AllOwed
    <3> QED BY <3>1 DEF AllOwed
  <2>3. Abstract!End(Creator)
    BY <1>2, <1>6, <2>2 DEF Abstract!End
  <2> QED BY <2>3, SharedMapAssumption DEF Abstract!Next
<1>10. CASE ~(linked /\ dies)
  <2>1. \A d \in Clients : Owed(d)' = AllOwed[d]
    BY <1>1, <1>8, <1>10, OwedHere
  <2>2. \A d \in Clients : Owed(d)' = Owed(d)
    BY <2>1 DEF AllOwed
  <2>3. AllOwed' = AllOwed
    BY <2>2 DEF AllOwed
  <2> QED BY <1>2, <1>6, <2>3 DEF mapped
<1> QED BY <1>9, <1>10

LEMMA StepRefines == IInv /\ [Next]_vars => [Abstract!Next]_mapped
<1> SUFFICES ASSUME IInv, [Next]_vars
             PROVE  Abstract!Next \/ UNCHANGED mapped
  OBVIOUS
<1>1. ASSUME NEW c \in Clients, NEW e \in Writes, Write(c, e) PROVE Abstract!Next
  BY <1>1, WriteRefines
<1>2. ASSUME NEW c \in Clients, NEW e \in Reads, Request(c, e) PROVE Abstract!Next
  BY <1>2, RequestRefines
<1>3. ASSUME NEW c \in Clients, Return(c) \/ Trap(c) PROVE Abstract!Next
  BY <1>3, ReturnRefines, TrapRefines
<1>4. CASE ServerNext
  BY <1>4, HandleWriteRefines, HandleReadRefines, HandleMissingRefines DEF ServerNext
<1>5. CASE UNCHANGED vars
  <2>1. UNCHANGED <<running, linked, dies, server, map, mbox, calling, reply, last>>
    BY <1>5 DEF vars
  <2>2. Now' = Now
    BY <2>1 DEF Now
  <2>3. State' = State /\ Final' = Final
    BY <2>1, <2>2 DEF State, Final
  <2>4. \A c \in Clients : Owed(c)' = Owed(c)
    BY <2>1, <2>3 DEF Owed, Waits
  <2> QED BY <2>1, <2>3, <2>4 DEF mapped, FinalMap, LastCall, AllOwed
<1> QED BY <1>1, <1>2, <1>3, <1>4, <1>5 DEF Next

LEMMA InitRefines == Init => Abstract!Init
<1> SUFFICES ASSUME Init
             PROVE  Abstract!Init
  OBVIOUS
<1>1. server /\ map = <<>> /\ mbox = <<>> /\ Len(mbox) = 0 /\ last = Nothing
  BY DEF Init
<1>2. Final = [map |-> <<>>, lost |-> FALSE]
  <2>1. Run(mbox, Now)[0] = Now
    BY <1>1, RunDef
  <2> QED BY <1>1, <2>1 DEF Final, State, Now
<1>3. FinalMap = Abstract!Empty /\ Final.lost = FALSE
  BY <1>2, ViewHere, ViewEmpty DEF Abstract!Empty
<1>4. AllOwed = [c \in Clients |-> Nothing]
  BY DEF Init, AllOwed, Owed
<1> QED BY <1>1, <1>3, <1>4 DEF Abstract!Init, LastCall

\* Every operation of a SharedMap behaves as if it took effect when it was
\* called, although only the reads wait for the process that keeps the map
\* (managed/index.ts:12-87).
THEOREM MapKept == Spec => KeepsMap
<1>1. Spec => Abstract!Init
  BY InitRefines DEF Spec
<1>2. IInv /\ [Next]_vars => [Abstract!Next]_<<FinalMap, LastCall, Final.lost, AllOwed>>
  BY StepRefines DEF mapped
<1> QED BY <1>1, <1>2, Invariant, PTL DEF Spec, KeepsMap, Abstract!Spec
=============================================================================
