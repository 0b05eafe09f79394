-------------------------- MODULE HeldValue_proofs --------------------------
(***************************************************************************)
(* Proofs about HeldValue: its state keeps its type, and whatever the      *)
(* clients, the Held process and its sandbox do, the value behaves as the  *)
(* AtomicCell.                                                             *)
(*                                                                         *)
(* The argument is about Run, the value after each message of the queue: a *)
(* call adds an event at the end and leaves the earlier values, and the    *)
(* Held process takes the first event, with its effect, or a message that  *)
(* has none, and leaves the others.                                        *)
(***************************************************************************)
EXTENDS HeldValue, FiniteSetTheorems, WellFoundedInduction, TLAPS

Marked == Timeouts \cup {Forever}
Results == [kind : {"return"}, tag : Marked, value : Values] \cup [kind : {"signal"}, tag : Nat]
Messages == Events \cup Results
States == Values \cup {Trap}

-----------------------------------------------------------------------------
\* Induction over the natural numbers, for a set of them.
LEMMA Induction ==
  ASSUME NEW T \in SUBSET Nat, 0 \in T, \A n \in T : n + 1 \in T
  PROVE  T = Nat
<1> DEFINE U == Nat \ T
           R == OpToRel(<, Nat)
<1>1. SUFFICES ASSUME U # {} PROVE FALSE
  OBVIOUS
<1>2. IsWellFoundedOn(R, Nat)
  BY NatLessThanWellFounded
<1>3. \A a, b \in Nat : a < b => <<a, b>> \in R
  BY DEF OpToRel
<1> HIDE DEF R
<1>4. PICK x \in U : \A y \in U : ~(<<y, x>> \in R)
  BY <1>1, <1>2, WFMin
<1>5. x - 1 \in Nat /\ x - 1 < x /\ (x - 1) + 1 = x
  <2>1. x \in Nat /\ x # 0
    OBVIOUS
  <2> QED BY <2>1
<1>6. x - 1 \notin U
  BY <1>3, <1>4, <1>5
<1> QED BY <1>5, <1>6

\* The recursive definition of Run defines a function.
Unfolded(q, s, n, f) == [i \in 0..n |-> IF i = 0 THEN s ELSE After(q[i], f[i - 1])]

LEMMA RunExists ==
  ASSUME NEW q, NEW s, NEW n \in Nat
  PROVE  \E f : f = Unfolded(q, s, n, f)
<1> DEFINE Defined(m) == \E f : f = Unfolded(q, s, m, f)
           T == {m \in Nat : Defined(m)}
<1>1. 0 \in T
  <2> DEFINE f == [i \in 0..0 |-> s]
  <2>1. f = Unfolded(q, s, 0, f)
    BY DEF Unfolded
  <2> QED BY <2>1
<1>2. ASSUME NEW m \in T PROVE m + 1 \in T
  <2>1. PICK f : f = [i \in 0..m |-> IF i = 0 THEN s ELSE After(q[i], f[i - 1])]
    BY DEF Unfolded
  <2> DEFINE g == [i \in 0..m + 1 |-> IF i = m + 1 THEN After(q[i], f[m]) ELSE f[i]]
             h == [i \in 0..m + 1 |-> IF i = 0 THEN s ELSE After(q[i], g[i - 1])]
  <2>2. ASSUME NEW i \in 0..m + 1 PROVE g[i] = h[i]
    <3>1. CASE i = 0
      BY <3>1, <2>1
    <3>2. CASE i = m + 1
      <4>1. g[i - 1] = f[m] /\ i # 0
        BY <3>2
      <4> QED BY <3>2, <4>1
    <3>3. CASE i \in 1..m
      <4>1. g[i - 1] = f[i - 1] /\ g[i] = f[i] /\ h[i] = After(q[i], g[i - 1])
        BY <3>3
      <4>2. f[i] = After(q[i], f[i - 1])
        BY <2>1, <3>3
      <4> QED BY <4>1, <4>2
    <3> QED BY <3>1, <3>2, <3>3
  <2>3. g = h
    BY <2>2
  <2>4. g = Unfolded(q, s, m + 1, g)
    BY <2>3 DEF Unfolded
  <2>5. Defined(m + 1)
    BY <2>4
  <2> HIDE DEF Defined
  <2> QED BY <2>5
<1> HIDE DEF T
<1>3. T \in SUBSET Nat
  BY DEF T
<1>4. T = Nat
  BY <1>1, <1>2, <1>3, Induction
<1>5. n \in T
  BY <1>4
<1> QED BY <1>5 DEF T

\* What Run computes.
LEMMA RunDef ==
  ASSUME NEW q, Len(q) \in Nat, NEW s
  PROVE  /\ Run(q, s)[0] = s
         /\ \A i \in 1..Len(q) : Run(q, s)[i] = After(q[i], Run(q, s)[i - 1])
<1> DEFINE r == Run(q, s)
<1>1. r = [i \in 0..Len(q) |-> IF i = 0 THEN s ELSE After(q[i], r[i - 1])]
  <2>1. \E f : f = Unfolded(q, s, Len(q), f)
    BY RunExists
  <2>2. r = CHOOSE f : f = Unfolded(q, s, Len(q), f)
    BY DEF Run, Unfolded
  <2>3. r = Unfolded(q, s, Len(q), r)
    BY <2>1, <2>2, Zenon
  <2> QED BY <2>3 DEF Unfolded
<1> HIDE DEF r
<1>2. r[0] = s /\ \A i \in 1..Len(q) : r[i] = After(q[i], r[i - 1])
  BY <1>1
<1> QED BY <1>2 DEF r

\* Two queues with the same messages from some place on, d places apart, and the
\* same value before them have the same values from there on.
Aligned(q, p, s, t, d, k, n) ==
  /\ Len(q) \in Nat /\ Len(p) \in Nat /\ d \in {0, 1} /\ k \in Nat /\ n \in Nat
  /\ k <= n /\ n <= Len(p) /\ n + d <= Len(q)
  /\ \A i \in k + 1..n : p[i] = q[i + d]
  /\ Run(p, t)[k] = Run(q, s)[k + d]

LEMMA RunAgrees ==
  ASSUME NEW q, NEW p, NEW s, NEW t, NEW d, NEW k, NEW n, Aligned(q, p, s, t, d, k, n)
  PROVE  \A i \in k..n : Run(p, t)[i] = Run(q, s)[i + d]
<1> USE DEF Aligned
<1> DEFINE T == {i \in Nat : k <= i /\ i <= n => Run(p, t)[i] = Run(q, s)[i + d]}
<1>1. \A i \in 1..Len(q) : Run(q, s)[i] = After(q[i], Run(q, s)[i - 1])
  BY RunDef
<1>2. \A i \in 1..Len(p) : Run(p, t)[i] = After(p[i], Run(p, t)[i - 1])
  BY RunDef
<1>3. 0 \in T
  BY Z3
<1>4. ASSUME NEW i \in T PROVE i + 1 \in T
  <2>1. CASE i + 1 = k
    BY <2>1
  <2>2. CASE k <= i /\ i + 1 <= n
    <3>1. /\ i + 1 \in 1..Len(p) /\ (i + 1) - 1 = i /\ i + 1 \in k + 1..n
          /\ (i + 1) + d \in 1..Len(q) /\ ((i + 1) + d) - 1 = i + d
      BY <2>2
    <3>2. Run(p, t)[i] = Run(q, s)[i + d] /\ p[i + 1] = q[(i + 1) + d]
      BY <2>2, <3>1
    <3>3. Run(p, t)[i + 1] = Run(q, s)[(i + 1) + d]
      BY <1>1, <1>2, <3>1, <3>2
    <3> QED BY <3>3
  <2>3. CASE ~(i + 1 = k \/ (k <= i /\ i + 1 <= n))
    <3>1. ~(k <= i + 1 /\ i + 1 <= n)
      BY <2>3
    <3> QED BY <3>1
  <2> QED BY <2>1, <2>2, <2>3
<1>5. T = Nat
  <2> HIDE DEF T
  <2>1. T \in SUBSET Nat
    BY DEF T
  <2> QED BY <1>3, <1>4, <2>1, Induction
<1> QED BY <1>5

-----------------------------------------------------------------------------
(* Messages and what they do to the value.                                   *)

LEMMA MessageKinds ==
  /\ \A x \in Events : /\ IsEvent(x) /\ x.from \in Clients /\ x.tag \in Nat /\ x.timeout \in Marked
                       /\ x.kind = "set" => x.arg \in Values /\ x.tag = 0
                       /\ x.kind = "execute" => x.arg \in Callbacks /\ x.tag = 0
                       /\ x.kind = "get" => x.tag # 0
                       /\ x.kind = "request" => x.arg \in Callbacks /\ x.tag # 0
  /\ \A x \in Results : ~IsEvent(x) /\ x.kind \in {"return", "signal"} /\ (x.kind = "return" => x.value \in Values)
  /\ \A x \in Messages : IsEvent(x) <=> x \in Events
BY DEF Events, Results, Messages, IsEvent, Marked

LEMMA CallbackKinds ==
  ASSUME NEW f \in Callbacks, NEW v \in Values
  PROVE  f[v] \in States
BY CallbacksAssumption DEF States

LEMMA AfterSound ==
  ASSUME NEW x \in Messages, NEW v \in States
  PROVE  /\ After(x, v) \in States /\ After(x, Trap) = Trap
         /\ x \notin Events => After(x, v) = v
<1>1. CASE x \in Events
  BY <1>1, MessageKinds, CallbackKinds DEF After, States, IsEvent
<1>2. CASE x \notin Events
  <2>1. x.kind \in {"return", "signal"}
    BY <1>2, MessageKinds DEF Messages
  <2> QED BY <2>1 DEF After
<1> QED BY <1>1, <1>2

\* Every value of a run is one or Trap, and Trap stays.
LEMMA RunSound ==
  ASSUME NEW q \in Seq(Messages), NEW s \in States
  PROVE  /\ \A i \in 0..Len(q) : Run(q, s)[i] \in States /\ (s = Trap => Run(q, s)[i] = Trap)
         /\ \A i \in 1..Len(q) : Run(q, s)[i - 1] = Trap => Run(q, s)[i] = Trap
<1> DEFINE Good(i) == Run(q, s)[i] \in States /\ (s = Trap => Run(q, s)[i] = Trap)
           T == {i \in Nat : i <= Len(q) => Good(i)}
<1>1. Len(q) \in Nat /\ \A i \in 1..Len(q) : q[i] \in Messages
  OBVIOUS
<1>2. Run(q, s)[0] = s /\ \A i \in 1..Len(q) : Run(q, s)[i] = After(q[i], Run(q, s)[i - 1])
  BY <1>1, RunDef
<1>3. Good(0)
  BY <1>2
<1>4. ASSUME NEW i \in 1..Len(q), Good(i - 1) PROVE Good(i)
  BY <1>1, <1>2, <1>4, AfterSound
<1> HIDE DEF Good
<1>5. ASSUME NEW i \in T PROVE i + 1 \in T
  <2>1. CASE i + 1 <= Len(q)
    <3>1. i + 1 \in 1..Len(q) /\ (i + 1) - 1 = i /\ Good(i)
      BY <1>1, <2>1
    <3>2. Good(i + 1)
      BY <1>4, <3>1
    <3> QED BY <3>2
  <2> QED BY <2>1
<1>6. T = Nat
  <2>1. 0 \in T
    BY <1>3
  <2> HIDE DEF T
  <2>2. T \in SUBSET Nat
    BY DEF T
  <2> QED BY <1>5, <2>1, <2>2, Induction
<1>7. \A i \in 0..Len(q) : Good(i)
  BY <1>1, <1>6
<1>8. ASSUME NEW i \in 1..Len(q), Run(q, s)[i - 1] = Trap PROVE Run(q, s)[i] = Trap
  BY <1>1, <1>2, <1>8 DEF After
<1> QED BY <1>7, <1>8 DEF Good

-----------------------------------------------------------------------------
(* A message that comes, and one that goes.                                  *)

LEMMA RunAppend ==
  ASSUME NEW q \in Seq(Messages), NEW x \in Messages, NEW s
  PROVE  /\ \A i \in 0..Len(q) : Run(Append(q, x), s)[i] = Run(q, s)[i]
         /\ Run(Append(q, x), s)[Len(q) + 1] = After(x, Run(q, s)[Len(q)])
<1> DEFINE p == Append(q, x)
<1>1. Len(q) \in Nat /\ Len(p) = Len(q) + 1 /\ p[Len(p)] = x /\ \A i \in 1..Len(q) : p[i] = q[i]
  OBVIOUS
<1> HIDE DEF p
<1>2. Run(q, s)[0] = s /\ Run(p, s)[0] = s
  BY <1>1, RunDef
<1>3. \A i \in 0 + 1..Len(q) : p[i] = q[i + 0]
  BY <1>1
<1>4. \A i \in 0..Len(q) : Run(p, s)[i] = Run(q, s)[i + 0]
  <2>1. Run(p, s)[0] = Run(q, s)[0 + 0] /\ Len(q) <= Len(p) /\ Len(q) + 0 <= Len(q) /\ 0 <= Len(q) /\ Len(p) \in Nat
    BY <1>1, <1>2
  <2>2. Aligned(q, p, s, s, 0, 0, Len(q))
    BY <1>1, <1>3, <2>1 DEF Aligned
  <2> QED BY <2>2, RunAgrees
<1>5. \A i \in 0..Len(q) : Run(p, s)[i] = Run(q, s)[i]
  BY <1>4
<1>6. Run(p, s)[Len(p)] = After(p[Len(p)], Run(p, s)[Len(p) - 1])
  <2>1. Len(p) \in 1..Len(p) /\ Len(p) \in Nat
    BY <1>1
  <2> QED BY <2>1, RunDef
<1>7. Len(p) - 1 = Len(q) /\ Len(q) \in 0..Len(q)
  BY <1>1
<1> QED BY <1>1, <1>5, <1>6, <1>7 DEF p

\* p is q without its message at k.
Gap(q, p, k) ==
  /\ Len(p) \in Nat /\ Len(q) = Len(p) + 1 /\ k \in 1..Len(q) /\ DOMAIN q = 1..Len(q) /\ DOMAIN p = 1..Len(p)
  /\ \A i \in 1..k - 1 : p[i] = q[i]
  /\ \A i \in k..Len(p) : p[i] = q[i + 1]

\* The values of the messages that are left are what they were.
Agree(q, p, k, s, t) ==
  /\ \A i \in 0..k - 1 : i > 0 \/ k > 1 => Run(p, t)[i] = Run(q, s)[i]
  /\ \A i \in k - 1..Len(p) : Run(p, t)[i] = Run(q, s)[i + 1]

LEMMA GapTail ==
  ASSUME NEW q \in Seq(Messages), q # <<>>, NEW s
  PROVE  Gap(q, Tail(q), 1) /\ Agree(q, Tail(q), 1, s, After(Head(q), s))
<1> DEFINE p == Tail(q)
           t == After(Head(q), s)
<1>1. /\ Len(p) \in Nat /\ Len(q) = Len(p) + 1 /\ DOMAIN q = 1..Len(q) /\ DOMAIN p = 1..Len(p)
      /\ \A i \in 1..Len(p) : p[i] = q[i + 1]
      /\ Head(q) = q[1]
  OBVIOUS
<1> HIDE DEF p
<1>2. Gap(q, p, 1)
  BY <1>1 DEF Gap
<1>3. Run(p, t)[0] = Run(q, s)[0 + 1]
  <2>1. Run(p, t)[0] = t /\ Run(q, s)[0] = s /\ Run(q, s)[1] = After(q[1], Run(q, s)[1 - 1])
    BY <1>1, RunDef
  <2> QED BY <1>1, <2>1
<1> HIDE DEF t
<1>4. \A i \in 0..Len(p) : Run(p, t)[i] = Run(q, s)[i + 1]
  <2>1. \A i \in 0 + 1..Len(p) : p[i] = q[i + 1]
    BY <1>1
  <2>2. Len(q) \in Nat /\ 0 <= Len(p) /\ Len(p) + 1 <= Len(q)
    BY <1>1
  <2>3. Aligned(q, p, s, t, 1, 0, Len(p))
    BY <1>1, <1>3, <2>1, <2>2 DEF Aligned
  <2> QED BY <2>3, RunAgrees
<1>5. Agree(q, p, 1, s, t)
  BY <1>4 DEF Agree
<1> QED BY <1>2, <1>5 DEF p, t

LEMMA GapRemove ==
  ASSUME NEW q \in Seq(Messages), NEW k \in DOMAIN q
  PROVE  RemoveAt(q, k) \in Seq(Messages) /\ Gap(q, RemoveAt(q, k), k)
<1> DEFINE a == SubSeq(q, 1, k - 1)
           b == SubSeq(q, k + 1, Len(q))
           p == a \o b
           n == Len(q)
<1>1. a \in Seq(Messages) /\ Len(a) = k - 1 /\ \A i \in 1..k - 1 : a[i] = q[i]
  OBVIOUS
<1>2. b \in Seq(Messages) /\ Len(b) = n - k /\ \A i \in 1..n - k : b[i] = q[k + i]
  OBVIOUS
<1>3. RemoveAt(q, k) = p
  BY DEF RemoveAt
<1>4. n \in Nat /\ k \in 1..n /\ DOMAIN q = 1..n
  OBVIOUS
<1> HIDE DEF a, b, n
<1>5. p \in Seq(Messages) /\ Len(p) = n - 1 /\ DOMAIN p = 1..n - 1
  BY <1>1, <1>2, <1>4
<1>6. \A i \in 1..k - 1 : p[i] = a[i]
  BY <1>1, <1>2, <1>4
<1>7. ASSUME NEW i \in k..n - 1 PROVE p[i] = q[i + 1]
  <2>1. /\ i \in 1..Len(a) + Len(b) /\ ~(i <= Len(a))
        /\ i - Len(a) \in 1..n - k /\ k + (i - Len(a)) = i + 1
    BY <1>1, <1>2, <1>4
  <2>2. p[i] = b[i - Len(a)]
    BY <1>1, <1>2, <2>1
  <2> QED BY <1>2, <2>1, <2>2
<1> HIDE DEF p
<1>8. Len(p) \in Nat /\ n = Len(p) + 1
  BY <1>4, <1>5
<1> QED BY <1>1, <1>3, <1>4, <1>5, <1>6, <1>7, <1>8 DEF Gap, n

\* A message that is no event has no effect.
LEMMA AgreeRemove ==
  ASSUME NEW q \in Seq(Messages), NEW p, NEW k, Gap(q, p, k), q[k] \notin Events, NEW s \in States
  PROVE  Agree(q, p, k, s, s)
<1>1. PICK n \in Nat : n = k - 1
  BY DEF Gap
<1>2. /\ Len(q) \in Nat /\ Len(p) \in Nat /\ k = n + 1 /\ n <= Len(p) /\ k \in 1..Len(q) /\ Len(q) = Len(p) + 1
      /\ \A i \in 1..n : p[i] = q[i]
      /\ \A i \in n + 1..Len(p) : p[i] = q[i + 1]
  BY <1>1 DEF Gap
<1>3. Run(q, s)[0] = s /\ Run(p, s)[0] = s /\ \A i \in 1..Len(q) : Run(q, s)[i] = After(q[i], Run(q, s)[i - 1])
  BY <1>2, RunDef
<1>4. \A i \in 0..n : Run(p, s)[i] = Run(q, s)[i + 0]
  <2>1. \A i \in 0 + 1..n : p[i] = q[i + 0]
    BY <1>2
  <2>2. Run(p, s)[0] = Run(q, s)[0 + 0] /\ 0 <= n /\ n + 0 <= Len(q)
    BY <1>2, <1>3
  <2>3. Aligned(q, p, s, s, 0, 0, n)
    BY <1>2, <2>1, <2>2 DEF Aligned
  <2> QED BY <2>3, RunAgrees
<1>5. \A i \in 0..n : Run(p, s)[i] = Run(q, s)[i]
  BY <1>4
<1>6. Run(p, s)[n] = Run(q, s)[n + 1]
  <2>1. Run(q, s)[n] \in States /\ q[k] \in Messages /\ k - 1 = n
    BY <1>2, RunSound
  <2>2. Run(q, s)[n + 1] = Run(q, s)[n]
    BY <1>2, <1>3, <2>1, AfterSound
  <2> QED BY <1>5, <2>2
<1>7. \A i \in n..Len(p) : Run(p, s)[i] = Run(q, s)[i + 1]
  <2>1. Aligned(q, p, s, s, 1, n, Len(p))
    BY <1>2, <1>6 DEF Aligned
  <2> QED BY <2>1, RunAgrees
<1> QED BY <1>1, <1>5, <1>7 DEF Agree

-----------------------------------------------------------------------------
(* The event that a call waits for.                                          *)

Single(q, c, t) == \A i, j \in Waits(q, c, t) : i = j

LEMMA WaitsIn ==
  ASSUME NEW q \in Seq(Messages), NEW c, NEW t, NEW i \in Waits(q, c, t)
  PROVE  i \in 1..Len(q) /\ q[i] \in Events /\ q[i].from = c /\ q[i].tag = t
BY MessageKinds DEF Waits

LEMMA WaitsAppend ==
  ASSUME NEW q \in Seq(Messages), NEW x \in Messages, NEW c, NEW t
  PROVE  Waits(Append(q, x), c, t) =
           IF x \in Events /\ x.from = c /\ x.tag = t THEN Waits(q, c, t) \cup {Len(q) + 1} ELSE Waits(q, c, t)
<1> DEFINE p == Append(q, x)
<1>1. /\ DOMAIN p = DOMAIN q \cup {Len(q) + 1} /\ Len(q) + 1 \notin DOMAIN q
      /\ p[Len(q) + 1] = x /\ \A i \in DOMAIN q : p[i] = q[i]
  OBVIOUS
<1> HIDE DEF p
<1>2. IsEvent(x) <=> x \in Events
  BY MessageKinds
<1> QED BY <1>1, <1>2 DEF Waits, p

LEMMA WaitsGap ==
  ASSUME NEW q, NEW p, NEW k, Gap(q, p, k), NEW c, NEW t
  PROVE  /\ \A i \in 1..k - 1 : i \in Waits(p, c, t) <=> i \in Waits(q, c, t)
         /\ \A i \in k..Len(p) : i \in Waits(p, c, t) <=> i + 1 \in Waits(q, c, t)
         /\ \A i \in Waits(p, c, t) : i \in 1..k - 1 \/ i \in k..Len(p)
         /\ \A i \in Waits(q, c, t) : i \in 1..k - 1 \/ i = k \/ (i - 1 \in k..Len(p) /\ (i - 1) + 1 = i)
<1>1. \A i \in 1..k - 1 : i \in DOMAIN p /\ i \in DOMAIN q /\ p[i] = q[i]
  BY DEF Gap
<1>2. \A i \in k..Len(p) : i \in DOMAIN p /\ i + 1 \in DOMAIN q /\ p[i] = q[i + 1]
  BY DEF Gap
<1>3. \A i \in DOMAIN p : i \in 1..k - 1 \/ i \in k..Len(p)
  BY DEF Gap
<1>4. \A i \in DOMAIN q : i \in 1..k - 1 \/ i = k \/ (i - 1 \in k..Len(p) /\ (i - 1) + 1 = i)
  BY DEF Gap
<1> QED BY <1>1, <1>2, <1>3, <1>4 DEF Waits

\* A message that goes is of nobody else's call.
LEMMA WaitsLeft ==
  ASSUME NEW q, NEW p, NEW k, Gap(q, p, k), NEW c, NEW t, Single(q, c, t)
  PROVE  /\ Single(p, c, t)
         /\ Waits(p, c, t) # {} => Waits(q, c, t) # {}
         /\ k \in Waits(q, c, t) => Waits(p, c, t) = {}
         /\ k \notin Waits(q, c, t) /\ Waits(p, c, t) = {} => Waits(q, c, t) = {}
<1>1. /\ \A i \in 1..k - 1 : i \in Waits(p, c, t) <=> i \in Waits(q, c, t)
      /\ \A i \in k..Len(p) : i \in Waits(p, c, t) <=> i + 1 \in Waits(q, c, t)
      /\ \A i \in Waits(p, c, t) : i \in 1..k - 1 \/ i \in k..Len(p)
      /\ \A i \in Waits(q, c, t) : i \in 1..k - 1 \/ i = k \/ (i - 1 \in k..Len(p) /\ (i - 1) + 1 = i)
  BY WaitsGap
<1>2. k \in Nat /\ Len(p) \in Nat
  BY DEF Gap
<1>3. ASSUME NEW i \in Waits(p, c, t), NEW j \in Waits(p, c, t) PROVE i = j
  <2>1. CASE i \in 1..k - 1 /\ j \in 1..k - 1
    BY <1>1, <2>1 DEF Single
  <2>2. CASE i \in k..Len(p) /\ j \in k..Len(p)
    <3>1. i + 1 = j + 1
      BY <1>1, <2>2 DEF Single
    <3> QED BY <1>2, <2>2, <3>1
  <2>3. CASE i \in 1..k - 1 /\ j \in k..Len(p)
    <3>1. i = j + 1
      BY <1>1, <2>3 DEF Single
    <3> QED BY <1>2, <2>3, <3>1
  <2>4. CASE j \in 1..k - 1 /\ i \in k..Len(p)
    <3>1. j = i + 1
      BY <1>1, <2>4 DEF Single
    <3> QED BY <1>2, <2>4, <3>1
  <2> QED BY <1>1, <2>1, <2>2, <2>3, <2>4
<1>4. ASSUME k \in Waits(q, c, t), NEW i \in Waits(p, c, t) PROVE FALSE
  <2>1. CASE i \in 1..k - 1
    <3>1. i = k
      BY <1>1, <1>4, <2>1 DEF Single
    <3> QED BY <1>2, <2>1, <3>1
  <2>2. CASE i \in k..Len(p)
    <3>1. i + 1 = k
      BY <1>1, <1>4, <2>2 DEF Single
    <3> QED BY <1>2, <2>2, <3>1
  <2> QED BY <1>1, <1>4, <2>1, <2>2
<1>5. ASSUME k \notin Waits(q, c, t), NEW i \in Waits(q, c, t) PROVE Waits(p, c, t) # {}
  <2>1. i \in 1..k - 1 \/ (i - 1 \in k..Len(p) /\ (i - 1) + 1 = i)
    BY <1>1, <1>5
  <2> QED BY <1>1, <1>5, <2>1
<1>6. ASSUME NEW i \in Waits(p, c, t) PROVE Waits(q, c, t) # {}
  BY <1>1, <1>6
<1> QED BY <1>3, <1>4, <1>5, <1>6 DEF Single

\* What a call that waits is due.
LEMMA DueAt ==
  ASSUME NEW q, NEW s, NEW c, NEW t, Single(q, c, t), NEW i \in Waits(q, c, t)
  PROVE  Due(q, s, c, t) = IF Run(q, s)[i] = Trap THEN Never ELSE Run(q, s)[i - 1]
<1> DEFINE j == CHOOSE n \in Waits(q, c, t) : TRUE
<1>1. j \in Waits(q, c, t)
  OBVIOUS
<1>2. j = i
  BY <1>1 DEF Single
<1>3. Due(q, s, c, t) = IF Run(q, s)[j] = Trap THEN Never ELSE Run(q, s)[j - 1]
  BY DEF Due
<1> HIDE DEF j
<1> QED BY <1>2, <1>3

LEMMA DueNone ==
  ASSUME NEW q, NEW s, NEW c, NEW t, Waits(q, c, t) = {}
  PROVE  Due(q, s, c, t) = Never
BY DEF Due

LEMMA DueAppend ==
  ASSUME NEW q \in Seq(Messages), NEW x \in Messages, NEW s, NEW c, NEW t, Single(q, c, t)
  PROVE  /\ ~(x \in Events /\ x.from = c /\ x.tag = t) => Due(Append(q, x), s, c, t) = Due(q, s, c, t)
         /\ x \in Events /\ x.from = c /\ x.tag = t /\ Waits(q, c, t) = {} =>
              Due(Append(q, x), s, c, t) =
                IF After(x, Run(q, s)[Len(q)]) = Trap THEN Never ELSE Run(q, s)[Len(q)]
<1> DEFINE p == Append(q, x)
<1>1. /\ Waits(p, c, t) =
           IF x \in Events /\ x.from = c /\ x.tag = t THEN Waits(q, c, t) \cup {Len(q) + 1} ELSE Waits(q, c, t)
      /\ \A i \in 0..Len(q) : Run(p, s)[i] = Run(q, s)[i]
      /\ Run(p, s)[Len(q) + 1] = After(x, Run(q, s)[Len(q)])
  BY WaitsAppend, RunAppend
<1> HIDE DEF p
<1>2. ASSUME ~(x \in Events /\ x.from = c /\ x.tag = t) PROVE Due(p, s, c, t) = Due(q, s, c, t)
  <2>1. Waits(p, c, t) = Waits(q, c, t) /\ Single(p, c, t)
    BY <1>1, <1>2 DEF Single
  <2>2. ASSUME NEW i \in Waits(q, c, t) PROVE Due(p, s, c, t) = Due(q, s, c, t)
    <3>1. i \in 0..Len(q) /\ i - 1 \in 0..Len(q)
      BY WaitsIn
    <3> QED BY <1>1, <2>1, <3>1, DueAt
  <2> QED BY <2>1, <2>2, DueNone
<1>3. ASSUME x \in Events /\ x.from = c /\ x.tag = t, Waits(q, c, t) = {}
      PROVE  Due(p, s, c, t) = IF After(x, Run(q, s)[Len(q)]) = Trap THEN Never ELSE Run(q, s)[Len(q)]
  <2>1. PICK n : n = Len(q) + 1
    OBVIOUS
  <2>2. n \in Waits(p, c, t) /\ Single(p, c, t)
    BY <1>1, <1>3, <2>1 DEF Single
  <2>3. n - 1 = Len(q) /\ Len(q) \in 0..Len(q)
    BY <2>1
  <2>4. Due(p, s, c, t) = IF Run(p, s)[n] = Trap THEN Never ELSE Run(p, s)[n - 1]
    BY <2>2, DueAt
  <2> QED BY <1>1, <2>1, <2>3, <2>4
<1> QED BY <1>2, <1>3 DEF p

LEMMA DueGap ==
  ASSUME NEW q, NEW p, NEW k, Gap(q, p, k), NEW s, NEW v, Agree(q, p, k, s, v),
         NEW c, NEW t, Single(q, c, t), k \notin Waits(q, c, t)
  PROVE  Due(p, v, c, t) = Due(q, s, c, t)
<1>1. Single(p, c, t) /\ (Waits(p, c, t) = {} => Waits(q, c, t) = {})
  BY WaitsLeft
<1>2. k \in Nat \ {0} /\ Len(p) \in Nat
  BY DEF Gap
<1>3. ASSUME NEW i \in Waits(p, c, t), i \in 1..k - 1 PROVE Due(p, v, c, t) = Due(q, s, c, t)
  <2>1. i \in Waits(q, c, t)
    BY <1>3, WaitsGap
  <2>2. Run(p, v)[i] = Run(q, s)[i] /\ Run(p, v)[i - 1] = Run(q, s)[i - 1]
    BY <1>2, <1>3 DEF Agree
  <2> QED BY <1>1, <1>3, <2>1, <2>2, DueAt
<1>4. ASSUME NEW i \in Waits(p, c, t), i \in k..Len(p) PROVE Due(p, v, c, t) = Due(q, s, c, t)
  <2>1. i + 1 \in Waits(q, c, t)
    BY <1>4, WaitsGap
  <2>2. /\ Run(p, v)[i] = Run(q, s)[i + 1] /\ Run(p, v)[i - 1] = Run(q, s)[(i - 1) + 1]
        /\ (i - 1) + 1 = (i + 1) - 1
    BY <1>2, <1>4 DEF Agree
  <2>3. Due(q, s, c, t) = IF Run(q, s)[i + 1] = Trap THEN Never ELSE Run(q, s)[(i + 1) - 1]
    BY <2>1, DueAt
  <2>4. Due(p, v, c, t) = IF Run(p, v)[i] = Trap THEN Never ELSE Run(p, v)[i - 1]
    BY <1>1, <1>4, DueAt
  <2> QED BY <2>2, <2>3, <2>4
<1> QED BY <1>1, <1>3, <1>4, WaitsGap, DueNone

\* The first event is due the value now, unless its callback traps.
LEMMA DueHead ==
  ASSUME NEW q \in Seq(Messages), q # <<>>, NEW s, NEW c, NEW t, Single(q, c, t), 1 \in Waits(q, c, t)
  PROVE  Due(q, s, c, t) = IF After(Head(q), s) = Trap THEN Never ELSE s
<1>1. 1 \in 1..Len(q) /\ Len(q) \in Nat /\ q[1] = Head(q) /\ 1 - 1 = 0
  OBVIOUS
<1>2. Run(q, s)[1] = After(Head(q), Run(q, s)[0]) /\ Run(q, s)[0] = s
  BY <1>1, RunDef
<1>3. Due(q, s, c, t) = IF Run(q, s)[1] = Trap THEN Never ELSE Run(q, s)[1 - 1]
  BY DueAt
<1> QED BY <1>1, <1>2, <1>3

\* After a trap nothing is due, and before it a value or nothing.
LEMMA DueSound ==
  ASSUME NEW q \in Seq(Messages), NEW s \in States, NEW c, NEW t, Single(q, c, t)
  PROVE  Due(q, s, c, t) \in Values \cup {Never} /\ (s = Trap => Due(q, s, c, t) = Never)
<1>1. ASSUME NEW i \in Waits(q, c, t)
      PROVE  Due(q, s, c, t) \in Values \cup {Never} /\ (s = Trap => Due(q, s, c, t) = Never)
  <2>1. i \in 1..Len(q) /\ i \in 0..Len(q) /\ i - 1 \in 0..Len(q)
    BY WaitsIn
  <2>2. Run(q, s)[i - 1] \in States /\ (s = Trap => Run(q, s)[i] = Trap) /\ (Run(q, s)[i - 1] = Trap => Run(q, s)[i] = Trap)
    BY <2>1, RunSound
  <2> QED BY <2>2, DueAt DEF States
<1> QED BY <1>1, DueNone

-----------------------------------------------------------------------------
(* The invariant.                                                            *)

Children == [link : Nat, tag : Marked, arg : Callbacks, value : Values]

Typed ==
  /\ replyTag \in [Clients -> Nat \ {0}]
  /\ call \in [Clients -> [tag : Nat, timed : BOOLEAN]]
  /\ reply \in [Clients -> Values \cup {Nothing}]
  /\ held \in {"ready", "waiting", "undefined"}
  /\ value \in Values
  /\ tag \in Nat
  /\ mbox \in Seq(Messages)
  /\ children \in SUBSET Children

\* While it waits, the Held process has one child, or the message of its end.
Quiet(q) == \A i \in DOMAIN q : q[i] \in Events
Alone(q, v) ==
  \E i \in DOMAIN q : /\ \A j \in DOMAIN q \ {i} : q[j] \in Events
                      /\ q[i] \in Results /\ (q[i].kind = "return" => q[i].value = v)

Boxed ==
  /\ held = "ready" => wait = NoWait /\ children = {} /\ Quiet(mbox)
  /\ held = "waiting" =>
       /\ wait.event \in Events /\ wait.event.kind \in {"execute", "request"}
       /\ wait.skip \in Nat /\ wait.skip <= Len(mbox)
       /\ \/ Quiet(mbox) /\ \E x \in Children : children = {x} /\ x.arg = wait.event.arg /\ x.value = value
          \/ children = {} /\ Alone(mbox, wait.event.arg[value])
  /\ held = "undefined" => wait = NoWait /\ \A x, y \in children : x = y

\* The tags of a client tell its calls apart, and a call is answered once.
Fits(q, n, k, r, c) ==
  /\ \A t \in Nat \ {0} : Single(q, c, t) /\ (Waits(q, c, t) # {} => t < n)
  /\ k # NoCall => k.tag # 0 /\ k.tag < n /\ (Waits(q, c, k.tag) # {} => r = Nothing)
  /\ k = NoCall => r = Nothing

Balanced == \A c \in Clients : Fits(Queue, replyTag[c], call[c], reply[c], c)

IInv == Typed /\ Boxed /\ Balanced

LEMMA SmallSets ==
  ASSUME NEW S, \A x, y \in S : x = y
  PROVE  Cardinality(S) <= 1
<1>1. Cardinality({}) = 0 /\ \A x : Cardinality({x}) = 1
  BY FS_EmptySet, FS_Singleton
<1>2. CASE S = {}
  BY <1>1, <1>2
<1>3. CASE S # {}
  <2>1. PICK x : S = {x}
    BY <1>3
  <2>2. Cardinality({x}) = 1
    BY <1>1
  <2>3. Cardinality(S) = 1
    BY <2>1, <2>2, Zenon
  <2> QED BY <2>3
<1> QED BY <1>2, <1>3

LEMMA InvariantType == IInv => TypeOK
<1> SUFFICES ASSUME IInv PROVE TypeOK
  OBVIOUS
<1>1. Cardinality(children) <= 1
  <2>1. \A x, y \in children : x = y
    BY DEF IInv, Boxed, Typed
  <2> QED BY <2>1, SmallSets
<1>2. held = "waiting" <=> wait # NoWait
  BY NothingAssumption DEF IInv, Boxed, Typed, NoWait
<1>3. wait.skip <= Len(mbox)
  <2>1. Len(mbox) \in Nat
    BY DEF IInv, Typed
  <2> QED BY <2>1 DEF IInv, Boxed, Typed, NoWait
<1>4. \A c \in Clients : reply[c] # Nothing => call[c] # NoCall
  BY DEF IInv, Balanced, Fits
<1>5. replyTag \in [Clients -> Nat]
  BY DEF IInv, Typed
<1> QED BY <1>1, <1>2, <1>3, <1>4, <1>5 DEF IInv, Typed, TypeOK

LEMMA InitInvariant == Init => IInv
<1> SUFFICES ASSUME Init PROVE IInv
  OBVIOUS
<1>1. Typed
  <2>1. mbox \in Seq(Messages)
    BY DEF Init
  <2> QED BY <2>1 DEF Init, Typed, NoCall
<1>2. Boxed
  BY DEF Init, Boxed, Quiet
<1>3. \A c, t : Waits(Queue, c, t) = {}
  <2>1. Queue = <<>>
    BY DEF Init, Queue
  <2> QED BY <2>1 DEF Waits
<1>4. Balanced
  BY <1>3 DEF Init, Balanced, Fits, Single
<1> QED BY <1>1, <1>2, <1>4 DEF IInv

-----------------------------------------------------------------------------
(* The queue, here and after a step.                                         *)

LEMMA Joined ==
  ASSUME NEW q \in Seq(Messages), NEW e \in Messages
  PROVE  /\ <<>> \o q = q
         /\ <<e>> \o q \in Seq(Messages) /\ <<e>> \o q # <<>> /\ Head(<<e>> \o q) = e /\ Tail(<<e>> \o q) = q
<1> DEFINE p == <<e>> \o q
<1>1. p \in Seq(Messages) /\ Len(p) = Len(q) + 1 /\ p[1] = e /\ \A i \in 1..Len(q) : p[i + 1] = q[i]
  OBVIOUS
<1> HIDE DEF p
<1>2. p # <<>> /\ Head(p) = e /\ Tail(p) \in Seq(Messages) /\ Len(Tail(p)) = Len(q)
      /\ \A i \in 1..Len(q) : Tail(p)[i] = q[i]
  BY <1>1
<1>3. Tail(p) = q
  BY <1>2
<1> QED BY <1>1, <1>2, <1>3 DEF p

LEMMA QueueHere ==
  ASSUME IInv
  PROVE  /\ Queue \in Seq(Messages) /\ Now \in States /\ Final \in States
         /\ held # "waiting" => Queue = mbox
         /\ held = "waiting" => Queue # <<>> /\ Head(Queue) = wait.event /\ Tail(Queue) = mbox
         /\ mbox \in Seq(Messages)
<1>1. mbox \in Seq(Messages) /\ Now \in States
  BY DEF IInv, Typed, Now, States
<1>2. ASSUME held # "waiting" PROVE Queue = mbox
  <2>1. \A q \in Seq(Messages) : <<>> \o q = q
    OBVIOUS
  <2>2. Queue = <<>> \o mbox
    BY <1>2 DEF Queue
  <2> QED BY <1>1, <1>2, <2>1, <2>2
<1>3. ASSUME held = "waiting"
      PROVE  Queue \in Seq(Messages) /\ Queue # <<>> /\ Head(Queue) = wait.event /\ Tail(Queue) = mbox
  <2>1. PICK e \in Messages : e = wait.event
    BY <1>3 DEF IInv, Boxed, Messages
  <2>2. Queue = <<e>> \o mbox
    BY <1>3, <2>1 DEF Queue
  <2> QED BY <1>1, <2>1, <2>2, Joined
<1>4. Queue \in Seq(Messages)
  BY <1>1, <1>2, <1>3
<1>5. Final \in States
  <2>1. Len(Queue) \in 0..Len(Queue)
    BY <1>4
  <2> QED BY <1>1, <1>4, <2>1, RunSound DEF Final
<1> QED BY <1>1, <1>2, <1>3, <1>4, <1>5

LEMMA FinalNext ==
  ASSUME NEW q, q = Queue', NEW s, s = Now'
  PROVE  Final' = Run(q, s)[Len(q)]
BY DEF Final

\* What a client is owed, of its call and the reply to it.
OwedBy(q, s, k, r, c) == IF k = NoCall THEN Nothing ELSE IF r # Nothing THEN r ELSE Due(q, s, c, k.tag)

LEMMA OwedHere ==
  ASSUME NEW c \in Clients
  PROVE  Owed(c) = OwedBy(Queue, Now, call[c], reply[c], c)
BY DEF Owed, OwedBy, Idle

LEMMA OwedNext ==
  ASSUME NEW q, q = Queue', NEW s, s = Now', NEW c \in Clients
  PROVE  Owed(c)' = OwedBy(q, s, call'[c], reply'[c], c)
BY DEF Owed, OwedBy, Idle, Due, Waits, NoCall, IsEvent

LEMMA BalancedNext ==
  ASSUME NEW q, q = Queue', \A c \in Clients : Fits(q, replyTag'[c], call'[c], reply'[c], c)
  PROVE  Balanced'
BY DEF Balanced, Fits, Single, Waits, NoCall, IsEvent

\* A step that the abstract cell does not see.
Unseen ==
  /\ Final' = Final
  /\ AllOwed' = AllOwed
  /\ last' = last

LEMMA UnseenStep ==
  ASSUME IInv, NEW q, q = Queue', NEW s, s = Now', UNCHANGED last,
         Run(q, s)[Len(q)] = Final,
         \A c \in Clients : OwedBy(q, s, call'[c], reply'[c], c) = Owed(c)
  PROVE  Unseen
<1>1. Final' = Final
  BY FinalNext
<1>2. \A c \in Clients : Owed(c)' = Owed(c)
  BY OwedNext
<1>3. AllOwed' = AllOwed
  BY <1>2 DEF AllOwed
<1> QED BY <1>1, <1>3 DEF Unseen

-----------------------------------------------------------------------------
(* A message that goes: the calls of the others fit as before.               *)

LEMMA AgreeFinal ==
  ASSUME NEW q, NEW p, NEW k, Gap(q, p, k), NEW s, NEW v, Agree(q, p, k, s, v)
  PROVE  Run(p, v)[Len(p)] = Run(q, s)[Len(q)]
<1>1. Len(p) \in k - 1..Len(p) /\ Len(p) + 1 = Len(q)
  BY DEF Gap
<1> QED BY <1>1 DEF Agree

LEMMA FitsGap ==
  ASSUME NEW q, NEW p, NEW k, Gap(q, p, k), NEW c \in Clients,
         NEW n \in Nat, NEW l, l # NoCall => l.tag \in Nat, NEW r, Fits(q, n, l, r, c), NEW u,
         u = r \/ (l # NoCall /\ k \in Waits(q, c, l.tag))
  PROVE  Fits(p, n, l, u, c)
<1>1. ASSUME NEW t \in Nat \ {0} PROVE Single(p, c, t) /\ (Waits(p, c, t) # {} => t < n)
  <2>1. Single(q, c, t) /\ (Waits(q, c, t) # {} => t < n)
    BY DEF Fits
  <2> QED BY <2>1, WaitsLeft
<1>2. ASSUME l # NoCall PROVE l.tag # 0 /\ l.tag < n /\ (Waits(p, c, l.tag) # {} => u = Nothing)
  <2>1. l.tag \in Nat \ {0} /\ l.tag < n /\ (Waits(q, c, l.tag) # {} => r = Nothing)
    BY <1>2 DEF Fits
  <2>2. Single(q, c, l.tag)
    BY <2>1 DEF Fits
  <2>3. Waits(p, c, l.tag) # {} => Waits(q, c, l.tag) # {} /\ k \notin Waits(q, c, l.tag)
    BY <2>2, WaitsLeft
  <2> QED BY <2>1, <2>3
<1>3. l = NoCall => u = Nothing
  BY DEF Fits
<1> QED BY <1>1, <1>2, <1>3 DEF Fits

LEMMA OwedGap ==
  ASSUME NEW q, NEW p, NEW k, Gap(q, p, k), NEW s, NEW v, Agree(q, p, k, s, v), NEW c \in Clients,
         NEW n \in Nat, NEW l, l # NoCall => l.tag \in Nat, NEW r, Fits(q, n, l, r, c), NEW u,
         IF l # NoCall /\ k \in Waits(q, c, l.tag)
         THEN u = Due(q, s, c, l.tag) /\ u # Nothing
         ELSE u = r
  PROVE  OwedBy(p, v, l, u, c) = OwedBy(q, s, l, r, c)
<1>1. CASE l = NoCall
  BY <1>1 DEF OwedBy
<1>2. CASE l # NoCall /\ k \in Waits(q, c, l.tag)
  <2>1. r = Nothing
    BY <1>2 DEF Fits
  <2> QED BY <1>2, <2>1 DEF OwedBy
<1>3. CASE l # NoCall /\ k \notin Waits(q, c, l.tag)
  <2>1. l.tag \in Nat \ {0}
    BY <1>3 DEF Fits
  <2>2. Single(q, c, l.tag)
    BY <2>1 DEF Fits
  <2>3. Due(p, v, c, l.tag) = Due(q, s, c, l.tag)
    BY <1>3, <2>2, DueGap
  <2> QED BY <1>3, <2>3 DEF OwedBy
<1> QED BY <1>1, <1>2, <1>3

LEMMA FitsHere ==
  ASSUME IInv, NEW c \in Clients
  PROVE  /\ Fits(Queue, replyTag[c], call[c], reply[c], c)
         /\ replyTag[c] \in Nat \ {0} /\ call[c].tag \in Nat /\ (call[c] # NoCall => call[c].tag # 0)
         /\ reply[c] \in Values \cup {Nothing}
BY DEF IInv, Balanced, Typed, Fits

\* The first event goes, with its effect on the value, and answers the call of
\* its client if it still waits.
LEMMA HeadGoes ==
  ASSUME IInv, held # "undefined", Queue # <<>>, Head(Queue) \in Events,
         NEW s \in Values, s = After(Head(Queue), value),
         NEW r,
         \A c \in Clients : r[c] = IF call[c] # NoCall /\ Head(Queue).from = c /\ Head(Queue).tag = call[c].tag
                                   THEN value ELSE reply[c]
  PROVE  /\ \A c \in Clients : /\ Fits(Tail(Queue), replyTag[c], call[c], r[c], c)
                               /\ OwedBy(Tail(Queue), s, call[c], r[c], c) = Owed(c)
         /\ Run(Tail(Queue), s)[Len(Tail(Queue))] = Final
<1>1. Queue \in Seq(Messages) /\ Now = value /\ value \in Values
  BY QueueHere DEF Now, IInv, Typed
<1>2. PICK q \in Seq(Messages) : q = Queue
  BY <1>1
<1>3. PICK p : p = Tail(q)
  OBVIOUS
<1>4. Gap(q, p, 1) /\ Agree(q, p, 1, value, s)
  BY <1>2, <1>3, GapTail
<1>5. Run(p, s)[Len(p)] = Final
  BY <1>1, <1>2, <1>4, AgreeFinal DEF Final
<1>6. ASSUME NEW c \in Clients
      PROVE  Fits(p, replyTag[c], call[c], r[c], c) /\ OwedBy(p, s, call[c], r[c], c) = Owed(c)
  <2>1. /\ Fits(q, replyTag[c], call[c], reply[c], c)
        /\ replyTag[c] \in Nat \ {0} /\ call[c].tag \in Nat /\ (call[c] # NoCall => call[c].tag # 0)
    BY <1>2, FitsHere
  <2>2. 1 \in Waits(q, c, call[c].tag) <=> Head(q).from = c /\ Head(q).tag = call[c].tag
    <3>1. 1 \in DOMAIN q /\ q[1] = Head(q) /\ IsEvent(Head(q))
      BY <1>2, MessageKinds
    <3> QED BY <3>1 DEF Waits
  <2>3. r[c] = reply[c] \/ (call[c] # NoCall /\ 1 \in Waits(q, c, call[c].tag))
    BY <1>2, <2>2
  <2>4. Fits(p, replyTag[c], call[c], r[c], c)
    BY <1>4, <2>1, <2>3, FitsGap
  <2>5. ASSUME call[c] # NoCall /\ 1 \in Waits(q, c, call[c].tag)
        PROVE  r[c] = Due(q, value, c, call[c].tag) /\ r[c] # Nothing
    <3>1. Single(q, c, call[c].tag)
      BY <2>1, <2>5 DEF Fits
    <3>2. Due(q, value, c, call[c].tag) = IF After(Head(q), value) = Trap THEN Never ELSE value
      BY <1>2, <2>5, <3>1, DueHead
    <3>3. r[c] = value
      BY <1>2, <2>2, <2>5
    <3> QED BY <1>1, <1>2, <3>2, <3>3, NothingAssumption
  <2>6. ~(call[c] # NoCall /\ 1 \in Waits(q, c, call[c].tag)) => r[c] = reply[c]
    BY <2>3
  <2>7. OwedBy(p, s, call[c], r[c], c) = OwedBy(q, value, call[c], reply[c], c)
    BY <1>4, <2>1, <2>5, <2>6, OwedGap
  <2> QED BY <1>1, <1>2, <2>4, <2>7, OwedHere
<1> QED BY <1>2, <1>3, <1>5, <1>6

\* A message that comes, and is of no call.
LEMMA OtherComes ==
  ASSUME IInv, NEW x \in Messages, NEW c \in Clients, ~(x \in Events /\ x.from = c /\ x.tag # 0)
  PROVE  /\ Fits(Append(Queue, x), replyTag[c], call[c], reply[c], c)
         /\ OwedBy(Append(Queue, x), Now, call[c], reply[c], c) = Owed(c)
<1>1. PICK q \in Seq(Messages) : q = Queue
  BY QueueHere
<1>2. PICK p : p = Append(q, x)
  OBVIOUS
<1>3. \A t \in Nat \ {0} : Waits(p, c, t) = Waits(q, c, t)
  BY <1>1, <1>2, WaitsAppend
<1>4. Fits(q, replyTag[c], call[c], reply[c], c) /\ (call[c] # NoCall => call[c].tag \in Nat \ {0})
  BY <1>1, FitsHere
<1>5. Fits(p, replyTag[c], call[c], reply[c], c)
  BY <1>3, <1>4 DEF Fits, Single
<1>6. ASSUME call[c] # NoCall PROVE Due(p, Now, c, call[c].tag) = Due(q, Now, c, call[c].tag)
  <2>1. Single(q, c, call[c].tag)
    BY <1>4, <1>6 DEF Fits
  <2>2. ~(x \in Events /\ x.from = c /\ x.tag = call[c].tag)
    BY <1>4, <1>6
  <2> QED BY <1>2, <2>1, <2>2, DueAppend
<1>7. OwedBy(p, Now, call[c], reply[c], c) = OwedBy(q, Now, call[c], reply[c], c)
  BY <1>6 DEF OwedBy
<1> QED BY <1>1, <1>2, <1>5, <1>7, OwedHere

\* The event of a new call: its answer is due.
LEMMA CallComes ==
  ASSUME IInv, NEW x \in Events, NEW c \in Clients, x.from = c, x.tag = replyTag[c], call[c] = NoCall,
         NEW l, l # NoCall, l.tag = replyTag[c]
  PROVE  /\ Fits(Append(Queue, x), replyTag[c] + 1, l, reply[c], c)
         /\ OwedBy(Append(Queue, x), Now, l, reply[c], c) = IF After(x, Final) = Trap THEN Never ELSE Final
<1>1. PICK q \in Seq(Messages) : q = Queue
  BY QueueHere
<1>2. PICK p : p = Append(q, x)
  OBVIOUS
<1>3. PICK n \in Nat \ {0} : n = replyTag[c]
  BY FitsHere
<1>4. Fits(q, n, call[c], reply[c], c)
  BY <1>1, <1>3, FitsHere
<1>5. x \in Messages
  BY DEF Messages
<1>6. reply[c] = Nothing /\ Waits(q, c, n) = {} /\ Single(q, c, n)
  BY <1>4 DEF Fits
<1>7. ASSUME NEW t \in Nat \ {0} PROVE Single(p, c, t) /\ (Waits(p, c, t) # {} => t < n + 1)
  <2>1. CASE t = n
    <3>1. Waits(p, c, t) = {Len(q) + 1}
      BY <1>2, <1>3, <1>5, <1>6, <2>1, WaitsAppend
    <3> QED BY <2>1, <3>1 DEF Single
  <2>2. CASE t # n
    <3>1. Waits(p, c, t) = Waits(q, c, t)
      BY <1>2, <1>3, <1>5, <2>2, WaitsAppend
    <3> QED BY <1>4, <3>1 DEF Fits, Single
  <2> QED BY <2>1, <2>2
<1>8. Fits(p, n + 1, l, reply[c], c)
  BY <1>3, <1>6, <1>7 DEF Fits
<1>9. Due(p, Now, c, n) = IF After(x, Final) = Trap THEN Never ELSE Final
  <2>1. Final = Run(q, Now)[Len(q)]
    BY <1>1 DEF Final
  <2> QED BY <1>2, <1>3, <1>5, <1>6, <2>1, DueAppend
<1> QED BY <1>1, <1>2, <1>3, <1>6, <1>8, <1>9 DEF OwedBy

\* A message that comes to the mailbox comes to the queue.
LEMMA QueueComes ==
  ASSUME IInv, NEW x \in Messages, mbox' = Append(mbox, x), UNCHANGED <<held, value, wait>>
  PROVE  /\ Queue' = Append(Queue, x) /\ Now' = Now /\ mbox' \in Seq(Messages)
         /\ Run(Append(Queue, x), Now)[Len(Append(Queue, x))] = After(x, Final)
<1>1. mbox \in Seq(Messages) /\ mbox' \in Seq(Messages) /\ Queue \in Seq(Messages)
  BY QueueHere
<1>2. Now' = Now
  BY DEF Now
<1>3. Queue' = Append(Queue, x)
  <2>1. CASE held = "waiting"
    <3>1. PICK e \in Messages : e = wait.event
      BY <2>1 DEF IInv, Boxed, Messages
    <3>2. \A q \in Seq(Messages) : <<e>> \o Append(q, x) = Append(<<e>> \o q, x)
      OBVIOUS
    <3>3. Queue' = <<e>> \o Append(mbox, x) /\ Queue = <<e>> \o mbox
      BY <2>1, <3>1 DEF Queue
    <3> QED BY <1>1, <3>2, <3>3
  <2>2. CASE held # "waiting"
    <3>1. \A q \in Seq(Messages) : <<>> \o Append(q, x) = Append(<<>> \o q, x)
      OBVIOUS
    <3>2. Queue' = <<>> \o Append(mbox, x) /\ Queue = <<>> \o mbox
      BY <2>2 DEF Queue
    <3> QED BY <1>1, <3>1, <3>2
  <2> QED BY <2>1, <2>2
<1>4. Run(Append(Queue, x), Now)[Len(Queue) + 1] = After(x, Final) /\ Len(Append(Queue, x)) = Len(Queue) + 1
  BY <1>1, RunAppend DEF Final
<1> QED BY <1>1, <1>2, <1>3, <1>4

\* The mailbox, after a message came or went.
LEMMA BoxComes ==
  ASSUME NEW q \in Seq(Messages), NEW x \in Messages, NEW v
  PROVE  /\ Quiet(q) /\ x \in Events => Quiet(Append(q, x))
         /\ Alone(q, v) /\ x \in Events => Alone(Append(q, x), v)
         /\ Quiet(q) /\ x \in Results /\ (x.kind = "return" => x.value = v) => Alone(Append(q, x), v)
<1>1. PICK p : p = Append(q, x)
  OBVIOUS
<1>2. PICK n : n = Len(q) + 1
  OBVIOUS
<1>3. DOMAIN p = DOMAIN q \cup {n} /\ n \notin DOMAIN q /\ p[n] = x /\ \A i \in DOMAIN q : p[i] = q[i]
  BY <1>1, <1>2
<1>4. ASSUME Alone(q, v), x \in Events PROVE Alone(p, v)
  <2>1. PICK i \in DOMAIN q : /\ \A j \in DOMAIN q \ {i} : q[j] \in Events
                              /\ q[i] \in Results /\ (q[i].kind = "return" => q[i].value = v)
    BY <1>4 DEF Alone
  <2>2. i \in DOMAIN p /\ p[i] = q[i] /\ \A j \in DOMAIN p \ {i} : p[j] \in Events
    BY <1>3, <1>4, <2>1
  <2> QED BY <2>1, <2>2 DEF Alone
<1>5. ASSUME Quiet(q), x \in Results, x.kind = "return" => x.value = v PROVE Alone(p, v)
  <2>1. n \in DOMAIN p /\ p[n] = x /\ \A j \in DOMAIN p \ {n} : p[j] \in Events
    BY <1>3, <1>5 DEF Quiet
  <2> QED BY <1>5, <2>1 DEF Alone
<1>6. Quiet(q) /\ x \in Events => Quiet(p)
  BY <1>3 DEF Quiet
<1> QED BY <1>1, <1>4, <1>5, <1>6

LEMMA BoxTail ==
  ASSUME NEW q \in Seq(Messages), q # <<>>, Quiet(q)
  PROVE  Quiet(Tail(q)) /\ Head(q) \in Events
<1>1. \A i \in DOMAIN Tail(q) : i + 1 \in DOMAIN q /\ Tail(q)[i] = q[i + 1]
  OBVIOUS
<1>2. Head(q) = q[1] /\ 1 \in DOMAIN q
  OBVIOUS
<1> QED BY <1>1, <1>2 DEF Quiet

LEMMA BoxRemove ==
  ASSUME NEW q \in Seq(Messages), NEW v, Alone(q, v), NEW i \in DOMAIN q, q[i] \notin Events
  PROVE  Quiet(RemoveAt(q, i)) /\ (q[i].kind = "return" => q[i].value = v)
<1>1. PICK p : p = RemoveAt(q, i) /\ Gap(q, p, i)
  BY GapRemove
<1>2. /\ \A j \in DOMAIN q \ {i} : q[j] \in Events
      /\ q[i].kind = "return" => q[i].value = v
  BY DEF Alone
<1>3. \A j \in DOMAIN p : \/ j \in 1..i - 1 /\ j \in DOMAIN q \ {i}
                          \/ j \in i..Len(p) /\ j + 1 \in DOMAIN q \ {i}
  BY <1>1 DEF Gap
<1>4. Quiet(p)
  BY <1>1, <1>2, <1>3 DEF Quiet, Gap
<1> QED BY <1>1, <1>2, <1>4

-----------------------------------------------------------------------------
(* The steps of the clients.                                                 *)

LEMMA BoxedComes ==
  ASSUME IInv, NEW x \in Events, mbox' = Append(mbox, x), UNCHANGED heldVars
  PROVE  Boxed'
<1>1. mbox \in Seq(Messages) /\ x \in Messages
  BY DEF IInv, Typed, Messages
<1>2. PICK p : p = mbox'
  OBVIOUS
<1>3. /\ Quiet(mbox) => Quiet(p)
      /\ \A v : Alone(mbox, v) => Alone(p, v)
      /\ Len(mbox) \in Nat /\ Len(p) = Len(mbox) + 1
  BY <1>1, <1>2, BoxComes
<1>4. held' = "ready" => wait' = NoWait /\ children' = {} /\ Quiet(p)
  BY <1>3 DEF IInv, Boxed, heldVars
<1>5. ASSUME held' = "waiting"
      PROVE  /\ wait'.event \in Events /\ wait'.event.kind \in {"execute", "request"}
             /\ wait'.skip \in Nat /\ wait'.skip <= Len(p)
             /\ \/ Quiet(p) /\ \E y \in Children : children' = {y} /\ y.arg = wait'.event.arg /\ y.value = value'
                \/ children' = {} /\ Alone(p, wait'.event.arg[value'])
  <2>1. held = "waiting" /\ wait' = wait /\ children' = children /\ value' = value
    BY <1>5 DEF heldVars
  <2>2. wait.skip \in Nat /\ wait.skip <= Len(p)
    BY <1>3, <2>1 DEF IInv, Boxed
  <2> QED BY <1>3, <2>1, <2>2 DEF IInv, Boxed
<1>6. held' = "undefined" => wait' = NoWait /\ \A y, z \in children' : y = z
  BY DEF IInv, Boxed, heldVars
<1> QED BY <1>2, <1>4, <1>5, <1>6 DEF Boxed, NoWait, Quiet, Alone, Children

\* SetValue and Execute: nobody is owed anything for them.
LEMMA TellStep ==
  ASSUME IInv, NEW x \in Events, x.tag = 0, mbox' = Append(mbox, x), UNCHANGED <<clientVars, heldVars>>
  PROVE  IInv' /\ Final' = After(x, Final) /\ AllOwed' = AllOwed
<1>1. x \in Messages
  BY DEF Messages
<1>2. PICK q : q = Append(Queue, x)
  OBVIOUS
<1>3. /\ q = Queue' /\ Now' = Now /\ mbox' \in Seq(Messages)
      /\ Run(q, Now)[Len(q)] = After(x, Final)
  BY <1>1, <1>2, QueueComes DEF heldVars
<1>4. PICK s : s = Now
  OBVIOUS
<1>5. Final' = After(x, Final)
  BY <1>3, <1>4, FinalNext
<1>6. ASSUME NEW c \in Clients
      PROVE  /\ Fits(q, replyTag'[c], call'[c], reply'[c], c)
             /\ OwedBy(q, s, call'[c], reply'[c], c) = Owed(c)
  BY <1>1, <1>2, <1>4, OtherComes DEF clientVars
<1>7. AllOwed' = AllOwed
  <2>1. \A c \in Clients : Owed(c)' = Owed(c)
    BY <1>3, <1>4, <1>6, OwedNext
  <2> QED BY <2>1 DEF AllOwed
<1>8. Balanced'
  BY <1>3, <1>6, BalancedNext
<1>9. Typed'
  BY <1>3 DEF IInv, Typed, clientVars, heldVars
<1>10. Boxed'
  BY BoxedComes
<1> QED BY <1>5, <1>7, <1>8, <1>9, <1>10 DEF IInv

LEMMA IdleOwed ==
  ASSUME NEW c \in Clients, Idle(c)
  PROVE  AllOwed[c] = Nothing
BY DEF AllOwed, Owed

LEMMA SetValueStep ==
  ASSUME IInv, NEW c \in Clients, NEW v \in Values, SetValue(c, v)
  PROVE  IInv' /\ Abstract!Call(c)
<1>1. PICK x : x = Event(c, 0, "set", v, Forever)
  OBVIOUS
<1>2. x \in Events /\ x.tag = 0 /\ x.kind = "set" /\ x.arg = v
  BY <1>1 DEF Event, Events
<1>3. IInv' /\ Final' = After(x, Final) /\ AllOwed' = AllOwed
  BY <1>1, <1>2, TellStep DEF SetValue, Send
<1>4. Final' = IF Final = Trap THEN Trap ELSE v
  BY <1>2, <1>3 DEF After
<1>5. Abstract!SetValue(c, v)
  BY <1>3, <1>4 DEF SetValue, Abstract!SetValue
<1>6. AllOwed[c] = Nothing
  BY IdleOwed DEF SetValue
<1> QED BY <1>3, <1>5, <1>6 DEF Abstract!Call

LEMMA ExecuteStep ==
  ASSUME IInv, NEW c \in Clients, NEW f \in Callbacks, Execute(c, f)
  PROVE  IInv' /\ Abstract!Call(c)
<1>1. PICK x : x = Event(c, 0, "execute", f, Forever)
  OBVIOUS
<1>2. x \in Events /\ x.tag = 0 /\ x.kind = "execute" /\ x.arg = f
  BY <1>1 DEF Event, Events
<1>3. IInv' /\ Final' = After(x, Final) /\ AllOwed' = AllOwed
  BY <1>1, <1>2, TellStep DEF Execute, Send
<1>4. Final' = IF Final = Trap THEN Trap ELSE f[Final]
  BY <1>2, <1>3 DEF After
<1>5. Abstract!Execute(c, f)
  BY <1>3, <1>4 DEF Execute, Abstract!Execute, Abstract!Apply
<1>6. AllOwed[c] = Nothing
  BY IdleOwed DEF Execute
<1> QED BY <1>3, <1>5, <1>6 DEF Abstract!Call

\* GetValue and Request: the answer is what the queue before them leaves.
LEMMA AskStep ==
  ASSUME IInv, NEW c \in Clients, NEW kind, NEW arg, NEW timeout, NEW timed \in BOOLEAN,
         Ask(c, kind, arg, timeout, timed), NEW x \in Events, x = Event(c, replyTag[c], kind, arg, timeout)
  PROVE  /\ IInv' /\ Final' = After(x, Final)
         /\ AllOwed' = [AllOwed EXCEPT ![c] = IF After(x, Final) = Trap THEN Never ELSE Final]
         /\ AllOwed[c] = Nothing
<1>1. x \in Messages /\ x.from = c /\ x.tag = replyTag[c]
  BY DEF Messages, Event
<1>2. /\ call[c] = NoCall /\ mbox' = Append(mbox, x)
      /\ replyTag' = [replyTag EXCEPT ![c] = @ + 1]
      /\ call' = [call EXCEPT ![c] = [tag |-> replyTag[c], timed |-> timed]]
      /\ UNCHANGED <<reply, heldVars>>
  BY DEF Ask, Idle, Send
<1>3. PICK q : q = Append(Queue, x)
  OBVIOUS
<1>4. /\ q = Queue' /\ Now' = Now /\ mbox' \in Seq(Messages)
      /\ Run(q, Now)[Len(q)] = After(x, Final)
  BY <1>1, <1>2, <1>3, QueueComes DEF heldVars
<1>5. PICK s : s = Now
  OBVIOUS
<1>6. Final' = After(x, Final)
  BY <1>4, <1>5, FinalNext
<1>7. replyTag \in [Clients -> Nat \ {0}] /\ call \in [Clients -> [tag : Nat, timed : BOOLEAN]]
  BY DEF IInv, Typed
<1>8. PICK n \in Nat \ {0} : n = replyTag[c]
  BY <1>7
<1>9. PICK l : l = [tag |-> n, timed |-> timed]
  OBVIOUS
<1>10. replyTag'[c] = n + 1 /\ call'[c] = l /\ l # NoCall /\ l.tag = n /\ l \in [tag : Nat, timed : BOOLEAN]
  BY <1>2, <1>7, <1>8, <1>9 DEF NoCall
<1>11. /\ Fits(q, replyTag'[c], call'[c], reply'[c], c)
       /\ OwedBy(q, s, call'[c], reply'[c], c) = IF After(x, Final) = Trap THEN Never ELSE Final
  <2>1. reply'[c] = reply[c]
    BY <1>2
  <2>2. /\ Fits(q, n + 1, l, reply[c], c)
        /\ OwedBy(q, Now, l, reply[c], c) = IF After(x, Final) = Trap THEN Never ELSE Final
    BY <1>1, <1>2, <1>3, <1>8, <1>10, CallComes
  <2> QED BY <1>5, <1>10, <2>1, <2>2
<1>12. ASSUME NEW d \in Clients, d # c
       PROVE  Fits(q, replyTag'[d], call'[d], reply'[d], d) /\ OwedBy(q, s, call'[d], reply'[d], d) = Owed(d)
  <2>1. replyTag'[d] = replyTag[d] /\ call'[d] = call[d] /\ reply'[d] = reply[d]
    BY <1>2, <1>7, <1>12
  <2>2. Fits(q, replyTag[d], call[d], reply[d], d) /\ OwedBy(q, Now, call[d], reply[d], d) = Owed(d)
    BY <1>1, <1>3, <1>12, OtherComes
  <2> QED BY <1>5, <2>1, <2>2
<1>13. AllOwed' = [AllOwed EXCEPT ![c] = IF After(x, Final) = Trap THEN Never ELSE Final]
  <2>1. Owed(c)' = IF After(x, Final) = Trap THEN Never ELSE Final
    BY <1>4, <1>5, <1>11, OwedNext
  <2>2. \A d \in Clients \ {c} : Owed(d)' = Owed(d)
    BY <1>4, <1>5, <1>12, OwedNext
  <2> QED BY <2>1, <2>2 DEF AllOwed
<1>14. Balanced'
  BY <1>4, <1>11, <1>12, BalancedNext
<1>15. Typed'
  <2>1. replyTag' \in [Clients -> Nat \ {0}]
    BY <1>2, <1>7
  <2>2. call' \in [Clients -> [tag : Nat, timed : BOOLEAN]]
    BY <1>2, <1>7, <1>8, <1>9, <1>10
  <2> QED BY <1>2, <1>4, <2>1, <2>2 DEF IInv, Typed, heldVars
<1>16. Boxed'
  BY <1>2, BoxedComes
<1>17. AllOwed[c] = Nothing
  BY <1>2, IdleOwed DEF Idle
<1> QED BY <1>6, <1>13, <1>14, <1>15, <1>16, <1>17 DEF IInv

LEMMA GetValueStep ==
  ASSUME IInv, NEW c \in Clients, NEW timed \in BOOLEAN, GetValue(c, timed)
  PROVE  IInv' /\ Abstract!Call(c)
<1>1. PICK x : x = Event(c, replyTag[c], "get", Nothing, Forever)
  OBVIOUS
<1>2. x \in Events /\ x.kind = "get"
  BY <1>1, FitsHere DEF Event, Events
<1>3. /\ IInv' /\ Final' = After(x, Final)
      /\ AllOwed' = [AllOwed EXCEPT ![c] = IF After(x, Final) = Trap THEN Never ELSE Final]
      /\ AllOwed[c] = Nothing
  BY <1>1, <1>2, AskStep DEF GetValue
<1>4. After(x, Final) = Final
  BY <1>2 DEF After
<1>5. Abstract!GetValue(c)
  BY <1>3, <1>4 DEF GetValue, Abstract!GetValue, Abstract!Owe
<1> QED BY <1>3, <1>5 DEF Abstract!Call

LEMMA RequestStep ==
  ASSUME IInv, NEW c \in Clients, NEW f \in Callbacks, NEW timeout \in Timeouts, Request(c, f, timeout)
  PROVE  IInv' /\ Abstract!Call(c)
<1>1. PICK x : x = Event(c, replyTag[c], "request", f, timeout)
  OBVIOUS
<1>2. x \in Events /\ x.kind = "request" /\ x.arg = f
  BY <1>1, FitsHere DEF Event, Events
<1>3. /\ IInv' /\ Final' = After(x, Final)
      /\ AllOwed' = [AllOwed EXCEPT ![c] = IF After(x, Final) = Trap THEN Never ELSE Final]
      /\ AllOwed[c] = Nothing
  <2>1. PICK b \in BOOLEAN : b = (timeout # Forever)
    OBVIOUS
  <2>2. Ask(c, "request", f, timeout, b)
    BY <2>1 DEF Request
  <2> QED BY <1>1, <1>2, <2>2, AskStep
<1>4. After(x, Final) = IF Final = Trap THEN Trap ELSE f[Final]
  BY <1>2 DEF After
<1>5. Abstract!Request(c, f)
  BY <1>3, <1>4 DEF Request, Abstract!Request, Abstract!Owe, Abstract!Apply
<1> QED BY <1>3, <1>5 DEF Abstract!Call

\* A call that returns, with its answer or without.
LEMMA ReturnStep ==
  ASSUME IInv, NEW c \in Clients, ReturnCall(c)
  PROVE  IInv' /\ Abstract!Return(c)
<1>1. /\ call' = [call EXCEPT ![c] = NoCall] /\ reply' = [reply EXCEPT ![c] = Nothing]
      /\ UNCHANGED <<replyTag, heldVars, mbox, last>>
  BY DEF ReturnCall
<1>2. replyTag \in [Clients -> Nat \ {0}] /\ call \in [Clients -> [tag : Nat, timed : BOOLEAN]]
      /\ reply \in [Clients -> Values \cup {Nothing}]
  BY DEF IInv, Typed
<1>3. PICK q : q = Queue
  OBVIOUS
<1>4. PICK s : s = Now
  OBVIOUS
<1>5. q = Queue' /\ s = Now'
  BY <1>1, <1>3, <1>4 DEF Queue, Now, heldVars
<1>6. call'[c] = NoCall /\ reply'[c] = Nothing /\ replyTag'[c] = replyTag[c]
  BY <1>1, <1>2
<1>7. Fits(q, replyTag'[c], call'[c], reply'[c], c) /\ OwedBy(q, s, call'[c], reply'[c], c) = Nothing
  <2>1. Fits(q, replyTag[c], call[c], reply[c], c)
    BY <1>3, FitsHere
  <2> QED BY <1>6, <2>1 DEF Fits, OwedBy
<1>8. ASSUME NEW d \in Clients, d # c
      PROVE  Fits(q, replyTag'[d], call'[d], reply'[d], d) /\ OwedBy(q, s, call'[d], reply'[d], d) = Owed(d)
  <2>1. replyTag'[d] = replyTag[d] /\ call'[d] = call[d] /\ reply'[d] = reply[d]
    BY <1>1, <1>2, <1>8
  <2> QED BY <1>3, <1>4, <2>1, FitsHere, OwedHere
<1>9. AllOwed' = [AllOwed EXCEPT ![c] = Nothing]
  <2>1. Owed(c)' = Nothing
    BY <1>5, <1>7, OwedNext
  <2>2. \A d \in Clients \ {c} : Owed(d)' = Owed(d)
    BY <1>5, <1>8, OwedNext
  <2> QED BY <2>1, <2>2 DEF AllOwed
<1>10. Final' = Final
  BY <1>3, <1>4, <1>5, FinalNext DEF Final
<1>11. Balanced'
  BY <1>5, <1>7, <1>8, BalancedNext
<1>12. Typed'
  <2>1. call' \in [Clients -> [tag : Nat, timed : BOOLEAN]]
    BY <1>1, <1>2 DEF NoCall
  <2>2. reply' \in [Clients -> Values \cup {Nothing}]
    BY <1>1, <1>2
  <2> QED BY <1>1, <2>1, <2>2 DEF IInv, Typed, heldVars
<1>13. Boxed'
  BY <1>1 DEF IInv, Boxed, NoWait, Quiet, Alone, Children, heldVars
<1>14. Abstract!Return(c)
  BY <1>1, <1>9, <1>10 DEF Abstract!Return
<1> QED BY <1>11, <1>12, <1>13, <1>14 DEF IInv

-----------------------------------------------------------------------------
(* The steps of the Held process and its child.                              *)

LEMMA HandleSetStep ==
  ASSUME IInv, HandleSet
  PROVE  IInv' /\ Unseen
<1>1. /\ held = "ready" /\ mbox # <<>> /\ Head(mbox).kind = "set" /\ mbox' = Tail(mbox)
      /\ value' = Head(mbox).arg
      /\ UNCHANGED <<last, clientVars, held, tag, wait, children>>
  BY DEF HandleSet, Receive
<1>2. Queue = mbox /\ mbox \in Seq(Messages) /\ Quiet(mbox) /\ wait = NoWait /\ children = {}
  BY <1>1, QueueHere DEF IInv, Boxed
<1>3. Head(mbox) \in Events /\ Quiet(Tail(mbox)) /\ Tail(mbox) \in Seq(Messages)
  BY <1>1, <1>2, BoxTail
<1>4. Head(mbox).tag = 0 /\ Head(mbox).arg \in Values
  BY <1>1, <1>3, MessageKinds
<1>5. PICK p : p = Tail(mbox)
  OBVIOUS
<1>6. PICK s \in Values : s = value' /\ s = After(Head(mbox), value)
  <2>1. value # Trap
    BY NothingAssumption DEF IInv, Typed
  <2> QED BY <1>1, <1>4, <2>1 DEF After
<1>7. Queue' = p /\ Now' = s
  <2>1. \A q \in Seq(Messages) : <<>> \o q = q
    OBVIOUS
  <2> QED BY <1>1, <1>3, <1>5, <1>6, <2>1 DEF Queue, Now
<1>8. /\ \A c \in Clients : Fits(p, replyTag[c], call[c], reply[c], c) /\ OwedBy(p, s, call[c], reply[c], c) = Owed(c)
      /\ Run(p, s)[Len(p)] = Final
  <2>1. \A c \in Clients : ~(call[c] # NoCall /\ Head(Queue).from = c /\ Head(Queue).tag = call[c].tag)
    BY <1>2, <1>4, FitsHere
  <2> QED BY <1>1, <1>2, <1>3, <1>5, <1>6, <2>1, HeadGoes
<1>9. Unseen
  BY <1>1, <1>7, <1>8, UnseenStep DEF clientVars
<1>10. Balanced'
  BY <1>1, <1>7, <1>8, BalancedNext DEF clientVars
<1>11. Typed'
  BY <1>1, <1>3, <1>4 DEF IInv, Typed, clientVars
<1>12. Boxed'
  BY <1>1, <1>2, <1>3 DEF Boxed, Quiet, NoWait
<1> QED BY <1>9, <1>10, <1>11, <1>12 DEF IInv

\* The reply to an event reaches its call, if that still waits.
LEMMA Replied ==
  ASSUME IInv, NEW e \in Events, Reply(e, value)
  PROVE  /\ UNCHANGED <<replyTag, call>> /\ reply' \in [Clients -> Values \cup {Nothing}]
         /\ \A c \in Clients : reply'[c] = IF call[c] # NoCall /\ e.from = c /\ e.tag = call[c].tag THEN value ELSE reply[c]
<1>1. e.from \in Clients
  BY MessageKinds
<1>2. reply \in [Clients -> Values \cup {Nothing}] /\ value \in Values
  BY DEF IInv, Typed
<1>3. reply' = IF call[e.from].tag = e.tag /\ call[e.from] # NoCall THEN [reply EXCEPT ![e.from] = value] ELSE reply
  BY DEF Reply
<1>4. UNCHANGED <<replyTag, call>>
  BY DEF Reply
<1>5. CASE call[e.from].tag = e.tag /\ call[e.from] # NoCall
  <2>1. reply' = [reply EXCEPT ![e.from] = value]
    BY <1>3, <1>5
  <2> QED BY <1>1, <1>2, <1>4, <1>5, <2>1
<1>6. CASE ~(call[e.from].tag = e.tag /\ call[e.from] # NoCall)
  <2>1. reply' = reply
    BY <1>3, <1>6
  <2> QED BY <1>2, <1>4, <1>6, <2>1
<1> QED BY <1>5, <1>6

LEMMA HandleGetStep ==
  ASSUME IInv, HandleGet
  PROVE  IInv' /\ Unseen
<1>1. /\ held = "ready" /\ mbox # <<>> /\ Head(mbox).kind = "get" /\ mbox' = Tail(mbox)
      /\ Reply(Head(mbox), value) /\ tag' = tag + 1
      /\ UNCHANGED <<last, held, value, wait, children>>
  BY DEF HandleGet, Receive
<1>2. Queue = mbox /\ mbox \in Seq(Messages) /\ Quiet(mbox) /\ wait = NoWait /\ children = {} /\ value \in Values
  BY <1>1, QueueHere DEF IInv, Boxed, Typed
<1>3. Head(mbox) \in Events /\ Quiet(Tail(mbox)) /\ Tail(mbox) \in Seq(Messages)
  BY <1>1, <1>2, BoxTail
<1>4. PICK p : p = Tail(mbox)
  OBVIOUS
<1>5. PICK s \in Values : s = value /\ s = After(Head(mbox), value)
  BY <1>1, <1>2 DEF After
<1>6. Queue' = p /\ Now' = s
  <2>1. \A q \in Seq(Messages) : <<>> \o q = q
    OBVIOUS
  <2> QED BY <1>1, <1>3, <1>4, <1>5, <2>1 DEF Queue, Now
<1>7. PICK r : r = reply'
  OBVIOUS
<1>8. /\ UNCHANGED <<replyTag, call>> /\ reply' \in [Clients -> Values \cup {Nothing}]
      /\ \A c \in Clients : r[c] = IF call[c] # NoCall /\ Head(mbox).from = c /\ Head(mbox).tag = call[c].tag
                                   THEN value ELSE reply[c]
  BY <1>1, <1>3, <1>7, Replied
<1>9. /\ \A c \in Clients : Fits(p, replyTag[c], call[c], r[c], c) /\ OwedBy(p, s, call[c], r[c], c) = Owed(c)
      /\ Run(p, s)[Len(p)] = Final
  BY <1>1, <1>2, <1>3, <1>4, <1>5, <1>8, HeadGoes
<1>10. Unseen
  BY <1>1, <1>6, <1>7, <1>8, <1>9, UnseenStep
<1>11. Balanced'
  BY <1>6, <1>7, <1>8, <1>9, BalancedNext
<1>12. Typed'
  BY <1>1, <1>3, <1>8 DEF IInv, Typed
<1>13. Boxed'
  BY <1>1, <1>2, <1>3 DEF Boxed, Quiet, NoWait
<1> QED BY <1>10, <1>11, <1>12, <1>13 DEF IInv

\* A step that leaves the queue and the value as they are.
LEMMA SameQueue ==
  ASSUME IInv, Queue' = Queue, Now' = Now, UNCHANGED <<last, clientVars>>
  PROVE  Balanced' /\ Unseen
<1>1. PICK q : q = Queue
  OBVIOUS
<1>2. PICK s : s = Now
  OBVIOUS
<1>3. Run(q, s)[Len(q)] = Final
  BY <1>1, <1>2 DEF Final
<1>4. \A c \in Clients : Fits(q, replyTag[c], call[c], reply[c], c) /\ OwedBy(q, s, call[c], reply[c], c) = Owed(c)
  BY <1>1, <1>2, FitsHere, OwedHere
<1>5. Unseen
  BY <1>1, <1>2, <1>3, <1>4, UnseenStep DEF clientVars
<1>6. Balanced'
  BY <1>1, <1>4, BalancedNext DEF clientVars
<1> QED BY <1>5, <1>6

LEMMA HandleCallbackStep ==
  ASSUME IInv, HandleCallback
  PROVE  IInv' /\ Unseen
<1>1. PICK e : e = Head(mbox)
  OBVIOUS
<1>2. PICK x : x = [link |-> tag, tag |-> e.timeout, arg |-> e.arg, value |-> value]
  OBVIOUS
<1>3. /\ held = "ready" /\ mbox # <<>> /\ e.kind \in {"execute", "request"} /\ mbox' = Tail(mbox)
      /\ held' = "waiting"
      /\ wait' = [event |-> e, tag |-> e.timeout, skip |-> Len(mbox) - 1]
      /\ children' = children \cup {x} /\ tag' = tag + 1
      /\ UNCHANGED <<last, clientVars, value>>
  BY <1>1, <1>2 DEF HandleCallback, Receive
<1>4. Queue = mbox /\ mbox \in Seq(Messages) /\ Quiet(mbox) /\ children = {} /\ value \in Values /\ tag \in Nat
  BY <1>3, QueueHere DEF IInv, Boxed, Typed
<1>5. e \in Events /\ Quiet(Tail(mbox)) /\ Tail(mbox) \in Seq(Messages) /\ mbox = <<e>> \o Tail(mbox)
  BY <1>1, <1>3, <1>4, BoxTail
<1>6. e.arg \in Callbacks /\ e.timeout \in Marked
  BY <1>3, <1>5, MessageKinds
<1>7. x \in Children /\ x.arg = e.arg /\ x.value = value
  BY <1>2, <1>4, <1>6 DEF Children
<1>8. wait'.event = e /\ wait'.skip = Len(mbox) - 1
  BY <1>3
<1>9. Queue' = Queue /\ Now' = Now
  BY <1>3, <1>4, <1>5, <1>8 DEF Queue, Now
<1>10. Balanced' /\ Unseen
  BY <1>3, <1>9, SameQueue
<1>11. Typed'
  BY <1>3, <1>4, <1>5, <1>7 DEF IInv, Typed, clientVars
<1>12. Boxed'
  <2>1. wait'.skip \in Nat /\ wait'.skip <= Len(mbox')
    BY <1>3, <1>4, <1>8
  <2>2. children' = {x} /\ x.arg = wait'.event.arg /\ x.value = value'
    BY <1>3, <1>4, <1>7, <1>8
  <2>3. Quiet(mbox)'
    BY <1>3, <1>5 DEF Quiet
  <2> QED BY <1>3, <1>5, <1>7, <1>8, <2>1, <2>2, <2>3 DEF Boxed, Children
<1> QED BY <1>10, <1>11, <1>12 DEF IInv

\* The message of a child's end is of no call and has no effect.
LEMMA RunChildStep ==
  ASSUME IInv, NEW x, RunChild(x)
  PROVE  IInv' /\ Unseen
<1>1. PICK v : v = x.arg[x.value]
  OBVIOUS
<1>2. PICK m : m = IF v = Trap THEN [kind |-> "signal", tag |-> x.link]
                   ELSE [kind |-> "return", tag |-> x.tag, value |-> v]
  OBVIOUS
<1>3. /\ x \in children /\ children' = children \ {x} /\ mbox' = Append(mbox, m)
      /\ UNCHANGED <<clientVars, held, value, tag, wait, last>>
  BY <1>1, <1>2 DEF RunChild
<1>4. x \in Children /\ children \in SUBSET Children /\ mbox \in Seq(Messages)
  BY <1>3 DEF IInv, Typed
<1>5. v \in Values \cup {Trap}
  BY <1>1, <1>4, CallbackKinds DEF Children, States
<1>6. m \in Results /\ (m.kind = "return" => m.value = v)
  BY <1>2, <1>4, <1>5 DEF Children, Results
<1>7. m \in Messages /\ m \notin Events
  BY <1>6, MessageKinds DEF Messages
<1>8. PICK q : q = Append(Queue, m)
  OBVIOUS
<1>9. PICK s : s = Now
  OBVIOUS
<1>10. q = Queue' /\ s = Now' /\ mbox' \in Seq(Messages) /\ Run(q, s)[Len(q)] = After(m, Final)
  BY <1>3, <1>7, <1>8, <1>9, QueueComes
<1>11. After(m, Final) = Final
  BY <1>7, QueueHere, AfterSound
<1>12. \A c \in Clients : Fits(q, replyTag[c], call[c], reply[c], c) /\ OwedBy(q, s, call[c], reply[c], c) = Owed(c)
  BY <1>7, <1>8, <1>9, OtherComes
<1>13. Unseen
  BY <1>3, <1>10, <1>11, <1>12, UnseenStep DEF clientVars
<1>14. Balanced'
  BY <1>3, <1>10, <1>12, BalancedNext DEF clientVars
<1>15. Typed'
  BY <1>3, <1>4, <1>10 DEF IInv, Typed, clientVars
<1>16. Boxed'
  <2>1. held # "ready"
    BY <1>3 DEF IInv, Boxed
  <2>2. CASE held = "waiting"
    <3>1. /\ wait.event \in Events /\ wait.event.kind \in {"execute", "request"}
          /\ wait.skip \in Nat /\ wait.skip <= Len(mbox)
          /\ Quiet(mbox) /\ children = {x} /\ x.arg = wait.event.arg /\ x.value = value
      BY <1>3, <2>2 DEF IInv, Boxed
    <3>2. PICK p : p = mbox'
      OBVIOUS
    <3>3. Alone(p, v)
      BY <1>3, <1>4, <1>6, <1>7, <3>1, <3>2, BoxComes
    <3>4. Alone(p, wait'.event.arg[value'])
      BY <1>1, <1>3, <3>1, <3>3
    <3>5. wait'.skip <= Len(mbox')
      BY <1>3, <1>4, <3>1
    <3>6. children' = {}
      BY <1>3, <3>1
    <3> QED BY <1>3, <2>2, <3>1, <3>2, <3>4, <3>5, <3>6 DEF Boxed, Alone
  <2>3. CASE held = "undefined"
    BY <1>3, <2>3 DEF IInv, Boxed, NoWait
  <2> QED BY <2>1, <2>2, <2>3 DEF IInv, Typed
<1> QED BY <1>13, <1>14, <1>15, <1>16 DEF IInv

\* A result that goes from the queue: nothing else changes.
LEMMA ResultGoes ==
  ASSUME NEW q \in Seq(Messages), NEW i \in DOMAIN q, q[i] \notin Events, NEW s \in States
  PROVE  /\ Run(RemoveAt(q, i), s)[Len(RemoveAt(q, i))] = Run(q, s)[Len(q)]
         /\ \A c \in Clients, n \in Nat : \A l, r :
              (l # NoCall => l.tag \in Nat) /\ Fits(q, n, l, r, c) =>
                OwedBy(RemoveAt(q, i), s, l, r, c) = OwedBy(q, s, l, r, c)
<1>1. PICK p : p = RemoveAt(q, i)
  OBVIOUS
<1>2. Gap(q, p, i)
  BY <1>1, GapRemove
<1>3. Agree(q, p, i, s, s)
  BY <1>2, AgreeRemove
<1>4. Run(p, s)[Len(p)] = Run(q, s)[Len(q)]
  BY <1>2, <1>3, AgreeFinal
<1>5. ASSUME NEW c \in Clients, NEW n \in Nat, NEW l, NEW r, l # NoCall => l.tag \in Nat, Fits(q, n, l, r, c)
      PROVE  OwedBy(p, s, l, r, c) = OwedBy(q, s, l, r, c)
  <2>1. i \notin Waits(q, c, l.tag)
    BY WaitsIn
  <2> QED BY <1>2, <1>3, <1>5, <2>1, OwedGap
<1> QED BY <1>1, <1>4, <1>5

LEMMA FitsRemove ==
  ASSUME NEW q \in Seq(Messages), NEW i \in DOMAIN q, NEW c \in Clients,
         NEW n \in Nat, NEW l, l # NoCall => l.tag \in Nat, NEW r, Fits(q, n, l, r, c)
  PROVE  Fits(RemoveAt(q, i), n, l, r, c)
BY GapRemove, FitsGap

\* The end of a callback: its event has its effect at last.
LEMMA EndStep ==
  ASSUME IInv, EndWait({"return"}), UNCHANGED <<replyTag, call>>, tag' \in Nat,
         reply' \in [Clients -> Values \cup {Nothing}],
         \A c \in Clients : reply'[c] = IF call[c] # NoCall /\ wait.event.from = c /\ wait.event.tag = call[c].tag
                                        THEN value ELSE reply[c]
  PROVE  IInv' /\ Unseen
<1>1. PICK i \in DOMAIN mbox :
        /\ held = "waiting" /\ mbox[i].kind = "return" /\ mbox' = RemoveAt(mbox, i) /\ wait' = NoWait
        /\ UNCHANGED <<children, last>> /\ value' = mbox[i].value /\ held' = "ready"
  BY DEF EndWait, Answers
<1>2. PICK e : e = wait.event
  OBVIOUS
<1>3. PICK q \in Seq(Messages) : q = mbox
  BY DEF IInv, Typed
<1>4. e \in Events /\ e.kind \in {"execute", "request"} /\ e.arg \in Callbacks /\ value \in Values
  <2>1. e \in Events /\ e.kind \in {"execute", "request"} /\ value \in Values
    BY <1>1, <1>2 DEF IInv, Boxed, Typed
  <2> QED BY <2>1, MessageKinds
<1>5. q[i] \in Messages /\ q[i] \notin Events
  <2>1. q[i] \in Messages /\ q[i].kind = "return"
    BY <1>1, <1>3
  <2>2. ~IsEvent(q[i])
    BY <2>1 DEF IsEvent
  <2> QED BY <2>1, <2>2, MessageKinds
<1>6. children = {} /\ Alone(q, e.arg[value])
  <2>1. ~Quiet(q)
    BY <1>1, <1>3, <1>5 DEF Quiet
  <2> QED BY <1>1, <1>2, <1>3, <2>1 DEF IInv, Boxed
<1>7. q[i].value = e.arg[value] /\ q[i].value \in Values
  <2>1. q[i] \in Results /\ q[i].kind = "return"
    BY <1>1, <1>3, <1>5 DEF Messages
  <2> QED BY <1>1, <1>3, <1>5, <1>6, <2>1, BoxRemove, MessageKinds
<1>8. PICK s \in Values : s = value' /\ s = After(e, value)
  <2>1. value # Trap
    BY <1>4, NothingAssumption
  <2> QED BY <1>1, <1>3, <1>4, <1>7, <2>1 DEF After
<1>9. Queue # <<>> /\ Head(Queue) = e /\ Tail(Queue) = q
  BY <1>1, <1>2, <1>3, QueueHere
<1>10. PICK r : r = reply'
  OBVIOUS
<1>11. /\ \A c \in Clients : Fits(q, replyTag[c], call[c], r[c], c) /\ OwedBy(q, s, call[c], r[c], c) = Owed(c)
       /\ Run(q, s)[Len(q)] = Final
  <2>1. Head(Queue) \in Events /\ s = After(Head(Queue), value) /\ held # "undefined"
    BY <1>1, <1>4, <1>8, <1>9
  <2>2. \A c \in Clients : r[c] = IF call[c] # NoCall /\ Head(Queue).from = c /\ Head(Queue).tag = call[c].tag
                                  THEN value ELSE reply[c]
    BY <1>2, <1>9, <1>10
  <2>3. /\ \A c \in Clients : /\ Fits(Tail(Queue), replyTag[c], call[c], r[c], c)
                              /\ OwedBy(Tail(Queue), s, call[c], r[c], c) = Owed(c)
        /\ Run(Tail(Queue), s)[Len(Tail(Queue))] = Final
    BY <1>9, <2>1, <2>2, HeadGoes
  <2> QED BY <1>9, <2>3
<1>12. PICK p : p = RemoveAt(q, i)
  OBVIOUS
<1>13. /\ \A c \in Clients : Fits(p, replyTag[c], call[c], r[c], c) /\ OwedBy(p, s, call[c], r[c], c) = Owed(c)
       /\ Run(p, s)[Len(p)] = Final
  <2>1. s \in States
    BY DEF States
  <2>2. ASSUME NEW c \in Clients
        PROVE  Fits(p, replyTag[c], call[c], r[c], c) /\ OwedBy(p, s, call[c], r[c], c) = Owed(c)
    <3>1. replyTag[c] \in Nat /\ call[c].tag \in Nat
      BY FitsHere
    <3> QED BY <1>3, <1>5, <1>11, <1>12, <2>1, <3>1, FitsRemove, ResultGoes
  <2>3. Run(p, s)[Len(p)] = Final
    BY <1>3, <1>5, <1>11, <1>12, <2>1, ResultGoes
  <2> QED BY <2>2, <2>3
<1>14. p \in Seq(Messages) /\ Quiet(p)
  BY <1>3, <1>5, <1>6, <1>12, GapRemove, BoxRemove
<1>15. Queue' = p /\ Now' = s
  <2>1. \A f \in Seq(Messages) : <<>> \o f = f
    OBVIOUS
  <2> QED BY <1>1, <1>3, <1>8, <1>12, <1>14, <2>1 DEF Queue, Now
<1>16. Unseen
  BY <1>1, <1>10, <1>13, <1>15, UnseenStep
<1>17. Balanced'
  BY <1>10, <1>13, <1>15, BalancedNext
<1>18. Typed'
  BY <1>1, <1>3, <1>8, <1>12, <1>14 DEF IInv, Typed
<1>19. Boxed'
  BY <1>1, <1>3, <1>6, <1>12, <1>14 DEF Boxed, Quiet, NoWait
<1> QED BY <1>16, <1>17, <1>18, <1>19 DEF IInv

LEMMA EndRequestStep ==
  ASSUME IInv, EndRequest
  PROVE  IInv' /\ Unseen
<1>1. EndWait({"return"}) /\ Reply(wait.event, value) /\ tag' = tag + 1
  BY DEF EndRequest
<1>2. wait.event \in Events /\ tag \in Nat
  BY <1>1 DEF EndWait, IInv, Boxed, Typed
<1>3. /\ UNCHANGED <<replyTag, call>> /\ reply' \in [Clients -> Values \cup {Nothing}]
      /\ \A c \in Clients : reply'[c] = IF call[c] # NoCall /\ wait.event.from = c /\ wait.event.tag = call[c].tag
                                        THEN value ELSE reply[c]
  BY <1>1, <1>2, Replied
<1> QED BY <1>1, <1>2, <1>3, EndStep

LEMMA EndExecuteStep ==
  ASSUME IInv, EndExecute
  PROVE  IInv' /\ Unseen
<1>1. EndWait({"return"}) /\ wait.event.kind = "execute" /\ UNCHANGED <<clientVars, tag>>
  BY DEF EndExecute
<1>2. wait.event \in Events /\ tag \in Nat /\ reply \in [Clients -> Values \cup {Nothing}]
  BY <1>1 DEF EndWait, IInv, Boxed, Typed
<1>3. wait.event.tag = 0
  BY <1>1, <1>2, MessageKinds
<1>4. \A c \in Clients : reply'[c] = IF call[c] # NoCall /\ wait.event.from = c /\ wait.event.tag = call[c].tag
                                     THEN value ELSE reply[c]
  BY <1>1, <1>3, FitsHere DEF clientVars
<1>5. UNCHANGED <<replyTag, call>> /\ tag' \in Nat /\ reply' \in [Clients -> Values \cup {Nothing}]
  BY <1>1, <1>2 DEF clientVars
<1> QED BY <1>1, <1>4, <1>5, EndStep

\* A result that is misread ends the abstract cell: who waits is owed nothing.
LEMMA MisreadStep ==
  ASSUME IInv, Misread
  PROVE  IInv' /\ Abstract!Break
<1>1. PICK i \in DOMAIN mbox :
        /\ held = "waiting" /\ mbox' = RemoveAt(mbox, i) /\ wait' = NoWait
        /\ UNCHANGED <<children, last, clientVars, tag>> /\ value' = value /\ held' = "undefined"
  BY DEF Misread, EndWait, Answers
<1>2. PICK q \in Seq(Messages) : q = mbox
  BY DEF IInv, Typed
<1>3. PICK p : p = RemoveAt(q, i)
  OBVIOUS
<1>4. p \in Seq(Messages)
  BY <1>1, <1>2, <1>3, GapRemove
<1>5. Queue' = p /\ Now' = Trap
  <2>1. \A f \in Seq(Messages) : <<>> \o f = f
    OBVIOUS
  <2> QED BY <1>1, <1>2, <1>3, <1>4, <2>1 DEF Queue, Now
<1>6. ASSUME NEW c \in Clients
      PROVE  Fits(p, replyTag[c], call[c], reply[c], c) /\ call[c].tag \in Nat /\ (call[c] # NoCall => call[c].tag # 0)
  <2>1. PICK f \in Seq(Messages) : f = Queue /\ f # <<>> /\ Tail(f) = q
    BY <1>1, <1>2, QueueHere
  <2>2. /\ Fits(f, replyTag[c], call[c], reply[c], c)
        /\ replyTag[c] \in Nat /\ call[c].tag \in Nat /\ (call[c] # NoCall => call[c].tag # 0)
    BY <2>1, FitsHere
  <2>3. Gap(f, q, 1)
    BY <2>1, GapTail
  <2>4. Fits(q, replyTag[c], call[c], reply[c], c)
    BY <2>2, <2>3, FitsGap
  <2> QED BY <1>1, <1>2, <1>3, <2>2, <2>4, FitsRemove
<1>7. Final' = Trap
  <2>1. Len(p) \in 0..Len(p) /\ Trap \in States
    BY <1>4 DEF States
  <2>2. Run(p, Trap)[Len(p)] = Trap
    BY <1>4, <2>1, RunSound
  <2> QED BY <1>5, <2>2, FinalNext
<1>8. PICK S : S = {c \in Clients : call[c] # NoCall /\ reply[c] = Nothing}
  OBVIOUS
<1>9. ASSUME NEW c \in Clients
      PROVE  Owed(c)' = IF c \in S /\ Owed(c) # Nothing THEN Never ELSE Owed(c)
  <2>1. /\ Owed(c)' = OwedBy(p, Trap, call[c], reply[c], c)
        /\ Owed(c) = OwedBy(Queue, Now, call[c], reply[c], c)
    BY <1>1, <1>5, OwedNext, OwedHere DEF clientVars
  <2>2. CASE c \notin S
    BY <1>8, <2>1, <2>2 DEF OwedBy
  <2>3. CASE c \in S
    <3>1. call[c] # NoCall /\ reply[c] = Nothing
      BY <1>8, <2>3
    <3>2. Single(p, c, call[c].tag) /\ Single(Queue, c, call[c].tag)
      BY <1>6, <3>1, FitsHere DEF Fits
    <3>3. Due(p, Trap, c, call[c].tag) = Never
      <4>1. Trap \in States
        BY DEF States
      <4> QED BY <1>4, <3>2, <4>1, DueSound
    <3>4. Due(Queue, Now, c, call[c].tag) \in Values \cup {Never}
      BY <3>2, QueueHere, DueSound
    <3>5. Owed(c)' = Never /\ Owed(c) \in Values \cup {Never}
      BY <2>1, <3>1, <3>3, <3>4 DEF OwedBy
    <3> QED BY <2>3, <3>5, NothingAssumption
  <2> QED BY <2>2, <2>3
<1>10. AllOwed' = [c \in Clients |-> IF c \in S /\ AllOwed[c] # Nothing THEN Never ELSE AllOwed[c]]
  BY <1>9 DEF AllOwed
<1>11. Balanced'
  BY <1>1, <1>5, <1>6, BalancedNext DEF clientVars
<1>12. Typed'
  BY <1>1, <1>2, <1>3, <1>4 DEF IInv, Typed, clientVars
<1>13. Boxed'
  <2>1. \A x, y \in children : x = y
    BY <1>1 DEF IInv, Boxed
  <2> QED BY <1>1, <2>1 DEF Boxed, NoWait
<1>14. Abstract!Break
  <2>1. S \in SUBSET Clients /\ last' = last
    BY <1>1, <1>8
  <2> QED BY <1>7, <1>10, <2>1 DEF Abstract!Break
<1> QED BY <1>11, <1>12, <1>13, <1>14 DEF IInv

-----------------------------------------------------------------------------
(* The theorems.                                                             *)

LEMMA StepRefines ==
  ASSUME IInv, [Next]_vars
  PROVE  IInv' /\ [Abstract!Next]_<<Final, last, AllOwed>>
<1>1. ASSUME NEW c \in Clients, NEW v \in Values, SetValue(c, v) PROVE IInv' /\ Abstract!Next
  BY <1>1, SetValueStep DEF Abstract!Next
<1>2. ASSUME NEW c \in Clients, NEW f \in Callbacks, Execute(c, f) PROVE IInv' /\ Abstract!Next
  BY <1>2, ExecuteStep DEF Abstract!Next
<1>3. ASSUME NEW c \in Clients, NEW f \in Callbacks, NEW t \in Timeouts, Request(c, f, t)
      PROVE  IInv' /\ Abstract!Next
  BY <1>3, RequestStep DEF Abstract!Next
<1>4. ASSUME NEW c \in Clients, NEW timed \in BOOLEAN, GetValue(c, timed) PROVE IInv' /\ Abstract!Next
  BY <1>4, GetValueStep DEF Abstract!Next
<1>5. ASSUME NEW c \in Clients, ReturnCall(c) PROVE IInv' /\ Abstract!Next
  BY <1>5, ReturnStep DEF Abstract!Next
<1>6. ASSUME HandleSet \/ HandleGet \/ HandleCallback \/ EndRequest \/ EndExecute PROVE IInv' /\ Unseen
  BY <1>6, HandleSetStep, HandleGetStep, HandleCallbackStep, EndRequestStep, EndExecuteStep
<1>7. ASSUME NEW x \in children, RunChild(x) PROVE IInv' /\ Unseen
  BY <1>7, RunChildStep
<1>8. ASSUME Misread PROVE IInv' /\ Abstract!Next
  BY <1>8, MisreadStep DEF Abstract!Next
<1>9. ASSUME UNCHANGED vars PROVE IInv' /\ Unseen
  <2>1. Queue' = Queue /\ Now' = Now /\ UNCHANGED <<last, clientVars>>
    BY <1>9 DEF vars, heldVars, Queue, Now
  <2>2. Typed'
    BY <1>9 DEF IInv, Typed, vars, clientVars, heldVars
  <2>3. Boxed'
    BY <1>9 DEF IInv, Boxed, Quiet, Alone, NoWait, vars, heldVars
  <2> QED BY <2>1, <2>2, <2>3, SameQueue DEF IInv
<1> QED BY <1>1, <1>2, <1>3, <1>4, <1>5, <1>6, <1>7, <1>8, <1>9 DEF Next, HeldNext, Unseen

LEMMA InitRefines ==
  ASSUME Init
  PROVE  Abstract!Init
<1>1. IInv
  BY InitInvariant
<1>2. Queue = <<>> /\ Now = value /\ value \in Values
  <2>1. \A f \in Seq(Messages) : <<>> \o f = f
    OBVIOUS
  <2>2. <<>> \in Seq(Messages)
    OBVIOUS
  <2> QED BY <2>1, <2>2 DEF Init, Queue, Now
<1>3. Final = value
  <2>1. Len(<<>>) = 0
    OBVIOUS
  <2>2. Run(<<>>, value)[0] = value
    BY <2>1, RunDef
  <2> QED BY <1>2, <2>1, <2>2 DEF Final
<1>4. AllOwed = [c \in Clients |-> Nothing]
  BY DEF Init, AllOwed, Owed, Idle
<1> QED BY <1>2, <1>3, <1>4 DEF Init, Abstract!Init

\* The invariant is one.
THEOREM Invariant == Spec => []IInv
<1>1. IInv /\ [Next]_vars => IInv'
  BY StepRefines
<1> QED BY <1>1, InitInvariant, PTL DEF Spec

\* The state keeps its type; the Held process waits for one callback at a time,
\* whose child is the only one (held.ts:250-284, sandbox.ts:13-27).
THEOREM TypeCorrect == Spec => []TypeOK
BY Invariant, InvariantType, PTL

\* Every operation behaves as if it took effect when it was called, although
\* callbacks run on copies of the value (held.ts:68-172, 250-284).
THEOREM ValueKept == Spec => KeepsValue
<1>1. Spec => Abstract!Init
  BY InitRefines DEF Spec
<1>2. IInv /\ [Next]_vars => [Abstract!Next]_<<Final, last, AllOwed>>
  BY StepRefines
<1> QED BY <1>1, <1>2, Invariant, PTL DEF Spec, KeepsValue, Abstract!Spec
=============================================================================
