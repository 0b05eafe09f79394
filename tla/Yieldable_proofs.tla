-------------------------- MODULE Yieldable_proofs --------------------------
(***************************************************************************)
(* Proofs about Yieldable: the count of the handles covers them, and the   *)
(* values go to the calls of next in the order of the calls, as in Stream, *)
(* for any number of holders, handles and values.                          *)
(*                                                                         *)
(* The many actions change the state in few ways: a holder makes or drops  *)
(* a handle, calls next, takes its value or ends, a helper sends or dies,  *)
(* the generator takes a notice or a call, or ends.  StepShapes says so,   *)
(* and the lemmas after it take one of these ways each.                    *)
(***************************************************************************)
EXTENDS Yieldable, FiniteSetTheorems, TLAPS

Message == [kind : {"inc", "dec", "link", "signal", "next"}, pid : Holders \cup {NoPid}]
Helpers == [kind : {"inc", "dec", "link"}, by : Holders, of : Handles, linked : BOOLEAN]
Links == [Holders -> {"none", "asked", "linked"}]

Active == held \in {"starting", "running"}
Running(p) == status[p] = "running"
AllRun == \A p \in Holders : Running(p)

-----------------------------------------------------------------------------
(* Counting the messages of a kind in a mailbox and the helpers in a set. *)

At(q, k) == {i \in DOMAIN q : q[i].kind = k}
Of(S, k) == {x \in S : x.kind = k}
Num(q, k) == Cardinality(At(q, k))
One(b) == IF b THEN 1 ELSE 0

LEMMA AtFinite ==
  ASSUME NEW q \in Seq(Message), NEW k
  PROVE  IsFiniteSet(At(q, k)) /\ Num(q, k) \in Nat
<1>1. IsFiniteSet(1..Len(q))
  BY FS_Interval
<1>2. At(q, k) \subseteq 1..Len(q)
  BY DEF At
<1> QED BY <1>1, <1>2, FS_Subset, FS_CardinalityType DEF Num

\* A message that is sent is one more of its kind, after the others.
LEMMA AppendAt ==
  ASSUME NEW q \in Seq(Message), NEW m \in Message, NEW k
  PROVE  /\ At(Append(q, m), k) = IF m.kind = k THEN At(q, k) \cup {Len(q) + 1} ELSE At(q, k)
         /\ Num(Append(q, m), k) = Num(q, k) + One(m.kind = k)
<1>1. Len(q) + 1 \notin At(q, k)
  BY DEF At
<1>2. At(Append(q, m), k) = IF m.kind = k THEN At(q, k) \cup {Len(q) + 1} ELSE At(q, k)
  BY DEF At
<1>3. Cardinality(At(q, k) \cup {Len(q) + 1}) = Cardinality(At(q, k)) + 1
  BY <1>1, AtFinite, FS_AddElement
<1> QED BY <1>2, <1>3, AtFinite DEF Num, One

\* Moving every message to the place before it keeps their number.
LEMMA ShiftCount ==
  ASSUME NEW T, NEW U, IsFiniteSet(U), \A i \in T \cup U : i \in Nat,
         \A i : i \in T <=> i \in Nat /\ i + 1 \in U, 0 \notin U
  PROVE  IsFiniteSet(T) /\ Cardinality(T) = Cardinality(U)
<1> DEFINE f == [j \in U |-> j - 1]
<1>1. f \in Bijection(U, T)
  <2>1. ASSUME NEW j \in U PROVE j - 1 \in T /\ f[j] = j - 1 /\ j \in Nat
    <3>1. j - 1 \in Nat /\ (j - 1) + 1 = j
      OBVIOUS
    <3> QED BY <3>1
  <2>2. ASSUME NEW i \in T PROVE i + 1 \in U /\ f[i + 1] = i
    OBVIOUS
  <2>3. \A i, j \in U : f[i] = f[j] => i = j
    BY <2>1
  <2> QED BY <2>1, <2>2, <2>3 DEF Bijection, Injection, Surjection, IsInjective
<1> QED BY <1>1, FS_Bijection DEF ExistsBijection

\* A message that is taken is one less of its kind.
LEMMA TailAt ==
  ASSUME NEW q \in Seq(Message), q # <<>>, NEW k
  PROVE  /\ \A i : i \in At(Tail(q), k) <=> i \in Nat \ {0} /\ i + 1 \in At(q, k)
         /\ 1 \in At(q, k) <=> Head(q).kind = k
         /\ \A i \in At(q, k) : i \in Nat \ {0}
         /\ Num(Tail(q), k) = Num(q, k) - One(Head(q).kind = k)
<1> DEFINE T == At(Tail(q), k)
           U == At(q, k) \ {1}
<1>1. \A i : i \in 1..Len(Tail(q)) <=> i \in Nat \ {0} /\ i + 1 \in 1..Len(q)
  OBVIOUS
<1>2. \A i \in 1..Len(Tail(q)) : Tail(q)[i] = q[i + 1]
  OBVIOUS
<1>3. \A i : i \in T <=> i \in Nat \ {0} /\ i + 1 \in At(q, k)
  BY <1>1, <1>2 DEF At
<1>4. 1 \in At(q, k) <=> Head(q).kind = k
  BY DEF At
<1>5. \A i \in At(q, k) : i \in Nat \ {0}
  BY DEF At
<1>6. IsFiniteSet(At(q, k)) /\ Num(q, k) \in Nat
  BY AtFinite
<1> HIDE DEF T
<1>7. IsFiniteSet(U) /\ Cardinality(U) = Num(q, k) - One(Head(q).kind = k)
  <2>1. CASE 1 \in At(q, k)
    BY <1>4, <1>6, <2>1, FS_RemoveElement DEF Num, One
  <2>2. CASE 1 \notin At(q, k)
    <3>1. U = At(q, k)
      BY <2>2
    <3> HIDE DEF U
    <3> QED BY <1>4, <1>6, <2>2, <3>1 DEF Num, One
  <2> QED BY <2>1, <2>2
<1>8. Cardinality(T) = Cardinality(U)
  <2>1. \A i : i \in T <=> i \in Nat /\ i + 1 \in U
    BY <1>3, <1>5
  <2>2. \A i \in T \cup U : i \in Nat
    BY <1>3, <1>5
  <2> HIDE DEF U
  <2>3. 0 \notin U
    BY <1>5 DEF U
  <2> QED BY <1>7, <2>1, <2>2, <2>3, ShiftCount
<1> QED BY <1>3, <1>4, <1>5, <1>7, <1>8 DEF Num, T

LEMMA FirstCounts ==
  ASSUME NEW q \in Seq(Message), q # <<>>
  PROVE  Num(q, Head(q).kind) \in Nat /\ Num(q, Head(q).kind) # 0
<1>1. 1 \in At(q, Head(q).kind)
  BY DEF At
<1>2. At(q, Head(q).kind) # {}
  BY <1>1
<1> QED BY <1>2, AtFinite, FS_EmptySet DEF Num

LEMMA EmptyAt == \A k : At(<<>>, k) = {} /\ Num(<<>>, k) = 0
BY FS_EmptySet DEF At, Num

\* A helper that joins or leaves the helpers.
LEMMA OfFinite ==
  ASSUME NEW S, IsFiniteSet(S), NEW k
  PROVE  IsFiniteSet(Of(S, k)) /\ Cardinality(Of(S, k)) \in Nat
BY FS_Subset, FS_CardinalityType DEF Of

LEMMA AddCount ==
  ASSUME NEW S, IsFiniteSet(S), NEW x, x \notin S, NEW k
  PROVE  Cardinality(Of(S \cup {x}, k)) = Cardinality(Of(S, k)) + One(x.kind = k)
<1>1. Of(S \cup {x}, k) = IF x.kind = k THEN Of(S, k) \cup {x} ELSE Of(S, k)
  BY DEF Of
<1>2. Cardinality(Of(S, k) \cup {x}) = Cardinality(Of(S, k)) + 1
  <2>1. x \notin Of(S, k)
    BY DEF Of
  <2> QED BY <2>1, OfFinite, FS_AddElement
<1> QED BY <1>1, <1>2, OfFinite DEF One

LEMMA RemoveCount ==
  ASSUME NEW S, IsFiniteSet(S), NEW x \in S, NEW k
  PROVE  Cardinality(Of(S \ {x}, k)) = Cardinality(Of(S, k)) - One(x.kind = k)
<1>1. Of(S \ {x}, k) = IF x.kind = k THEN Of(S, k) \ {x} ELSE Of(S, k)
  BY DEF Of
<1>2. x.kind = k => Cardinality(Of(S, k) \ {x}) = Cardinality(Of(S, k)) - 1
  <2>1. x.kind = k => x \in Of(S, k)
    BY DEF Of
  <2> QED BY <2>1, OfFinite, FS_RemoveElement
<1> QED BY <1>1, <1>2, OfFinite DEF One

-----------------------------------------------------------------------------
(* The inductive invariant. *)

Typed ==
  /\ held \in {"starting", "running", "returned", "trapped"}
  /\ ref \in Int /\ mbox \in Seq(Message) /\ link \in Links
  /\ status \in [Holders -> {"running", "exited", "trapped"}] /\ tagged \subseteq Holders
  /\ handle \in [Handles -> {"unborn", "sent", "live", "gone"}]
  /\ owner \in [Handles -> Holders \cup {NoPid}]
  /\ helpers \subseteq Helpers /\ died \subseteq Helpers
  /\ phase \in Phases /\ out \in Nat /\ length \in Nat /\ out <= length
  /\ end \in {"return", "trap"} /\ calling \subseteq Holders
  /\ reply \in [Holders -> Nat \cup {Nothing}]
  /\ phase = "yielding" => out < length
  /\ phase = "done" => out = length /\ end = "return"

\* A helper is spawned once, so that it is counted once.
Fresh ==
  \A x \in helpers \cup died :
    /\ x.kind = "inc" => handle[x.of] # "unborn" /\ (x \in helpers => x \notin died)
    /\ x.kind = "dec" => handle[x.of] = "gone"
Book == IsFiniteSet(helpers) /\ IsFiniteSet(died) /\ Fresh

Claimed == {h \in Handles : handle[h] \in {"sent", "live"}}
Trapped == {p \in Holders : status[p] = "trapped"}

\* What is on its way, and the account of HeldLifetime in these terms.
Due(k) == Num(mbox, k) + Cardinality(Of(helpers, k))
Credit == ref + Due("inc") + Cardinality(Of(died, "inc")) + Cardinality(Trapped)
Debt == Cardinality(Claimed) + Due("dec") + Num(mbox, "signal")
Account == Active => Credit >= Debt

\* While every holder runs nothing is lost, and no signal is underway.
Exact ==
  Active /\ AllRun =>
    ref + Due("inc") = Cardinality(Claimed) + Due("dec") /\ Num(mbox, "signal") = 0
Accounts == Account /\ Exact

\* The calls of next that p has in the mailbox q: one at most, while it waits
\* and has no value yet.
Calls(q, p) == {i \in At(q, "next") : q[i].pid = p}
Fits(q, waits, r, p) ==
  /\ \A i, j \in Calls(q, p) : i = j
  /\ Calls(q, p) = {} \/ r = Nothing
  /\ ~waits => Calls(q, p) = {} /\ r = Nothing
Asking == \A p \in Holders : Running(p) => Fits(mbox, p \in calling, reply[p], p)

IInv == Typed /\ Book /\ Accounts /\ Asking /\ (~Active => mbox = <<>>)

\* The account is that of HeldLifetime, and the variables keep their types.
LEMMA CountCardinality == \A S : Count!Cardinality(S) = Cardinality(S)
BY Zenon DEF Cardinality, Count!Cardinality

LEMMA InvariantBalanced == IInv => Balanced
BY CountCardinality DEF IInv, Accounts, Exact, Active, Due, Num, At, Of, Claimed, AllRun, Running, Balanced, Count!Balanced,
   Count!Active, Count!AllRunning, Count!Running, Count!Underway, Count!InMbox, Count!At, Count!Of, Count!Claims,
   Count!Claimed

LEMMA InvariantCovered == IInv => Covered
<1> QED BY CountCardinality DEF IInv, Accounts, Account, Active, Credit, Debt, Due, Num, At, Of, Claimed, Trapped,
             Covered, Count!Covered, Count!Active, Count!Underway, Count!InMbox, Count!At, Count!Of,
             Count!LostIncs, Count!Crashes, Count!Claims, Count!Claimed, Count!Trapped

LEMMA InvariantType == IInv => TypeOK
<1> SUFFICES ASSUME IInv
             PROVE  TypeOK
  OBVIOUS
<1>1. \A p \in Holders : Count!Running(p) /\ reply[p] # Nothing => p \in calling
  BY DEF IInv, Asking, Fits, Running, Count!Running
<1>2. out \in 0..length
  BY DEF IInv, Typed
<1> QED BY <1>1, <1>2 DEF IInv, Typed, TypeOK, Message

-----------------------------------------------------------------------------
(* The ways in which a step changes the state. *)

\* Nothing that is counted or handed out changes.
Quiet ==
  /\ UNCHANGED <<ref, mbox, holderVars, out, length, end, calling, reply>>
  /\ held' = held \/ (held = "starting" /\ held' = "running")
  /\ link' \in Links
  /\ phase' \in Phases /\ (phase' = "yielding" => out < length) /\ (phase' = "done" => out = length /\ end = "return")

\* A holder makes a handle, and a helper to count it.
Copies(x, g) ==
  /\ x \in Helpers /\ x.kind = "inc" /\ x.of = g /\ g \in Handles /\ handle[g] = "unborn"
  /\ helpers' = helpers \cup {x}
  /\ \E how \in {"sent", "gone"} : handle' = [handle EXCEPT ![g] = how]
  /\ AllRun => handle'[g] = "sent"
  /\ owner' \in [Handles -> Holders \cup {NoPid}] /\ tagged' \subseteq Holders
  /\ UNCHANGED <<held, ref, mbox, link, status, died, streamVars>>

\* A handle that was sent arrives.
Arrives(x, g) ==
  /\ x \in Helpers /\ x.kind = "link" /\ g \in Handles /\ handle[g] = "sent"
  /\ helpers' = helpers \cup {x} /\ handle' = [handle EXCEPT ![g] = "live"] /\ tagged' \subseteq Holders
  /\ UNCHANGED <<held, ref, mbox, link, status, owner, died, streamVars>>

\* A handle is collected.
Collects(x, h) ==
  /\ x \in Helpers /\ x.kind = "dec" /\ x.of = h /\ h \in Handles /\ handle[h] = "live"
  /\ helpers' = helpers \cup {x} /\ handle' = [handle EXCEPT ![h] = "gone"]
  /\ owner' = [owner EXCEPT ![h] = NoPid]
  /\ UNCHANGED <<held, ref, mbox, link, status, tagged, died, streamVars>>

\* A helper sends its notice.
Notifies(x, m) ==
  /\ x \in helpers /\ helpers' = helpers \ {x} /\ m \in Message /\ m.kind = x.kind
  /\ mbox' = IF Active THEN Append(mbox, m) ELSE mbox
  /\ UNCHANGED <<held, ref, link, status, tagged, handle, owner, died, streamVars>>

Dies(x) ==
  /\ x \in helpers /\ ~AllRun /\ helpers' = helpers \ {x} /\ died' = died \cup {x}
  /\ UNCHANGED <<held, ref, mbox, link, status, tagged, handle, owner, streamVars>>

\* A holder ends; the generator may get a signal, or die of it.
Ends(p, how) ==
  /\ p \in Holders /\ how \in {"exited", "trapped"} /\ Running(p) /\ (p \in calling => ~Active)
  /\ status' = [status EXCEPT ![p] = how]
  /\ handle' = [h \in Handles |-> IF owner[h] = p THEN "gone" ELSE handle[h]]
  /\ owner' = [h \in Handles |-> IF owner[h] = p THEN NoPid ELSE owner[h]]
  /\ link' \in Links
  /\ \/ UNCHANGED <<held, mbox>>
     \/ held = "starting" /\ held' = "trapped" /\ mbox' = <<>>
     \/ how = "trapped" /\ Active /\ held' = held /\ mbox' = Append(mbox, [kind |-> "signal", pid |-> p])
  /\ UNCHANGED <<ref, tagged, helpers, died, streamVars>>

\* A holder calls next, or takes its value.
CallsNext(p) ==
  /\ p \in Holders /\ Running(p) /\ p \notin calling
  /\ mbox' = IF Active THEN Append(mbox, [kind |-> "next", pid |-> p]) ELSE mbox
  /\ calling' = calling \cup {p}
  /\ UNCHANGED <<held, ref, link, holderVars, phase, out, length, end, reply>>

Gets(p) ==
  /\ p \in Holders /\ Running(p) /\ reply[p] # Nothing
  /\ calling' = calling \ {p} /\ reply' = [reply EXCEPT ![p] = Nothing]
  /\ UNCHANGED <<countVars, phase, out, length, end>>

\* The generator takes a message of kind k, and goes on or ends.
Takes(k, next) ==
  /\ held = "running" /\ mbox # <<>> /\ Head(mbox).kind = k
  /\ next \in {"running", "returned", "trapped"} /\ held' = next
  /\ mbox' = IF next = "running" THEN Tail(mbox) ELSE <<>>
  /\ ref' = ref + One(k = "inc") - One(k \in {"dec", "signal"})
  /\ next = "returned" => k \in {"dec", "signal"} /\ ref' <= 0
  /\ link' \in Links
  /\ UNCHANGED holderVars

Counts == \E k \in {"inc", "dec", "link", "signal"} : \E next : Takes(k, next) /\ UNCHANGED streamVars

HandsOut(p) ==
  /\ Takes("next", "running") /\ p = Head(mbox).pid /\ phase = "yielding"
  /\ reply' = [reply EXCEPT ![p] = out + 1] /\ out' = out + 1 /\ phase' = "busy"
  /\ UNCHANGED <<length, end, calling>>

Ignores == Takes("next", "running") /\ phase = "done" /\ UNCHANGED streamVars

\* The callback traps.
Fails == held = "running" /\ held' = "trapped" /\ mbox' = <<>> /\ UNCHANGED <<ref, link, holderVars, streamVars>>

LEMMA HelperType ==
  ASSUME NEW kind \in {"inc", "dec", "link"}, NEW p \in Holders, NEW h \in Handles
  PROVE  /\ Count!Helper(kind, p, h) \in Helpers
         /\ Count!Helper(kind, p, h).kind = kind /\ Count!Helper(kind, p, h).of = h
<1>1. (kind # "dec" /\ p \in tagged) \in BOOLEAN
  OBVIOUS
<1> QED BY <1>1 DEF Count!Helper, Helpers

LEMMA HolderShapes ==
  ASSUME Typed, HolderNext
  PROVE  \/ \E x, g : Copies(x, g) \/ Arrives(x, g) \/ Collects(x, g)
         \/ \E p, how : Ends(p, how)
         \/ \E p : CallsNext(p)
<1> USE DEF Typed
<1>1. ASSUME NEW p \in Holders, NEW q \in Holders, NEW h \in Handles, NEW g \in Handles, Serialize(p, h, q, g)
      PROVE  Copies(Count!Helper("inc", p, g), g)
  <2>1. owner' \in [Handles -> Holders \cup {NoPid}] /\ tagged' \subseteq Holders
    BY <1>1 DEF Serialize, Count!Serialize
  <2>2. /\ \E how \in {"sent", "gone"} : handle' = [handle EXCEPT ![g] = how]
        /\ AllRun => handle'[g] = "sent"
    BY <1>1 DEF Serialize, Count!Serialize, Count!Running, Running, AllRun
  <2>3. /\ helpers' = helpers \cup {Count!Helper("inc", p, g)} /\ handle[g] = "unborn"
        /\ UNCHANGED <<held, ref, mbox, link, status, died, streamVars>>
    BY <1>1 DEF Serialize, Count!Serialize
  <2> DEFINE x == Count!Helper("inc", p, g)
  <2>4. x \in Helpers /\ x.kind = "inc" /\ x.of = g
    BY HelperType
  <2> HIDE DEF x
  <2>5. Copies(x, g)
    BY <2>1, <2>2, <2>3, <2>4, Zenon DEF Copies, x
  <2> QED BY <2>5 DEF x
<1>2. ASSUME NEW p \in Holders, NEW h \in Handles, Deserialize(p, h)
      PROVE  Arrives(Count!Helper("link", p, h), h)
  BY <1>2, HelperType DEF Deserialize, Count!Deserialize, Arrives
<1>3. ASSUME NEW p \in Holders, NEW h \in Handles, Finalize(p, h)
      PROVE  Collects(Count!Helper("dec", p, h), h)
  BY <1>3, HelperType DEF Finalize, Count!Finalize, Count!Drop, Count!Holds, Collects
<1>4. ASSUME NEW p \in Holders, Exit(p)
      PROVE  Ends(p, "exited")
  BY <1>4 DEF Exit, Count!Exit, Count!End, Ready, Count!Running, Running, Ends
<1>5. ASSUME NEW p \in Holders, Trap(p)
      PROVE  Ends(p, "trapped")
  <2>1. link' \in Links
    BY <1>5 DEF Trap, Count!Trap, Links
  <2>2. \/ UNCHANGED <<held, mbox>>
        \/ held = "starting" /\ held' = "trapped" /\ mbox' = <<>>
        \/ Active /\ held' = held /\ mbox' = Append(mbox, [kind |-> "signal", pid |-> p])
    BY <1>5 DEF Trap, Count!Trap, Count!Deliver, Count!Notice, Active, Count!Active
  <2> QED BY <1>5, <2>1, <2>2 DEF Trap, Count!Trap, Count!End, Ready, Count!Running, Running, Ends
<1>6. ASSUME NEW p \in Holders, Next(p)
      PROVE  CallsNext(p)
  BY <1>6 DEF Next, Ready, Count!Running, Running, Count!Deliver, Count!Notice, Active, Count!Active, CallsNext
<1> QED BY <1>1, <1>2, <1>3, <1>4, <1>5, <1>6 DEF HolderNext

LEMMA HostShapes ==
  ASSUME Typed, HostNext
  PROVE  (\E x, m : Notifies(x, m)) \/ (\E x : Dies(x)) \/ Quiet \/ \E p, how : Ends(p, how)
<1> USE DEF Typed
<1>1. ASSUME NEW x \in helpers, HelperSend(x)
      PROVE  Notifies(x, Count!NoticeOf(x))
  <2>1. Count!NoticeOf(x) \in Message /\ Count!NoticeOf(x).kind = x.kind
    BY DEF Count!NoticeOf, Count!Notice, Message, Helpers
  <2> QED BY <1>1, <2>1 DEF HelperSend, Count!HelperSend, Count!Deliver, Active, Count!Active, Notifies
<1>2. ASSUME NEW x \in helpers, HelperDies(x)
      PROVE  Dies(x)
  <2>1. x.by \in Holders /\ ~Running(x.by)
    BY <1>2 DEF HelperDies, Count!HelperDies, Helpers, Running
  <2> QED BY <1>2, <2>1 DEF HelperDies, Count!HelperDies, Dies, AllRun
<1>3. ASSUME NEW p \in Holders, AckLink(p)
      PROVE  Quiet
  <2>1. link' \in Links
    BY <1>3 DEF AckLink, Count!AckLink, Links
  <2> QED BY <1>3, <2>1 DEF AckLink, Count!AckLink, Count!holderVars, holderVars, streamVars, Quiet
<1>4. ASSUME NEW p \in Holders, DieWithGenerator(p)
      PROVE  Ends(p, "trapped")
  <2>1. link' \in Links
    BY <1>4 DEF DieWithGenerator, Links
  <2>2. ~Active
    BY <1>4 DEF DieWithGenerator, Active
  <2> QED BY <1>4, <2>1, <2>2 DEF DieWithGenerator, Count!End, Count!Running, Running, Ends
<1> QED BY <1>1, <1>2, <1>3, <1>4 DEF HostNext

LEMMA GeneratorShapes ==
  ASSUME Typed, GeneratorNext
  PROVE  Quiet \/ Fails \/ Counts \/ Ignores \/ \E p : HandsOut(p)
<1> USE DEF Typed
<1>1. CASE Start \/ Yield \/ Finish
  <2>1. held' = held \/ (held = "starting" /\ held' = "running")
    BY <1>1 DEF Start, Count!Start, Yield, Finish, countVars
  <2>2. phase' \in Phases /\ (phase' = "yielding" => out < length) /\ (phase' = "done" => out = length /\ end = "return")
    BY <1>1 DEF Start, Yield, Finish, streamVars, Phases
  <2> QED BY <1>1, <2>1, <2>2 DEF Start, Count!Start, Yield, Finish, countVars, holderVars, Count!holderVars, streamVars, Quiet
<1>2. CASE Fail
  BY <1>2 DEF Fail, InCallback, Fails
<1>3. ASSUME NEW k, NEW next \in {"running", "returned", "trapped"}, Count!Receive(k), Count!Continue(next),
             ref' = ref + One(k = "inc") - One(k \in {"dec", "signal"}), link' \in Links,
             next = "returned" => k \in {"dec", "signal"} /\ ref' <= 0
      PROVE  Takes(k, next)
  BY <1>3 DEF Count!Receive, Count!Continue, Count!holderVars, holderVars, Takes
<1>4. CASE HandleIncrement
  <2>1. Takes("inc", "running")
    BY <1>3, <1>4 DEF HandleIncrement, Count!HandleIncrement, One
  <2> QED BY <1>4, <2>1 DEF HandleIncrement, Counts
<1>5. CASE HandleDecrement
  <2>1. link' \in Links
    BY <1>5 DEF HandleDecrement, Count!HandleDecrement, Count!DecrementUntil, Links
  <2>2. \E next \in {"running", "returned", "trapped"} : Takes("dec", next)
    BY <1>3, <1>5, <2>1 DEF HandleDecrement, Count!HandleDecrement, Count!DecrementUntil, One
  <2> QED BY <1>5, <2>2 DEF HandleDecrement, Counts
<1>6. CASE HandleLink
  <2>1. link' \in Links
    BY <1>6 DEF HandleLink, Count!HandleLink, Links
  <2>2. \E next \in {"running", "returned", "trapped"} : Takes("link", next)
    BY <1>3, <1>6, <2>1 DEF HandleLink, Count!HandleLink, One
  <2> QED BY <1>6, <2>2 DEF HandleLink, Counts
<1>7. CASE HandleSignalYielding
  <2>1. link' \in Links
    BY <1>7 DEF HandleSignalYielding, Links
  <2>2. \E next \in {"running", "returned", "trapped"} : Takes("signal", next)
    BY <1>3, <1>7, <2>1 DEF HandleSignalYielding, One
  <2> QED BY <1>7, <2>2 DEF HandleSignalYielding, Counts
<1>8. CASE HandleSignalDone
  <2>1. Takes("signal", "running")
    BY <1>3, <1>8 DEF HandleSignalDone, Count!HandleSignal, One
  <2> QED BY <1>8, <2>1 DEF HandleSignalDone, Counts
<1>9. CASE HandleNext
  <2>1. Takes("next", "running")
    BY <1>3, <1>9 DEF HandleNext, One
  <2> QED BY <1>9, <2>1 DEF HandleNext, HandsOut
<1>10. CASE HandleNextDone
  <2>1. Takes("next", "running")
    BY <1>3, <1>10 DEF HandleNextDone, One
  <2> QED BY <1>10, <2>1 DEF HandleNextDone, Ignores
<1> QED BY <1>1, <1>2, <1>4, <1>5, <1>6, <1>7, <1>8, <1>9, <1>10 DEF GeneratorNext

\* Every step changes the state in one of these ways.
LEMMA StepShapes ==
  ASSUME Typed, [Step]_vars
  PROVE  \/ Quiet \/ Fails \/ Counts \/ Ignores
         \/ \E x, g : Copies(x, g) \/ Arrives(x, g) \/ Collects(x, g) \/ Notifies(x, g) \/ Dies(x)
         \/ \E p, how : Ends(p, how) \/ CallsNext(p) \/ Gets(p) \/ HandsOut(p)
<1>1. ASSUME NEW p \in Holders, Return(p)
      PROVE  Gets(p)
  BY <1>1 DEF Return, Count!Running, Running, Gets
<1>2. CASE UNCHANGED vars
  BY <1>2 DEF vars, countVars, streamVars, holderVars, Quiet, Typed
<1> QED BY <1>1, <1>2, HolderShapes, HostShapes, GeneratorShapes DEF Step

-----------------------------------------------------------------------------
(* Every way keeps the types. *)

LEMMA TypedStep ==
  ASSUME Typed, [Step]_vars
  PROVE  Typed'
<1>1. CASE Quiet
  BY <1>1 DEF Quiet, Typed, holderVars
<1>2. CASE Fails
  BY <1>2 DEF Fails, Typed, holderVars, streamVars
<1>3. ASSUME NEW k, NEW next, Takes(k, next)
      PROVE  /\ held' \in {"starting", "running", "returned", "trapped"} /\ ref' \in Int
             /\ mbox' \in Seq(Message) /\ link' \in Links /\ UNCHANGED holderVars
  <2>1. mbox' \in Seq(Message)
    BY <1>3 DEF Takes, Typed
  <2> QED BY <1>3, <2>1 DEF Takes, Typed, One
<1>4. CASE Counts \/ Ignores
  <2>1. UNCHANGED <<holderVars, streamVars>>
    BY <1>3, <1>4 DEF Counts, Ignores
  <2>2. /\ held' \in {"starting", "running", "returned", "trapped"} /\ ref' \in Int
        /\ mbox' \in Seq(Message) /\ link' \in Links
    BY <1>3, <1>4 DEF Counts, Ignores
  <2> QED BY <2>1, <2>2 DEF Typed, holderVars, streamVars
<1>5. ASSUME NEW p, HandsOut(p)
      PROVE  Typed'
  <2>1. /\ reply' = [reply EXCEPT ![p] = out + 1] /\ out' = out + 1 /\ phase' = "busy"
        /\ phase = "yielding" /\ UNCHANGED <<length, end, calling>>
        /\ held' \in {"starting", "running", "returned", "trapped"} /\ ref' \in Int
        /\ mbox' \in Seq(Message) /\ link' \in Links /\ UNCHANGED holderVars
    BY <1>3, <1>5 DEF HandsOut
  <2>2. out' \in Nat /\ out' <= length /\ phase' \in Phases
    BY <2>1 DEF Typed, Phases
  <2>3. reply' \in [Holders -> Nat \cup {Nothing}]
    <3>1. out + 1 \in Nat /\ reply \in [Holders -> Nat \cup {Nothing}]
      BY DEF Typed
    <3> QED BY <2>1, <3>1
  <2> QED BY <2>1, <2>2, <2>3 DEF Typed, holderVars
<1>6. ASSUME NEW x, NEW g, Copies(x, g) \/ Arrives(x, g) \/ Collects(x, g) \/ Dies(x)
      PROVE  Typed'
  <2>1. helpers' \subseteq Helpers /\ died' \subseteq Helpers
    BY <1>6 DEF Copies, Arrives, Collects, Dies, Typed
  <2>2. handle' \in [Handles -> {"unborn", "sent", "live", "gone"}]
    BY <1>6 DEF Copies, Arrives, Collects, Dies, Typed
  <2> QED BY <1>6, <2>1, <2>2 DEF Copies, Arrives, Collects, Dies, Typed, streamVars
<1>7. ASSUME NEW x, NEW m, Notifies(x, m)
      PROVE  Typed'
  <2>1. mbox' \in Seq(Message)
    BY <1>7 DEF Notifies, Typed
  <2> QED BY <1>7, <2>1 DEF Notifies, Typed, streamVars
<1>8. ASSUME NEW p, NEW how, Ends(p, how)
      PROVE  Typed'
  <2>1. mbox' \in Seq(Message)
    <3>1. [kind |-> "signal", pid |-> p] \in Message /\ mbox \in Seq(Message)
      BY <1>8 DEF Ends, Message, Typed
    <3>2. mbox' \in {mbox, <<>>, Append(mbox, [kind |-> "signal", pid |-> p])}
      BY <1>8 DEF Ends
    <3>3. Append(mbox, [kind |-> "signal", pid |-> p]) \in Seq(Message)
      BY <3>1
    <3>4. <<>> \in Seq(Message)
      OBVIOUS
    <3> HIDE DEF Message
    <3> QED BY <3>1, <3>2, <3>3, <3>4
  <2> QED BY <1>8, <2>1 DEF Ends, Typed, streamVars
<1>9. ASSUME NEW p, CallsNext(p)
      PROVE  Typed'
  <2>1. [kind |-> "next", pid |-> p] \in Message /\ mbox \in Seq(Message)
    BY <1>9 DEF CallsNext, Message, Typed
  <2>2. mbox' \in Seq(Message)
    BY <1>9, <2>1 DEF CallsNext
  <2> QED BY <1>9, <2>2 DEF CallsNext, Typed, holderVars
<1>10. ASSUME NEW p, Gets(p)
       PROVE  Typed'
  BY <1>10 DEF Gets, Typed, countVars, holderVars
<1> QED BY <1>1, <1>2, <1>4, <1>5, <1>6, <1>7, <1>8, <1>9, <1>10, StepShapes

-----------------------------------------------------------------------------
(* Every way keeps the book and the account. *)

LEMMA BookStep ==
  ASSUME Typed, Book, [Step]_vars
  PROVE  Book'
<1>1. CASE UNCHANGED <<helpers, died, handle>>
  BY <1>1 DEF Book, Fresh
<1>2. ASSUME NEW x, NEW g, Copies(x, g) \/ Arrives(x, g) \/ Collects(x, g)
      PROVE  Book'
  <2>1. /\ helpers' = helpers \cup {x} /\ died' = died /\ x \in Helpers /\ g \in Handles
        /\ handle' \in [Handles -> {"unborn", "sent", "live", "gone"}]
        /\ handle[g] # "gone" /\ handle'[g] # "unborn" /\ \A h \in Handles \ {g} : handle'[h] = handle[h]
    BY <1>2 DEF Copies, Arrives, Collects, Typed
  <2>2. /\ x.kind = "inc" => x.of = g /\ handle[g] = "unborn"
        /\ x.kind = "dec" => x.of = g /\ handle'[g] = "gone"
    BY <1>2 DEF Copies, Arrives, Collects, Typed
  <2>3. IsFiniteSet(helpers')
    BY <2>1, FS_AddElement DEF Book
  <2>4. ASSUME NEW y \in helpers \cup died
        PROVE  /\ y.kind = "inc" => handle'[y.of] # "unborn" /\ (y \in helpers' => y \notin died)
               /\ y.kind = "dec" => handle'[y.of] = "gone"
    <3>1. y.of \in Handles
      BY DEF Typed, Helpers
    <3>2. y.kind = "inc" => y # x
      BY <2>2 DEF Book, Fresh
    <3> QED BY <2>1, <3>1, <3>2 DEF Book, Fresh
  <2>5. x.kind = "inc" => x \notin died
    BY <2>2 DEF Book, Fresh
  <2> QED BY <2>1, <2>2, <2>3, <2>4, <2>5 DEF Book, Fresh
<1>3. ASSUME NEW x \in helpers, helpers' = helpers \ {x}, died' \in {died, died \cup {x}}, handle' = handle
      PROVE  Book'
  <2>1. IsFiniteSet(helpers') /\ IsFiniteSet(died')
    BY <1>3, FS_RemoveElement, FS_AddElement DEF Book
  <2> QED BY <1>3, <2>1 DEF Book, Fresh
<1>4. ASSUME NEW p, NEW how, Ends(p, how)
      PROVE  Book'
  <2>1. UNCHANGED <<helpers, died>> /\ \A h \in Handles : handle'[h] \in {handle[h], "gone"}
    BY <1>4 DEF Ends
  <2>2. \A x \in helpers \cup died : x.of \in Handles
    BY DEF Typed, Helpers
  <2> QED BY <2>1, <2>2 DEF Book, Fresh
<1> QED BY <1>1, <1>2, <1>3, <1>4, StepShapes
        DEF Quiet, Fails, Counts, Ignores, Takes, HandsOut, Notifies, Dies, CallsNext, Gets, holderVars, countVars

LEMMA CountTypes ==
  ASSUME Typed, Book
  PROVE  /\ \A k : Num(mbox, k) \in Nat /\ Cardinality(Of(helpers, k)) \in Nat /\ Due(k) \in Nat
         /\ Cardinality(Of(died, "inc")) \in Nat /\ ref \in Int
         /\ IsFiniteSet(Claimed) /\ Cardinality(Claimed) \in Nat
         /\ IsFiniteSet(Trapped) /\ Cardinality(Trapped) \in Nat
<1>1. \A k : Num(mbox, k) \in Nat /\ Cardinality(Of(helpers, k)) \in Nat
  BY AtFinite, OfFinite DEF Typed, Book
<1>2. Cardinality(Of(died, "inc")) \in Nat /\ ref \in Int
  BY OfFinite DEF Typed, Book
<1>3. IsFiniteSet(Claimed) /\ IsFiniteSet(Trapped)
  BY FiniteAssumption, FS_Subset DEF Claimed, Trapped
<1> QED BY <1>1, <1>2, <1>3, FS_CardinalityType DEF Due

\* What a step that keeps the generator does to each side of the account.
LEMMA Settles ==
  ASSUME Typed, Book, Accounts, Active' => Active,
         NEW r \in Int, ref' = ref + r,
         NEW i \in Int, Due("inc")' = Due("inc") + i,
         NEW d \in Int, Due("dec")' = Due("dec") + d,
         NEW s \in Int, Num(mbox, "signal")' = Num(mbox, "signal") + s,
         NEW l \in Int, Cardinality(Of(died, "inc"))' = Cardinality(Of(died, "inc")) + l,
         NEW t \in Int, Cardinality(Trapped)' = Cardinality(Trapped) + t,
         NEW c \in Int, Cardinality(Claimed)' = Cardinality(Claimed) + c,
         r + i + l + t >= c + d + s,
         AllRun' => AllRun /\ r + i = c + d /\ s = 0
  PROVE  Accounts'
<1>1. /\ Due("inc") \in Nat /\ Due("dec") \in Nat /\ Num(mbox, "signal") \in Nat /\ ref \in Int
      /\ Cardinality(Of(died, "inc")) \in Nat /\ Cardinality(Trapped) \in Nat /\ Cardinality(Claimed) \in Nat
  BY CountTypes
<1>2. Active' => Credit >= Debt
  BY DEF Accounts, Account
<1>3. Active' => Credit' >= Debt'
  BY <1>1, <1>2 DEF Credit, Debt
<1>4. Exact'
  BY <1>1 DEF Accounts, Exact
<1> QED BY <1>3, <1>4 DEF Accounts, Account

LEMMA EndedAccount == ~Active' => Accounts'
BY DEF Accounts, Account, Exact

\* A helper that is spawned is one more notice on its way.
LEMMA SpawnDue ==
  ASSUME Typed, Book, NEW x, x \notin helpers, helpers' = helpers \cup {x}, mbox' = mbox, NEW k
  PROVE  Due(k)' = Due(k) + One(x.kind = k)
<1>1. Cardinality(Of(helpers', k)) = Cardinality(Of(helpers, k)) + One(x.kind = k)
  BY AddCount DEF Book
<1>2. Num(mbox', k) = Num(mbox, k)
  OBVIOUS
<1>3. Due(k)' = Num(mbox', k) + Cardinality(Of(helpers', k))
  BY DEF Due
<1> QED BY <1>1, <1>2, <1>3, CountTypes DEF Due, One

LEMMA CopiesAccount ==
  ASSUME Typed, Book, Accounts, NEW x, NEW g, Copies(x, g)
  PROVE  Accounts'
<1>1. /\ x.kind = "inc" /\ helpers' = helpers \cup {x} /\ UNCHANGED <<held, ref, mbox, status, died>>
      /\ g \in Handles /\ x \notin helpers
  BY DEF Copies, Book, Fresh
<1>2. Due("inc")' = Due("inc") + 1 /\ Due("dec")' = Due("dec") + 0
  BY <1>1, SpawnDue DEF One
<1>3. \/ Cardinality(Claimed)' = Cardinality(Claimed) + 1
      \/ ~AllRun /\ Cardinality(Claimed)' = Cardinality(Claimed) + 0
  <2>1. PICK how \in {"sent", "gone"} : handle' = [handle EXCEPT ![g] = how] /\ (AllRun => how = "sent")
    BY <1>1 DEF Copies, Typed
  <2>2. Claimed' = IF how = "sent" THEN Claimed \cup {g} ELSE Claimed
    BY <1>1, <2>1 DEF Copies, Typed, Claimed
  <2>3. Cardinality(Claimed \cup {g}) = Cardinality(Claimed) + 1
    <3>1. g \notin Claimed
      BY DEF Copies, Claimed
    <3> QED BY <3>1, CountTypes, FS_AddElement
  <2> QED BY <2>1, <2>2, <2>3, CountTypes
<1>4. /\ Num(mbox, "signal")' = Num(mbox, "signal") + 0
      /\ Cardinality(Of(died, "inc"))' = Cardinality(Of(died, "inc")) + 0
      /\ Cardinality(Trapped)' = Cardinality(Trapped) + 0 /\ ref' = ref + 0
  <2>1. Trapped' = Trapped
    BY <1>1 DEF Trapped
  <2> QED BY <1>1, <2>1, CountTypes
<1>5. (Active' => Active) /\ (AllRun' => AllRun)
  BY <1>1 DEF Active, AllRun, Running
<1>6. CASE Cardinality(Claimed)' = Cardinality(Claimed) + 1
  BY <1>2, <1>4, <1>5, <1>6, Settles
<1>7. CASE ~AllRun /\ Cardinality(Claimed)' = Cardinality(Claimed) + 0
  BY <1>2, <1>4, <1>5, <1>7, Settles
<1> QED BY <1>3, <1>6, <1>7

LEMMA ArrivesAccount ==
  ASSUME Typed, Book, Accounts, NEW x, NEW g, Arrives(x, g)
  PROVE  Accounts'
<1>1. UNCHANGED <<held, ref, mbox, status, died>> /\ x.kind = "link" /\ helpers' = helpers \cup {x}
  BY DEF Arrives
<1>2. Of(helpers', "inc") = Of(helpers, "inc") /\ Of(helpers', "dec") = Of(helpers, "dec")
  BY <1>1 DEF Of
<1>3. Claimed' = Claimed
  BY DEF Arrives, Typed, Claimed
<1> QED BY <1>1, <1>2, <1>3 DEF Accounts, Account, Exact, AllRun, Running, Active, Credit, Debt, Due, Trapped

LEMMA CollectsAccount ==
  ASSUME Typed, Book, Accounts, NEW x, NEW h, Collects(x, h)
  PROVE  Accounts'
<1>1. /\ x.kind = "dec" /\ helpers' = helpers \cup {x} /\ UNCHANGED <<held, ref, mbox, status, died>>
      /\ h \in Handles /\ x \notin helpers
  BY DEF Collects, Book, Fresh
<1>2. Due("inc")' = Due("inc") + 0 /\ Due("dec")' = Due("dec") + 1
  BY <1>1, SpawnDue DEF One
<1>3. Cardinality(Claimed)' = Cardinality(Claimed) + (-1)
  <2>1. Claimed' = Claimed \ {h} /\ h \in Claimed
    BY DEF Collects, Typed, Claimed
  <2> QED BY <2>1, CountTypes, FS_RemoveElement
<1>4. /\ Num(mbox, "signal")' = Num(mbox, "signal") + 0
      /\ Cardinality(Of(died, "inc"))' = Cardinality(Of(died, "inc")) + 0
      /\ Cardinality(Trapped)' = Cardinality(Trapped) + 0 /\ ref' = ref + 0
  <2>1. Trapped' = Trapped
    BY <1>1 DEF Trapped
  <2> QED BY <1>1, <2>1, CountTypes
<1>5. (Active' => Active) /\ (AllRun' => AllRun)
  BY <1>1 DEF Active, AllRun, Running
<1> QED BY <1>2, <1>3, <1>4, <1>5, Settles

LEMMA NotifiesAccount ==
  ASSUME Typed, Book, Accounts, NEW x, NEW m, Notifies(x, m)
  PROVE  Accounts'
<1>1. CASE ~Active
  BY <1>1, EndedAccount DEF Notifies, Active
<1>2. CASE Active
  <2>1. /\ mbox' = Append(mbox, m) /\ m \in Message /\ m.kind = x.kind /\ x \in helpers
        /\ helpers' = helpers \ {x} /\ UNCHANGED <<held, ref, status, handle, died>>
    BY <1>2 DEF Notifies
  <2>2. \A k : /\ Num(mbox', k) = Num(mbox, k) + One(x.kind = k)
               /\ Cardinality(Of(helpers', k)) = Cardinality(Of(helpers, k)) - One(x.kind = k)
    BY <2>1, AppendAt, RemoveCount DEF Typed, Book
  <2>3. \A k : Due(k)' = Num(mbox', k) + Cardinality(Of(helpers', k))
    BY DEF Due
  <2>4. \A k : Due(k)' = Due(k)
    BY <2>2, <2>3, CountTypes DEF Due, One
  <2>5. Num(mbox', "signal") = Num(mbox, "signal")
    <3>1. x.kind # "signal"
      BY <2>1 DEF Typed, Helpers
    <3> QED BY <2>2, <3>1, CountTypes DEF One
  <2> QED BY <2>1, <2>4, <2>5 DEF Accounts, Account, Exact, AllRun, Running, Active, Credit, Debt, Trapped, Claimed
<1> QED BY <1>1, <1>2

\* A helper that dies moves from the increments on their way to the lost ones.
LEMMA DiesAccount ==
  ASSUME Typed, Book, Accounts, NEW x, Dies(x)
  PROVE  Accounts'
<1>1. /\ x \in helpers /\ helpers' = helpers \ {x} /\ died' = died \cup {x}
      /\ UNCHANGED <<held, ref, mbox, status, handle>>
  BY DEF Dies
<1>2. \A k : Cardinality(Of(helpers', k)) = Cardinality(Of(helpers, k)) - One(x.kind = k)
  BY <1>1, RemoveCount DEF Book
<1>3. \A k : Due(k)' = Num(mbox', k) + Cardinality(Of(helpers', k)) /\ mbox' = mbox
  BY <1>1 DEF Due
<1>4. \A k : Due(k)' = Due(k) + (-One(x.kind = k))
  BY <1>2, <1>3, CountTypes DEF Due, One
<1>5. Cardinality(Of(died', "inc")) = Cardinality(Of(died, "inc")) + One(x.kind = "inc")
  <2>1. CASE x.kind = "inc"
    BY <1>1, <2>1, AddCount DEF Book, Fresh
  <2>2. CASE x.kind # "inc"
    <3>1. Of(died', "inc") = Of(died, "inc")
      BY <1>1, <2>2 DEF Of
    <3> QED BY <2>2, <3>1, CountTypes DEF One
  <2> QED BY <2>1, <2>2
<1>6. /\ Num(mbox, "signal")' = Num(mbox, "signal") + 0 /\ ref' = ref + 0
      /\ Cardinality(Trapped)' = Cardinality(Trapped) + 0
      /\ Cardinality(Claimed)' = Cardinality(Claimed) + 0
  <2>1. Trapped' = Trapped /\ Claimed' = Claimed
    BY <1>1 DEF Trapped, Claimed
  <2> QED BY <1>1, <2>1, CountTypes
<1>7. (Active' => Active) /\ ~AllRun'
  BY <1>1 DEF Dies, Active, AllRun, Running
<1>8. CASE x.kind = "inc"
  <2>1. /\ Due("inc")' = Due("inc") + (-1) /\ Due("dec")' = Due("dec") + 0
        /\ Cardinality(Of(died, "inc"))' = Cardinality(Of(died, "inc")) + 1
    BY <1>4, <1>5, <1>8 DEF One
  <2> QED BY <1>6, <1>7, <2>1, Settles
<1>9. CASE x.kind # "inc"
  <2>1. PICK d \in Int : Due("dec")' = Due("dec") + d /\ d <= 0
    BY <1>4 DEF One
  <2>2. /\ Due("inc")' = Due("inc") + 0
        /\ Cardinality(Of(died, "inc"))' = Cardinality(Of(died, "inc")) + 0
    BY <1>4, <1>5, <1>9 DEF One
  <2> QED BY <1>6, <1>7, <2>1, <2>2, Settles
<1> QED BY <1>8, <1>9

\* A holder that ends gives up its handles; a signal costs the reference that
\* its crash is worth.
LEMMA EndsAccount ==
  ASSUME Typed, Book, Accounts, NEW p, NEW how, Ends(p, how)
  PROVE  Accounts'
<1>1. /\ p \in Holders /\ Running(p) /\ status' = [status EXCEPT ![p] = how] /\ how \in {"exited", "trapped"}
      /\ UNCHANGED <<ref, helpers, died>> /\ (Active' => Active) /\ ~AllRun'
  BY DEF Ends, Active, AllRun, Running, Typed
<1>2. Cardinality(Trapped)' = Cardinality(Trapped) + One(how = "trapped")
  <2>1. Trapped' = (IF how = "trapped" THEN Trapped \cup {p} ELSE Trapped) /\ p \notin Trapped
    BY <1>1 DEF Typed, Trapped, Running
  <2>2. Cardinality(Trapped \cup {p}) = Cardinality(Trapped) + 1
    BY <2>1, CountTypes, FS_AddElement
  <2> QED BY <2>1, <2>2, CountTypes DEF One
<1>3. Cardinality(Claimed)' \in Nat /\ Cardinality(Claimed)' <= Cardinality(Claimed)
  <2>1. Claimed' \subseteq Claimed
    BY DEF Ends, Typed, Claimed
  <2> QED BY <2>1, CountTypes, FS_Subset, FS_CardinalityType
<1>4. PICK c \in Int : Cardinality(Claimed)' = Cardinality(Claimed) + c /\ c <= 0
  <2>1. Cardinality(Claimed)' - Cardinality(Claimed) \in Int
    BY <1>3, CountTypes
  <2> QED BY <1>3, <2>1, CountTypes
<1>5. CASE ~Active'
  BY <1>5, EndedAccount
<1>6. CASE Active'
  <2>1. PICK b \in BOOLEAN : /\ b => how = "trapped"
                             /\ mbox' = IF b THEN Append(mbox, [kind |-> "signal", pid |-> p]) ELSE mbox
    BY <1>6 DEF Ends, Active
  <2>2. \A k : Num(mbox', k) = Num(mbox, k) + One(b /\ k = "signal")
    <3>1. [kind |-> "signal", pid |-> p] \in Message
      BY <1>1 DEF Message
    <3>2. CASE b
      BY <2>1, <3>1, <3>2, AppendAt DEF Typed, One
    <3>3. CASE ~b
      BY <2>1, <3>3, CountTypes DEF One
    <3> QED BY <3>2, <3>3
  <2>3. \A k : Due(k)' = Num(mbox', k) + Cardinality(Of(helpers, k))
    BY <1>1 DEF Due
  <2>4. Due("inc")' = Due("inc") + 0 /\ Due("dec")' = Due("dec") + 0
    BY <2>2, <2>3, CountTypes DEF Due, One
  <2>5. Cardinality(Of(died, "inc"))' = Cardinality(Of(died, "inc")) + 0 /\ ref' = ref + 0
    BY <1>1, CountTypes
  <2>6. Num(mbox, "signal")' = Num(mbox, "signal") + One(b)
    BY <2>2 DEF One
  <2>7. One(b) \in Int /\ One(how = "trapped") \in Int /\ 0 + 0 + 0 + One(how = "trapped") >= c + 0 + One(b)
    BY <1>4, <2>1 DEF One
  <2> QED BY <1>1, <1>2, <1>4, <2>4, <2>5, <2>6, <2>7, Settles
<1> QED BY <1>5, <1>6

\* The generator takes a message: what it is worth is in the count then.
LEMMA TakesAccount ==
  ASSUME Typed, Book, Accounts, NEW k, NEW next, Takes(k, next)
  PROVE  Accounts'
<1>1. CASE next # "running"
  BY <1>1, EndedAccount DEF Takes, Active
<1>2. CASE next = "running"
  <2>1. /\ mbox' = Tail(mbox) /\ mbox # <<>> /\ Head(mbox).kind = k /\ UNCHANGED <<held, holderVars>>
        /\ ref' = ref + One(k = "inc") - One(k \in {"dec", "signal"})
    BY <1>2 DEF Takes
  <2>2. \A n : Num(mbox', n) = Num(mbox, n) - One(k = n)
    BY <2>1, TailAt DEF Typed
  <2>3. \A n : Due(n)' = Num(mbox', n) + Cardinality(Of(helpers, n))
    BY <2>1 DEF Due, holderVars
  <2>4. \A n : Due(n)' = Due(n) + (0 - One(k = n))
    BY <2>2, <2>3, CountTypes DEF Due, One
  <2>5. /\ Cardinality(Of(died, "inc"))' = Cardinality(Of(died, "inc")) + 0
        /\ Cardinality(Trapped)' = Cardinality(Trapped) + 0
        /\ Cardinality(Claimed)' = Cardinality(Claimed) + 0
    <3>1. died' = died /\ Trapped' = Trapped /\ Claimed' = Claimed
      BY <2>1 DEF Trapped, Claimed, holderVars
    <3> QED BY <3>1, CountTypes
  <2>6. (Active' => Active) /\ (AllRun' => AllRun /\ k # "signal")
    <3>1. (Active' => Active) /\ (AllRun' => Active /\ AllRun)
      BY <1>2, <2>1 DEF Takes, Active, AllRun, Running, holderVars
    <3>2. k = "signal" => Num(mbox, "signal") # 0
      BY <2>1, FirstCounts DEF Typed
    <3> QED BY <3>1, <3>2 DEF Accounts, Exact
  <2>7. PICK r \in Int, i \in Int, d \in Int, n \in Int :
          /\ r = One(k = "inc") - One(k \in {"dec", "signal"})
          /\ i = 0 - One(k = "inc") /\ d = 0 - One(k = "dec") /\ n = 0 - One(k = "signal")
          /\ r + i + 0 + 0 >= 0 + d + n /\ (k # "signal" => r + i = 0 + d /\ n = 0)
    <3>1. PICK x \in Int, y \in Int, z \in Int :
            /\ x = One(k = "inc") /\ y = One(k = "dec") /\ z = One(k = "signal") /\ y + z = One(k \in {"dec", "signal"})
            /\ k # "signal" => z = 0
      BY DEF One
    <3>2. /\ x - (y + z) \in Int /\ 0 - x \in Int /\ 0 - y \in Int /\ 0 - z \in Int
          /\ (x - (y + z)) + (0 - x) + 0 + 0 >= 0 + (0 - y) + (0 - z)
      OBVIOUS
    <3>3. z = 0 => (x - (y + z)) + (0 - x) = 0 + (0 - y) /\ 0 - z = 0
      OBVIOUS
    <3> QED BY <3>1, <3>2, <3>3
  <2>8. ref' = ref + r /\ Num(mbox, "signal")' = Num(mbox, "signal") + n
    BY <2>1, <2>2, <2>7, CountTypes DEF One
  <2>9. Due("inc")' = Due("inc") + i /\ Due("dec")' = Due("dec") + d
    BY <2>4, <2>7
  <2> QED BY <2>5, <2>6, <2>7, <2>8, <2>9, Settles
<1> QED BY <1>1, <1>2

LEMMA AccountStep ==
  ASSUME Typed, Book, Accounts, [Step]_vars
  PROVE  Accounts'
<1>1. ASSUME UNCHANGED <<ref, mbox, holderVars>>, Active' => Active
      PROVE  Accounts'
  BY <1>1 DEF Accounts, Account, Exact, AllRun, Running, Credit, Debt, Due, Claimed, Trapped, holderVars
<1>2. CASE Quiet
  BY <1>1, <1>2 DEF Quiet, Active
<1>3. CASE Fails
  BY <1>3, EndedAccount DEF Fails, Active
<1>4. ASSUME NEW p, Gets(p)
      PROVE  Accounts'
  BY <1>1, <1>4 DEF Gets, countVars, Active
<1>5. ASSUME NEW p, CallsNext(p)
      PROVE  Accounts'
  <2>1. UNCHANGED <<held, ref, holderVars>>
    BY <1>5 DEF CallsNext
  <2>2. [kind |-> "next", pid |-> p] \in Message
    BY <1>5 DEF CallsNext, Message
  <2>3. \A k \in {"inc", "dec", "signal"} : Num(mbox', k) = Num(mbox, k)
    BY <1>5, <2>2, AppendAt, CountTypes DEF CallsNext, Typed, One
  <2> QED BY <2>1, <2>3 DEF Accounts, Account, Exact, AllRun, Running, Active, Credit, Debt, Due, Claimed, Trapped, holderVars
<1> QED BY <1>2, <1>3, <1>4, <1>5, StepShapes, CopiesAccount, ArrivesAccount, CollectsAccount, NotifiesAccount,
           DiesAccount, EndsAccount, TakesAccount DEF Counts, Ignores, HandsOut

-----------------------------------------------------------------------------
(* Every way keeps the calls of next in order. *)

LEMMA CallsAppend ==
  ASSUME NEW q \in Seq(Message), NEW m \in Message, NEW p
  PROVE  Calls(Append(q, m), p) =
           IF m.kind = "next" /\ m.pid = p THEN Calls(q, p) \cup {Len(q) + 1} ELSE Calls(q, p)
BY DEF Calls, At

LEMMA CallsTail ==
  ASSUME NEW q \in Seq(Message), q # <<>>, NEW p
  PROVE  /\ \A i : i \in Calls(Tail(q), p) <=> i \in Nat \ {0} /\ i + 1 \in Calls(q, p)
         /\ 1 \in Calls(q, p) <=> Head(q).kind = "next" /\ Head(q).pid = p
         /\ \A i \in Calls(q, p) : i \in Nat \ {0}
<1>1. \A i : i \in 1..Len(Tail(q)) <=> i \in Nat \ {0} /\ i + 1 \in 1..Len(q)
  OBVIOUS
<1>2. \A i \in 1..Len(Tail(q)) : Tail(q)[i] = q[i + 1]
  OBVIOUS
<1> QED BY <1>1, <1>2 DEF Calls, At

\* A message less, or one that is not a call of p, keeps the calls of p in order.
LEMMA FitsTail ==
  ASSUME NEW q \in Seq(Message), q # <<>>, NEW waits, NEW r, NEW p, Fits(q, waits, r, p)
  PROVE  Fits(Tail(q), waits, r, p)
<1>1. \A i \in Calls(Tail(q), p) : i \in Nat /\ i + 1 \in Calls(q, p)
  BY CallsTail
<1>2. \A i, j \in Calls(Tail(q), p) : i = j
  <2> SUFFICES ASSUME NEW i \in Calls(Tail(q), p), NEW j \in Calls(Tail(q), p)
               PROVE  i = j
    OBVIOUS
  <2>1. i + 1 = j + 1
    BY <1>1 DEF Fits
  <2> QED BY <1>1, <2>1
<1> QED BY <1>1, <1>2 DEF Fits

LEMMA FitsEmpty ==
  ASSUME NEW q, NEW waits, NEW r, NEW p, Fits(q, waits, r, p)
  PROVE  Fits(<<>>, waits, r, p)
BY DEF Fits, Calls, At

LEMMA AskingStep ==
  ASSUME Typed, Asking, ~Active => mbox = <<>>, [Step]_vars
  PROVE  Asking'
<1>1. PICK q : q = mbox'
  OBVIOUS
<1>2. ASSUME \A p \in Holders : Running(p)' => Running(p)
                /\ (Fits(mbox, p \in calling, reply[p], p) => Fits(q, p \in calling', reply'[p], p))
      PROVE  Asking'
  BY <1>1, <1>2 DEF Asking, Running
<1>3. ASSUME UNCHANGED <<calling, reply>>, \A p \in Holders : Running(p)' => Running(p),
             \/ q = mbox \/ q = <<>> \/ (mbox # <<>> /\ q = Tail(mbox))
             \/ \E m \in Message : m.kind # "next" /\ q = Append(mbox, m)
      PROVE  Asking'
  <2>1. ASSUME NEW p \in Holders, Fits(mbox, p \in calling, reply[p], p)
        PROVE  Fits(q, p \in calling, reply[p], p)
    <3>1. CASE q = <<>>
      BY <2>1, <3>1, FitsEmpty
    <3>2. CASE mbox # <<>> /\ q = Tail(mbox)
      BY <2>1, <3>2, FitsTail DEF Typed
    <3>3. ASSUME NEW m \in Message, m.kind # "next", q = Append(mbox, m)
          PROVE  Fits(q, p \in calling, reply[p], p)
      <4>1. Calls(q, p) = Calls(mbox, p)
        BY <3>3, CallsAppend DEF Typed
      <4> QED BY <2>1, <4>1 DEF Fits
    <3> QED BY <1>3, <2>1, <3>1, <3>2, <3>3
  <2> QED BY <1>2, <1>3, <2>1
<1>4. CASE Quiet
  BY <1>1, <1>3, <1>4 DEF Quiet, holderVars, Running
<1>5. CASE Fails
  BY <1>1, <1>3, <1>5 DEF Fails, holderVars, streamVars, Running
<1>6. CASE Counts \/ Ignores
  <2>1. PICK k, next : Takes(k, next) /\ UNCHANGED streamVars
    BY <1>6 DEF Counts, Ignores
  <2> QED BY <1>1, <1>3, <2>1 DEF Takes, holderVars, streamVars, Running
<1>7. ASSUME NEW x, NEW g, Copies(x, g) \/ Arrives(x, g) \/ Collects(x, g) \/ Dies(x)
      PROVE  Asking'
  BY <1>1, <1>3, <1>7 DEF Copies, Arrives, Collects, Dies, streamVars, Running
<1>8. ASSUME NEW x, NEW m, Notifies(x, m)
      PROVE  Asking'
  <2>1. m.kind # "next" /\ m \in Message
    BY <1>8 DEF Notifies, Typed, Helpers
  <2> QED BY <1>1, <1>3, <1>8, <2>1 DEF Notifies, streamVars, Running
<1>9. ASSUME NEW p, NEW how, Ends(p, how)
      PROVE  Asking'
  <2>1. [kind |-> "signal", pid |-> p] \in Message /\ [kind |-> "signal", pid |-> p].kind # "next"
    BY <1>9 DEF Ends, Message
  <2>2. UNCHANGED <<calling, reply>> /\ mbox' \in {mbox, <<>>, Append(mbox, [kind |-> "signal", pid |-> p])}
    BY <1>9 DEF Ends, streamVars
  <2>3. \A r \in Holders : Running(r)' => Running(r)
    BY <1>9 DEF Ends, Typed, Running
  <2> QED BY <1>1, <1>3, <2>1, <2>2, <2>3
<1>10. ASSUME NEW p, CallsNext(p)
       PROVE  Asking'
  <2> DEFINE m == [kind |-> "next", pid |-> p]
  <2>1. m \in Message /\ m.kind = "next" /\ m.pid = p
    BY <1>10 DEF CallsNext, Message
  <2>2. Calls(mbox, p) = {} /\ reply[p] = Nothing
    BY <1>10 DEF CallsNext, Asking, Fits
  <2>3. q = (IF Active THEN Append(mbox, m) ELSE mbox) /\ calling' = calling \cup {p} /\ reply' = reply
        /\ UNCHANGED status
    BY <1>1, <1>10 DEF CallsNext, holderVars
  <2> HIDE DEF m
  <2>4. \A r \in Holders : Calls(q, r) = IF Active /\ r = p THEN {Len(mbox) + 1} ELSE Calls(mbox, r)
    <3>1. \A r \in Holders : Calls(Append(mbox, m), r) = IF r = p THEN {Len(mbox) + 1} ELSE Calls(mbox, r)
      BY <2>1, <2>2, CallsAppend DEF Typed
    <3>2. CASE Active
      BY <2>3, <3>1, <3>2
    <3>3. CASE ~Active
      BY <2>3, <3>3
    <3> QED BY <3>2, <3>3
  <2>5. ASSUME NEW r \in Holders, Fits(mbox, r \in calling, reply[r], r)
        PROVE  Fits(q, r \in calling', reply[r], r)
    <3>1. CASE r = p
      <4>1. p \in calling'
        BY <2>3
      <4>2. \A i, j \in Calls(q, p) : i = j
        BY <2>2, <2>4, <3>1
      <4> QED BY <2>2, <3>1, <4>1, <4>2 DEF Fits
    <3>2. CASE r # p
      <4>1. Calls(q, r) = Calls(mbox, r) /\ (r \in calling' <=> r \in calling)
        BY <2>3, <2>4, <3>2
      <4> QED BY <2>5, <4>1 DEF Fits
    <3> QED BY <3>1, <3>2
  <2> QED BY <1>2, <2>3, <2>5 DEF Running
<1>11. ASSUME NEW p, Gets(p)
       PROVE  Asking'
  <2>1. q = mbox /\ calling' = calling \ {p} /\ reply' = [reply EXCEPT ![p] = Nothing]
        /\ UNCHANGED status /\ p \in Holders /\ Running(p) /\ reply[p] # Nothing
    BY <1>1, <1>11 DEF Gets, countVars, holderVars
  <2>2. Calls(mbox, p) = {}
    BY <2>1 DEF Asking, Fits
  <2>3. ASSUME NEW r \in Holders, Fits(mbox, r \in calling, reply[r], r)
        PROVE  Fits(q, r \in calling', reply'[r], r)
    <3>1. CASE r = p
      BY <2>1, <2>2, <3>1 DEF Fits, Typed
    <3>2. CASE r # p
      <4>1. (r \in calling' <=> r \in calling) /\ reply'[r] = reply[r]
        BY <2>1, <3>2 DEF Typed
      <4> QED BY <2>1, <2>3, <4>1 DEF Fits
    <3> QED BY <3>1, <3>2
  <2> QED BY <1>2, <2>1, <2>3 DEF Running
<1>12. ASSUME NEW p, HandsOut(p)
       PROVE  Asking'
  <2>1. /\ q = Tail(mbox) /\ mbox # <<>> /\ Head(mbox).kind = "next" /\ Head(mbox).pid = p
        /\ calling' = calling /\ reply' = [reply EXCEPT ![p] = out + 1] /\ UNCHANGED status
    BY <1>1, <1>12 DEF HandsOut, Takes, holderVars
  <2>2. ASSUME NEW r \in Holders, Fits(mbox, r \in calling, reply[r], r)
        PROVE  Fits(q, r \in calling', reply'[r], r)
    <3>1. CASE r = p
      <4>1. 1 \in Calls(mbox, p)
        BY <2>1, CallsTail DEF Typed
      <4>2. p \in calling /\ \A i \in Calls(mbox, p) : i = 1
        BY <2>2, <3>1, <4>1 DEF Fits
      <4>3. Calls(q, p) = {}
        BY <2>1, <4>2, CallsTail DEF Typed
      <4> QED BY <2>1, <3>1, <4>2, <4>3 DEF Fits
    <3>2. CASE r # p
      <4>1. reply'[r] = reply[r]
        BY <2>1, <3>2 DEF Typed
      <4> QED BY <2>1, <2>2, <4>1, FitsTail DEF Typed
    <3> QED BY <3>1, <3>2
  <2> QED BY <1>2, <2>1, <2>2 DEF Running
<1> QED BY <1>4, <1>5, <1>6, <1>7, <1>8, <1>9, <1>10, <1>11, <1>12, StepShapes

-----------------------------------------------------------------------------
(* The invariant holds, and with it the properties. *)

LEMMA InitInvariant == Init => IInv
<1> SUFFICES ASSUME Init
             PROVE  IInv
  OBVIOUS
<1>1. PICK c \in Holders, h \in Handles :
        /\ held = "starting" /\ ref = 1 /\ mbox = <<[kind |-> "link", pid |-> c]>>
        /\ link \in {[p \in Holders |-> "none"], [p \in Holders |-> IF p = c THEN "linked" ELSE "none"]}
        /\ status = [p \in Holders |-> "running"] /\ tagged \subseteq Holders
        /\ handle = [g \in Handles |-> IF g = h THEN "live" ELSE "unborn"]
        /\ owner = [g \in Handles |-> IF g = h THEN c ELSE NoPid]
        /\ helpers = {} /\ died = {}
  BY DEF Init, Count!Init, Count!Notice
<1> DEFINE m == [kind |-> "link", pid |-> c]
<1>2. m \in Message /\ m.kind = "link" /\ mbox = <<m>> /\ <<m>> = Append(<<>>, m)
  BY <1>1 DEF Message
<1> HIDE DEF m
<1>3. Typed
  <2>1. mbox \in Seq(Message)
    BY <1>2
  <2>2. length \in Nat
    BY ValuesAssumption DEF Init
  <2> QED BY <1>1, <2>1, <2>2 DEF Init, Typed, Links, Phases
<1>4. Book
  BY <1>1, FS_EmptySet DEF Book, Fresh
<1>5. Accounts
  <2>1. \A k : At(mbox, k) = {} \/ k = "link"
    BY <1>2 DEF At
  <2>2. Num(mbox, "inc") = 0 /\ Num(mbox, "dec") = 0 /\ Num(mbox, "signal") = 0
    BY <2>1, FS_EmptySet DEF Num
  <2>3. \A k : Of(helpers, k) = {} /\ Of(died, k) = {}
    BY <1>1 DEF Of
  <2>4. Trapped = {}
    BY <1>1 DEF Trapped
  <2>5. Claimed = {h}
    BY <1>1 DEF Claimed
  <2>6. Credit = 1 /\ Debt = 1 /\ Due("inc") = 0 /\ Due("dec") = 0 /\ Cardinality(Claimed) = 1
    <3>1. Cardinality({}) = 0 /\ Cardinality({h}) = 1
      BY FS_EmptySet, FS_Singleton
    <3>2. Due("inc") = 0 /\ Due("dec") = 0
      BY <2>2, <2>3, <3>1 DEF Due
    <3> QED BY <1>1, <2>2, <2>3, <2>4, <2>5, <3>1, <3>2 DEF Credit, Debt
  <2> QED BY <1>1, <2>2, <2>6 DEF Accounts, Account, Exact
<1>6. Asking
  <2>1. \A p : Calls(mbox, p) = {}
    BY <1>2 DEF Calls, At
  <2> QED BY <2>1 DEF Asking, Fits, Init
<1> QED BY <1>1, <1>3, <1>4, <1>5, <1>6 DEF IInv, Active

LEMMA StepInvariant == IInv /\ [Step]_vars => IInv'
<1> SUFFICES ASSUME IInv, [Step]_vars
             PROVE  IInv'
  OBVIOUS
<1>1. Typed' /\ Book' /\ Accounts' /\ Asking'
  BY TypedStep, BookStep, AccountStep, AskingStep DEF IInv
<1>2. (~Active => mbox = <<>>)'
  <2>1. ~Active => mbox = <<>>
    BY DEF IInv
  <2>2. CASE UNCHANGED <<held, mbox>>
    BY <2>1, <2>2 DEF Active
  <2> QED BY <2>1, <2>2, StepShapes DEF IInv, Quiet, Fails, Counts, Ignores, Takes, Copies, Arrives, Collects,
            Notifies, Dies, Ends, CallsNext, Gets, HandsOut, countVars, Active
<1> QED BY <1>1, <1>2 DEF IInv

LEMMA Invariant == Spec => []IInv
<1> QED BY InitInvariant, StepInvariant, PTL DEF Spec

\* The variables keep their types; a value waits only for a call, and the
\* generator yields only while it has values left.
THEOREM TypeCorrect == Spec => []TypeOK
<1> QED BY Invariant, InvariantType, PTL

\* The count of a Yieldable covers its handles as that of a Held does, although
\* its notices wait while the callback runs and a signal is taken for a
\* Decrement (yieldable.ts:83-118, 152-159, 214-258).
THEOREM CountCovers == Spec => []Covered
<1> QED BY Invariant, InvariantCovered, PTL

\* While every consumer runs no reference leaks (yieldable.ts:36-60, 83-105).
THEOREM CountBalances == Spec => []Balanced
<1> QED BY Invariant, InvariantBalanced, PTL

\* The generator ends itself only when its count is 0, by a Decrement or a signal
\* that the account still has.
LEMMA StepReturns ==
  ASSUME IInv, [Step]_vars, Active, held' = "returned"
  PROVE  Count!Claims' <= Count!Overtaken + Count!LostIncs + Count!Crashes
<1>1. PICK k : Takes(k, "returned")
  BY StepShapes DEF IInv, Quiet, Fails, Counts, Ignores, Copies, Arrives, Collects, Notifies, Dies, Ends, CallsNext,
     Gets, HandsOut, Takes, countVars, Active
<1>2. k \in {"dec", "signal"} /\ ref' <= 0 /\ ref' = ref - 1 /\ mbox # <<>> /\ Head(mbox).kind = k /\ handle' = handle
  BY <1>1 DEF Takes, One, IInv, Typed, holderVars
<1>3. /\ Num(Tail(mbox), "inc") = Num(mbox, "inc") /\ Num(mbox, "dec") + Num(mbox, "signal") >= 1
  <2>1. mbox \in Seq(Message) /\ k # "inc"
    BY <1>2 DEF IInv, Typed
  <2>2. Num(Tail(mbox), "inc") = Num(mbox, "inc") - One(k = "inc") /\ Num(mbox, "inc") \in Nat
    BY <1>2, <2>1, TailAt, AtFinite
  <2>3. Num(mbox, "dec") \in Nat /\ Num(mbox, "signal") \in Nat /\ Num(mbox, k) # 0
    BY <1>2, <2>1, AtFinite, FirstCounts
  <2>4. Num(mbox, "dec") + Num(mbox, "signal") >= 1
    BY <1>2, <2>3
  <2> QED BY <2>1, <2>2, <2>4 DEF One
<1>4. Credit >= Debt
  BY DEF IInv, Accounts, Account
<1>5. Cardinality(Claimed) <= Num(Tail(mbox), "inc") + Cardinality(Of(helpers, "inc"))
                               + Cardinality(Of(died, "inc")) + Cardinality(Trapped)
  <2>1. /\ Typed /\ Book
    BY DEF IInv
  <2>2. /\ ref \in Int /\ ref <= 1 /\ Num(mbox, "inc") \in Nat /\ Num(mbox, "dec") \in Nat /\ Num(mbox, "signal") \in Nat
        /\ Cardinality(Of(helpers, "inc")) \in Nat /\ Cardinality(Of(helpers, "dec")) \in Nat
        /\ Cardinality(Of(died, "inc")) \in Nat /\ Cardinality(Trapped) \in Nat /\ Cardinality(Claimed) \in Nat
    BY <1>2, <2>1, CountTypes
  <2> QED BY <1>3, <1>4, <2>2 DEF Credit, Debt, Due
<1>6. Claimed' = Claimed
  BY <1>2 DEF Claimed
<1>7. Count!Claims' = Cardinality(Claimed)
  BY <1>6, CountCardinality DEF Count!Claims, Count!Claimed, Claimed
<1>8. Count!Overtaken + Count!LostIncs + Count!Crashes =
        Num(Tail(mbox), "inc") + Cardinality(Of(helpers, "inc")) + Cardinality(Of(died, "inc")) + Cardinality(Trapped)
  BY CountCardinality DEF Count!Overtaken, Count!LostIncs, Count!Crashes, Count!At, Count!Of, Count!Trapped, Num, At, Of,
     Trapped
<1> QED BY <1>5, <1>7, <1>8

\* The generator ends itself under a handle only where an increment was overtaken
\* or lost, or a consumer crashed (yieldable.ts:55-58, 93-105).
THEOREM ReturnIsUnclaimed == Spec => ReturnsUnclaimed
<1>1. IInv /\ [Step]_vars =>
        [Count!Active /\ held' = "returned" => Count!Claims' <= Count!Overtaken + Count!LostIncs + Count!Crashes]_Count!vars
  BY StepReturns DEF Active, Count!Active
<1> QED BY <1>1, Invariant, PTL DEF Spec, ReturnsUnclaimed, Count!ReturnsUnclaimed

-----------------------------------------------------------------------------
(* The values a Stream owes its clients, as the calls in a mailbox. *)

Rank(q, i) == Cardinality({j \in At(q, "next") : j <= i})
AtMost(n, m) == IF n <= m THEN n ELSE m

\* The value that the call of p in q will get, after o values, if there are n.
Value(q, o, n, p) ==
  IF Calls(q, p) = {} THEN Never
  ELSE LET v == o + Rank(q, CHOOSE i \in Calls(q, p) : TRUE) IN IF v <= n THEN v ELSE Never
Worth(waits, r, q, o, n, p) == IF ~waits THEN Nothing ELSE IF r # Nothing THEN r ELSE Value(q, o, n, p)
Waits(p) == p \in calling /\ Running(p)

LEMMA OwedWorth ==
  ASSUME NEW p
  PROVE  /\ Owed(p) = Worth(Waits(p), reply[p], mbox, out, length, p)
         /\ Owed(p)' = Worth(Waits(p)', reply'[p], mbox', out', length', p)
BY DEF Owed, Worth, Waits, Value, Rank, Calls, At, Place, Asked, Count!At, Running, Count!Running

LEMMA TakenIs ==
  /\ Taken = IF Active THEN AtMost(out + Num(mbox, "next"), length) ELSE 0
  /\ Taken' = IF Active' THEN AtMost(out' + Num(mbox', "next"), length') ELSE 0
BY DEF Taken, Asked, AtMost, Num, At, Count!At, Active, Count!Active

LEMMA RankType ==
  ASSUME NEW q \in Seq(Message), NEW i
  PROVE  /\ IsFiniteSet({j \in At(q, "next") : j <= i}) /\ Rank(q, i) \in Nat
         /\ i \in At(q, "next") => Rank(q, i) >= 1
<1> DEFINE S == {j \in At(q, "next") : j <= i}
<1>1. IsFiniteSet(S)
  BY AtFinite, FS_Subset
<1>2. Cardinality(S) \in Nat
  BY <1>1, FS_CardinalityType
<1>3. i \in At(q, "next") => S # {}
  <2>1. i \in At(q, "next") => i \in S
    BY DEF At
  <2> QED BY <2>1
<1>4. i \in At(q, "next") => Cardinality(S) # 0
  BY <1>1, <1>3, FS_EmptySet
<1> QED BY <1>1, <1>2, <1>4 DEF Rank

LEMMA RankAppend ==
  ASSUME NEW q \in Seq(Message), NEW m \in Message
  PROVE  /\ \A i \in At(q, "next") : Rank(Append(q, m), i) = Rank(q, i)
         /\ m.kind = "next" => Rank(Append(q, m), Len(q) + 1) = Num(q, "next") + 1
<1>1. \A i \in At(q, "next") : i \in 1..Len(q)
  BY DEF At
<1>2. ASSUME NEW i \in At(q, "next")
      PROVE  {j \in At(Append(q, m), "next") : j <= i} = {j \in At(q, "next") : j <= i}
  <2>1. ~(Len(q) + 1 <= i)
    BY <1>1
  <2> QED BY <2>1, AppendAt
<1>3. m.kind = "next" => {j \in At(Append(q, m), "next") : j <= Len(q) + 1} = At(Append(q, m), "next")
  <2>1. \A j \in At(Append(q, m), "next") : j <= Len(q) + 1
    BY <1>1, AppendAt
  <2> QED BY <2>1
<1>4. m.kind = "next" => Num(Append(q, m), "next") = Num(q, "next") + 1
  BY AppendAt DEF One
<1>5. m.kind = "next" => Rank(Append(q, m), Len(q) + 1) = Num(Append(q, m), "next")
  BY <1>3 DEF Rank, Num
<1> QED BY <1>2, <1>4, <1>5 DEF Rank

LEMMA RankTail ==
  ASSUME NEW q \in Seq(Message), q # <<>>, NEW i \in At(Tail(q), "next")
  PROVE  Rank(q, i + 1) = Rank(Tail(q), i) + One(Head(q).kind = "next")
<1> DEFINE T == {j \in At(Tail(q), "next") : j <= i}
           V == {j \in At(q, "next") : j <= i + 1}
           U == V \ {1}
<1>1. i \in Nat \ {0}
  BY TailAt
<1>2. \A j : j \in T <=> j \in Nat /\ j + 1 \in U
  <2>1. ASSUME NEW j \in T PROVE j \in Nat /\ j + 1 \in U
    BY <1>1, TailAt
  <2>2. ASSUME NEW j, j \in Nat, j + 1 \in U PROVE j \in T
    BY <1>1, <2>2, TailAt
  <2> QED BY <2>1, <2>2
<1>3. (\A j \in T \cup U : j \in Nat) /\ 0 \notin U
  BY TailAt
<1>4. IsFiniteSet(V) /\ IsFiniteSet(U) /\ Cardinality(V) \in Nat
  BY RankType, FS_Subset, FS_CardinalityType
<1>5. 1 \in V <=> Head(q).kind = "next"
  BY <1>1, TailAt
<1>6. Cardinality(T) = Cardinality(U)
  <2> HIDE DEF T, U
  <2> QED BY <1>2, <1>3, <1>4, ShiftCount
<1>7. Cardinality(V) = Cardinality(U) + One(Head(q).kind = "next")
  <2>1. CASE 1 \in V
    <3>1. Cardinality(U) = Cardinality(V) - 1
      <4> HIDE DEF V
      <4> QED BY <1>4, <2>1, FS_RemoveElement
    <3> HIDE DEF U, V
    <3> QED BY <1>4, <1>5, <2>1, <3>1 DEF One
  <2>2. CASE 1 \notin V
    <3>1. U = V
      BY <2>2
    <3> HIDE DEF U, V
    <3> QED BY <1>4, <1>5, <2>2, <3>1 DEF One
  <2> QED BY <2>1, <2>2
<1> QED BY <1>6, <1>7 DEF Rank

Once(q, p) == \A i, j \in Calls(q, p) : i = j

LEMMA ValueOf ==
  ASSUME NEW q \in Seq(Message), NEW p, Once(q, p), NEW i \in Calls(q, p), NEW o \in Nat, NEW n \in Nat
  PROVE  Value(q, o, n, p) = IF o + Rank(q, i) <= n THEN o + Rank(q, i) ELSE Never
<1>1. (CHOOSE j \in Calls(q, p) : TRUE) = i
  BY DEF Once
<1> QED BY <1>1 DEF Value

\* A message that is no call of p leaves the value of p what it is, sent or taken.
LEMMA ValueAppend ==
  ASSUME NEW q \in Seq(Message), NEW m \in Message, NEW p, ~(m.kind = "next" /\ m.pid = p), Once(q, p),
         NEW o \in Nat, NEW n \in Nat
  PROVE  Value(Append(q, m), o, n, p) = Value(q, o, n, p)
<1>1. Calls(Append(q, m), p) = Calls(q, p) /\ Append(q, m) \in Seq(Message)
  BY CallsAppend
<1>2. CASE Calls(q, p) = {}
  BY <1>1, <1>2 DEF Value
<1>3. ASSUME NEW i \in Calls(q, p)
      PROVE  Value(Append(q, m), o, n, p) = Value(q, o, n, p)
  <2>1. Rank(Append(q, m), i) = Rank(q, i)
    BY RankAppend DEF Calls
  <2>2. Once(Append(q, m), p)
    BY <1>1 DEF Once
  <2>3. Value(Append(q, m), o, n, p) =
          IF o + Rank(Append(q, m), i) <= n THEN o + Rank(Append(q, m), i) ELSE Never
    BY <1>1, <2>2, ValueOf
  <2> QED BY <2>1, <2>3, ValueOf
<1> QED BY <1>2, <1>3

LEMMA ValueTail ==
  ASSUME NEW q \in Seq(Message), q # <<>>, NEW p, ~(Head(q).kind = "next" /\ Head(q).pid = p), Once(q, p),
         NEW o \in Nat, NEW n \in Nat
  PROVE  Value(Tail(q), o + One(Head(q).kind = "next"), n, p) = Value(q, o, n, p)
<1>1. /\ \A i : i \in Calls(Tail(q), p) <=> i \in Nat \ {0} /\ i + 1 \in Calls(q, p)
      /\ 1 \notin Calls(q, p) /\ \A i \in Calls(q, p) : i \in Nat \ {0}
  BY CallsTail
<1>2. Tail(q) \in Seq(Message) /\ o + One(Head(q).kind = "next") \in Nat
  BY DEF One
<1>3. CASE Calls(Tail(q), p) = {}
  <2>1. Calls(q, p) = {}
    <3> SUFFICES ASSUME NEW j \in Calls(q, p)
                 PROVE  FALSE
      OBVIOUS
    <3>1. j - 1 \in Nat \ {0} /\ (j - 1) + 1 = j
      BY <1>1
    <3>2. j - 1 \in Calls(Tail(q), p)
      BY <1>1, <3>1
    <3> QED BY <1>3, <3>2
  <2> QED BY <1>3, <2>1 DEF Value
<1>4. ASSUME NEW i \in Calls(Tail(q), p)
      PROVE  Value(Tail(q), o + One(Head(q).kind = "next"), n, p) = Value(q, o, n, p)
  <2>1. i + 1 \in Calls(q, p) /\ i \in At(Tail(q), "next") /\ i + 1 \in At(q, "next")
    BY <1>1 DEF Calls
  <2>2. Once(Tail(q), p)
    <3> SUFFICES ASSUME NEW j \in Calls(Tail(q), p), NEW k \in Calls(Tail(q), p)
                 PROVE  j = k
      BY DEF Once
    <3>1. j \in Nat /\ k \in Nat /\ j + 1 = k + 1
      BY <1>1 DEF Once
    <3> QED BY <3>1
  <2>3. PICK b \in Nat : b = One(Head(q).kind = "next")
    BY DEF One
  <2>4. Rank(q, i + 1) = Rank(Tail(q), i) + b /\ Rank(Tail(q), i) \in Nat
    BY <1>2, <2>1, <2>3, RankTail, RankType
  <2>5. Value(q, o, n, p) = IF o + Rank(q, i + 1) <= n THEN o + Rank(q, i + 1) ELSE Never
    BY <2>1, ValueOf
  <2>6. Value(Tail(q), o + b, n, p) = IF (o + b) + Rank(Tail(q), i) <= n THEN (o + b) + Rank(Tail(q), i) ELSE Never
    <3>1. o + b \in Nat
      BY <2>3
    <3> QED BY <1>2, <2>2, <3>1, ValueOf
  <2>7. o + Rank(q, i + 1) = (o + b) + Rank(Tail(q), i)
    BY <2>4
  <2> QED BY <2>3, <2>5, <2>6, <2>7
<1> QED BY <1>3, <1>4

\* A call that is sent gets the value after those that were asked for, and the
\* first of the calls gets the next one.
LEMMA ValueAsked ==
  ASSUME NEW q \in Seq(Message), NEW m \in Message, NEW p, m.kind = "next", m.pid = p, Calls(q, p) = {},
         NEW o \in Nat, NEW n \in Nat
  PROVE  Value(Append(q, m), o, n, p) = IF o + Num(q, "next") + 1 <= n THEN o + Num(q, "next") + 1 ELSE Never
<1>1. Calls(Append(q, m), p) = {Len(q) + 1} /\ Append(q, m) \in Seq(Message)
  BY CallsAppend
<1>2. Once(Append(q, m), p) /\ Len(q) + 1 \in Calls(Append(q, m), p)
  BY <1>1 DEF Once
<1>3. Rank(Append(q, m), Len(q) + 1) = Num(q, "next") + 1 /\ Num(q, "next") \in Nat
  BY RankAppend, AtFinite
<1>4. Value(Append(q, m), o, n, p) =
        IF o + Rank(Append(q, m), Len(q) + 1) <= n THEN o + Rank(Append(q, m), Len(q) + 1) ELSE Never
  BY <1>1, <1>2, ValueOf
<1>5. o + Rank(Append(q, m), Len(q) + 1) = o + Num(q, "next") + 1
  BY <1>3
<1> QED BY <1>4, <1>5

LEMMA ValueFirst ==
  ASSUME NEW q \in Seq(Message), q # <<>>, NEW p, Head(q).kind = "next", Head(q).pid = p, Once(q, p),
         NEW o \in Nat, NEW n \in Nat, o < n
  PROVE  Value(q, o, n, p) = o + 1
<1>1. 1 \in Calls(q, p)
  BY CallsTail
<1>2. {j \in At(q, "next") : j <= 1} = {1}
  BY <1>1, TailAt DEF Calls
<1>3. Rank(q, 1) = 1
  BY <1>2, FS_Singleton DEF Rank
<1>4. Value(q, o, n, p) = IF o + Rank(q, 1) <= n THEN o + Rank(q, 1) ELSE Never
  BY <1>1, ValueOf
<1> QED BY <1>3, <1>4

\* When no value is left no call gets one, nor when the mailbox is gone.
LEMMA ValueNone ==
  ASSUME NEW q \in Seq(Message), NEW p, Once(q, p), NEW n \in Nat
  PROVE  Value(q, n, n, p) = Never
<1>1. CASE Calls(q, p) = {}
  BY <1>1 DEF Value
<1>2. ASSUME NEW i \in Calls(q, p)
      PROVE  Value(q, n, n, p) = Never
  <2>1. Rank(q, i) \in Nat /\ Rank(q, i) >= 1
    BY RankType DEF Calls
  <2>2. ~(n + Rank(q, i) <= n)
    BY <2>1
  <2> QED BY <2>2, ValueOf
<1> QED BY <1>1, <1>2

LEMMA ValueEmpty == \A o, n, p : Value(<<>>, o, n, p) = Never
BY DEF Value, Calls, At

LEMMA ValueType ==
  ASSUME NEW q \in Seq(Message), NEW p, Once(q, p), NEW o \in Nat, NEW n \in Nat
  PROVE  Value(q, o, n, p) \in Nat \cup {Never}
<1>1. CASE Calls(q, p) = {}
  BY <1>1 DEF Value
<1>2. ASSUME NEW i \in Calls(q, p)
      PROVE  Value(q, o, n, p) \in Nat \cup {Never}
  <2>1. Rank(q, i) \in Nat
    BY RankType
  <2>2. o + Rank(q, i) \in Nat
    BY <2>1
  <2> QED BY <2>2, ValueOf
<1> QED BY <1>1, <1>2

-----------------------------------------------------------------------------
(* Every step is a step of the stream, or none. *)

StreamStep == [Abstract!Step]_<<length, Taken, ~Count!Active, AllOwed>>
WaitsOnce == \A p \in Holders : Waits(p) => Once(mbox, p)

LEMMA InvariantFacts ==
  ASSUME IInv
  PROVE  /\ Typed /\ WaitsOnce /\ (~Active => mbox = <<>>)
         /\ Taken \in Nat /\ Taken <= length /\ length \in Nat
         /\ \A p \in Holders : Owed(p) \in Nat \cup {Never, Nothing}
<1>1. Typed /\ WaitsOnce /\ (~Active => mbox = <<>>)
  BY DEF IInv, Asking, Fits, WaitsOnce, Waits, Once
<1>2. /\ mbox \in Seq(Message) /\ out \in Nat /\ length \in Nat /\ Num(mbox, "next") \in Nat
      /\ reply \in [Holders -> Nat \cup {Nothing}]
  BY <1>1, AtFinite DEF Typed
<1>3. Taken \in Nat /\ Taken <= length
  BY <1>2, TakenIs DEF AtMost
<1>4. ASSUME NEW p \in Holders
      PROVE  Owed(p) \in Nat \cup {Never, Nothing}
  <2>1. Waits(p) => Value(mbox, out, length, p) \in Nat \cup {Never}
    BY <1>1, <1>2, ValueType DEF WaitsOnce
  <2>2. Owed(p) = Worth(Waits(p), reply[p], mbox, out, length, p)
    BY OwedWorth
  <2> QED BY <1>2, <2>1, <2>2 DEF Worth
<1> QED BY <1>1, <1>2, <1>3, <1>4

\* A step that changes what nobody is owed is none of the stream.
LEMMA Stutters ==
  ASSUME length' = length, Active' <=> Active, Taken' = Taken, \A p \in Holders : Owed(p)' = Owed(p)
  PROVE  StreamStep
<1>1. AllOwed' = AllOwed
  BY DEF AllOwed
<1>2. (~Count!Active)' = ~Count!Active
  BY DEF Active, Count!Active
<1> QED BY <1>1, <1>2 DEF StreamStep

\* What a holder is owed and the number taken, if the mailbox and the values
\* handed out are all that changes.
LEMMA StuttersOn ==
  ASSUME UNCHANGED <<calling, reply, status, length>>, Active' <=> Active,
         NEW q, q = mbox', NEW o, o = out',
         AtMost(o + Num(q, "next"), length) = AtMost(out + Num(mbox, "next"), length),
         \A p \in Holders : Waits(p) /\ reply[p] = Nothing => Value(q, o, length, p) = Value(mbox, out, length, p)
  PROVE  StreamStep
<1>1. Taken' = Taken
  BY TakenIs
<1>2. ASSUME NEW p \in Holders
      PROVE  Owed(p)' = Owed(p)
  <2>1. Waits(p)' <=> Waits(p)
    BY DEF Waits, Running
  <2>2. Owed(p)' = Worth(Waits(p)', reply[p], q, o, length, p)
    BY OwedWorth
  <2> QED BY <2>1, <2>2, OwedWorth DEF Worth
<1> QED BY <1>1, <1>2, Stutters

\* The generator ends: the calls that have no reply yet will get none.
LEMMA Loses ==
  ASSUME IInv, UNCHANGED <<calling, reply, length>>, Active, ~Active', mbox' = <<>>,
         \A p \in Holders : Waits(p)' <=> Waits(p)
  PROVE  StreamStep
<1> DEFINE S == {p \in Holders : Waits(p) /\ reply[p] = Nothing}
<1>1. Taken' = 0
  BY TakenIs
<1>2. ASSUME NEW p \in Holders
      PROVE  Owed(p)' = IF p \in S THEN Never ELSE Owed(p)
  <2>1. PICK o : o = out'
    OBVIOUS
  <2>2. Owed(p)' = Worth(Waits(p)', reply[p], <<>>, o, length, p)
    BY <2>1, OwedWorth
  <2>3. Value(<<>>, o, length, p) = Never
    BY ValueEmpty
  <2> QED BY <2>2, <2>3, OwedWorth DEF Worth
<1>3. ASSUME NEW p \in S
      PROVE  Owed(p) # Nothing
  <2>1. Owed(p) = Value(mbox, out, length, p)
    BY OwedWorth DEF Worth
  <2>2. Value(mbox, out, length, p) \in Nat \cup {Never}
    BY InvariantFacts, ValueType DEF Typed, WaitsOnce
  <2> QED BY <2>1, <2>2, ValuesAssumption
<1>4. AllOwed' = [p \in Holders |-> IF p \in S THEN Never ELSE AllOwed[p]]
  BY <1>2 DEF AllOwed
<1>5. S \in SUBSET {p \in Holders : AllOwed[p] # Nothing}
  BY <1>3 DEF AllOwed
<1>6. (~Count!Active)' = TRUE
  BY DEF Active, Count!Active
<1> HIDE DEF S
<1>7. Abstract!Lose
  BY <1>1, <1>4, <1>5, <1>6 DEF Abstract!Lose
<1> QED BY <1>7 DEF StreamStep, Abstract!Step

\* A step that sends no call and hands nothing out.
LEMMA StuttersSame ==
  ASSUME UNCHANGED <<calling, reply, status, length, out, mbox>>, Active' <=> Active
  PROVE  StreamStep
<1>1. PICK q, o : q = mbox' /\ o = out'
  OBVIOUS
<1>2. q = mbox /\ o = out
  BY <1>1
<1> QED BY <1>1, <1>2, StuttersOn

LEMMA StuttersSent ==
  ASSUME IInv, UNCHANGED <<calling, reply, status, length, out>>, Active' <=> Active,
         NEW m \in Message, m.kind # "next", mbox' = Append(mbox, m)
  PROVE  StreamStep
<1>1. PICK q, o : q = mbox' /\ o = out'
  OBVIOUS
<1>2. mbox \in Seq(Message) /\ out \in Nat /\ length \in Nat
  BY InvariantFacts DEF Typed
<1>3. Num(q, "next") = Num(mbox, "next")
  BY <1>1, <1>2, AppendAt, AtFinite DEF One
<1>4. \A p \in Holders : Waits(p) => Value(q, o, length, p) = Value(mbox, out, length, p)
  BY <1>1, <1>2, ValueAppend, InvariantFacts DEF WaitsOnce
<1> QED BY <1>1, <1>3, <1>4, StuttersOn

LEMMA NotifiesStream ==
  ASSUME IInv, NEW x, NEW m, Notifies(x, m)
  PROVE  StreamStep
<1>1. m \in Message /\ m.kind # "next"
  BY DEF Notifies, IInv, Typed, Helpers
<1>2. CASE Active
  BY <1>1, <1>2, StuttersSent DEF Notifies, Active, streamVars
<1>3. CASE ~Active
  BY <1>3, StuttersSame DEF Notifies, Active, streamVars
<1> QED BY <1>2, <1>3

LEMMA EndsStream ==
  ASSUME IInv, NEW p, NEW how, Ends(p, how)
  PROVE  StreamStep
<1>1. /\ p \in Holders /\ how \in {"exited", "trapped"} /\ status' = [status EXCEPT ![p] = how]
      /\ UNCHANGED streamVars /\ (p \in calling => ~Active)
      /\ status \in [Holders -> {"running", "exited", "trapped"}] /\ mbox \in Seq(Message)
  BY DEF Ends, IInv, Typed
<1>2. \A r \in Holders : Waits(r)' <=> Waits(r) /\ r # p
  BY <1>1 DEF Waits, Running, streamVars
<1>3. Active => \A r \in Holders : Waits(r)' <=> Waits(r)
  BY <1>1, <1>2 DEF Waits
<1>4. PICK q, o : q = mbox' /\ o = out'
  OBVIOUS
<1>5. CASE UNCHANGED <<held, mbox>>
  <2>1. \A r \in Holders : Owed(r)' = IF r = p THEN Nothing ELSE Owed(r)
    <3>1. ASSUME NEW r \in Holders
          PROVE  Owed(r)' = IF r = p THEN Nothing ELSE Owed(r)
      <4>1. Owed(r)' = Worth(Waits(r)', reply[r], mbox, out, length, r)
        BY <1>1, <1>5, OwedWorth DEF streamVars
      <4>2. Owed(r) = Worth(Waits(r), reply[r], mbox, out, length, r)
        BY OwedWorth
      <4> QED BY <1>2, <4>1, <4>2 DEF Worth
    <3> QED BY <3>1
  <2>2. AllOwed' = [AllOwed EXCEPT ![p] = Nothing]
    BY <2>1 DEF AllOwed
  <2>3. Taken' = Taken /\ (~Count!Active)' = ~Count!Active /\ length' = length
    BY <1>1, <1>5, TakenIs DEF Active, Count!Active, streamVars
  <2>4. Abstract!End(p)
    BY <2>2, <2>3 DEF Abstract!End
  <2> QED BY <1>1, <2>4 DEF StreamStep, Abstract!Step
<1>6. CASE held = "starting" /\ held' = "trapped" /\ mbox' = <<>>
  BY <1>1, <1>3, <1>6, Loses DEF Active, streamVars
<1>7. CASE Active /\ held' = held /\ mbox' = Append(mbox, [kind |-> "signal", pid |-> p])
  <2> DEFINE m == [kind |-> "signal", pid |-> p]
  <2>1. m \in Message /\ m.kind # "next"
    BY <1>1 DEF Message
  <2> HIDE DEF m
  <2>2. mbox' = Append(mbox, m)
    BY <1>7 DEF m
  <2>3. Num(q, "next") = Num(mbox, "next")
    BY <1>1, <1>4, <2>1, <2>2, AppendAt, AtFinite DEF One
  <2>4. Taken' = Taken
    BY <1>1, <1>4, <1>7, <2>3, TakenIs DEF Active, streamVars
  <2>5. ASSUME NEW r \in Holders
        PROVE  Owed(r)' = Owed(r)
    <3>1. Waits(r) => Value(q, out, length, r) = Value(mbox, out, length, r)
      <4>1. out \in Nat /\ length \in Nat /\ (Waits(r) => Once(mbox, r))
        BY InvariantFacts DEF Typed, WaitsOnce
      <4> QED BY <1>1, <1>4, <2>1, <2>2, <4>1, ValueAppend
    <3>2. Owed(r)' = Worth(Waits(r)', reply[r], q, out, length, r)
      BY <1>1, <1>4, OwedWorth DEF streamVars
    <3> QED BY <1>3, <1>7, <3>1, <3>2, OwedWorth DEF Worth
  <2> QED BY <1>1, <1>7, <2>4, <2>5, Stutters DEF Active, streamVars
<1> QED BY <1>5, <1>6, <1>7 DEF Ends

LEMMA CallsStream ==
  ASSUME IInv, NEW p, CallsNext(p)
  PROVE  StreamStep
<1> DEFINE m == [kind |-> "next", pid |-> p]
<1>1. /\ p \in Holders /\ Running(p) /\ p \notin calling /\ calling' = calling \cup {p}
      /\ mbox' = (IF Active THEN Append(mbox, m) ELSE mbox)
      /\ UNCHANGED <<held, status, out, length, reply>>
  BY DEF CallsNext, holderVars
<1>2. Calls(mbox, p) = {} /\ reply[p] = Nothing
  BY <1>1 DEF IInv, Asking, Fits
<1>3. /\ mbox \in Seq(Message) /\ out \in Nat /\ length \in Nat /\ Num(mbox, "next") \in Nat
      /\ WaitsOnce /\ (~Active => mbox = <<>>)
  BY InvariantFacts, AtFinite DEF Typed
<1>4. m \in Message /\ m.kind = "next" /\ m.pid = p
  BY <1>1 DEF Message
<1> HIDE DEF m
<1>5. \A r \in Holders : Waits(r)' <=> Waits(r) \/ r = p
  BY <1>1 DEF Waits, Running
<1>6. (Active' <=> Active) /\ (~Count!Active)' = ~Count!Active /\ (Count!Active <=> Active)
  BY <1>1 DEF Active, Count!Active
<1>7. PICK q : q = mbox'
  OBVIOUS
<1> DEFINE v == IF Active /\ out + Num(mbox, "next") + 1 <= length THEN out + Num(mbox, "next") + 1 ELSE Never
<1>8. Owed(p) = Nothing /\ Owed(p)' = v
  <2>1. Owed(p) = Nothing
    BY <1>1, OwedWorth DEF Worth, Waits
  <2>2. Owed(p)' = Value(q, out, length, p)
    BY <1>1, <1>2, <1>5, <1>7, OwedWorth DEF Worth
  <2>3. CASE Active
    <3>1. q = Append(mbox, m)
      BY <1>1, <1>7, <2>3
    <3>2. Value(Append(mbox, m), out, length, p) =
            IF out + Num(mbox, "next") + 1 <= length THEN out + Num(mbox, "next") + 1 ELSE Never
      BY <1>2, <1>3, <1>4, ValueAsked
    <3> QED BY <2>1, <2>2, <2>3, <3>1, <3>2
  <2>4. CASE ~Active
    BY <1>1, <1>3, <1>7, <2>1, <2>2, <2>4, ValueEmpty
  <2> QED BY <2>3, <2>4
<1>9. ASSUME NEW r \in Holders, r # p
      PROVE  Owed(r)' = Owed(r)
  <2>1. Waits(r) => Value(q, out, length, r) = Value(mbox, out, length, r)
    BY <1>1, <1>3, <1>4, <1>7, <1>9, ValueAppend DEF WaitsOnce
  <2>2. Owed(r)' = Worth(Waits(r)', reply[r], q, out, length, r)
    BY <1>1, <1>7, OwedWorth
  <2> QED BY <1>5, <1>9, <2>1, <2>2, OwedWorth DEF Worth
<1>10. AllOwed[p] = Nothing /\ AllOwed' = [AllOwed EXCEPT ![p] = v]
  <2> HIDE DEF v
  <2> QED BY <1>1, <1>8, <1>9 DEF AllOwed
<1>11. CASE Active
  <2>1. Num(q, "next") = Num(mbox, "next") + 1
    BY <1>1, <1>3, <1>4, <1>7, <1>11, AppendAt DEF One
  <2>2. PICK n \in Nat : n = out + Num(mbox, "next") /\ out + Num(q, "next") = n + 1
    BY <1>3, <2>1
  <2>3. Taken = AtMost(n, length) /\ Taken' = AtMost(n + 1, length) /\ v = IF n + 1 <= length THEN n + 1 ELSE Never
    BY <1>1, <1>6, <1>7, <1>11, <2>2, TakenIs
  <2> HIDE DEF v
  <2>4. CASE n < length
    <3>1. Taken = n /\ Taken' = n + 1 /\ v = n + 1 /\ n < length
      <4>1. n <= length /\ n + 1 <= length /\ n < length
        BY <1>3, <2>4
      <4> QED BY <2>3, <4>1 DEF AtMost
    <3>2. Abstract!Next(p)
      BY <1>1, <1>6, <1>10, <1>11, <3>1 DEF Abstract!Next, Abstract!Owe
    <3> QED BY <1>1, <3>2 DEF StreamStep, Abstract!Step
  <2>5. CASE ~(n < length)
    <3>1. Taken = length /\ Taken' = length /\ v = Never
      BY <1>3, <2>3, <2>5 DEF AtMost
    <3>2. Abstract!NextOfNone(p)
      BY <1>1, <1>6, <1>10, <3>1 DEF Abstract!NextOfNone, Abstract!Owe
    <3> QED BY <1>1, <3>2 DEF StreamStep, Abstract!Step
  <2> QED BY <2>4, <2>5
<1>12. CASE ~Active
  <2>1. Taken' = Taken /\ v = Never
    BY <1>6, <1>12, TakenIs
  <2> HIDE DEF v
  <2>2. Abstract!NextOfNone(p)
    BY <1>1, <1>6, <1>10, <1>12, <2>1 DEF Abstract!NextOfNone, Abstract!Owe
  <2> QED BY <1>1, <2>2 DEF StreamStep, Abstract!Step
<1> QED BY <1>11, <1>12

LEMMA GetsStream ==
  ASSUME IInv, NEW p, Gets(p)
  PROVE  StreamStep
<1>1. /\ p \in Holders /\ Running(p) /\ reply[p] # Nothing /\ reply \in [Holders -> Nat \cup {Nothing}]
      /\ calling' = calling \ {p} /\ reply' = [reply EXCEPT ![p] = Nothing]
      /\ UNCHANGED <<held, mbox, status, out, length>>
  BY DEF Gets, IInv, Typed, countVars, holderVars
<1>2. p \in calling
  BY <1>1 DEF IInv, Asking, Fits
<1>3. Owed(p) = reply[p] /\ Owed(p)' = Nothing
  BY <1>1, <1>2, OwedWorth DEF Worth, Waits
<1>4. Owed(p) \notin {Nothing, Never}
  BY <1>1, <1>3, ValuesAssumption
<1>5. ASSUME NEW r \in Holders, r # p
      PROVE  Owed(r)' = Owed(r)
  <2>1. (Waits(r)' <=> Waits(r)) /\ reply'[r] = reply[r]
    BY <1>1, <1>5 DEF Waits, Running
  <2>2. Owed(r)' = Worth(Waits(r)', reply'[r], mbox, out, length, r)
    BY <1>1, OwedWorth
  <2> QED BY <2>1, <2>2, OwedWorth DEF Worth
<1>6. AllOwed[p] \notin {Nothing, Never} /\ AllOwed' = [AllOwed EXCEPT ![p] = Nothing]
  BY <1>1, <1>3, <1>4, <1>5 DEF AllOwed
<1>7. Taken' = Taken /\ (~Count!Active)' = ~Count!Active
  BY <1>1, TakenIs DEF Active, Count!Active
<1>8. Abstract!Return(p)
  BY <1>1, <1>6, <1>7 DEF Abstract!Return
<1> QED BY <1>1, <1>8 DEF StreamStep, Abstract!Step

\* A message that is taken and answers no call: a notice, or a call when no
\* value is left.
LEMMA TakesStream ==
  ASSUME IInv, NEW k, NEW next, Takes(k, next), UNCHANGED streamVars,
         k = "next" => next = "running" /\ phase = "done"
  PROVE  StreamStep
<1>1. /\ held = "running" /\ mbox # <<>> /\ Head(mbox).kind = k /\ held' = next
      /\ next \in {"running", "returned", "trapped"}
      /\ mbox' = (IF next = "running" THEN Tail(mbox) ELSE <<>>)
      /\ UNCHANGED <<calling, reply, status, length, out>>
  BY DEF Takes, holderVars, streamVars
<1>2. CASE next # "running"
  <2>1. Active /\ ~Active'
    BY <1>1, <1>2 DEF Active
  <2>2. \A p \in Holders : Waits(p)' <=> Waits(p)
    BY <1>1 DEF Waits, Running
  <2> QED BY <1>1, <1>2, <2>1, <2>2, Loses
<1>3. CASE next = "running"
  <2>1. PICK q, o : q = mbox' /\ o = out'
    OBVIOUS
  <2>2. q = Tail(mbox) /\ o = out /\ (Active' <=> Active)
    BY <1>1, <1>3, <2>1 DEF Active
  <2>3. /\ mbox \in Seq(Message) /\ out \in Nat /\ length \in Nat /\ Num(mbox, "next") \in Nat /\ WaitsOnce
        /\ q \in Seq(Message) /\ Num(q, "next") \in Nat
    <3>1. /\ mbox \in Seq(Message) /\ out \in Nat /\ length \in Nat /\ WaitsOnce
      BY InvariantFacts DEF Typed
    <3>2. q \in Seq(Message)
      BY <1>1, <2>2, <3>1
    <3> QED BY <3>1, <3>2, AtFinite
  <2>4. CASE k # "next"
    <3>1. Num(q, "next") = Num(mbox, "next")
      BY <1>1, <2>2, <2>3, <2>4, TailAt DEF One
    <3>2. ASSUME NEW p \in Holders, Waits(p)
          PROVE  Value(q, o, length, p) = Value(mbox, out, length, p)
      <4>1. Value(Tail(mbox), out + One(Head(mbox).kind = "next"), length, p) = Value(mbox, out, length, p)
        BY <1>1, <2>3, <2>4, <3>2, ValueTail DEF WaitsOnce
      <4>2. out + One(Head(mbox).kind = "next") = out
        BY <1>1, <2>3, <2>4 DEF One
      <4> QED BY <2>2, <4>1, <4>2
    <3> QED BY <1>1, <2>1, <2>2, <3>1, <3>2, StuttersOn
  <2>5. CASE k = "next"
    <3>1. out = length
      BY <2>5 DEF IInv, Typed
    <3>2. AtMost(o + Num(q, "next"), length) = length /\ AtMost(out + Num(mbox, "next"), length) = length
      BY <2>2, <2>3, <3>1 DEF AtMost
    <3>3. ASSUME NEW p \in Holders, Waits(p)
          PROVE  Value(q, o, length, p) = Value(mbox, out, length, p)
      <4>1. Once(mbox, p)
        BY <2>3, <3>3 DEF WaitsOnce
      <4>2. Once(q, p)
        <5> SUFFICES ASSUME NEW i \in Calls(q, p), NEW j \in Calls(q, p)
                     PROVE  i = j
          BY DEF Once
        <5>1. i \in Nat /\ j \in Nat /\ i + 1 \in Calls(mbox, p) /\ j + 1 \in Calls(mbox, p)
          BY <1>1, <2>2, <2>3, CallsTail
        <5>2. i + 1 = j + 1
          BY <4>1, <5>1 DEF Once
        <5> QED BY <5>1, <5>2
      <4> QED BY <2>2, <2>3, <3>1, <4>1, <4>2, ValueNone
    <3> QED BY <1>1, <2>1, <2>2, <3>2, <3>3, StuttersOn
  <2> QED BY <2>4, <2>5
<1> QED BY <1>2, <1>3

\* The first call gets the value that its place gave it, and every other moves up.
LEMMA HandsOutStream ==
  ASSUME IInv, NEW p, HandsOut(p)
  PROVE  StreamStep
<1>1. /\ held = "running" /\ held' = held /\ mbox # <<>> /\ Head(mbox).kind = "next" /\ Head(mbox).pid = p
      /\ mbox' = Tail(mbox) /\ out' = out + 1 /\ reply' = [reply EXCEPT ![p] = out + 1]
      /\ phase = "yielding" /\ UNCHANGED <<calling, status, length>>
  BY DEF HandsOut, Takes, holderVars
<1>2. PICK q, o : q = mbox' /\ o = out'
  OBVIOUS
<1>3. /\ q = Tail(mbox) /\ o = out + 1 /\ mbox \in Seq(Message) /\ out \in Nat /\ length \in Nat /\ out < length
      /\ Num(mbox, "next") \in Nat /\ WaitsOnce /\ reply \in [Holders -> Nat \cup {Nothing}]
  BY <1>1, <1>2, InvariantFacts, AtFinite DEF Typed
<1>4. Taken' = Taken
  <2>1. Num(q, "next") = Num(mbox, "next") - 1
    BY <1>1, <1>3, TailAt DEF One
  <2>2. o + Num(q, "next") = out + Num(mbox, "next")
    BY <1>3, <2>1
  <2> QED BY <1>1, <1>2, <2>2, TakenIs DEF Active
<1>5. ASSUME NEW r \in Holders
      PROVE  Owed(r)' = Owed(r)
  <2>1. Waits(r)' <=> Waits(r)
    BY <1>1 DEF Waits, Running
  <2>2. Owed(r)' = Worth(Waits(r)', reply'[r], q, o, length, r)
    BY <1>1, <1>2, OwedWorth
  <2>3. Owed(r) = Worth(Waits(r), reply[r], mbox, out, length, r)
    BY OwedWorth
  <2>4. CASE ~Waits(r)
    BY <2>1, <2>2, <2>3, <2>4 DEF Worth
  <2>5. CASE Waits(r) /\ r = p
    <3>1. 1 \in Calls(mbox, p) /\ Fits(mbox, r \in calling, reply[r], r)
      BY <1>1, <1>3, <2>5, CallsTail DEF IInv, Asking, Waits
    <3>2. reply[p] = Nothing
      BY <2>5, <3>1 DEF Fits
    <3>3. Value(mbox, out, length, p) = out + 1
      BY <1>1, <1>3, <2>5, ValueFirst DEF WaitsOnce
    <3>4. reply'[p] = out + 1 /\ reply'[p] # Nothing
      BY <1>1, <1>3, <2>5, ValuesAssumption
    <3> QED BY <2>1, <2>2, <2>3, <2>5, <3>2, <3>3, <3>4 DEF Worth
  <2>6. CASE Waits(r) /\ r # p
    <3>1. reply'[r] = reply[r]
      BY <1>1, <1>3, <2>6
    <3>2. Value(Tail(mbox), out + One(Head(mbox).kind = "next"), length, r) = Value(mbox, out, length, r)
      BY <1>1, <1>3, <2>6, ValueTail DEF WaitsOnce
    <3>3. Value(q, o, length, r) = Value(mbox, out, length, r)
      BY <1>1, <1>3, <3>2 DEF One
    <3> QED BY <2>1, <2>2, <2>3, <3>1, <3>3 DEF Worth
  <2> QED BY <2>4, <2>5, <2>6
<1>6. Active' <=> Active
  BY <1>1 DEF Active
<1> QED BY <1>1, <1>4, <1>5, <1>6, Stutters

LEMMA StepStream ==
  ASSUME IInv, [Step]_vars
  PROVE  StreamStep
<1>1. CASE Quiet
  BY <1>1, StuttersSame DEF Quiet, holderVars, Active
<1>2. CASE Fails
  <2>1. \A p \in Holders : Waits(p)' <=> Waits(p)
    BY <1>2 DEF Fails, holderVars, streamVars, Waits, Running
  <2> QED BY <1>2, <2>1, Loses DEF Fails, streamVars, Active
<1>3. CASE Counts
  BY <1>3, TakesStream DEF Counts
<1>4. CASE Ignores
  BY <1>4, TakesStream DEF Ignores
<1>5. ASSUME NEW x, NEW g, Copies(x, g) \/ Arrives(x, g) \/ Collects(x, g) \/ Dies(x)
      PROVE  StreamStep
  BY <1>5, StuttersSame DEF Copies, Arrives, Collects, Dies, streamVars, Active
<1> QED BY <1>1, <1>2, <1>3, <1>4, <1>5, StepShapes, NotifiesStream, EndsStream, CallsStream, GetsStream,
           HandsOutStream DEF IInv

LEMMA InitStream == Init => Abstract!Init
<1> SUFFICES ASSUME Init
             PROVE  Abstract!Init
  OBVIOUS
<1>1. held = "starting" /\ out = 0 /\ calling = {} /\ length \in Nat /\ \A i \in DOMAIN mbox : mbox[i].kind = "link"
  BY ValuesAssumption DEF Init, Count!Init, Count!Notice
<1>2. At(mbox, "next") = {}
  BY <1>1 DEF At
<1>3. Num(mbox, "next") = 0
  BY <1>2, FS_EmptySet DEF Num
<1>4. Taken = 0
  BY <1>1, <1>3, TakenIs DEF AtMost, Active
<1>5. AllOwed = [p \in Holders |-> Nothing]
  BY <1>1 DEF AllOwed, Owed
<1>6. (~Count!Active) = FALSE
  BY <1>1 DEF Count!Active
<1> QED BY <1>1, <1>4, <1>5, <1>6 DEF Abstract!Init

\* The values go to the calls of next in the order of the calls, each to one of
\* them: the mailbox of the generator, with what it handed out, is a Stream
\* (yieldable.ts:36-60, 184-191).
THEOREM StreamKept == Spec => KeepsStream
<1>1. IInv /\ [Step]_vars => StreamStep
  BY StepStream
<1> QED BY <1>1, InitStream, Invariant, PTL DEF Spec, KeepsStream, Abstract!Spec, StreamStep
=============================================================================
