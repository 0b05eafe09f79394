------------------------ MODULE HeldLifetime_proofs ------------------------
(***************************************************************************)
(* The account of HeldLifetime holds for any number of holders and handles.*)
(***************************************************************************)
EXTENDS HeldLifetime, FiniteSetTheorems, TLAPS

-----------------------------------------------------------------------------
(* Counting the notices of a kind in a mailbox and in a set of helpers. *)

\* A mailbox holds finitely many notices of each kind, a natural number.
LEMMA AtFinite ==
  ASSUME NEW q \in Seq(Notices), NEW k
  PROVE  IsFiniteSet(At(q, k)) /\ Cardinality(At(q, k)) \in Nat
<1>1. IsFiniteSet(1..Len(q))
  BY FS_Interval
<1>2. At(q, k) \subseteq 1..Len(q)
  BY DEF At
<1> QED BY <1>1, <1>2, FS_Subset, FS_CardinalityType

\* Sending a notice adds one to the count of its kind and to no other.
LEMMA AppendCount ==
  ASSUME NEW q \in Seq(Notices), NEW n \in Notices, NEW k
  PROVE  Cardinality(At(Append(q, n), k))
           = Cardinality(At(q, k)) + (IF n.kind = k THEN 1 ELSE 0)
<1>1. IsFiniteSet(At(q, k)) /\ Cardinality(At(q, k)) \in Nat
  BY AtFinite
<1>2. Len(q) + 1 \notin At(q, k)
  BY DEF At
<1>3. At(Append(q, n), k) = IF n.kind = k THEN At(q, k) \cup {Len(q) + 1} ELSE At(q, k)
  BY DEF At
<1>4. Cardinality(At(q, k) \cup {Len(q) + 1}) = Cardinality(At(q, k)) + 1
  BY <1>1, <1>2, FS_AddElement
<1> QED BY <1>1, <1>3, <1>4

\* Receiving a notice takes one from the count of its kind and from no other.
LEMMA TailCount ==
  ASSUME NEW q \in Seq(Notices), q # <<>>, NEW k
  PROVE  Cardinality(At(Tail(q), k))
           = Cardinality(At(q, k)) - (IF Head(q).kind = k THEN 1 ELSE 0)
<1> DEFINE T == At(Tail(q), k)
           U == {i \in 2..Len(q) : q[i].kind = k}
           f == [i \in T |-> i + 1]
<1>1. IsFiniteSet(T) /\ Cardinality(T) \in Nat
  <2>1. Tail(q) \in Seq(Notices)
    OBVIOUS
  <2> QED BY <2>1, AtFinite
<1>2. f \in Bijection(T, U)
  <2>1. \A i \in T : i \in 1..Len(Tail(q)) /\ Tail(q)[i] = q[i + 1] /\ i + 1 \in U
    BY DEF At
  <2>2. ASSUME NEW j \in U PROVE j - 1 \in T /\ f[j - 1] = j
    <3>1. j - 1 \in 1..Len(Tail(q)) /\ Tail(q)[j - 1] = q[j]
      OBVIOUS
    <3> QED BY <3>1 DEF At
  <2>3. \A i, j \in T : f[i] = f[j] => i = j
    BY <2>1
  <2> QED BY <2>1, <2>2, <2>3 DEF Bijection, Injection, Surjection, IsInjective
<1>3. IsFiniteSet(U) /\ Cardinality(U) = Cardinality(T)
  BY <1>1, <1>2, FS_Bijection DEF ExistsBijection
<1>4. At(q, k) = IF Head(q).kind = k THEN U \cup {1} ELSE U
  BY DEF At
<1>5. Cardinality(U \cup {1}) = Cardinality(U) + 1
  BY <1>3, 1 \notin U, FS_AddElement
<1> HIDE DEF T, U
<1>6. Cardinality(At(q, k)) = Cardinality(T) + (IF Head(q).kind = k THEN 1 ELSE 0)
  BY <1>1, <1>3, <1>4, <1>5
<1> QED BY <1>1, <1>6 DEF T

\* The helpers of a kind are finitely many when the helpers are.
LEMMA OfFinite ==
  ASSUME NEW S, IsFiniteSet(S), NEW k
  PROVE  IsFiniteSet(Of(S, k)) /\ Cardinality(Of(S, k)) \in Nat
BY FS_Subset, FS_CardinalityType DEF Of

\* A helper that joins the helpers is one more of its kind and of no other.
LEMMA AddCount ==
  ASSUME NEW S, IsFiniteSet(S), NEW x, x \notin S, NEW k
  PROVE  Cardinality(Of(S \cup {x}, k)) = Cardinality(Of(S, k)) + (IF x.kind = k THEN 1 ELSE 0)
<1>1. Of(S \cup {x}, k) = IF x.kind = k THEN Of(S, k) \cup {x} ELSE Of(S, k)
  BY DEF Of
<1>2. Cardinality(Of(S, k) \cup {x}) = Cardinality(Of(S, k)) + 1
  <2>1. x \notin Of(S, k)
    BY DEF Of
  <2> QED BY <2>1, OfFinite, FS_AddElement
<1> QED BY <1>1, <1>2, OfFinite

\* A helper that leaves the helpers is one less of its kind and of no other.
LEMMA RemoveCount ==
  ASSUME NEW S, IsFiniteSet(S), NEW x \in S, NEW k
  PROVE  Cardinality(Of(S \ {x}, k)) = Cardinality(Of(S, k)) - (IF x.kind = k THEN 1 ELSE 0)
<1>1. Of(S \ {x}, k) = IF x.kind = k THEN Of(S, k) \ {x} ELSE Of(S, k)
  BY DEF Of
<1>2. x.kind = k => Cardinality(Of(S, k) \ {x}) = Cardinality(Of(S, k)) - 1
  <2>1. x.kind = k => x \in Of(S, k)
    BY DEF Of
  <2> QED BY <2>1, OfFinite, FS_RemoveElement
<1> QED BY <1>1, <1>2, OfFinite

-----------------------------------------------------------------------------
(* Type correctness. *)

\* What a spawn adds to the helpers is a helper.
LEMMA HelperType ==
  ASSUME NEW kind \in {"inc", "dec", "link"}, NEW p \in Holders, NEW h \in Handles
  PROVE  Helper(kind, p, h) \in Helpers
<1>1. (kind # "dec" /\ p \in tagged) \in BOOLEAN
  OBVIOUS
<1> QED BY <1>1 DEF Helper, Helpers

\* What a helper or a holder sends is a notice, and it is appended or lost.
LEMMA NoticeType ==
  /\ \A x \in Helpers : NoticeOf(x) \in Notices
  /\ \A p \in Holders : \A kind \in {"dec", "signal"} : Notice(kind, p) \in Notices
BY DEF Helpers, Notices, Notice, NoticeOf

LEMMA DeliverType ==
  ASSUME mbox \in Seq(Notices), NEW n \in Notices, Deliver(n)
  PROVE  mbox' \in Seq(Notices)
BY DEF Deliver

\* The owner of a live handle is a holder, for one handle at a time.
LEMMA DropType ==
  ASSUME TypeOK, NEW h \in Handles, Drop(h)
  PROVE  /\ handle' \in [Handles -> {"unborn", "sent", "live", "gone"}]
         /\ owner' \in [Handles -> Holders \cup {NoPid}]
         /\ \A g \in Handles : handle'[g] = "live" => owner'[g] \in Holders
BY DEF TypeOK, Drop

LEMMA InitType ==
  ASSUME Init
  PROVE  TypeOK
<1>1. PICK c \in Holders, h \in Handles :
        /\ mbox = <<Notice("link", c)>>
        /\ handle = [g \in Handles |-> IF g = h THEN "live" ELSE "unborn"]
        /\ owner = [g \in Handles |-> IF g = h THEN c ELSE NoPid]
  BY DEF Init
<1>2. mbox \in Seq(Notices)
  BY <1>1 DEF Notices, Notice
<1>3. link \in [Holders -> {"none", "asked", "linked"}]
  BY DEF Init
<1> QED BY <1>1, <1>2, <1>3 DEF Init, TypeOK

LEMMA TypeStep ==
  ASSUME TypeOK, [Next]_vars
  PROVE  TypeOK'
<1> USE DEF TypeOK
<1>1. ASSUME NEW p \in Holders, NEW q \in Holders, NEW h \in Handles, NEW g \in Handles,
             Serialize(p, h, q, g)
      PROVE  TypeOK'
  BY <1>1, HelperType DEF Serialize
<1>2. ASSUME NEW p \in Holders, NEW h \in Handles, Deserialize(p, h)
      PROVE  TypeOK'
  BY <1>2, HelperType DEF Deserialize
<1>3. ASSUME NEW p \in Holders, NEW h \in Handles, Free(p, h)
      PROVE  TypeOK'
  <2>1. mbox' \in Seq(Notices)
    BY <1>3, NoticeType, DeliverType DEF Free
  <2> QED BY <1>3, <2>1, DropType DEF Free
<1>4. ASSUME NEW p \in Holders, NEW h \in Handles, Finalize(p, h)
      PROVE  TypeOK'
  BY <1>4, HelperType, DropType DEF Finalize
<1>5. ASSUME NEW p \in Holders, Exit(p)
      PROVE  TypeOK'
  BY <1>5 DEF Exit, End
<1>6. ASSUME NEW p \in Holders, Trap(p)
      PROVE  TypeOK'
  <2>1. mbox' \in Seq(Notices)
    <3>1. Notice("signal", p) \in Notices
      BY NoticeType
    <3>2. mbox' \in {mbox, <<>>, Append(mbox, Notice("signal", p))}
      BY <1>6 DEF Trap, Deliver
    <3>3. mbox \in Seq(Notices) /\ <<>> \in Seq(Notices)
      OBVIOUS
    <3>4. Append(mbox, Notice("signal", p)) \in Seq(Notices)
      BY <3>1, <3>3
    <3> QED BY <3>2, <3>3, <3>4
  <2> QED BY <1>6, <2>1 DEF Trap, End
<1>7. ASSUME NEW p \in Holders, DieWithHeld(p)
      PROVE  TypeOK'
  BY <1>7 DEF DieWithHeld, End
<1>8. ASSUME NEW p \in Holders, AckLink(p)
      PROVE  TypeOK'
  BY <1>8 DEF AckLink, holderVars
<1>9. ASSUME NEW x \in helpers, HelperSend(x)
      PROVE  TypeOK'
  <2>1. mbox' \in Seq(Notices)
    BY <1>9, NoticeType, DeliverType DEF HelperSend
  <2> QED BY <1>9, <2>1 DEF HelperSend
<1>10. ASSUME NEW x \in helpers, HelperDies(x)
       PROVE  TypeOK'
  BY <1>10 DEF HelperDies
<1>11. CASE HeldNext
  <2>1. ASSUME NEW next \in {"running", "returned", "trapped"}, NEW k, Receive(k), Continue(next)
        PROVE  mbox' \in Seq(Notices) /\ held' \in {"starting", "running", "returned", "trapped"}
    BY <2>1 DEF Receive, Continue
  <2>2. CASE Start
    BY <2>2 DEF Start, holderVars
  <2>3. CASE HandleIncrement
    BY <2>1, <2>3 DEF HandleIncrement, Continue, holderVars
  <2>4. CASE HandleDecrement
    BY <2>1, <2>4 DEF HandleDecrement, DecrementUntil, Continue, holderVars
  <2>5. CASE HandleLink
    BY <2>1, <2>5 DEF HandleLink, Continue, holderVars
  <2>6. CASE HandleSignal
    BY <2>1, <2>6 DEF HandleSignal, Continue, holderVars
  <2> QED BY <1>11, <2>2, <2>3, <2>4, <2>5, <2>6 DEF HeldNext
<1>12. CASE UNCHANGED vars
  BY <1>12 DEF vars
<1> QED BY <1>1, <1>2, <1>3, <1>4, <1>5, <1>6, <1>7, <1>8, <1>9, <1>10, <1>11, <1>12
        DEF Next, HolderNext, HostNext

\* Every variable keeps its type, and a live handle has an owner.
THEOREM TypeCorrect == Spec => []TypeOK
<1>1. Init => TypeOK
  BY InitType
<1>2. TypeOK /\ [Next]_vars => TypeOK'
  BY TypeStep
<1> QED BY <1>1, <1>2, PTL DEF Spec

-----------------------------------------------------------------------------
(* The inductive invariant.  The account alone is not inductive: a helper    *)
(* must be counted once, and a signal must stand for a holder that trapped.  *)

\* A handle has an Increment helper only once it is born, a finalizer's only
\* once it is gone; so a helper that is spawned was never there before.
Fresh ==
  \A x \in helpers \cup died :
    /\ x.kind = "inc" => handle[x.of] # "unborn" /\ (x \in helpers => x \notin died)
    /\ x.kind = "dec" => handle[x.of] = "gone"

SignalsTrue == \A i \in DOMAIN mbox : mbox[i].kind = "signal" => mbox[i].pid \in Trapped

Book == IsFiniteSet(helpers) /\ IsFiniteSet(died) /\ Fresh /\ SignalsTrue

Account == Covered /\ Balanced

IInv == TypeOK /\ Book /\ Account

\* All the counts are natural numbers.
LEMMA CountTypes ==
  ASSUME TypeOK, Book, NEW k
  PROVE  /\ InMbox(k) \in Nat
         /\ Cardinality(Of(helpers, k)) \in Nat
         /\ LostIncs \in Nat
         /\ IsFiniteSet(Claimed) /\ Claims \in Nat
         /\ IsFiniteSet(Trapped) /\ Crashes \in Nat
<1>1. InMbox(k) \in Nat
  BY AtFinite DEF TypeOK, InMbox
<1>2. Cardinality(Of(helpers, k)) \in Nat /\ LostIncs \in Nat
  BY OfFinite DEF Book, LostIncs
<1>3. IsFiniteSet(Claimed) /\ IsFiniteSet(Trapped)
  BY FiniteAssumption, FS_Subset DEF Claimed, Trapped
<1> QED BY <1>1, <1>2, <1>3, FS_CardinalityType DEF Claims, Crashes

\* Dropping a handle takes one from the claims.
LEMMA DropCount ==
  ASSUME TypeOK, Book, NEW p, NEW h \in Handles, Holds(p, h), Drop(h)
  PROVE  Claims' = Claims - 1
<1>1. Claimed' = Claimed \ {h} /\ h \in Claimed
  BY DEF TypeOK, Claimed, Holds, Drop
<1> QED BY <1>1, CountTypes, FS_RemoveElement DEF Claims

\* When a holder ends it drops its claims, and a trap is one more crash.
LEMMA EndCount ==
  ASSUME TypeOK, Book, NEW p \in Holders, NEW how \in {"exited", "trapped"}, End(p, how)
  PROVE  /\ Claims' \in Nat /\ Claims' <= Claims
         /\ Crashes' = Crashes + (IF how = "trapped" THEN 1 ELSE 0)
         /\ ~AllRunning'
<1>1. Claimed' \subseteq Claimed
  BY DEF TypeOK, Claimed, End
<1>2. Claims' \in Nat /\ Claims' <= Claims
  BY <1>1, CountTypes, FS_Subset, FS_CardinalityType DEF Claims
<1>3. Trapped' = (IF how = "trapped" THEN Trapped \cup {p} ELSE Trapped) /\ p \notin Trapped
  BY DEF TypeOK, Trapped, End, Running
<1>4. Cardinality(Trapped \cup {p}) = Cardinality(Trapped) + 1
  BY <1>3, CountTypes, FS_AddElement
<1>5. Crashes' = Crashes + (IF how = "trapped" THEN 1 ELSE 0)
  BY <1>3, <1>4, CountTypes DEF Crashes
<1>6. ~AllRunning'
  BY DEF TypeOK, AllRunning, Running, End
<1> QED BY <1>2, <1>5, <1>6

\* A notice delivered to an active process is counted in its mailbox.
LEMMA DeliverCount ==
  ASSUME TypeOK, NEW n \in Notices, Active, Deliver(n), NEW k
  PROVE  InMbox(k)' = InMbox(k) + (IF n.kind = k THEN 1 ELSE 0)
<1>1. mbox' = Append(mbox, n) /\ mbox \in Seq(Notices)
  BY DEF TypeOK, Deliver
<1> QED BY <1>1, AppendCount DEF InMbox

\* A notice that was handled by a process that goes on left its mailbox.
LEMMA ReceiveCount ==
  ASSUME TypeOK, Book, NEW n, Receive(n), Continue("running"), NEW k
  PROVE  /\ InMbox(k)' = InMbox(k) - (IF n = k THEN 1 ELSE 0)
         /\ Underway(k)' = Underway(k) - (IF n = k THEN 1 ELSE 0)
         /\ LostIncs' = LostIncs /\ Crashes' = Crashes /\ Claims' = Claims
         /\ AllRunning' = AllRunning
<1>1. mbox' = Tail(mbox) /\ mbox \in Seq(Notices) /\ mbox # <<>> /\ Head(mbox).kind = n
  BY DEF TypeOK, Receive, Continue
<1>2. InMbox(k)' = InMbox(k) - (IF n = k THEN 1 ELSE 0)
  BY <1>1, TailCount DEF InMbox
<1>3. UNCHANGED <<status, handle, helpers, died>>
  BY DEF Continue, holderVars
<1>4. LostIncs' = LostIncs /\ Crashes' = Crashes /\ Claims' = Claims /\ AllRunning' = AllRunning
  BY <1>3 DEF LostIncs, Crashes, Claims, Claimed, Trapped, AllRunning, Running
<1>5. Underway(k)' = InMbox(k)' + Cardinality(Of(helpers, k))
  BY <1>3 DEF Underway
<1> QED BY <1>2, <1>4, <1>5, CountTypes DEF Underway

-----------------------------------------------------------------------------
(* The book is kept by every step. *)

\* A mailbox that gains or loses a notice keeps its signals true, because a
\* process that trapped never comes back.
LEMMA SignalsStep ==
  ASSUME TypeOK, SignalsTrue, Trapped \subseteq Trapped',
         \/ mbox' = mbox
         \/ mbox' = <<>>
         \/ mbox' = Tail(mbox) /\ mbox # <<>>
         \/ \E n \in Notices : mbox' = Append(mbox, n) /\ (n.kind = "signal" => n.pid \in Trapped')
  PROVE  SignalsTrue'
<1>1. CASE mbox' \in {mbox, <<>>}
  BY <1>1 DEF SignalsTrue
<1>2. CASE mbox' = Tail(mbox) /\ mbox # <<>>
  <2>1. \A i \in DOMAIN Tail(mbox) : i + 1 \in DOMAIN mbox /\ Tail(mbox)[i] = mbox[i + 1]
    BY <1>2 DEF TypeOK
  <2> QED BY <1>2, <2>1 DEF SignalsTrue
<1>3. ASSUME NEW n \in Notices, mbox' = Append(mbox, n), n.kind = "signal" => n.pid \in Trapped'
      PROVE  SignalsTrue'
  <2>1. \A i \in DOMAIN Append(mbox, n) :
          Append(mbox, n)[i] = n \/ (i \in DOMAIN mbox /\ Append(mbox, n)[i] = mbox[i])
    BY DEF TypeOK
  <2> QED BY <1>3, <2>1 DEF SignalsTrue
<1> QED BY <1>1, <1>2, <1>3

\* How a step may change the helpers, the holders and the mailbox.
LEMMA StepShape ==
  ASSUME TypeOK, [Next]_vars
  PROVE  /\ \/ UNCHANGED <<helpers, died>>
            \/ \E x : helpers' = helpers \cup {x} /\ died' = died
            \/ \E x : helpers' = helpers \ {x} /\ died' \in {died, died \cup {x}}
         /\ \/ UNCHANGED status
            \/ \E p \in Holders : \E how : Running(p) /\ status' = [status EXCEPT ![p] = how]
<1> USE DEF Next, HolderNext, HostNext, HeldNext, vars, holderVars, Serialize, Deserialize, Free, Finalize,
            Exit, Trap, End, HelperSend, HelperDies, AckLink, DieWithHeld, Start, HandleIncrement,
            HandleDecrement, DecrementUntil, HandleLink, HandleSignal, Continue
<1>1. \/ UNCHANGED <<helpers, died>>
      \/ \E x : helpers' = helpers \cup {x} /\ died' = died
      \/ \E x : helpers' = helpers \ {x} /\ died' \in {died, died \cup {x}}
  OBVIOUS
<1>2. UNCHANGED status \/ \E p \in Holders : \E how : Running(p) /\ status' = [status EXCEPT ![p] = how]
  OBVIOUS
<1> QED BY <1>1, <1>2

\* What a step may do to the mailbox.
LEMMA MailboxShape ==
  ASSUME TypeOK, [Next]_vars
  PROVE  \/ mbox' = mbox
         \/ mbox' = <<>>
         \/ mbox' = Tail(mbox) /\ mbox # <<>>
         \/ \E n \in Notices : mbox' = Append(mbox, n) /\ (n.kind = "signal" => n.pid \in Trapped')
<1>1. ASSUME NEW p \in Holders, NEW h \in Handles, Free(p, h)
      PROVE  mbox' = mbox \/ \E n \in Notices : mbox' = Append(mbox, n) /\ n.kind # "signal"
  BY <1>1 DEF Free, Deliver, Notice, Notices
<1>2. ASSUME NEW x \in helpers, HelperSend(x)
      PROVE  mbox' = mbox \/ \E n \in Notices : mbox' = Append(mbox, n) /\ n.kind # "signal"
  BY <1>2 DEF TypeOK, HelperSend, Deliver, Notice, NoticeOf, Notices, Helpers
<1>3. ASSUME NEW p \in Holders, Trap(p)
      PROVE  \/ mbox' = mbox \/ mbox' = <<>>
             \/ \E n \in Notices : mbox' = Append(mbox, n) /\ n.pid \in Trapped'
  <2>1. p \in Trapped'
    BY <1>3 DEF TypeOK, Trap, End, Trapped
  <2>2. Notice("signal", p) \in Notices /\ Notice("signal", p).pid = p
    BY DEF Notice, Notices
  <2>3. mbox' = mbox \/ mbox' = <<>> \/ mbox' = Append(mbox, Notice("signal", p))
    BY <1>3 DEF Trap, Deliver
  <2> QED BY <2>1, <2>2, <2>3
<1>4. CASE HeldNext
  BY <1>4 DEF HeldNext, Start, HandleIncrement, HandleDecrement, DecrementUntil, HandleLink, HandleSignal, Receive, Continue
<1>5. CASE UNCHANGED mbox
  BY <1>5
<1> QED BY <1>1, <1>2, <1>3, <1>4, <1>5
        DEF Next, HolderNext, HostNext, vars, Serialize, Deserialize, Finalize, Exit, HelperDies, AckLink, DieWithHeld

LEMMA FreshStep ==
  ASSUME TypeOK, Fresh, [Next]_vars
  PROVE  Fresh'
<1>1. ASSUME NEW p \in Holders, NEW h \in Handles, NEW q \in Holders, NEW g \in Handles,
             Serialize(p, h, q, g)
      PROVE  Fresh'
  <2>1. Helper("inc", p, g).kind = "inc" /\ Helper("inc", p, g).of = g
    BY DEF Helper
  <2>2. handle[g] = "unborn" /\ handle'[g] # "unborn" /\ \A f \in Handles : f # g => handle'[f] = handle[f]
    BY <1>1 DEF TypeOK, Serialize
  <2> QED BY <1>1, <2>1, <2>2 DEF TypeOK, Serialize, Fresh, Helpers
<1>2. ASSUME NEW p \in Holders, NEW h \in Handles, Deserialize(p, h)
      PROVE  Fresh'
  <2>1. Helper("link", p, h).kind = "link"
    BY DEF Helper
  <2>2. handle[h] = "sent" /\ handle' = [handle EXCEPT ![h] = "live"]
    BY <1>2 DEF TypeOK, Deserialize
  <2> QED BY <1>2, <2>1, <2>2 DEF TypeOK, Deserialize, Fresh, Helpers
<1>3. ASSUME NEW p \in Holders, NEW h \in Handles, Free(p, h)
      PROVE  Fresh'
  BY <1>3 DEF TypeOK, Free, Drop, Fresh, Helpers
<1>4. ASSUME NEW p \in Holders, NEW h \in Handles, Finalize(p, h)
      PROVE  Fresh'
  <2>1. Helper("dec", p, h).kind = "dec" /\ Helper("dec", p, h).of = h
    BY DEF Helper
  <2>2. handle' = [handle EXCEPT ![h] = "gone"]
    BY <1>4 DEF Finalize, Drop
  <2> QED BY <1>4, <2>1, <2>2 DEF TypeOK, Finalize, Fresh, Helpers
<1>5. ASSUME NEW p \in Holders, NEW how, End(p, how)
      PROVE  Fresh'
  <2>1. \A h \in Handles : handle'[h] \in {handle[h], "gone"} /\ (handle[h] = "gone" => handle'[h] = "gone")
    BY <1>5 DEF End
  <2> QED BY <1>5, <2>1 DEF TypeOK, End, Fresh, Helpers
<1>6. ASSUME NEW x \in helpers, HelperSend(x) \/ HelperDies(x)
      PROVE  Fresh'
  BY <1>6 DEF HelperSend, HelperDies, Fresh
<1>7. CASE UNCHANGED <<handle, helpers, died>>
  BY <1>7 DEF Fresh
<1> QED BY <1>1, <1>2, <1>3, <1>4, <1>5, <1>6, <1>7
        DEF Next, HolderNext, HostNext, HeldNext, vars, holderVars, Exit, Trap, AckLink, DieWithHeld, Start,
            HandleIncrement, HandleDecrement, DecrementUntil, HandleLink, HandleSignal, Continue

LEMMA BookStep ==
  ASSUME TypeOK, Book, [Next]_vars
  PROVE  Book'
<1>1. IsFiniteSet(helpers') /\ IsFiniteSet(died')
  BY StepShape, FS_AddElement, FS_RemoveElement DEF Book
<1>2. Trapped \subseteq Trapped'
  BY StepShape DEF TypeOK, Trapped, Running
<1>3. SignalsTrue'
  BY <1>2, MailboxShape, SignalsStep DEF Book
<1> QED BY <1>1, <1>3, FreshStep DEF Book

-----------------------------------------------------------------------------
(* The account is kept by every step. *)

\* Spawning a helper that was never there before adds one of its kind.
LEMMA SpawnCount ==
  ASSUME TypeOK, Book, NEW x, x \notin helpers, helpers' = helpers \cup {x}, mbox' = mbox, died' = died,
         status' = status, NEW k
  PROVE  /\ InMbox(k)' = InMbox(k)
         /\ Underway(k)' = Underway(k) + (IF x.kind = k THEN 1 ELSE 0)
         /\ LostIncs' = LostIncs /\ Crashes' = Crashes /\ AllRunning' = AllRunning
<1>1. Cardinality(Of(helpers', k)) = Cardinality(Of(helpers, k)) + (IF x.kind = k THEN 1 ELSE 0)
  BY AddCount DEF Book
<1>2. InMbox(k)' = InMbox(k) /\ Underway(k)' = InMbox(k) + Cardinality(Of(helpers', k))
  BY DEF InMbox, Underway
<1>3. LostIncs' = LostIncs /\ Crashes' = Crashes /\ AllRunning' = AllRunning
  BY DEF LostIncs, Crashes, Trapped, AllRunning, Running
<1> QED BY <1>1, <1>2, <1>3, CountTypes DEF Underway

LEMMA SerializeAccount ==
  ASSUME IInv, NEW p \in Holders, NEW h \in Handles, NEW q \in Holders, NEW g \in Handles,
         Serialize(p, h, q, g)
  PROVE  Account'
<1> USE DEF IInv
<1> DEFINE x == Helper("inc", p, g)
<1>1. x.kind = "inc" /\ x \notin helpers
  BY DEF Serialize, Helper, Book, Fresh
<1>2. helpers' = helpers \cup {x} /\ UNCHANGED <<held, ref, mbox, status, died>>
  BY DEF Serialize
<1>3. /\ Underway("inc")' = Underway("inc") + 1 /\ Underway("dec")' = Underway("dec")
      /\ InMbox("signal")' = InMbox("signal")
      /\ LostIncs' = LostIncs /\ Crashes' = Crashes /\ AllRunning' = AllRunning
  <2> HIDE DEF x
  <2>1. ASSUME NEW k
        PROVE  /\ Underway(k)' = Underway(k) + (IF x.kind = k THEN 1 ELSE 0)
               /\ InMbox(k)' = InMbox(k)
               /\ LostIncs' = LostIncs /\ Crashes' = Crashes /\ AllRunning' = AllRunning
    BY <1>1, <1>2, SpawnCount
  <2> QED BY <1>1, <2>1, CountTypes DEF Underway
<1>4. IF Running(q) THEN Claimed' = Claimed \cup {g} /\ g \notin Claimed ELSE Claimed' = Claimed
  BY DEF TypeOK, Serialize, Claimed
<1>5. Cardinality(Claimed \cup {g}) = IF g \in Claimed THEN Claims ELSE Claims + 1
  BY CountTypes, FS_AddElement DEF Claims
<1>6. Claims' = (IF Running(q) THEN Claims + 1 ELSE Claims) /\ Claims \in Nat
  BY <1>4, <1>5, CountTypes DEF Claims
<1>7. /\ Underway("inc") \in Nat /\ Underway("dec") \in Nat /\ InMbox("signal") \in Nat
      /\ LostIncs \in Nat /\ Crashes \in Nat
  BY CountTypes DEF Underway
<1>8. AllRunning => Claims' = Claims + 1
  BY <1>6 DEF AllRunning
<1>9. Claims \in Nat /\ Claims' \in Nat /\ Claims' <= Claims + 1
  BY <1>6
<1>10. Covered'
  <2>1. Active' => ref + Underway("inc") + LostIncs + Crashes >= Claims + Underway("dec") + InMbox("signal")
    BY <1>2 DEF Account, Covered, Active
  <2>2. ref \in Int /\ ref' = ref
    BY <1>2 DEF TypeOK
  <2> QED BY <1>3, <1>7, <1>9, <2>1, <2>2 DEF Covered
<1>11. Balanced'
  BY <1>2, <1>3, <1>7, <1>8, <1>9 DEF TypeOK, Account, Balanced, Active
<1> QED BY <1>10, <1>11 DEF Account

LEMMA DeserializeAccount ==
  ASSUME IInv, NEW p \in Holders, NEW h \in Handles, Deserialize(p, h)
  PROVE  Account'
<1> USE DEF IInv
<1> DEFINE x == Helper("link", p, h)
<1>1. x.kind = "link"
  BY DEF Helper
<1>2. helpers' = helpers \cup {x} /\ UNCHANGED <<held, ref, mbox, status, died>>
  BY DEF Deserialize
<1>3. Of(helpers', "inc") = Of(helpers, "inc") /\ Of(helpers', "dec") = Of(helpers, "dec")
  BY <1>1, <1>2 DEF Of
<1>4. Claimed' = Claimed
  BY DEF TypeOK, Deserialize, Claimed
<1> QED BY <1>2, <1>3, <1>4
        DEF Account, Covered, Balanced, Active, Underway, InMbox, LostIncs, Crashes, Trapped, Claims, AllRunning, Running

LEMMA FreeAccount ==
  ASSUME IInv, NEW p \in Holders, NEW h \in Handles, Free(p, h)
  PROVE  Account'
<1> USE DEF IInv
<1>1. CASE ~Active
  BY <1>1 DEF Free, Account, Covered, Balanced, Active
<1>2. CASE Active
  <2>1. Claims' = Claims - 1
    BY DropCount DEF Free
  <2>2. Notice("dec", p) \in Notices /\ Notice("dec", p).kind = "dec"
    BY DEF Notice, Notices
  <2>3. /\ InMbox("dec")' = InMbox("dec") + 1 /\ InMbox("inc")' = InMbox("inc")
        /\ InMbox("signal")' = InMbox("signal")
    BY <1>2, <2>2, DeliverCount, CountTypes DEF Free
  <2>4. UNCHANGED <<held, ref, status, helpers, died>>
    BY DEF Free
  <2>5. LostIncs' = LostIncs /\ Crashes' = Crashes /\ AllRunning' = AllRunning
    BY <2>4 DEF LostIncs, Crashes, Trapped, AllRunning, Running
  <2>6. /\ Underway("inc")' = Underway("inc")
        /\ Underway("dec")' = Underway("dec") + 1
    BY <2>3, <2>4, CountTypes DEF Underway
  <2>7. /\ Underway("inc") \in Nat /\ Underway("dec") \in Nat /\ InMbox("signal") \in Nat
        /\ LostIncs \in Nat /\ Crashes \in Nat /\ Claims \in Nat
    BY CountTypes DEF Underway
  <2> QED BY <2>1, <2>3, <2>4, <2>5, <2>6, <2>7 DEF TypeOK, Account, Covered, Balanced, Active
<1> QED BY <1>1, <1>2

LEMMA FinalizeAccount ==
  ASSUME IInv, NEW p \in Holders, NEW h \in Handles, Finalize(p, h)
  PROVE  Account'
<1> USE DEF IInv
<1> DEFINE x == Helper("dec", p, h)
<1>1. x.kind = "dec" /\ x \notin helpers
  BY DEF Finalize, Holds, Helper, Book, Fresh
<1>2. helpers' = helpers \cup {x} /\ UNCHANGED <<held, ref, mbox, status, died>>
  BY DEF Finalize
<1>3. /\ Underway("inc")' = Underway("inc") /\ Underway("dec")' = Underway("dec") + 1
      /\ InMbox("signal")' = InMbox("signal")
      /\ LostIncs' = LostIncs /\ Crashes' = Crashes /\ AllRunning' = AllRunning
  <2> HIDE DEF x
  <2>1. ASSUME NEW k
        PROVE  /\ Underway(k)' = Underway(k) + (IF x.kind = k THEN 1 ELSE 0)
               /\ InMbox(k)' = InMbox(k)
               /\ LostIncs' = LostIncs /\ Crashes' = Crashes /\ AllRunning' = AllRunning
    BY <1>1, <1>2, SpawnCount
  <2> QED BY <1>1, <2>1, CountTypes DEF Underway
<1>4. Claims' = Claims - 1
  BY DropCount DEF Finalize
<1>5. /\ Underway("inc") \in Nat /\ Underway("dec") \in Nat /\ InMbox("signal") \in Nat
      /\ LostIncs \in Nat /\ Crashes \in Nat /\ Claims \in Nat
  BY CountTypes DEF Underway
<1> QED BY <1>2, <1>3, <1>4, <1>5 DEF TypeOK, Account, Covered, Balanced, Active

\* A holder that ends: nothing changes but its claims, the crashes and,
\* perhaps, one signal.
LEMMA EndAccount ==
  ASSUME IInv, NEW p \in Holders, NEW how \in {"exited", "trapped"}, End(p, how),
         held' \in {held, "trapped"},
         \/ mbox' = mbox \/ ~Active'
         \/ how = "trapped" /\ Active /\ Deliver(Notice("signal", p))
  PROVE  Account'
<1> USE DEF IInv
<1>1. Claims' \in Nat /\ Claims' <= Claims /\ ~AllRunning'
  BY EndCount
<1>2. Crashes' = Crashes + (IF how = "trapped" THEN 1 ELSE 0)
  BY EndCount
<1>3. UNCHANGED <<ref, helpers, died>>
  BY DEF End
<1>4. LostIncs' = LostIncs
  BY <1>3 DEF LostIncs
<1>5. /\ InMbox("inc") \in Nat /\ InMbox("dec") \in Nat /\ InMbox("signal") \in Nat
      /\ Cardinality(Of(helpers, "inc")) \in Nat /\ Cardinality(Of(helpers, "dec")) \in Nat
      /\ LostIncs \in Nat /\ Crashes \in Nat /\ Claims \in Nat /\ ref \in Int
  BY CountTypes DEF TypeOK
<1>6. Active' => Active
  BY DEF Active
<1>7. /\ Underway("inc")' = InMbox("inc")' + Cardinality(Of(helpers, "inc"))
      /\ Underway("dec")' = InMbox("dec")' + Cardinality(Of(helpers, "dec"))
  BY <1>3 DEF Underway
<1>8. CASE ~Active'
  BY <1>8 DEF Account, Covered, Balanced
<1>9. CASE mbox' = mbox /\ Active'
  <2>1. \A k : InMbox(k)' = InMbox(k)
    BY <1>9 DEF InMbox
  <2>2. ref + Underway("inc") + LostIncs + Crashes >= Claims + Underway("dec") + InMbox("signal")
    BY <1>6, <1>9 DEF Account, Covered
  <2> QED BY <1>1, <1>2, <1>3, <1>4, <1>5, <1>7, <2>1, <2>2 DEF Account, Covered, Balanced, Underway
<1>10. CASE how = "trapped" /\ Active /\ Deliver(Notice("signal", p))
  <2>1. Notice("signal", p) \in Notices /\ Notice("signal", p).kind = "signal"
    BY DEF Notice, Notices
  <2>2. /\ InMbox("signal")' = InMbox("signal") + 1
        /\ InMbox("inc")' = InMbox("inc") /\ InMbox("dec")' = InMbox("dec")
    BY <1>5, <1>10, <2>1, DeliverCount
  <2>3. ref + Underway("inc") + LostIncs + Crashes >= Claims + Underway("dec") + InMbox("signal")
    BY <1>10 DEF Account, Covered
  <2> QED BY <1>1, <1>2, <1>3, <1>4, <1>5, <1>7, <1>10, <2>2, <2>3 DEF Account, Covered, Balanced, Underway
<1> QED BY <1>8, <1>9, <1>10

LEMMA HelperSendAccount ==
  ASSUME IInv, NEW x \in helpers, HelperSend(x)
  PROVE  Account'
<1> USE DEF IInv
<1>1. CASE ~Active
  BY <1>1 DEF HelperSend, Account, Covered, Balanced, Active
<1>2. CASE Active
  <2>1. NoticeOf(x) \in Notices /\ NoticeOf(x).kind = x.kind
    BY DEF TypeOK, Helpers, Notices, Notice, NoticeOf
  <2>2. NoticeOf(x).kind \in {"inc", "dec", "link"}
    BY <2>1 DEF TypeOK, Helpers
  <2>3. ASSUME NEW k
        PROVE  Underway(k)' = Underway(k)
    <3>1. InMbox(k)' = InMbox(k) + (IF x.kind = k THEN 1 ELSE 0)
      BY <1>2, <2>1, DeliverCount DEF HelperSend
    <3>2. Cardinality(Of(helpers', k)) = Cardinality(Of(helpers, k)) - (IF x.kind = k THEN 1 ELSE 0)
      BY RemoveCount DEF HelperSend, Book
    <3> QED BY <3>1, <3>2, CountTypes DEF Underway
  <2>4. InMbox("signal")' = InMbox("signal")
    BY <1>2, <2>1, <2>2, DeliverCount, CountTypes DEF HelperSend
  <2>5. UNCHANGED <<held, ref, status, handle, died>>
    BY DEF HelperSend
  <2> QED BY <2>3, <2>4, <2>5
          DEF Account, Covered, Balanced, Active, LostIncs, Crashes, Trapped, Claims, Claimed, AllRunning, Running
<1> QED BY <1>1, <1>2

\* A helper that dies moves from the increments under way to the lost ones.
LEMMA HelperDiesAccount ==
  ASSUME IInv, NEW x \in helpers, HelperDies(x)
  PROVE  Account'
<1> USE DEF IInv
<1>1. UNCHANGED <<held, ref, mbox, status, handle>> /\ helpers' = helpers \ {x} /\ died' = died \cup {x}
  BY DEF HelperDies
<1>2. ~AllRunning'
  <2>1. x.by \in Holders /\ status'[x.by] = "trapped"
    BY <1>1 DEF HelperDies, TypeOK, Helpers
  <2> QED BY <2>1 DEF AllRunning, Running
<1>3. /\ InMbox("inc") \in Nat /\ InMbox("dec") \in Nat /\ InMbox("signal") \in Nat
      /\ Cardinality(Of(helpers, "inc")) \in Nat /\ Cardinality(Of(helpers, "dec")) \in Nat
      /\ LostIncs \in Nat /\ Crashes \in Nat /\ Claims \in Nat /\ ref \in Int
  BY CountTypes DEF TypeOK
<1>4. ASSUME NEW k
      PROVE  /\ InMbox(k)' = InMbox(k)
             /\ Cardinality(Of(helpers', k)) = Cardinality(Of(helpers, k)) - (IF x.kind = k THEN 1 ELSE 0)
  BY <1>1, RemoveCount DEF Book, InMbox
<1>5. LostIncs' = LostIncs + (IF x.kind = "inc" THEN 1 ELSE 0)
  <2>1. CASE x.kind = "inc"
    <3>1. x \notin died /\ IsFiniteSet(died)
      BY <2>1 DEF Book, Fresh
    <3> QED BY <1>1, <2>1, <3>1, AddCount DEF LostIncs
  <2>2. CASE x.kind # "inc"
    <3>1. Of(died', "inc") = Of(died, "inc")
      BY <1>1, <2>2 DEF Of
    <3> QED BY <1>3, <2>2, <3>1 DEF LostIncs
  <2> QED BY <2>1, <2>2
<1>6. Crashes' = Crashes /\ Claims' = Claims /\ Active' = Active
  BY <1>1 DEF Crashes, Trapped, Claims, Claimed, Active
<1> QED BY <1>1, <1>2, <1>3, <1>4, <1>5, <1>6 DEF Account, Covered, Balanced, Underway

\* The Held process handles a notice; a notice from a holder that ended traps.
LEMMA HandleAccount ==
  ASSUME IInv, HandleIncrement \/ HandleDecrement \/ HandleLink \/ HandleSignal
  PROVE  Account'
<1> USE DEF IInv
<1>1. CASE held' # "running"
  BY <1>1 DEF HandleIncrement, HandleDecrement, DecrementUntil, HandleLink, HandleSignal, Continue, Account, Covered, Balanced, Active
<1>2. CASE held' = "running"
  <2>1. PICK n \in {"inc", "dec", "link", "signal"} :
          /\ Receive(n) /\ Continue("running")
          /\ ref' = ref + (IF n = "inc" THEN 1 ELSE IF n = "link" THEN 0 ELSE -1)
    BY <1>2 DEF TypeOK, HandleIncrement, HandleDecrement, DecrementUntil, HandleLink, HandleSignal, Continue
  <2>2. ASSUME NEW k
        PROVE  /\ InMbox(k)' = InMbox(k) - (IF n = k THEN 1 ELSE 0)
               /\ Underway(k)' = Underway(k) - (IF n = k THEN 1 ELSE 0)
    BY <2>1, ReceiveCount
  <2>3. LostIncs' = LostIncs /\ Crashes' = Crashes /\ Claims' = Claims /\ AllRunning' = AllRunning
    BY <2>1, ReceiveCount
  <2>4. AllRunning => n # "signal"
    <3>1. n = "signal" => mbox[1].pid \in Trapped
      BY <2>1 DEF TypeOK, Receive, Book, SignalsTrue
    <3> QED BY <3>1 DEF AllRunning, Running, Trapped
  <2>5. /\ Underway("inc") \in Nat /\ Underway("dec") \in Nat /\ InMbox("signal") \in Nat
        /\ LostIncs \in Nat /\ Crashes \in Nat /\ Claims \in Nat /\ ref \in Int
    BY CountTypes DEF TypeOK, Underway
  <2>6. Active
    BY <2>1 DEF Receive, Active
  <2>7. /\ Underway("inc")' = Underway("inc") - (IF n = "inc" THEN 1 ELSE 0)
        /\ Underway("dec")' = Underway("dec") - (IF n = "dec" THEN 1 ELSE 0)
        /\ InMbox("signal")' = InMbox("signal") - (IF n = "signal" THEN 1 ELSE 0)
    BY <2>2
  <2>8. Covered'
    <3>1. ref + Underway("inc") + LostIncs + Crashes >= Claims + Underway("dec") + InMbox("signal")
      BY <2>6 DEF Account, Covered
    <3> QED BY <2>1, <2>3, <2>5, <2>7, <3>1 DEF Covered
  <2>9. Balanced'
    <3>1. AllRunning => ref + Underway("inc") = Claims + Underway("dec")
      BY <2>6 DEF Account, Balanced
    <3> QED BY <2>1, <2>3, <2>4, <2>5, <2>7, <3>1 DEF Balanced
  <2> QED BY <2>8, <2>9 DEF Account
<1> QED BY <1>1, <1>2

\* A step that leaves the counted state alone leaves the account alone.
LEMMA OtherAccount ==
  ASSUME IInv, UNCHANGED <<ref, mbox, status, handle, helpers, died>>, Active' = Active
  PROVE  Account'
BY DEF IInv, Account, Covered, Balanced, Underway, InMbox, LostIncs, Crashes, Trapped, Claims, Claimed,
       AllRunning, Running

LEMMA AccountStep ==
  ASSUME IInv, [Next]_vars
  PROVE  Account'
<1>1. ASSUME NEW p \in Holders, Exit(p)
      PROVE  Account'
  BY <1>1, EndAccount DEF Exit
<1>2. ASSUME NEW p \in Holders, Trap(p)
      PROVE  Account'
  <2>1. held' \in {held, "trapped"}
    BY <1>2 DEF Trap
  <2>2. \/ mbox' = mbox \/ ~Active'
        \/ Active /\ Deliver(Notice("signal", p))
    BY <1>2 DEF Trap, Deliver, Active
  <2> QED BY <1>2, <2>1, <2>2, EndAccount DEF Trap
<1>3. ASSUME NEW p \in Holders, DieWithHeld(p)
      PROVE  Account'
  BY <1>3, EndAccount DEF DieWithHeld
<1>4. ASSUME NEW p \in Holders, AckLink(p)
      PROVE  Account'
  BY <1>4, OtherAccount DEF AckLink, holderVars, Active
<1>5. CASE Start
  BY <1>5, OtherAccount DEF Start, holderVars, Active
<1>6. CASE UNCHANGED vars
  BY <1>6, OtherAccount DEF vars, Active
<1> QED BY <1>1, <1>2, <1>3, <1>4, <1>5, <1>6, SerializeAccount, DeserializeAccount, FreeAccount,
           FinalizeAccount, HelperSendAccount, HelperDiesAccount, HandleAccount
        DEF Next, HolderNext, HostNext, HeldNext

-----------------------------------------------------------------------------
(* The theorems. *)

LEMMA InitIInv ==
  ASSUME Init
  PROVE  IInv
<1>1. PICK c \in Holders, h \in Handles :
        /\ held = "starting" /\ ref = 1 /\ helpers = {} /\ died = {}
        /\ mbox = <<Notice("link", c)>>
        /\ status = [p \in Holders |-> "running"]
        /\ handle = [g \in Handles |-> IF g = h THEN "live" ELSE "unborn"]
  BY DEF Init
<1>2. \A i \in DOMAIN mbox : mbox[i].kind = "link"
  BY <1>1 DEF Notice
<1>3. At(mbox, "inc") = {} /\ At(mbox, "dec") = {} /\ At(mbox, "signal") = {}
  BY <1>2 DEF At
<1>4. Of(helpers, "inc") = {} /\ Of(helpers, "dec") = {} /\ Of(died, "inc") = {} /\ Trapped = {}
  BY <1>1 DEF Of, Trapped
<1>5. Claimed = {h}
  BY <1>1 DEF Claimed
<1>6. /\ Underway("inc") = 0 /\ Underway("dec") = 0 /\ InMbox("signal") = 0
      /\ LostIncs = 0 /\ Crashes = 0 /\ Claims = 1
  BY <1>3, <1>4, <1>5, FS_EmptySet, FS_Singleton DEF Underway, InMbox, LostIncs, Crashes, Claims
<1>7. Account
  BY <1>1, <1>6 DEF Account, Covered, Balanced
<1>8. Book
  BY <1>1, <1>2, FS_EmptySet DEF Book, Fresh, SignalsTrue
<1> QED BY <1>7, <1>8, InitType DEF IInv

\* The inductive invariant holds in every reachable state.
THEOREM Invariant == Spec => []IInv
<1>1. Init => IInv
  BY InitIInv
<1>2. IInv /\ [Next]_vars => IInv'
  BY TypeStep, BookStep, AccountStep DEF IInv
<1> QED BY <1>1, <1>2, PTL DEF Spec

\* The counter, with the increments on their way, those that crashes killed and
\* one for each crash, covers every handle: for any number of holders and of
\* handles and any order of arrival.
THEOREM CountCovers == Spec => []Covered
<1>1. IInv => Covered
  BY DEF IInv, Account
<1> QED BY <1>1, Invariant, PTL

\* Among holders that all run, no reference is ever lost or counted twice.
THEOREM CountBalances == Spec => []Balanced
<1>1. IInv => Balanced
  BY DEF IInv, Account
<1> QED BY <1>1, Invariant, PTL

\* The Held process returns only on a Decrement that leaves no reference, so the
\* handles that survive it are matched by overtaken or lost increments or by
\* crashes.
THEOREM ReturnIsUnclaimed == Spec => ReturnsUnclaimed
<1>1. ASSUME IInv, [Next]_vars, Active, held' = "returned"
      PROVE  Claims' <= Overtaken + LostIncs + Crashes
  <2>1. HandleDecrement /\ Receive("dec") /\ ref - 1 <= 0 /\ UNCHANGED handle
    BY <1>1 DEF IInv, TypeOK, Active, Next, HolderNext, HostNext, HeldNext, vars, holderVars, Serialize,
                Deserialize, Free, Finalize, Exit, Trap, End, HelperSend, HelperDies, AckLink, DieWithHeld,
                Start, HandleIncrement, HandleDecrement, DecrementUntil, HandleLink, HandleSignal, Continue
  <2>2. Claims' = Claims
    BY <2>1 DEF Claims, Claimed
  <2>3. mbox \in Seq(Notices) /\ mbox # <<>> /\ Head(mbox).kind = "dec"
    BY <1>1, <2>1 DEF IInv, TypeOK, Receive
  <2>4. /\ Cardinality(At(Tail(mbox), "inc")) = InMbox("inc")
        /\ Cardinality(At(Tail(mbox), "dec")) = InMbox("dec") - 1
        /\ Cardinality(At(Tail(mbox), "dec")) \in Nat
    <3>1. InMbox("inc") \in Nat
      BY <1>1, CountTypes DEF IInv
    <3>2. Tail(mbox) \in Seq(Notices)
      BY <2>3
    <3>3. ASSUME NEW k
          PROVE  /\ Cardinality(At(Tail(mbox), k)) = InMbox(k) - (IF "dec" = k THEN 1 ELSE 0)
                 /\ Cardinality(At(Tail(mbox), k)) \in Nat
      BY <2>3, <3>2, TailCount, AtFinite DEF InMbox
    <3> QED BY <3>1, <3>3
  <2>5. ref + Underway("inc") + LostIncs + Crashes >= Claims + Underway("dec") + InMbox("signal")
    BY <1>1 DEF IInv, Account, Covered
  <2>6. /\ InMbox("inc") \in Nat /\ InMbox("dec") \in Nat /\ InMbox("signal") \in Nat
        /\ Cardinality(Of(helpers, "inc")) \in Nat /\ Cardinality(Of(helpers, "dec")) \in Nat
        /\ LostIncs \in Nat /\ Crashes \in Nat /\ Claims \in Nat /\ ref \in Int
    BY <1>1, CountTypes DEF IInv, TypeOK
  <2> QED BY <2>1, <2>2, <2>4, <2>5, <2>6 DEF Overtaken, Underway
<1>2. IInv /\ [Next]_vars =>
        [Active /\ held' = "returned" => Claims' <= Overtaken + LostIncs + Crashes]_vars
  BY <1>1
<1> QED BY <1>2, Invariant, PTL DEF Spec, ReturnsUnclaimed
=============================================================================
