---------------------------- MODULE Maybe_proofs ----------------------------
(***************************************************************************)
(* Proofs about Maybe: its state keeps its type, and chains of Maybes over *)
(* Held processes implement Promises.                                      *)
(*                                                                         *)
(* A Maybe goes through a few stages, told by the callbacks that are left  *)
(* in its mailbox: its constructor puts them in front of every get.        *)
(***************************************************************************)
EXTENDS Maybe, TLAPS

\* A mailbox holds gets only, or those behind one or two callbacks.
Gets(q) == \A i \in DOMAIN q : q[i].kind = "get"
First(q, a) == q # <<>> /\ Head(q) = a /\ Gets(Tail(q))
FirstTwo(q, a, b) == q # <<>> /\ Head(q) = a /\ First(Tail(q), b)

Empty == Execute("empty", Pending)
Chain == Execute("then", Pending)
Nil == Resolution("Resolved", Null)

\* What is left to do when the empty callback of the constructor is taken.
Left(m, q) ==
  \/ parent[m] = Nobody /\ \E r \in Explicit : First(q, Execute("settle", r))
  \/ parent[m] \in Maybes /\ First(q, Chain)

Made(m) ==
  \/ parent[m] = Nobody /\ First(mbox[m], Execute("program", Pending))
  \/ mbox[m] # <<>> /\ Head(mbox[m]) = Empty /\ Left(m, Tail(mbox[m]))

\* The callback of a then was called with an outcome.
Called(m) == parent[m] = Nobody \/ given[m] \in Resolutions

Idle(m) == held[m] \in {"ready", "ended"} /\ sandbox[m] = "none" /\ ctx[m] = Pending
Runs(m, callbacks) == held[m] = "waiting" /\ sandbox[m] \in callbacks

\* The stages of a Maybe.
Nowhere(m) ==
  /\ held[m] = "unborn" /\ sandbox[m] = "none" /\ mbox[m] = <<>> /\ parent[m] = Nobody
  /\ ctx[m] = Pending /\ value[m] = Pending /\ given[m] = Pending
Starts(m) == Idle(m) /\ value[m] = Pending /\ given[m] = Pending /\ Made(m)
Empties(m) ==
  Runs(m, {"empty"}) /\ ctx[m] = Pending /\ value[m] = Pending /\ given[m] = Pending /\ Left(m, mbox[m])
Follows(m) == Idle(m) /\ value[m] = Nil /\ given[m] = Pending /\ Left(m, mbox[m])
Sets(m) == Runs(m, {"settle"}) /\ ctx[m] \in Explicit /\ value[m] = Nil /\ parent[m] = Nobody /\ Gets(mbox[m])
Asks(m) ==
  /\ Runs(m, {"then", "asking"}) /\ ctx[m] = Pending /\ value[m] = Nil /\ given[m] = Pending
  /\ parent[m] \in Maybes /\ Gets(mbox[m])
Calls(m) ==
  /\ Runs(m, {"program"}) /\ ctx[m] \in Explicit \cup {Pending} /\ value[m] \in {Pending, Nil}
  /\ Called(m) /\ Gets(mbox[m])
Over(m) == Idle(m) /\ value[m] \in Explicit \cup {Nil} /\ Called(m) /\ Gets(mbox[m])
Stuck(m) ==
  /\ held[m] = "stuck" /\ sandbox[m] = "none" /\ ctx[m] \in Explicit \cup {Pending} /\ value[m] \in {Pending, Nil}
  /\ Gets(mbox[m])

Stage(m) ==
  Nowhere(m) \/ Starts(m) \/ Empties(m) \/ Follows(m) \/ Sets(m) \/ Asks(m) \/ Calls(m) \/ Over(m) \/ Stuck(m)

\* A get is of a client that waits for this Maybe and for no other reply, or of a
\* then of it.
Asking(m) ==
  \A i \in DOMAIN mbox[m] : mbox[m][i].kind = "get" =>
    /\ mbox[m][i].from \in Clients \cup Maybes
    /\ mbox[m][i].from \in Clients =>
         /\ reading[mbox[m][i].from] = m /\ reply[mbox[m][i].from] = Pending
         /\ \A j \in DOMAIN mbox[m] :
              mbox[m][j].kind = "get" /\ mbox[m][j].from = mbox[m][i].from => j = i
    /\ mbox[m][i].from \in Maybes => parent[mbox[m][i].from] = m

Family(m) == parent[m] \in Maybes => Born(parent[m])

\* Who has a reply waits for it.
Awaited == \A c \in Clients : reply[c] # Pending => reading[c] # Nobody

IInv == TypeOK /\ Awaited /\ \A m \in Maybes : Stage(m) /\ Asking(m) /\ Family(m)
-----------------------------------------------------------------------------
(* The kinds of events and resolutions.                                      *)

LEMMA EventKinds ==
  /\ Empty \in Events /\ Empty.kind = "empty" /\ Empty.to = Pending
  /\ Chain \in Events /\ Chain.kind = "then" /\ Chain.to = Pending
  /\ LET p == Execute("program", Pending) IN p \in Events /\ p.kind = "program" /\ p.to = Pending
  /\ \A r \in Explicit : LET e == Execute("settle", r) IN e \in Events /\ e.kind = "settle" /\ e.to = r
  /\ \A w \in Clients \cup Maybes :
       Get(w) \in Events /\ Get(w).kind = "get" /\ Get(w).kind \notin Callbacks /\ Get(w).from = w
  /\ Callbacks = {"empty", "program", "settle", "then"}
BY DEF Empty, Chain, Execute, Get, Events, Callbacks, Maybeness, Explicit

LEMMA ResolutionKinds ==
  /\ Pending # Nil /\ Pending # Unborn /\ Pending \notin Resolutions /\ Unborn \notin Maybeness
  /\ Nil \in Resolutions /\ Nil \notin Explicit /\ Nil.value = Null /\ Pending.value = Null
  /\ Explicit \subseteq Resolutions /\ \A r \in Explicit : r.value # Null /\ r # Pending
  /\ Maybeness = Resolutions \cup {Pending} /\ Nil = Unpack(Pending)
  /\ \A r \in Explicit : Unpack(r) = r
BY DEF Pending, Nil, Unborn, Resolution, Resolutions, Maybeness, Explicit, Unpack

LEMMA MaybeKinds == Nobody \notin Maybes /\ \A w \in Clients : w \notin Maybes
BY MaxAssumption, ClientsAssumption DEF Maybes

-----------------------------------------------------------------------------
(* What a mailbox tells of its Maybe.                                        *)

Works(q) == \E i \in DOMAIN q : q[i].kind \in Callbacks
Script(q) ==
  LET S == {i \in DOMAIN q : q[i].kind = "settle"} IN
  IF S # {} THEN q[CHOOSE i \in S : TRUE].to ELSE Pending

LEMMA MailOfGets ==
  ASSUME NEW q, Gets(q)
  PROVE  ~Works(q) /\ Script(q) = Pending
<1>1. \A i \in DOMAIN q : q[i].kind # "settle" /\ q[i].kind \notin Callbacks
  BY DEF Gets, Callbacks
<1> QED BY <1>1 DEF Works, Script

LEMMA MailOfFirst ==
  ASSUME NEW q \in Seq(Events), NEW a, First(q, a), a.kind \in Callbacks
  PROVE  Works(q) /\ Script(q) = IF a.kind = "settle" THEN a.to ELSE Pending
<1>1. /\ 1 \in DOMAIN q /\ q[1] = a
      /\ \A i \in DOMAIN q : i # 1 => q[i].kind = "get"
  <2>1. q # <<>> /\ Len(q) \in Nat \ {0} /\ DOMAIN q = 1..Len(q) /\ q[1] = a
    BY DEF First
  <2>2. ASSUME NEW i \in DOMAIN q, i # 1 PROVE q[i].kind = "get"
    <3>1. i - 1 \in DOMAIN Tail(q) /\ q[i] = Tail(q)[i - 1]
      BY <2>1, <2>2
    <3> QED BY <3>1 DEF First, Gets
  <2> QED BY <2>1, <2>2
<1>2. {i \in DOMAIN q : q[i].kind = "settle"} = IF a.kind = "settle" THEN {1} ELSE {}
  BY <1>1
<1> QED BY <1>1, <1>2 DEF Works, Script

LEMMA MailOfTwo ==
  ASSUME NEW q \in Seq(Events), NEW a, q # <<>>, Head(q) = Empty, First(Tail(q), a), a.kind \in Callbacks
  PROVE  Works(q) /\ Script(q) = IF a.kind = "settle" THEN a.to ELSE Pending
<1>1. /\ 1 \in DOMAIN q /\ 2 \in DOMAIN q /\ q[1] = Empty /\ q[2] = a
      /\ \A i \in DOMAIN q : i # 1 /\ i # 2 => q[i].kind = "get"
  <2>1. /\ Len(q) \in Nat /\ Len(q) > 1 /\ DOMAIN q = 1..Len(q) /\ q[1] = Empty /\ q[2] = a
        /\ Tail(q) \in Seq(Events) /\ Len(Tail(q)) = Len(q) - 1
    BY DEF First
  <2>2. ASSUME NEW i \in DOMAIN q, i # 1, i # 2 PROVE q[i].kind = "get"
    <3>1. i - 2 \in DOMAIN Tail(Tail(q)) /\ q[i] = Tail(Tail(q))[i - 2]
      BY <2>1, <2>2
    <3> QED BY <3>1 DEF First, Gets
  <2> QED BY <2>1, <2>2
<1>2. {i \in DOMAIN q : q[i].kind = "settle"} = IF a.kind = "settle" THEN {2} ELSE {}
  BY <1>1, EventKinds
<1> QED BY <1>1, <1>2, EventKinds DEF Works, Script

\* A get that comes tells nothing.
LEMMA MailOfGet ==
  ASSUME NEW q \in Seq(Events), NEW e \in Events, e.kind = "get"
  PROVE  /\ Works(Append(q, e)) <=> Works(q)
         /\ Script(Append(q, e)) = Script(q)
         /\ Gets(q) => Gets(Append(q, e))
         /\ q # <<>> => Append(q, e) # <<>> /\ Head(Append(q, e)) = Head(q) /\ Tail(Append(q, e)) = Append(Tail(q), e)
         /\ Tail(q) \in Seq(Events) \/ q = <<>>
<1> DEFINE p == Append(q, e)
<1>1. /\ DOMAIN p = DOMAIN q \cup {Len(q) + 1} /\ p[Len(q) + 1] = e
      /\ \A i \in DOMAIN q : p[i] = q[i]
  OBVIOUS
<1>2. q # <<>> => p # <<>> /\ Head(p) = Head(q) /\ Tail(p) = Append(Tail(q), e) /\ Tail(q) \in Seq(Events)
  OBVIOUS
<1> HIDE DEF p
<1>3. {i \in DOMAIN p : p[i].kind = "settle"} = {i \in DOMAIN q : q[i].kind = "settle"}
  BY <1>1
<1>4. Script(p) = Script(q)
  <2> DEFINE S == {i \in DOMAIN q : q[i].kind = "settle"}
  <2>1. S # {} => (CHOOSE i \in S : TRUE) \in DOMAIN q
    <3>1. S # {} => (CHOOSE i \in S : TRUE) \in S
      OBVIOUS
    <3> QED BY <3>1
  <2> HIDE DEF S
  <2>2. S # {} => p[CHOOSE i \in S : TRUE] = q[CHOOSE i \in S : TRUE]
    BY <1>1, <2>1
  <2>3. Script(p) = (IF S # {} THEN p[CHOOSE i \in S : TRUE].to ELSE Pending)
    <3>1. S = {i \in DOMAIN p : p[i].kind = "settle"}
      BY <1>3 DEF S
    <3> QED BY <3>1 DEF Script
  <2>4. Script(q) = (IF S # {} THEN q[CHOOSE i \in S : TRUE].to ELSE Pending)
    BY DEF Script, S
  <2> QED BY <2>2, <2>3, <2>4
<1>5. (Works(p) <=> Works(q)) /\ (Gets(q) => Gets(p))
  BY <1>1 DEF Works, Gets, Callbacks
<1> QED BY <1>2, <1>4, <1>5 DEF p

LEMMA FirstOfGet ==
  ASSUME NEW q \in Seq(Events), NEW e \in Events, e.kind = "get", NEW a, First(q, a)
  PROVE  First(Append(q, e), a)
<1>1. Tail(q) \in Seq(Events)
  BY DEF First
<1>2. Gets(Append(Tail(q), e))
  BY <1>1, MailOfGet DEF First
<1> QED BY <1>2, MailOfGet DEF First

-----------------------------------------------------------------------------
(* What the stages are to the abstract specification.                        *)

LEMMA WantedDef ==
  ASSUME NEW m
  PROVE  Wanted(m) = IF ctx[m] # Pending THEN ctx[m] ELSE IF value[m].value # Null THEN value[m] ELSE Script(mbox[m])
BY DEF Wanted, Script

LEMMA OutcomeDef ==
  ASSUME NEW m
  PROVE  Outcome(m) = IF held[m] = "unborn" THEN Unborn
                      ELSE IF sandbox[m] # "none" \/ held[m] = "stuck" \/ Works(mbox[m]) THEN Pending ELSE value[m]
BY DEF Outcome, Working, Works, Born

LEMMA LeftWorks ==
  ASSUME NEW m, NEW q \in Seq(Events), Left(m, q)
  PROVE  Works(q) /\ Script(q) \in Explicit \cup {Pending}
<1>1. CASE First(q, Chain)
  BY <1>1, MailOfFirst, EventKinds
<1>2. ASSUME NEW r \in Explicit, First(q, Execute("settle", r)) PROVE Works(q) /\ Script(q) \in Explicit \cup {Pending}
  BY <1>2, MailOfFirst, EventKinds
<1> QED BY <1>1, <1>2 DEF Left

LEMMA MadeWorks ==
  ASSUME NEW m, mbox[m] \in Seq(Events), Made(m)
  PROVE  /\ Works(mbox[m]) /\ Script(mbox[m]) \in Explicit \cup {Pending}
         /\ mbox[m] # <<>> /\ Head(mbox[m]).kind \in {"program", "empty"}
         /\ Head(mbox[m]).kind = "empty" => Script(Tail(mbox[m])) = Script(mbox[m])
<1>1. CASE First(mbox[m], Execute("program", Pending))
  BY <1>1, MailOfFirst, EventKinds DEF First
<1>2. CASE mbox[m] # <<>> /\ Head(mbox[m]) = Empty /\ Left(m, Tail(mbox[m]))
  <2>1. Tail(mbox[m]) \in Seq(Events)
    BY <1>2
  <2>2. CASE First(Tail(mbox[m]), Chain)
    BY <1>2, <2>1, <2>2, MailOfTwo, MailOfFirst, EventKinds
  <2>3. ASSUME NEW r \in Explicit, First(Tail(mbox[m]), Execute("settle", r))
        PROVE  /\ Works(mbox[m]) /\ Script(mbox[m]) \in Explicit \cup {Pending}
               /\ Script(Tail(mbox[m])) = Script(mbox[m])
    <3> DEFINE e == Execute("settle", r)
    <3>1. e.kind = "settle" /\ e.kind \in Callbacks /\ e.to = r
      BY EventKinds
    <3> HIDE DEF e
    <3>2. First(Tail(mbox[m]), e)
      BY <2>3 DEF e
    <3>3. Works(mbox[m]) /\ Script(mbox[m]) = r
      BY <1>2, <3>1, <3>2, MailOfTwo
    <3>4. Script(Tail(mbox[m])) = r
      BY <2>1, <3>1, <3>2, MailOfFirst
    <3> QED BY <3>3, <3>4
  <2> QED BY <1>2, <2>2, <2>3, EventKinds DEF Left
<1> QED BY <1>1, <1>2 DEF Made

Means(m) ==
  /\ Nowhere(m) => Outcome(m) = Unborn /\ Wanted(m) = Pending
  /\ Starts(m) \/ Empties(m) \/ Follows(m) => Outcome(m) = Pending /\ Wanted(m) = Script(mbox[m])
  /\ Sets(m) \/ Calls(m) \/ Asks(m) \/ Stuck(m) => Outcome(m) = Pending /\ Wanted(m) = ctx[m]
  /\ Over(m) => Outcome(m) = value[m] /\ Wanted(m) = IF value[m] = Nil THEN Pending ELSE value[m]

AllMean == \A m \in Maybes : mbox[m] \in Seq(Events) => Means(m)

LEMMA StagesMean == AllMean
<1> SUFFICES ASSUME NEW m \in Maybes, mbox[m] \in Seq(Events) PROVE Means(m)
  BY DEF AllMean
<1> USE DEF Means
<1> DEFINE q == mbox[m]
<1>1. CASE Nowhere(m)
  <2>1. Gets(<<>>)
    BY DEF Gets
  <2> QED BY <1>1, <2>1, MailOfGets, WantedDef, OutcomeDef, ResolutionKinds
      DEF Nowhere, Starts, Empties, Follows, Sets, Calls, Asks, Stuck, Over, Idle, Runs
<1>2. CASE Starts(m)
  BY <1>2, MadeWorks, WantedDef, OutcomeDef, ResolutionKinds
  DEF Nowhere, Starts, Empties, Follows, Sets, Calls, Asks, Stuck, Over, Idle, Runs
<1>3. CASE Empties(m)
  <2>1. Works(q) /\ Script(q) \in Explicit \cup {Pending}
    BY <1>3, LeftWorks DEF Empties
  <2> QED BY <1>3, <2>1, WantedDef, OutcomeDef, ResolutionKinds
      DEF Nowhere, Starts, Empties, Follows, Sets, Calls, Asks, Stuck, Over, Idle, Runs
<1>4. CASE Follows(m)
  <2>1. Works(q) /\ Script(q) \in Explicit \cup {Pending}
    BY <1>4, LeftWorks DEF Follows
  <2>2. ~Over(m)
    BY <2>1, MailOfGets DEF Over
  <2>3. ~Starts(m)
    BY <1>4, ResolutionKinds DEF Starts, Follows
  <2> QED BY <1>4, <2>1, <2>2, <2>3, WantedDef, OutcomeDef, ResolutionKinds
      DEF Nowhere, Empties, Follows, Sets, Calls, Asks, Stuck, Idle, Runs
<1>5. CASE Sets(m)
  <2>1. ~Works(q) /\ Script(q) = Pending
    BY <1>5, MailOfGets DEF Sets
  <2> QED BY <1>5, <2>1, WantedDef, OutcomeDef, ResolutionKinds
      DEF Nowhere, Starts, Empties, Follows, Sets, Calls, Asks, Stuck, Over, Idle, Runs
<1>6. CASE Asks(m)
  <2>1. ~Works(q) /\ Script(q) = Pending
    BY <1>6, MailOfGets DEF Asks
  <2> QED BY <1>6, <2>1, WantedDef, OutcomeDef, ResolutionKinds
      DEF Nowhere, Starts, Empties, Follows, Sets, Calls, Asks, Stuck, Over, Idle, Runs
<1>7. CASE Calls(m)
  <2>1. ~Works(q) /\ Script(q) = Pending
    BY <1>7, MailOfGets DEF Calls
  <2> QED BY <1>7, <2>1, WantedDef, OutcomeDef, ResolutionKinds
      DEF Nowhere, Starts, Empties, Follows, Sets, Calls, Asks, Stuck, Over, Idle, Runs
<1>8. CASE Stuck(m)
  <2>1. ~Works(q) /\ Script(q) = Pending
    BY <1>8, MailOfGets DEF Stuck
  <2> QED BY <1>8, <2>1, WantedDef, OutcomeDef, ResolutionKinds
      DEF Nowhere, Starts, Empties, Follows, Sets, Calls, Asks, Stuck, Over, Idle, Runs
<1>9. CASE Over(m)
  <2>1. ~Works(q) /\ Script(q) = Pending
    BY <1>9, MailOfGets DEF Over
  <2>2. ~Starts(m) /\ ~Follows(m)
    BY <2>1, LeftWorks, MadeWorks DEF Starts, Follows
  <2> QED BY <1>9, <2>1, <2>2, WantedDef, OutcomeDef, ResolutionKinds
      DEF Nowhere, Empties, Sets, Calls, Asks, Stuck, Over, Idle, Runs
<1> QED BY <1>1, <1>2, <1>3, <1>4, <1>5, <1>6, <1>7, <1>8, <1>9

LEMMA StagesMeanAfter == AllMean'
BY StagesMean, PTL

-----------------------------------------------------------------------------
(* What a step leaves alone.                                                 *)

Steady(m) ==
  /\ held'[m] = held[m] /\ sandbox'[m] = sandbox[m] /\ ctx'[m] = ctx[m] /\ value'[m] = value[m]
  /\ parent'[m] = parent[m] /\ given'[m] = given[m]

\* A get may come, or one be answered.
Hears(m) ==
  \/ mbox'[m] = mbox[m]
  \/ \E w \in Clients \cup Maybes : Born(m) /\ mbox'[m] = Append(mbox[m], Get(w))
  \/ Over(m) /\ mbox[m] # <<>> /\ mbox'[m] = Tail(mbox[m])

LEMMA LeftOfGet ==
  ASSUME NEW m, NEW q \in Seq(Events), Left(m, q), NEW w \in Clients \cup Maybes
  PROVE  Left(m, Append(q, Get(w)))
BY EventKinds, FirstOfGet DEF Left

LEMMA MadeOfGet ==
  ASSUME NEW m, mbox[m] \in Seq(Events), Made(m), NEW w \in Clients \cup Maybes, Steady(m),
         mbox'[m] = Append(mbox[m], Get(w))
  PROVE  Made(m)'
<1> DEFINE e == Get(w)
<1>1. e \in Events /\ e.kind = "get" /\ mbox'[m] = Append(mbox[m], e)
  BY EventKinds
<1>2. CASE First(mbox[m], Execute("program", Pending)) /\ parent[m] = Nobody
  <2>1. First(mbox'[m], Execute("program", Pending))
    BY <1>1, <1>2, FirstOfGet
  <2> QED BY <1>2, <2>1 DEF Made, Steady, Execute, Pending
<1>3. CASE mbox[m] # <<>> /\ Head(mbox[m]) = Empty /\ Left(m, Tail(mbox[m]))
  <2>1. Tail(mbox[m]) \in Seq(Events)
    BY <1>3
  <2>2. mbox'[m] # <<>> /\ Head(mbox'[m]) = Empty /\ Tail(mbox'[m]) = Append(Tail(mbox[m]), e)
    BY <1>1, <1>3, MailOfGet
  <2>3. Left(m, Tail(mbox'[m]))
    BY <1>3, <2>1, <2>2, LeftOfGet
  <2> QED BY <2>2, <2>3 DEF Made, Left, Steady
<1> QED BY <1>2, <1>3 DEF Made

\* Who hears of nothing but gets is what it was.
LEMMA StageKept ==
  ASSUME NEW m \in Maybes, mbox[m] \in Seq(Events), Stage(m), Steady(m), Hears(m)
  PROVE  Stage(m)' /\ Outcome(m)' = Outcome(m) /\ Wanted(m)' = Wanted(m)
<1>1. CASE mbox'[m] = mbox[m]
  <2>1. Stage(m)'
    BY <1>1 DEF Stage, Nowhere, Starts, Empties, Follows, Sets, Asks, Calls, Over, Stuck, Steady, Idle, Runs, Made, Left, Called
  <2>2. Outcome(m)' = Outcome(m) /\ Wanted(m)' = Wanted(m)
    BY <1>1 DEF Outcome, Wanted, Working, Born, Steady
  <2> QED BY <2>1, <2>2
<1>2. ASSUME NEW w \in Clients \cup Maybes, Born(m), mbox'[m] = Append(mbox[m], Get(w))
      PROVE  Stage(m)' /\ Outcome(m)' = Outcome(m) /\ Wanted(m)' = Wanted(m)
  <2> DEFINE e == Get(w)
  <2>1. e \in Events /\ e.kind = "get" /\ mbox'[m] = Append(mbox[m], e)
    BY <1>2, EventKinds
  <2>2. (Works(mbox'[m]) <=> Works(mbox[m])) /\ Script(mbox'[m]) = Script(mbox[m]) /\ (Gets(mbox[m]) => Gets(mbox'[m]))
    BY <2>1, MailOfGet
  <2>3. Outcome(m)' = Outcome(m)
    BY <2>2 DEF Outcome, Working, Works, Born, Steady
  <2>4. Wanted(m)' = Wanted(m)
    BY <2>2 DEF Wanted, Script, Steady
  <2>5. Left(m, mbox[m]) => Left(m, mbox[m])'
    <3>1. Left(m, mbox[m]) => Left(m, mbox'[m])
      BY <1>2, LeftOfGet
    <3> QED BY <3>1 DEF Left, Steady
  <2>6. Made(m) => Made(m)'
    BY <1>2, MadeOfGet
  <2>7. Stage(m)'
    BY <1>2, <2>2, <2>5, <2>6
    DEF Stage, Nowhere, Starts, Empties, Follows, Sets, Asks, Calls, Over, Stuck, Steady, Idle, Runs, Called, Born
  <2> QED BY <2>3, <2>4, <2>7
<1>3. CASE Over(m) /\ mbox[m] # <<>> /\ mbox'[m] = Tail(mbox[m])
  <2>1. Gets(Tail(mbox[m])) /\ Tail(mbox[m]) \in Seq(Events)
    <3>1. \A i \in DOMAIN Tail(mbox[m]) : i + 1 \in DOMAIN mbox[m] /\ Tail(mbox[m])[i] = mbox[m][i + 1]
      BY <1>3
    <3> QED BY <1>3, <3>1 DEF Over, Gets
  <2>2. Over(m)'
    BY <1>3, <2>1 DEF Over, Idle, Called, Steady
  <2>3. Means(m) /\ Means(m)' /\ value'[m] = value[m]
    BY <1>3, <2>1, StagesMean, StagesMeanAfter DEF AllMean, Steady
  <2> QED BY <1>3, <2>2, <2>3 DEF Means, Stage
<1> QED BY <1>1, <1>2, <1>3 DEF Hears

\* The mapped variables after a step that leaves the other Maybes alone.
LEMMA OthersKept ==
  ASSUME IInv, NEW m \in Maybes, \A k \in Maybes \ {m} : Steady(k) /\ Hears(k)
  PROVE  /\ \A k \in Maybes \ {m} : Stage(k)' /\ Outcome(k)' = Outcome(k) /\ Wanted(k)' = Wanted(k)
         /\ \A x : Outcome(m)' = x => AllOutcomes' = [AllOutcomes EXCEPT ![m] = x]
         /\ \A x : Wanted(m)' = x => AllWanted' = [AllWanted EXCEPT ![m] = x]
         /\ Outcome(m)' = Outcome(m) => AllOutcomes' = AllOutcomes
         /\ Wanted(m)' = Wanted(m) => AllWanted' = AllWanted
<1>1. \A k \in Maybes \ {m} : Stage(k)' /\ Outcome(k)' = Outcome(k) /\ Wanted(k)' = Wanted(k)
  BY StageKept DEF IInv, TypeOK
<1>2. /\ AllOutcomes' = [k \in Maybes |-> Outcome(k)'] /\ AllWanted' = [k \in Maybes |-> Wanted(k)']
      /\ AllOutcomes = [k \in Maybes |-> Outcome(k)] /\ AllWanted = [k \in Maybes |-> Wanted(k)]
  BY DEF AllOutcomes, AllWanted
<1> QED BY <1>1, <1>2

-----------------------------------------------------------------------------
(* The moves of a Maybe from stage to stage.                                 *)

LEMMA Scripts ==
  ASSUME NEW a, NEW b
  PROVE  /\ First(<<a>>, a)
         /\ <<a, b>> # <<>> /\ Head(<<a, b>>) = a /\ First(Tail(<<a, b>>), b)
<1>1. Gets(<<>>)
  BY DEF Gets
<1>2. Tail(<<a>>) = <<>> /\ Tail(<<a, b>>) = <<b>> /\ Tail(<<b>>) = <<>>
  OBVIOUS
<1> QED BY <1>1, <1>2 DEF First

LEMMA Takes ==
  ASSUME IInv, NEW m \in Maybes, NEW kinds, Take(m, kinds)
  PROVE  /\ mbox' \in [Maybes -> Seq(Events)] /\ mbox[m] # <<>> /\ mbox'[m] = Tail(mbox[m])
         /\ \A k \in Maybes \ {m} : mbox'[k] = mbox[k]
         /\ Head(mbox[m]) \in Events /\ Head(mbox[m]).kind \in kinds
         /\ 1 \in DOMAIN mbox[m] /\ mbox[m][1] = Head(mbox[m])
<1>1. mbox \in [Maybes -> Seq(Events)] /\ mbox[m] # <<>> /\ mbox' = [mbox EXCEPT ![m] = Tail(mbox[m])]
  BY DEF IInv, TypeOK, Take
<1>2. Tail(mbox[m]) \in Seq(Events) /\ Head(mbox[m]) \in Events /\ 1 \in DOMAIN mbox[m] /\ mbox[m][1] = Head(mbox[m])
  BY <1>1
<1> QED BY <1>1, <1>2 DEF Take

LEMMA Delivers ==
  ASSUME IInv, NEW m \in Maybes, NEW w \in Clients \cup Maybes, Deliver(m, Get(w))
  PROVE  /\ mbox' \in [Maybes -> Seq(Events)]
         /\ mbox'[m] = mbox[m] \/ mbox'[m] = Append(mbox[m], Get(w))
         /\ \A k \in Maybes \ {m} : mbox'[k] = mbox[k]
<1>1. mbox \in [Maybes -> Seq(Events)] /\ Append(mbox[m], Get(w)) \in Seq(Events)
  BY EventKinds DEF IInv, TypeOK
<1> QED BY <1>1 DEF Deliver

\* A stage that takes a get has taken its callbacks.
LEMMA TakesGet ==
  ASSUME IInv, NEW m \in Maybes, Take(m, {"get"})
  PROVE  Over(m)
<1>1. mbox[m] # <<>> /\ Head(mbox[m]).kind = "get" /\ held[m] = "ready" /\ Stage(m) /\ mbox[m] \in Seq(Events)
  BY DEF Take, IInv, TypeOK
<1>2. ~Made(m)
  BY <1>1, MadeWorks
<1>3. ~Left(m, mbox[m])
  BY <1>1, EventKinds DEF Left, First
<1> QED BY <1>1, <1>2, <1>3 DEF Stage, Nowhere, Starts, Empties, Follows, Sets, Asks, Calls, Stuck, Runs

LEMMA MakeMoves ==
  ASSUME IInv, NEW m \in Maybes, NEW p \in Maybes \cup {Nobody}, NEW q \in Seq(Events), Make(m, p, q),
         \/ p = Nobody /\ First(q, Execute("program", Pending))
         \/ /\ q # <<>> /\ Head(q) = Empty
            /\ \/ p = Nobody /\ \E r \in Explicit : First(Tail(q), Execute("settle", r))
               \/ p \in Maybes /\ First(Tail(q), Chain)
  PROVE  /\ mbox' \in [Maybes -> Seq(Events)] /\ Nowhere(m) /\ Starts(m)'
         /\ \A k \in Maybes \ {m} : Steady(k) /\ Hears(k)
         /\ Outcome(m) = Unborn /\ Wanted(m) = Pending /\ Outcome(m)' = Pending /\ Wanted(m)' = Script(q)
<1>1. Nowhere(m)
  BY DEF Make, Born, IInv, Stage, Starts, Empties, Follows, Sets, Asks, Calls, Over, Stuck, Idle, Runs
<1>2. /\ mbox' \in [Maybes -> Seq(Events)] /\ mbox'[m] = q /\ held'[m] = "ready" /\ parent'[m] = p
      /\ sandbox'[m] = "none" /\ ctx'[m] = Pending /\ value'[m] = Pending /\ given'[m] = Pending
  BY <1>1 DEF Make, Nowhere, IInv, TypeOK
<1>3. \A k \in Maybes \ {m} : Steady(k) /\ Hears(k)
  BY DEF Make, Steady, Hears, IInv, TypeOK
<1>4. Made(m)'
  BY <1>2 DEF Made, Left, Execute, Pending, Resolution
<1>5. Starts(m)'
  BY <1>2, <1>4 DEF Starts, Idle
<1>6. Means(m) /\ Means(m)'
  BY <1>2, StagesMean, StagesMeanAfter DEF AllMean, IInv, TypeOK
<1> QED BY <1>1, <1>2, <1>3, <1>5, <1>6 DEF Means

LEMMA ExecuteMoves ==
  ASSUME IInv, NEW m \in Maybes, HandleExecute(m)
  PROVE  /\ mbox' \in [Maybes -> Seq(Events)] /\ Stage(m)'
         /\ \A k \in Maybes \ {m} : Steady(k) /\ Hears(k)
         /\ Outcome(m)' = Outcome(m) /\ Wanted(m)' = Wanted(m)
<1> DEFINE e == Head(mbox[m])
<1>1. /\ mbox' \in [Maybes -> Seq(Events)] /\ mbox[m] # <<>> /\ mbox'[m] = Tail(mbox[m])
      /\ \A k \in Maybes \ {m} : mbox'[k] = mbox[k]
      /\ e \in Events /\ e.kind \in Callbacks
  BY Takes DEF HandleExecute
<1>2. /\ held[m] = "ready" /\ held'[m] = "waiting" /\ sandbox'[m] = e.kind /\ ctx'[m] = e.to
      /\ value'[m] = value[m] /\ parent'[m] = parent[m] /\ given'[m] = given[m]
  BY DEF HandleExecute, Take, IInv, TypeOK
<1>3. \A k \in Maybes \ {m} : Steady(k) /\ Hears(k)
  BY <1>1 DEF HandleExecute, Steady, Hears, IInv, TypeOK
<1>4. mbox[m] \in Seq(Events) /\ Tail(mbox[m]) \in Seq(Events) /\ Stage(m) /\ Means(m) /\ Means(m)'
  BY <1>1, StagesMean, StagesMeanAfter DEF AllMean, IInv, TypeOK
<1>5. Starts(m) \/ Follows(m)
  <2>1. ~Gets(mbox[m])
    <3>1. 1 \in DOMAIN mbox[m] /\ mbox[m][1] = e
      BY <1>1, <1>4
    <3> QED BY <1>1, <3>1 DEF Gets, Callbacks
  <2> QED BY <1>2, <1>4, <2>1 DEF Stage, Nowhere, Empties, Sets, Asks, Calls, Over, Stuck, Runs
<1>6. CASE Starts(m) /\ First(mbox[m], Execute("program", Pending)) /\ parent[m] = Nobody
  <2>1. e.kind = "program" /\ e.to = Pending /\ Gets(mbox'[m]) /\ Script(mbox[m]) = Pending
    BY <1>1, <1>4, <1>6, EventKinds, MailOfFirst DEF First
  <2>2. Calls(m)'
    BY <1>2, <1>6, <2>1 DEF Calls, Runs, Called, Starts
  <2> QED BY <1>1, <1>2, <1>3, <1>4, <1>6, <2>1, <2>2 DEF Means, Stage
<1>7. CASE Starts(m) /\ Head(mbox[m]) = Empty /\ Left(m, Tail(mbox[m]))
  <2>1. e.kind = "empty" /\ e.to = Pending /\ Left(m, mbox[m])'
    BY <1>1, <1>2, <1>7, EventKinds DEF Left
  <2>2. Empties(m)'
    BY <1>2, <1>7, <2>1 DEF Empties, Runs, Starts
  <2>3. Script(mbox'[m]) = Script(mbox[m])
    BY <1>1, <1>4, <1>7, <2>1, MadeWorks DEF Starts
  <2> QED BY <1>1, <1>3, <1>4, <1>7, <2>2, <2>3 DEF Means, Stage
<1>8. ASSUME NEW r \in Explicit, Follows(m), parent[m] = Nobody, First(mbox[m], Execute("settle", r))
      PROVE  Stage(m)' /\ Outcome(m)' = Outcome(m) /\ Wanted(m)' = Wanted(m)
  <2>1. e.kind = "settle" /\ e.to = r /\ Gets(mbox'[m]) /\ Script(mbox[m]) = r
    BY <1>1, <1>4, <1>8, EventKinds, MailOfFirst DEF First
  <2>2. Sets(m)'
    BY <1>2, <1>8, <2>1 DEF Sets, Runs, Follows
  <2> QED BY <1>2, <1>4, <1>8, <2>1, <2>2 DEF Means, Stage
<1>9. CASE Follows(m) /\ parent[m] \in Maybes /\ First(mbox[m], Chain)
  <2>1. e.kind = "then" /\ e.to = Pending /\ Gets(mbox'[m]) /\ Script(mbox[m]) = Pending
    BY <1>1, <1>4, <1>9, EventKinds, MailOfFirst DEF First
  <2>2. Asks(m)'
    BY <1>2, <1>9, <2>1 DEF Asks, Runs, Follows
  <2> QED BY <1>1, <1>2, <1>3, <1>4, <1>9, <2>1, <2>2 DEF Means, Stage
<1>10. Starts(m) => Made(m)
  BY DEF Starts
<1>11. Follows(m) => Left(m, mbox[m])
  BY DEF Follows
<1>12. Stage(m)' /\ Outcome(m)' = Outcome(m) /\ Wanted(m)' = Wanted(m)
  BY <1>5, <1>6, <1>7, <1>8, <1>9, <1>10, <1>11 DEF Made, Left
<1> QED BY <1>1, <1>3, <1>12

\* A step that leaves every mailbox and all but one Maybe alone.
Touches(m) ==
  /\ mbox' = mbox
  /\ \A k \in Maybes \ {m} : Steady(k)

LEMMA TouchesKept ==
  ASSUME IInv, NEW m \in Maybes, Touches(m)
  PROVE  /\ mbox' \in [Maybes -> Seq(Events)] /\ mbox'[m] = mbox[m] /\ Means(m) /\ Means(m)'
         /\ \A k \in Maybes \ {m} : Steady(k) /\ Hears(k)
BY StagesMean, StagesMeanAfter DEF AllMean, IInv, TypeOK, Touches, Hears

LEMMA AskMoves ==
  ASSUME IInv, NEW m \in Maybes, AskParent(m)
  PROVE  /\ mbox' \in [Maybes -> Seq(Events)] /\ Stage(m)' /\ parent[m] \in Maybes
         /\ \A k \in Maybes \ {m} : Steady(k) /\ Hears(k)
         /\ Outcome(m)' = Outcome(m) /\ Wanted(m)' = Wanted(m)
<1>1. Asks(m) /\ parent[m] \in Maybes
  BY DEF AskParent, IInv, Stage, Nowhere, Starts, Empties, Follows, Sets, Asks, Calls, Over, Stuck, Idle, Runs
<1>2. Deliver(parent[m], Get(m)) /\ m \in Clients \cup Maybes
  BY DEF AskParent
<1>3. /\ mbox' \in [Maybes -> Seq(Events)]
      /\ mbox'[m] = mbox[m] \/ mbox'[m] = Append(mbox[m], Get(m))
      /\ \A k \in Maybes : mbox'[k] = mbox[k] \/ (k = parent[m] /\ mbox'[k] = Append(mbox[k], Get(m)))
  <2>1. PICK p \in Maybes : p = parent[m]
    BY <1>1
  <2>2. /\ mbox' \in [Maybes -> Seq(Events)]
        /\ mbox'[p] = mbox[p] \/ mbox'[p] = Append(mbox[p], Get(m))
        /\ \A k \in Maybes \ {p} : mbox'[k] = mbox[k]
    BY <1>2, <2>1, Delivers
  <2>3. ASSUME NEW k \in Maybes PROVE mbox'[k] = mbox[k] \/ (k = p /\ mbox'[k] = Append(mbox[k], Get(m)))
    <3>1. CASE k = p
      BY <2>2, <3>1, Zenon
    <3>2. CASE k # p
      BY <2>2, <3>2
    <3> QED BY <3>1, <3>2, Zenon
  <2>4. mbox'[m] = mbox[m] \/ mbox'[m] = Append(mbox[m], Get(m))
    BY <2>3, Zenon
  <2> QED BY <2>1, <2>2, <2>3, <2>4, Zenon
<1>4. \A k \in Maybes \ {m} : Steady(k) /\ Hears(k)
  BY <1>1, <1>3 DEF AskParent, Steady, Hears, IInv, TypeOK, Family
<1>5. Gets(mbox'[m])
  <2>1. Gets(mbox[m]) /\ mbox[m] \in Seq(Events) /\ Get(m) \in Events /\ Get(m).kind = "get"
    BY <1>1, EventKinds DEF Asks, IInv, TypeOK
  <2>2. Gets(Append(mbox[m], Get(m)))
    BY <2>1, MailOfGet
  <2> QED BY <1>3, <2>1, <2>2
<1>6. Asks(m)'
  BY <1>1, <1>5 DEF Asks, Runs, AskParent, IInv, TypeOK
<1>7. Means(m) /\ Means(m)' /\ ctx'[m] = ctx[m]
  BY <1>3, StagesMean, StagesMeanAfter DEF AllMean, IInv, TypeOK, AskParent
<1> QED BY <1>1, <1>3, <1>4, <1>6, <1>7 DEF Stage, Means

LEMMA SettleMoves ==
  ASSUME IInv, NEW m \in Maybes, NEW r \in Explicit, Settle(m, r)
  PROVE  /\ Touches(m) /\ Stage(m)'
         /\ Called(m) /\ Outcome(m) = Pending /\ Wanted(m) = Pending /\ Outcome(m)' = Pending /\ Wanted(m)' = r
<1>1. Calls(m)
  BY DEF Settle, IInv, Stage, Nowhere, Starts, Empties, Follows, Sets, Asks, Over, Stuck, Idle, Runs
<1>2. Touches(m)
  BY DEF Touches, Settle, Steady, IInv, TypeOK
<1>3. Calls(m)' /\ ctx'[m] = r
  BY <1>1, <1>2 DEF Touches, Calls, Settle, Runs, Called, IInv, TypeOK
<1> QED BY <1>1, <1>2, <1>3, TouchesKept DEF Stage, Means, Calls, Settle

\* A callback returns: it has settled its Maybe, unless a then is still to come.
LEMMA ReturnMoves ==
  ASSUME IInv, NEW m \in Maybes, ReturnSandbox(m)
  PROVE  /\ Touches(m) /\ Stage(m)' /\ Wanted(m)' = Wanted(m) /\ Outcome(m) = Pending
         /\ \/ Outcome(m)' = Pending
            \/ Called(m) /\ Outcome(m)' = IF Wanted(m) = Pending THEN Nil ELSE Wanted(m)
<1>1. Touches(m)
  BY DEF Touches, ReturnSandbox, Steady, IInv, TypeOK
<1>2. /\ held'[m] = "ready" /\ sandbox'[m] = "none" /\ ctx'[m] = Pending /\ value'[m] = Unpack(ctx[m])
      /\ parent'[m] = parent[m] /\ given'[m] = given[m] /\ mbox'[m] = mbox[m]
  BY DEF ReturnSandbox, IInv, TypeOK
<1>3. Means(m) /\ Means(m)'
  BY <1>1, TouchesKept
<1>4. Stage(m) /\ sandbox[m] \in {"empty", "settle", "program"}
  BY DEF ReturnSandbox, IInv
<1>5. CASE Empties(m)
  <2>1. Follows(m)'
    BY <1>2, <1>5, ResolutionKinds DEF Follows, Idle, Empties, Left
  <2> QED BY <1>1, <1>2, <1>3, <1>5, <2>1 DEF Means, Stage
<1>6. CASE Sets(m) \/ Calls(m)
  <2>1. ctx[m] \in Explicit \cup {Pending} /\ Called(m) /\ Gets(mbox[m])
    BY <1>6 DEF Sets, Calls, Called
  <2>2. value'[m] = IF ctx[m] = Pending THEN Nil ELSE ctx[m]
    BY <1>2, <2>1, ResolutionKinds DEF Unpack
  <2>3. Over(m)'
    BY <1>2, <2>1, <2>2 DEF Over, Idle, Called
  <2>4. Outcome(m) = Pending /\ Wanted(m) = ctx[m] /\ Outcome(m)' = value'[m]
        /\ Wanted(m)' = IF value'[m] = Nil THEN Pending ELSE value'[m]
    BY <1>3, <1>6, <2>3 DEF Means
  <2> QED BY <1>1, <2>1, <2>2, <2>3, <2>4, ResolutionKinds DEF Stage
<1> QED BY <1>4, <1>5, <1>6 DEF Stage, Nowhere, Starts, Follows, Asks, Over, Stuck, Idle, Runs

LEMMA LoseMoves ==
  ASSUME IInv, NEW m \in Maybes, LoseSandbox(m), sandbox[m] \in {"asking", "program"}
  PROVE  Touches(m) /\ Stage(m)' /\ Outcome(m)' = Outcome(m) /\ Wanted(m)' = Wanted(m)
<1>1. Touches(m)
  BY DEF Touches, LoseSandbox, Steady, IInv, TypeOK
<1>2. Asks(m) \/ Calls(m)
  BY DEF IInv, Stage, Nowhere, Starts, Empties, Follows, Sets, Over, Stuck, Idle, Runs
<1>3. Stuck(m)' /\ ctx'[m] = ctx[m]
  BY <1>2 DEF Stuck, Asks, Calls, LoseSandbox, IInv, TypeOK
<1> QED BY <1>1, <1>2, <1>3, TouchesKept DEF Stage, Means

LEMMA EndMoves ==
  ASSUME IInv, NEW m \in Maybes, End(m)
  PROVE  Touches(m) /\ Stage(m)' /\ Outcome(m)' = Outcome(m) /\ Wanted(m)' = Wanted(m)
<1>1. Touches(m)
  BY DEF Touches, End, Steady, IInv, TypeOK
<1>2. Starts(m) \/ Follows(m) \/ Over(m)
  BY DEF End, IInv, Stage, Nowhere, Empties, Sets, Asks, Calls, Stuck, Runs
<1>3. /\ held[m] = "ready" /\ held'[m] = "ended" /\ sandbox'[m] = sandbox[m] /\ ctx'[m] = ctx[m]
      /\ value'[m] = value[m] /\ parent'[m] = parent[m] /\ given'[m] = given[m] /\ mbox'[m] = mbox[m]
  BY DEF End, IInv, TypeOK
<1>4. /\ Starts(m) => Starts(m)'
      /\ Follows(m) => Follows(m)'
      /\ Over(m) => Over(m)'
  BY <1>3 DEF Starts, Follows, Over, Idle, Made, Left, Called
<1> QED BY <1>1, <1>2, <1>3, <1>4, TouchesKept DEF Stage, Means

LEMMA GetOfClientMoves ==
  ASSUME IInv, NEW m \in Maybes, HandleGetOfClient(m)
  PROVE  /\ mbox' \in [Maybes -> Seq(Events)]
         /\ \A k \in Maybes : Steady(k) /\ Hears(k)
         /\ Over(m) /\ Outcome(m) = value[m] /\ value[m] \in Resolutions
<1>1. Over(m)
  BY TakesGet DEF HandleGetOfClient
<1>2. Means(m) /\ value[m] \in Resolutions
  BY <1>1, StagesMean, ResolutionKinds DEF AllMean, IInv, TypeOK, Over
<1>3. \A k \in Maybes : Steady(k) /\ Hears(k)
  BY <1>1, Takes DEF HandleGetOfClient, Steady, Hears
<1> QED BY <1>1, <1>2, <1>3, Takes DEF Means, HandleGetOfClient

LEMMA GetOfThenMoves ==
  ASSUME IInv, NEW m \in Maybes, HandleGetOfThen(m), NEW k \in Maybes, k = Head(mbox[m]).from
  PROVE  /\ mbox' \in [Maybes -> Seq(Events)] /\ Stage(k)'
         /\ \A n \in Maybes \ {k} : Steady(n) /\ Hears(n)
         /\ Over(m) /\ Outcome(m) = value[m] /\ value[m] \in Resolutions
         /\ Outcome(k)' = Outcome(k) /\ Wanted(k)' = Wanted(k)
         /\ \/ UNCHANGED given
            \/ Outcome(k) = Pending /\ given[k] = Pending /\ given' = [given EXCEPT ![k] = value[m]]
<1>1. Over(m) /\ Take(m, {"get"})
  BY TakesGet DEF HandleGetOfThen
<1>2. Means(m) /\ value[m] \in Resolutions /\ value[m] # Pending
  BY <1>1, StagesMean, ResolutionKinds DEF AllMean, IInv, TypeOK, Over
<1>3. /\ mbox' \in [Maybes -> Seq(Events)] /\ mbox[m] # <<>> /\ mbox'[m] = Tail(mbox[m])
      /\ \A n \in Maybes \ {m} : mbox'[n] = mbox[n]
  BY <1>1, Takes
<1>4. \A n \in Maybes : Hears(n)
  BY <1>1, <1>3 DEF Hears
<1>5. CASE sandbox[k] # "asking"
  <2>1. UNCHANGED given /\ \A n \in Maybes : Steady(n)
    BY <1>5 DEF HandleGetOfThen, Steady
  <2>2. Stage(k)' /\ Outcome(k)' = Outcome(k) /\ Wanted(k)' = Wanted(k)
    BY <1>4, <2>1, StageKept DEF IInv, TypeOK
  <2> QED BY <1>1, <1>2, <1>3, <1>4, <2>1, <2>2 DEF Means
<1>6. CASE sandbox[k] = "asking"
  <2>1. /\ given' = [given EXCEPT ![k] = value[m]] /\ sandbox' = [sandbox EXCEPT ![k] = "program"]
        /\ UNCHANGED <<held, value, ctx, parent>>
    BY <1>2, <1>6 DEF HandleGetOfThen
  <2>2. \A n \in Maybes \ {k} : Steady(n)
    BY <2>1 DEF Steady, IInv, TypeOK
  <2>3. Asks(k)
    BY <1>6 DEF IInv, Stage, Nowhere, Starts, Empties, Follows, Sets, Calls, Over, Stuck, Idle, Runs
  <2>4. k # m
    BY <1>1, <2>3 DEF Over, Asks, Idle, Runs
  <2>5. Calls(k)'
    BY <1>2, <1>3, <2>1, <2>3, <2>4 DEF Calls, Asks, Runs, Called, IInv, TypeOK
  <2>6. Means(k) /\ Means(k)'
    BY <1>3, StagesMean, StagesMeanAfter DEF AllMean, IInv, TypeOK
  <2>7. Outcome(k) = Pending /\ given[k] = Pending /\ Outcome(k)' = Outcome(k) /\ Wanted(k)' = Wanted(k)
    BY <2>1, <2>3, <2>5, <2>6 DEF Means, Asks
  <2> QED BY <1>1, <1>2, <1>3, <1>4, <2>1, <2>2, <2>5, <2>7 DEF Means, Stage
<1> QED BY <1>5, <1>6

-----------------------------------------------------------------------------
(* The invariant is inductive.                                               *)

\* The gets of a mailbox q of m.
Fair(q, m, reads, replies, parents) ==
  \A i \in DOMAIN q : q[i].kind = "get" =>
    /\ q[i].from \in Clients \cup Maybes
    /\ q[i].from \in Clients =>
         /\ reads[q[i].from] = m /\ replies[q[i].from] = Pending
         /\ \A j \in DOMAIN q : q[j].kind = "get" /\ q[j].from = q[i].from => j = i
    /\ q[i].from \in Maybes => parents[q[i].from] = m

LEMMA AskingDef == \A m : Asking(m) <=> Fair(mbox[m], m, reading, reply, parent)
BY DEF Asking, Fair

LEMMA AskingAfter == \A m : Asking(m)' <=> Fair(mbox'[m], m, reading', reply', parent')
BY DEF Asking, Fair, Pending, Resolution

\* An answered get is gone.
LEMMA FairTail ==
  ASSUME NEW q \in Seq(Events), q # <<>>, NEW m, NEW reads, NEW replies, NEW parents, Fair(q, m, reads, replies, parents)
  PROVE  /\ Fair(Tail(q), m, reads, replies, parents)
         /\ Head(q).kind = "get" => \A i \in DOMAIN Tail(q) : Tail(q)[i].kind = "get" /\ Head(q).from \in Clients
                                                                => Tail(q)[i].from # Head(q).from
<1>1. \A i \in DOMAIN Tail(q) : i + 1 \in DOMAIN q /\ Tail(q)[i] = q[i + 1] /\ i + 1 # 1
  OBVIOUS
<1>2. 1 \in DOMAIN q /\ Head(q) = q[1]
  OBVIOUS
<1>3. \A i, j \in DOMAIN Tail(q) : i + 1 = j + 1 => i = j
  OBVIOUS
<1> QED BY <1>1, <1>2, <1>3 DEF Fair

\* A get that comes is of nobody who asked here before.
LEMMA FairAppend ==
  ASSUME NEW q \in Seq(Events), NEW m, NEW reads, NEW replies, NEW parents, Fair(q, m, reads, replies, parents),
         NEW w \in Clients \cup Maybes,
         w \in Clients => /\ reads[w] = m /\ replies[w] = Pending
                          /\ \A i \in DOMAIN q : ~(q[i].kind = "get" /\ q[i].from = w),
         w \in Maybes => parents[w] = m
  PROVE  Fair(Append(q, Get(w)), m, reads, replies, parents)
<1> DEFINE p == Append(q, Get(w))
<1>1. /\ DOMAIN p = DOMAIN q \cup {Len(q) + 1} /\ p[Len(q) + 1] = Get(w)
      /\ \A i \in DOMAIN q : p[i] = q[i]
  BY EventKinds
<1>2. Get(w).kind = "get" /\ Get(w).from = w
  BY EventKinds
<1> HIDE DEF p
<1>3. Fair(p, m, reads, replies, parents)
  BY <1>1, <1>2, MaybeKinds DEF Fair
<1> QED BY <1>3 DEF p

\* What every step keeps besides the types of the other variables.
Keeps == Awaited' /\ \A k \in Maybes : Asking(k)' /\ Family(k)'

LEMMA TouchesKeeps ==
  ASSUME IInv, NEW m \in Maybes, Touches(m), UNCHANGED <<parent, reading, reply>>,
         held[m] # "unborn" => held'[m] # "unborn"
  PROVE  Keeps
<1>1. Awaited'
  BY DEF IInv, Awaited, Pending, Resolution
<1>2. \A k \in Maybes : Asking(k)'
  BY AskingDef, AskingAfter DEF IInv, Touches
<1>3. \A k \in Maybes : Family(k)'
  BY DEF IInv, Family, Born, Touches, Steady
<1> QED BY <1>1, <1>2, <1>3 DEF Keeps

LEMMA MakeKeeps ==
  ASSUME IInv, NEW m \in Maybes, NEW p \in Maybes \cup {Nobody}, NEW q, Make(m, p, q), Nowhere(m),
         p \in Maybes => Born(p), \A i \in DOMAIN q : q[i].kind # "get"
  PROVE  Keeps
<1>1. /\ mbox' = [mbox EXCEPT ![m] = q] /\ parent' = [parent EXCEPT ![m] = p] /\ held' = [held EXCEPT ![m] = "ready"]
      /\ UNCHANGED <<reading, reply>>
  BY DEF Make
<1>2. Awaited'
  BY <1>1 DEF IInv, Awaited, Pending, Resolution
<1>3. ASSUME NEW k \in Maybes PROVE Asking(k)'
  <2>1. Fair(mbox[k], k, reading, reply, parent)
    BY AskingDef DEF IInv
  <2>2. CASE k = m
    BY <1>1, <2>2, AskingAfter DEF Fair, IInv, TypeOK
  <2>3. CASE k # m
    <3>1. mbox'[k] = mbox[k]
      BY <1>1, <2>3 DEF IInv, TypeOK
    <3>2. parent[m] # k /\ \A n \in Maybes \ {m} : parent'[n] = parent[n]
      BY <1>1, MaybeKinds DEF Nowhere, IInv, TypeOK
    <3>3. Fair(mbox[k], k, reading, reply, parent')
      BY <2>1, <3>2 DEF Fair
    <3> QED BY <1>1, <3>1, <3>3, AskingAfter
  <2> QED BY <2>2, <2>3
<1>4. \A k \in Maybes : Family(k)'
  BY <1>1 DEF IInv, TypeOK, Family, Born
<1> QED BY <1>2, <1>3, <1>4 DEF Keeps

LEMMA ExecuteKeeps ==
  ASSUME IInv, NEW m \in Maybes, HandleExecute(m)
  PROVE  Keeps
<1>1. /\ mbox[m] # <<>> /\ mbox'[m] = Tail(mbox[m]) /\ mbox[m] \in Seq(Events)
      /\ \A k \in Maybes \ {m} : mbox'[k] = mbox[k]
  BY Takes DEF HandleExecute, IInv, TypeOK
<1>2. held' = [held EXCEPT ![m] = "waiting"] /\ UNCHANGED <<parent, reading, reply>>
  BY DEF HandleExecute
<1>3. Awaited'
  BY <1>2 DEF IInv, Awaited, Pending, Resolution
<1>4. \A k \in Maybes : Asking(k)'
  BY <1>1, <1>2, AskingDef, AskingAfter, FairTail DEF IInv
<1>5. \A k \in Maybes : Family(k)'
  BY <1>2 DEF IInv, TypeOK, Family, Born
<1> QED BY <1>3, <1>4, <1>5 DEF Keeps

LEMMA GetOfClientKeeps ==
  ASSUME IInv, NEW m \in Maybes, HandleGetOfClient(m)
  PROVE  /\ Keeps
         /\ LET c == Head(mbox[m]).from IN c \in Clients /\ reading[c] = m /\ reply[c] = Pending /\ reply' = [reply EXCEPT ![c] = value[m]]
<1> DEFINE c == Head(mbox[m]).from
<1>1. /\ mbox[m] # <<>> /\ mbox'[m] = Tail(mbox[m]) /\ mbox[m] \in Seq(Events)
      /\ \A k \in Maybes \ {m} : mbox'[k] = mbox[k]
      /\ Head(mbox[m]).kind = "get" /\ 1 \in DOMAIN mbox[m] /\ mbox[m][1] = Head(mbox[m])
  BY Takes DEF HandleGetOfClient, IInv, TypeOK
<1>2. c \in Clients /\ reply' = [reply EXCEPT ![c] = value[m]] /\ UNCHANGED <<held, parent, reading>>
  BY DEF HandleGetOfClient
<1>3. \A k \in Maybes : Fair(mbox[k], k, reading, reply, parent)
  BY AskingDef DEF IInv
<1>4. reading[c] = m /\ reply[c] = Pending
  BY <1>1, <1>2, <1>3 DEF Fair
<1>5. Awaited'
  <2>1. m # Nobody
    BY MaybeKinds
  <2> QED BY <1>2, <1>4, <2>1 DEF IInv, TypeOK, Awaited, Pending, Resolution
<1>6. \A d \in Clients : d # c => reply'[d] = reply[d]
  BY <1>2 DEF IInv, TypeOK
<1>7. ASSUME NEW k \in Maybes PROVE Asking(k)'
  <2>1. Fair(mbox'[k], k, reading, reply, parent) /\ \A i \in DOMAIN mbox'[k] : mbox'[k][i].kind = "get" => mbox'[k][i].from # c
    <3>1. CASE k = m
      BY <1>1, <1>2, <1>3, <3>1, FairTail
    <3>2. CASE k # m
      BY <1>1, <1>2, <1>3, <1>4, <3>2 DEF Fair
    <3> QED BY <3>1, <3>2
  <2>2. Fair(mbox'[k], k, reading', reply', parent')
    BY <1>2, <1>6, <2>1 DEF Fair
  <2> QED BY <2>2, AskingAfter
<1>8. \A k \in Maybes : Family(k)'
  BY <1>2 DEF IInv, Family, Born
<1> QED BY <1>2, <1>4, <1>5, <1>7, <1>8 DEF Keeps

LEMMA GetOfThenKeeps ==
  ASSUME IInv, NEW m \in Maybes, HandleGetOfThen(m)
  PROVE  Keeps /\ parent[Head(mbox[m]).from] = m
<1>1. /\ mbox[m] # <<>> /\ mbox'[m] = Tail(mbox[m]) /\ mbox[m] \in Seq(Events)
      /\ \A k \in Maybes \ {m} : mbox'[k] = mbox[k]
      /\ Head(mbox[m]).kind = "get" /\ 1 \in DOMAIN mbox[m] /\ mbox[m][1] = Head(mbox[m])
  BY Takes DEF HandleGetOfThen, IInv, TypeOK
<1>2. UNCHANGED <<held, parent, reading, reply>> /\ Head(mbox[m]).from \in Maybes
  BY DEF HandleGetOfThen
<1>3. \A k \in Maybes : Fair(mbox[k], k, reading, reply, parent)
  BY AskingDef DEF IInv
<1>4. Awaited'
  BY <1>2 DEF IInv, Awaited, Pending, Resolution
<1>5. \A k \in Maybes : Asking(k)'
  BY <1>1, <1>2, <1>3, AskingAfter, FairTail
<1>6. \A k \in Maybes : Family(k)'
  BY <1>2 DEF IInv, Family, Born
<1>7. parent[Head(mbox[m]).from] = m
  BY <1>1, <1>2, <1>3 DEF Fair
<1> QED BY <1>4, <1>5, <1>6, <1>7 DEF Keeps

LEMMA AskKeeps ==
  ASSUME IInv, NEW m \in Maybes, AskParent(m), parent[m] \in Maybes
  PROVE  Keeps
<1>1. PICK p \in Maybes : p = parent[m]
  OBVIOUS
<1>2. /\ mbox'[p] = mbox[p] \/ mbox'[p] = Append(mbox[p], Get(m))
      /\ \A k \in Maybes \ {p} : mbox'[k] = mbox[k]
  BY <1>1, Delivers DEF AskParent
<1>3. UNCHANGED <<held, parent, reading, reply>>
  BY DEF AskParent
<1>4. \A k \in Maybes : Fair(mbox[k], k, reading, reply, parent) /\ mbox[k] \in Seq(Events)
  BY AskingDef DEF IInv, TypeOK
<1>5. Awaited'
  BY <1>3 DEF IInv, Awaited, Pending, Resolution
<1>6. Fair(Append(mbox[p], Get(m)), p, reading, reply, parent)
  BY <1>1, <1>4, FairAppend, MaybeKinds
<1>7. \A k \in Maybes : Asking(k)'
  BY <1>2, <1>3, <1>4, <1>6, AskingAfter
<1>8. \A k \in Maybes : Family(k)'
  BY <1>3 DEF IInv, Family, Born
<1> QED BY <1>5, <1>7, <1>8 DEF Keeps

LEMMA ValueKeeps ==
  ASSUME IInv, NEW c \in Clients, NEW m \in Maybes, Value(c, m)
  PROVE  /\ Keeps /\ mbox' \in [Maybes -> Seq(Events)]
         /\ \A k \in Maybes : Steady(k) /\ Hears(k)
<1>1. /\ mbox' \in [Maybes -> Seq(Events)]
      /\ mbox'[m] = mbox[m] \/ mbox'[m] = Append(mbox[m], Get(c))
      /\ \A k \in Maybes \ {m} : mbox'[k] = mbox[k]
  BY Delivers DEF Value
<1>2. /\ reading[c] = Nobody /\ Born(m) /\ reading' = [reading EXCEPT ![c] = m]
      /\ UNCHANGED <<held, value, sandbox, ctx, parent, given, reply>>
  BY DEF Value
<1>3. \A k \in Maybes : Steady(k) /\ Hears(k)
  BY <1>1, <1>2 DEF Steady, Hears
<1>4. \A k \in Maybes : Fair(mbox[k], k, reading, reply, parent) /\ mbox[k] \in Seq(Events)
  BY AskingDef DEF IInv, TypeOK
<1>5. reply[c] = Pending /\ reading'[c] = m /\ \A d \in Clients : d # c => reading'[d] = reading[d]
  BY <1>2 DEF IInv, TypeOK, Awaited
<1>6. Awaited'
  BY <1>2, <1>5, MaybeKinds DEF IInv, Awaited, Pending, Resolution
<1>7. \A k \in Maybes : \A i \in DOMAIN mbox[k] : ~(mbox[k][i].kind = "get" /\ mbox[k][i].from = c)
  BY <1>2, <1>4, MaybeKinds DEF Fair
<1>8. \A k \in Maybes : Fair(mbox[k], k, reading', reply, parent)
  BY <1>4, <1>5, <1>7 DEF Fair
<1>9. Fair(Append(mbox[m], Get(c)), m, reading', reply, parent)
  BY <1>4, <1>5, <1>7, <1>8, FairAppend, MaybeKinds
<1>10. \A k \in Maybes : Asking(k)'
  <2>1. \A k \in Maybes : Fair(mbox'[k], k, reading', reply, parent)
    BY <1>1, <1>8, <1>9
  <2> QED BY <1>2, <2>1, AskingAfter
<1>11. \A k \in Maybes : Family(k)'
  BY <1>2 DEF IInv, Family, Born
<1> QED BY <1>1, <1>3, <1>6, <1>10, <1>11 DEF Keeps

LEMMA ReturnValueKeeps ==
  ASSUME IInv, NEW c \in Clients, ReturnValue(c)
  PROVE  /\ Keeps /\ mbox' \in [Maybes -> Seq(Events)]
         /\ \A k \in Maybes : Steady(k) /\ Hears(k)
<1>1. /\ reply[c] # Pending /\ reading' = [reading EXCEPT ![c] = Nobody] /\ reply' = [reply EXCEPT ![c] = Pending]
      /\ UNCHANGED <<held, value, mbox, sandbox, ctx, parent, given>>
  BY DEF ReturnValue
<1>2. /\ \A k \in Maybes : Steady(k) /\ Hears(k)
      /\ mbox' \in [Maybes -> Seq(Events)]
  BY <1>1 DEF Steady, Hears, IInv, TypeOK
<1>3. \A k \in Maybes : Fair(mbox[k], k, reading, reply, parent)
  BY AskingDef DEF IInv
<1>4. \A d \in Clients : d # c => reading'[d] = reading[d] /\ reply'[d] = reply[d]
  BY <1>1 DEF IInv, TypeOK
<1>5. \A k \in Maybes : \A i \in DOMAIN mbox[k] : ~(mbox[k][i].kind = "get" /\ mbox[k][i].from = c)
  BY <1>1, <1>3 DEF Fair
<1>6. \A k \in Maybes : Fair(mbox[k], k, reading', reply', parent)
  BY <1>3, <1>4, <1>5 DEF Fair
<1>7. \A k \in Maybes : Asking(k)'
  BY <1>1, <1>6, AskingAfter
<1>8. Awaited'
  BY <1>1 DEF IInv, TypeOK, Awaited, Pending, Resolution
<1>9. \A k \in Maybes : Family(k)'
  BY <1>1 DEF IInv, Family, Born
<1> QED BY <1>2, <1>7, <1>8, <1>9 DEF Keeps

-----------------------------------------------------------------------------
(* Every variable keeps its type.                                            *)

\* TypeOK, as far as the stages do not say it.
Typed ==
  /\ held \in [Maybes -> {"unborn", "ready", "waiting", "stuck", "ended"}]
  /\ value \in [Maybes -> Maybeness]
  /\ sandbox \in [Maybes -> Callbacks \cup {"none", "asking"}]
  /\ ctx \in [Maybes -> Maybeness]
  /\ parent \in [Maybes -> Maybes \cup {Nobody}]
  /\ given \in [Maybes -> Maybeness]
  /\ reading \in [Clients -> Maybes \cup {Nobody}]
  /\ reply \in [Clients -> Maybeness]

LEMMA StepTyped ==
  ASSUME IInv, Next
  PROVE  Typed'
<1> USE DEF Typed
<1>1. Typed /\ Pending \in Maybeness /\ Explicit \subseteq Maybeness
  BY ResolutionKinds DEF IInv, TypeOK
<1>2. ASSUME NEW m \in Maybes, NEW p \in Maybes \cup {Nobody}, NEW q, Make(m, p, q) PROVE Typed'
  BY <1>1, <1>2 DEF Make
<1>3. ASSUME NEW m \in Maybes, NEW r \in Explicit, Settle(m, r) PROVE Typed'
  BY <1>1, <1>3 DEF Settle
<1>4. ASSUME NEW c \in Clients, NEW m \in Maybes, Value(c, m) PROVE Typed'
  BY <1>1, <1>4 DEF Value
<1>5. ASSUME NEW c \in Clients, ReturnValue(c) PROVE Typed'
  BY <1>1, <1>5 DEF ReturnValue
<1>6. ASSUME NEW m \in Maybes, HandleExecute(m) PROVE Typed'
  <2>1. Head(mbox[m]).kind \in Callbacks /\ Head(mbox[m]).to \in Maybeness
    BY <1>6, Takes DEF HandleExecute, Events
  <2> QED BY <1>1, <1>6, <2>1 DEF HandleExecute
<1>7. ASSUME NEW m \in Maybes, HandleGetOfClient(m) PROVE Typed'
  BY <1>1, <1>7 DEF HandleGetOfClient
<1>8. ASSUME NEW m \in Maybes, HandleGetOfThen(m) PROVE Typed'
  BY <1>1, <1>8 DEF HandleGetOfThen, Callbacks
<1>9. ASSUME NEW m \in Maybes, AskParent(m) PROVE Typed'
  BY <1>1, <1>9 DEF AskParent
<1>10. ASSUME NEW m \in Maybes, ReturnSandbox(m) PROVE Typed'
  <2>1. Unpack(ctx[m]) \in Maybeness
    BY <1>1, ResolutionKinds DEF Unpack, Nil, Pending
  <2> QED BY <1>1, <1>10, <2>1 DEF ReturnSandbox
<1>11. ASSUME NEW m \in Maybes, LoseSandbox(m) PROVE Typed'
  BY <1>1, <1>11 DEF LoseSandbox
<1>12. ASSUME NEW m \in Maybes, End(m) PROVE Typed'
  BY <1>1, <1>12 DEF End
<1> QED BY <1>2, <1>3, <1>4, <1>5, <1>6, <1>7, <1>8, <1>9, <1>10, <1>11, <1>12
    DEF Next, ProgramNext, HostNext, HeldNext, SandboxNext, New, Settled, Then, Trap, DieWithParent

LEMMA Preserved ==
  ASSUME IInv, Next, Keeps, mbox' \in [Maybes -> Seq(Events)], \A k \in Maybes : Stage(k)'
  PROVE  IInv'
<1>1. Typed'
  BY StepTyped
<1>2. \A m \in Maybes : held'[m] = "waiting" <=> sandbox'[m] # "none"
  BY DEF Stage, Nowhere, Starts, Empties, Follows, Sets, Asks, Calls, Over, Stuck, Idle, Runs
<1>3. TypeOK'
  BY <1>1, <1>2 DEF Typed, TypeOK
<1> QED BY <1>3 DEF IInv, Keeps

-----------------------------------------------------------------------------
(* Every step keeps the invariant and maps to a step of Promises or to none. *)

Implements == Abstract!Next \/ UNCHANGED Abstract!vars

LEMMA Mapped ==
  ASSUME IInv, NEW m \in Maybes
  PROVE  /\ AllOutcomes[m] = Outcome(m) /\ AllWanted[m] = Wanted(m)
         /\ Born(m) => Outcome(m) # Unborn
<1>1. value[m] \in Maybeness
  BY DEF IInv, TypeOK
<1>2. Born(m) => Outcome(m) # Unborn
  BY <1>1, OutcomeDef, ResolutionKinds DEF Born
<1> QED BY <1>2 DEF AllOutcomes, AllWanted

\* A step that moves no Maybe.
LEMMA AllKept ==
  ASSUME IInv, \A k \in Maybes : Steady(k) /\ Hears(k)
  PROVE  AllOutcomes' = AllOutcomes /\ AllWanted' = AllWanted /\ \A k \in Maybes : Stage(k)'
<1>1. \A k \in Maybes : Stage(k)' /\ Outcome(k)' = Outcome(k) /\ Wanted(k)' = Wanted(k)
  BY StageKept DEF IInv, TypeOK
<1> QED BY <1>1 DEF AllOutcomes, AllWanted

LEMMA MakeSteps ==
  ASSUME IInv, Next, NEW m \in Maybes, NEW p \in Maybes \cup {Nobody}, NEW q \in Seq(Events), Make(m, p, q),
         \/ p = Nobody /\ First(q, Execute("program", Pending))
         \/ /\ q # <<>> /\ Head(q) = Empty
            /\ \/ p = Nobody /\ \E r \in Explicit : First(Tail(q), Execute("settle", r))
               \/ p \in Maybes /\ First(Tail(q), Chain),
         p \in Maybes => Born(p) /\ Script(q) = Pending,
         Script(q) \in Explicit \cup {Pending},
         \A i \in DOMAIN q : q[i].kind # "get"
  PROVE  IInv' /\ Implements
<1>1. /\ mbox' \in [Maybes -> Seq(Events)] /\ Nowhere(m) /\ Starts(m)'
      /\ \A k \in Maybes \ {m} : Steady(k) /\ Hears(k)
      /\ Outcome(m) = Unborn /\ Wanted(m) = Pending /\ Outcome(m)' = Pending /\ Wanted(m)' = Script(q)
  BY MakeMoves
<1>2. /\ \A k \in Maybes : Stage(k)'
      /\ AllOutcomes' = [AllOutcomes EXCEPT ![m] = Pending]
      /\ AllWanted' = [AllWanted EXCEPT ![m] = Script(q)]
      /\ Script(q) = Pending => AllWanted' = AllWanted
  BY <1>1, OthersKept DEF Stage, Pending, Resolution
<1>3. Keeps
  BY <1>1, MakeKeeps
<1>4. IInv'
  BY <1>1, <1>2, <1>3, Preserved
<1>5. parent' = [parent EXCEPT ![m] = p] /\ UNCHANGED <<given, reading, reply>>
  BY DEF Make
<1>6. AllOutcomes[m] = Unborn
  BY <1>1, Mapped
<1>7. CASE p \in Maybes
  <2>1. p \in {k \in Maybes : AllOutcomes[k] # Unborn}
    BY <1>7, Mapped
  <2>2. Abstract!Create(m)
    BY <1>2, <1>5, <1>6, <1>7, <2>1 DEF Abstract!Create
  <2> QED BY <1>4, <2>2 DEF Implements, Abstract!Next
<1>8. CASE p = Nobody
  <2>1. parent' = parent
    BY <1>1, <1>5, <1>8 DEF Nowhere, IInv, TypeOK
  <2>2. Script(q) \in Abstract!Explicit \cup {Pending}
    BY ResolutionKinds DEF Abstract!Explicit
  <2>3. Abstract!Create(m)
    BY <1>2, <1>5, <1>6, <2>1, <2>2 DEF Abstract!Create
  <2> QED BY <1>4, <2>3 DEF Implements, Abstract!Next
<1> QED BY <1>7, <1>8

LEMMA NewSteps ==
  ASSUME IInv, Next, NEW m \in Maybes, New(m)
  PROVE  IInv' /\ Implements
<1> DEFINE e == Execute("program", Pending)
           q == <<e>>
<1>1. e \in Events /\ e.kind = "program" /\ e.to = Pending /\ e.kind \in Callbacks
  BY EventKinds
<1>2. First(q, e)
  BY Scripts
<1>3. Make(m, Nobody, q)
  BY DEF New
<1> HIDE DEF e
<1>4. q \in Seq(Events) /\ \A i \in DOMAIN q : q[i].kind # "get"
  BY <1>1
<1> HIDE DEF q
<1>5. Script(q) = Pending
  BY <1>1, <1>2, <1>4, MailOfFirst
<1>6. First(q, Execute("program", Pending))
  BY <1>2 DEF e
<1> QED BY <1>3, <1>4, <1>5, <1>6, MaybeKinds, MakeSteps

LEMMA SettledSteps ==
  ASSUME IInv, Next, NEW m \in Maybes, NEW r \in Explicit, Settled(m, r)
  PROVE  IInv' /\ Implements
<1> DEFINE e == Execute("settle", r)
           q == <<Empty, e>>
<1>1. e \in Events /\ e.kind = "settle" /\ e.to = r /\ e.kind \in Callbacks /\ Empty \in Events /\ Empty.kind = "empty"
  BY EventKinds
<1>2. q # <<>> /\ Head(q) = Empty /\ First(Tail(q), e)
  BY Scripts
<1>3. Make(m, Nobody, q)
  BY DEF Settled, Empty
<1> HIDE DEF e
<1>4. q \in Seq(Events) /\ \A i \in DOMAIN q : q[i].kind # "get"
  BY <1>1
<1> HIDE DEF q
<1>5. Script(q) = r
  BY <1>1, <1>2, <1>4, MailOfTwo
<1>6. First(Tail(q), Execute("settle", r))
  BY <1>2 DEF e
<1> QED BY <1>2, <1>3, <1>4, <1>5, <1>6, MaybeKinds, MakeSteps

LEMMA ThenSteps ==
  ASSUME IInv, Next, NEW p \in Maybes, NEW m \in Maybes, Then(p, m)
  PROVE  IInv' /\ Implements
<1> DEFINE q == <<Empty, Chain>>
<1>1. Chain \in Events /\ Chain.kind = "then" /\ Chain.kind \in Callbacks /\ Empty \in Events /\ Empty.kind = "empty"
  BY EventKinds
<1>2. q # <<>> /\ Head(q) = Empty /\ First(Tail(q), Chain)
  BY Scripts
<1>3. Born(p) /\ Make(m, p, q)
  BY DEF Then, Empty, Chain
<1>4. q \in Seq(Events) /\ \A i \in DOMAIN q : q[i].kind # "get"
  BY <1>1
<1> HIDE DEF q
<1>5. Script(q) = Pending
  BY <1>1, <1>2, <1>4, MailOfTwo
<1> QED BY <1>2, <1>3, <1>4, <1>5, MakeSteps

LEMMA ValueSteps ==
  ASSUME IInv, Next, NEW c \in Clients, NEW m \in Maybes, Value(c, m)
  PROVE  IInv' /\ Implements
<1>1. AllOutcomes' = AllOutcomes /\ AllWanted' = AllWanted /\ IInv'
  BY ValueKeeps, AllKept, Preserved
<1>2. AllOutcomes[m] # Unborn
  BY Mapped DEF Value
<1>3. Abstract!Ask(c, m)
  BY <1>1, <1>2 DEF Abstract!Ask, Value
<1> QED BY <1>1, <1>3 DEF Implements, Abstract!Next

LEMMA ReturnValueSteps ==
  ASSUME IInv, Next, NEW c \in Clients, ReturnValue(c)
  PROVE  IInv' /\ Implements
<1>1. AllOutcomes' = AllOutcomes /\ AllWanted' = AllWanted /\ IInv'
  BY ReturnValueKeeps, AllKept, Preserved
<1>2. Abstract!Return(c)
  BY <1>1 DEF Abstract!Return, ReturnValue
<1> QED BY <1>1, <1>2 DEF Implements, Abstract!Next

\* A step inside the Held process or its sandbox.
LEMMA InnerSteps ==
  ASSUME IInv, Next, NEW m \in Maybes, mbox' \in [Maybes -> Seq(Events)], Stage(m)', Keeps,
         \A k \in Maybes \ {m} : Steady(k) /\ Hears(k),
         Outcome(m)' = Outcome(m), Wanted(m)' = Wanted(m), UNCHANGED <<parent, given, reading, reply>>
  PROVE  IInv' /\ Implements
<1>1. AllOutcomes' = AllOutcomes /\ AllWanted' = AllWanted /\ \A k \in Maybes : Stage(k)'
  BY OthersKept
<1>2. IInv'
  BY <1>1, Preserved
<1> QED BY <1>1, <1>2 DEF Implements, Abstract!vars

LEMMA ExecuteSteps ==
  ASSUME IInv, Next, NEW m \in Maybes, HandleExecute(m)
  PROVE  IInv' /\ Implements
BY ExecuteMoves, ExecuteKeeps, InnerSteps DEF HandleExecute

LEMMA AskSteps ==
  ASSUME IInv, Next, NEW m \in Maybes, AskParent(m)
  PROVE  IInv' /\ Implements
BY AskMoves, AskKeeps, InnerSteps DEF AskParent

LEMMA LoseSteps ==
  ASSUME IInv, Next, NEW m \in Maybes, LoseSandbox(m), sandbox[m] \in {"asking", "program"}
  PROVE  IInv' /\ Implements
<1>1. UNCHANGED <<parent, given, reading, reply>> /\ held'[m] # "unborn"
  BY DEF LoseSandbox, IInv, TypeOK
<1>2. Touches(m) /\ Stage(m)' /\ Outcome(m)' = Outcome(m) /\ Wanted(m)' = Wanted(m)
  BY LoseMoves
<1> QED BY <1>1, <1>2, TouchesKept, TouchesKeeps, InnerSteps

LEMMA EndSteps ==
  ASSUME IInv, Next, NEW m \in Maybes, End(m)
  PROVE  IInv' /\ Implements
<1>1. UNCHANGED <<parent, given, reading, reply>> /\ held'[m] # "unborn"
  BY DEF End, IInv, TypeOK
<1>2. Touches(m) /\ Stage(m)' /\ Outcome(m)' = Outcome(m) /\ Wanted(m)' = Wanted(m)
  BY EndMoves
<1> QED BY <1>1, <1>2, TouchesKept, TouchesKeeps, InnerSteps

LEMMA SettleSteps ==
  ASSUME IInv, Next, NEW m \in Maybes, NEW r \in Explicit, Settle(m, r)
  PROVE  IInv' /\ Implements
<1>1. /\ Touches(m) /\ Stage(m)'
      /\ Called(m) /\ Outcome(m) = Pending /\ Wanted(m) = Pending /\ Outcome(m)' = Pending /\ Wanted(m)' = r
  BY SettleMoves
<1>2. UNCHANGED <<parent, given, reading, reply, held>>
  BY DEF Settle
<1>3. /\ AllOutcomes' = AllOutcomes /\ AllWanted' = [AllWanted EXCEPT ![m] = r]
      /\ \A k \in Maybes : Stage(k)'
  BY <1>1, TouchesKept, OthersKept
<1>4. IInv'
  BY <1>1, <1>2, <1>3, TouchesKept, TouchesKeeps, Preserved
<1>5. r \in Abstract!Explicit /\ Abstract!Called(m)
  BY <1>1, ResolutionKinds DEF Abstract!Explicit, Abstract!Called, Called
<1>6. Abstract!Tell(m)
  BY <1>1, <1>2, <1>3, <1>5, Mapped DEF Abstract!Tell
<1> QED BY <1>4, <1>6 DEF Implements, Abstract!Next

LEMMA ReturnSteps ==
  ASSUME IInv, Next, NEW m \in Maybes, ReturnSandbox(m)
  PROVE  IInv' /\ Implements
<1>1. /\ Touches(m) /\ Stage(m)' /\ Wanted(m)' = Wanted(m) /\ Outcome(m) = Pending
      /\ \/ Outcome(m)' = Pending
         \/ Called(m) /\ Outcome(m)' = IF Wanted(m) = Pending THEN Nil ELSE Wanted(m)
  BY ReturnMoves
<1>2. UNCHANGED <<parent, given, reading, reply>> /\ held'[m] # "unborn"
  BY DEF ReturnSandbox, IInv, TypeOK
<1>3. Keeps /\ mbox' \in [Maybes -> Seq(Events)] /\ \A k \in Maybes \ {m} : Steady(k) /\ Hears(k)
  BY <1>1, <1>2, TouchesKept, TouchesKeeps
<1>4. CASE Outcome(m)' = Pending
  BY <1>1, <1>2, <1>3, <1>4, InnerSteps
<1>5. CASE Called(m) /\ Outcome(m)' = IF Wanted(m) = Pending THEN Nil ELSE Wanted(m)
  <2>1. PICK x : x = IF Wanted(m) = Pending THEN Nil ELSE Wanted(m)
    OBVIOUS
  <2>2. /\ AllOutcomes' = [AllOutcomes EXCEPT ![m] = x] /\ AllWanted' = AllWanted
        /\ \A k \in Maybes : Stage(k)'
    BY <1>1, <1>3, <1>5, <2>1, OthersKept
  <2>3. IInv'
    BY <1>3, <2>2, Preserved
  <2>4. AllOutcomes[m] = Pending /\ AllWanted[m] = Wanted(m)
    BY <1>1, Mapped
  <2>5. Abstract!Called(m)
    BY <1>5, ResolutionKinds DEF Abstract!Called, Called
  <2>6. x = IF AllWanted[m] = Pending THEN Unpack(Pending) ELSE AllWanted[m]
    BY <2>1, <2>4, ResolutionKinds
  <2>7. Abstract!Settle(m)
    BY <1>2, <2>2, <2>4, <2>5, <2>6 DEF Abstract!Settle
  <2> QED BY <2>3, <2>7 DEF Implements, Abstract!Next
<1> QED BY <1>1, <1>4, <1>5

LEMMA GetOfClientSteps ==
  ASSUME IInv, Next, NEW m \in Maybes, HandleGetOfClient(m)
  PROVE  IInv' /\ Implements
<1>1. AllOutcomes' = AllOutcomes /\ AllWanted' = AllWanted /\ IInv'
  BY GetOfClientMoves, GetOfClientKeeps, AllKept, Preserved
<1>2. AllOutcomes[m] = value[m] /\ value[m] \in Resolutions
  BY GetOfClientMoves, Mapped
<1>3. PICK c \in Clients : reading[c] = m /\ reply[c] = Pending /\ reply' = [reply EXCEPT ![c] = value[m]]
  BY GetOfClientKeeps
<1>4. Abstract!Answer(c)
  BY <1>1, <1>2, <1>3, MaybeKinds DEF Abstract!Answer, Abstract!Settled, HandleGetOfClient
<1> QED BY <1>1, <1>4 DEF Implements, Abstract!Next

LEMMA GetOfThenSteps ==
  ASSUME IInv, Next, NEW m \in Maybes, HandleGetOfThen(m)
  PROVE  IInv' /\ Implements
<1>1. PICK k \in Maybes : k = Head(mbox[m]).from
  BY DEF HandleGetOfThen
<1>2. /\ mbox' \in [Maybes -> Seq(Events)] /\ Stage(k)'
      /\ \A n \in Maybes \ {k} : Steady(n) /\ Hears(n)
      /\ Outcome(m) = value[m] /\ value[m] \in Resolutions
      /\ Outcome(k)' = Outcome(k) /\ Wanted(k)' = Wanted(k)
      /\ \/ UNCHANGED given
         \/ Outcome(k) = Pending /\ given[k] = Pending /\ given' = [given EXCEPT ![k] = value[m]]
  BY <1>1, GetOfThenMoves
<1>3. Keeps /\ parent[k] = m
  BY <1>1, GetOfThenKeeps
<1>4. UNCHANGED <<parent, reading, reply>>
  BY DEF HandleGetOfThen
<1>5. CASE UNCHANGED given
  BY <1>2, <1>3, <1>4, <1>5, InnerSteps
<1>6. CASE Outcome(k) = Pending /\ given[k] = Pending /\ given' = [given EXCEPT ![k] = value[m]]
  <2>1. AllOutcomes' = AllOutcomes /\ AllWanted' = AllWanted /\ \A n \in Maybes : Stage(n)'
    BY <1>2, OthersKept
  <2>2. IInv'
    BY <1>2, <1>3, <2>1, Preserved
  <2>3. AllOutcomes[k] = Pending /\ AllOutcomes[m] = value[m] /\ m # Nobody
    BY <1>2, <1>6, Mapped, MaybeKinds
  <2>4. Abstract!Run(k)
    BY <1>2, <1>3, <1>4, <1>6, <2>1, <2>3 DEF Abstract!Run, Abstract!Settled
  <2> QED BY <2>2, <2>4 DEF Implements, Abstract!Next
<1> QED BY <1>2, <1>5, <1>6

LEMMA Steps ==
  ASSUME IInv, Next
  PROVE  IInv' /\ Implements
<1>1. CASE ProgramNext
  BY <1>1, NewSteps, SettledSteps, SettleSteps, ThenSteps, ValueSteps DEF ProgramNext
<1>2. CASE HostNext
  BY <1>2, LoseSteps, EndSteps DEF HostNext, Trap, DieWithParent
<1>3. ASSUME NEW m \in Maybes, HeldNext(m) PROVE IInv' /\ Implements
  BY <1>3, ExecuteSteps, GetOfClientSteps, GetOfThenSteps DEF HeldNext
<1>4. ASSUME NEW m \in Maybes, SandboxNext(m) PROVE IInv' /\ Implements
  BY <1>4, AskSteps, ReturnSteps DEF SandboxNext
<1>5. ASSUME NEW c \in Clients, ReturnValue(c) PROVE IInv' /\ Implements
  BY <1>5, ReturnValueSteps
<1> QED BY <1>1, <1>2, <1>3, <1>4, <1>5 DEF Next

LEMMA IdleSteps ==
  ASSUME IInv, UNCHANGED vars
  PROVE  IInv' /\ Implements
<1>1. /\ held' = held /\ value' = value /\ mbox' = mbox /\ sandbox' = sandbox /\ ctx' = ctx
      /\ parent' = parent /\ given' = given /\ reading' = reading /\ reply' = reply
  BY DEF vars
<1>2. AllOutcomes' = AllOutcomes /\ AllWanted' = AllWanted /\ \A k \in Maybes : Stage(k)'
  BY <1>1, AllKept DEF Steady, Hears
<1>3. TypeOK' /\ Awaited'
  BY <1>1 DEF IInv, TypeOK, Awaited
<1>4. \A k \in Maybes : Asking(k)' /\ Family(k)'
  BY <1>1 DEF IInv, Asking, Family, Born
<1> QED BY <1>1, <1>2, <1>3, <1>4 DEF IInv, Implements, Abstract!vars

LEMMA InitSteps ==
  ASSUME Init
  PROVE  IInv /\ Abstract!Init
<1>1. \A m \in Maybes : Nowhere(m)
  BY DEF Init, Nowhere
<1>2. TypeOK
  <2>1. <<>> \in Seq(Events)
    OBVIOUS
  <2> QED BY <2>1, ResolutionKinds DEF Init, TypeOK
<1>3. Awaited /\ \A m \in Maybes : Asking(m) /\ Family(m)
  BY MaybeKinds DEF Init, Awaited, Asking, Family
<1>4. \A m \in Maybes : Outcome(m) = Unborn /\ Wanted(m) = Pending
  BY <1>1, <1>2, StagesMean DEF AllMean, Means, TypeOK
<1>5. AllOutcomes = [m \in Maybes |-> Unborn] /\ AllWanted = [m \in Maybes |-> Pending]
  BY <1>4 DEF AllOutcomes, AllWanted
<1>6. Abstract!Init
  BY <1>5 DEF Abstract!Init, Init
<1> QED BY <1>1, <1>2, <1>3, <1>6 DEF IInv, Stage

\* Every state is as its stage says, and every mailbox holds the gets of those
\* who wait for them (maybe.ts:78-177).
THEOREM Invariant == Spec => []IInv
<1>1. Init => IInv
  BY InitSteps
<1>2. IInv /\ [Next]_vars => IInv'
  BY Steps, IdleSteps
<1> QED BY <1>1, <1>2, PTL DEF Spec

\* The state of Maybes, their processes and their readers keeps its type
\* (maybe.ts:78-177).
THEOREM TypeCorrect == Spec => []TypeOK
<1>1. IInv => TypeOK
  BY DEF IInv
<1> QED BY <1>1, Invariant, PTL

\* Maybes keep what Promises says: each is settled once, as it was first told,
\* the callback of a then runs once and on what its parent was settled with, and
\* no reader sees more or less than that (maybe.ts:78-171, held.ts:67-87).
THEOREM PromisesKept == Spec => KeepsPromises
<1>1. Init => Abstract!Init
  BY InitSteps
<1>2. IInv /\ [Next]_vars => [Abstract!Next]_(Abstract!vars)
  BY Steps, IdleSteps DEF Implements
<1> QED BY <1>1, <1>2, Invariant, PTL DEF Spec, KeepsPromises, Abstract!Spec
=============================================================================
