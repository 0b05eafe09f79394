------------------------------- MODULE Maybe --------------------------------
(***************************************************************************)
(* Maybes (src/assembly/managed/maybe.ts): each is a Held whose value is   *)
(* its resolution.  The constructors send it callbacks to execute; a then  *)
(* sends one that reads the resolution of another Maybe, which may take as *)
(* long as it likes, and calls the program's callback with it.             *)
(*                                                                         *)
(* The Held process runs a callback in a sandbox and takes no other event  *)
(* until the sandbox has answered; HeldValue models that handler in        *)
(* detail.  A callback that traps leaves it waiting for good, and a Held   *)
(* process may end under its handles, as HeldLifetime shows.               *)
(***************************************************************************)
EXTENDS Naturals, Sequences

CONSTANTS
  Clients,    \* the processes of the program
  Values,     \* the values to resolve or to reject with
  Null,       \* no value
  Nobody,
  MaxMaybes,  \* bound on the Maybes the program makes
  Trapping,   \* the Maybes whose callbacks may trap
  Ending      \* the Maybes whose Held process may end

ASSUME MaxAssumption == MaxMaybes \in Nat /\ Nobody \notin 1..MaxMaybes

\* A process of the program is none of the Maybes.
ASSUME ClientsAssumption == Clients \cap 1..MaxMaybes = {}

VARIABLES
  held,      \* Maybe -> its Held process
  value,     \* Maybe -> the resolution that process holds
  mbox,      \* Maybe -> the mailbox of that process
  sandbox,   \* Maybe -> the process that runs its callback, while there is one
  ctx,       \* Maybe -> the resolution that callback has made so far
  parent,    \* Maybe -> the Maybe it is a then of, or Nobody
  given,     \* Maybe -> the resolution of the parent that its callback got
  reading,   \* client -> the Maybe whose resolution it waits for, or Nobody
  reply      \* client -> the resolution in its mailbox, or Pending

vars == <<held, value, mbox, sandbox, ctx, parent, given, reading, reply>>

Maybes == 1..MaxMaybes

Resolution(status, v) == [status |-> status, value |-> v]
Pending == Resolution("Pending", Null)
Resolutions == [status : {"Resolved", "Rejected"}, value : Values \cup {Null}]
Maybeness == Resolutions \cup {Pending}

\* The callbacks a Held is sent: the empty one, the program's own, the one that
\* sets a resolution and the one of a then.
Callbacks == {"empty", "program", "settle", "then"}

Execute(callback, r) == [kind |-> callback, from |-> Nobody, to |-> r]
Get(who) == [kind |-> "get", from |-> who, to |-> Pending]

Events == [kind : Callbacks \cup {"get"}, from : Clients \cup Maybes \cup {Nobody}, to : Maybeness]

TypeOK ==
  /\ held \in [Maybes -> {"unborn", "ready", "waiting", "stuck", "ended"}]
  /\ value \in [Maybes -> Maybeness]
  /\ mbox \in [Maybes -> Seq(Events)]
  /\ sandbox \in [Maybes -> Callbacks \cup {"none", "asking"}]
  /\ \A m \in Maybes : held[m] = "waiting" <=> sandbox[m] # "none"
  /\ ctx \in [Maybes -> Maybeness]
  /\ parent \in [Maybes -> Maybes \cup {Nobody}]
  /\ given \in [Maybes -> Maybeness]
  /\ reading \in [Clients -> Maybes \cup {Nobody}]
  /\ reply \in [Clients -> Maybeness]

Init ==
  /\ held = [m \in Maybes |-> "unborn"]
  /\ value = [m \in Maybes |-> Pending]
  /\ mbox = [m \in Maybes |-> <<>>]
  /\ sandbox = [m \in Maybes |-> "none"]
  /\ ctx = [m \in Maybes |-> Pending]
  /\ parent = [m \in Maybes |-> Nobody]
  /\ given = [m \in Maybes |-> Pending]
  /\ reading = [c \in Clients |-> Nobody]
  /\ reply = [c \in Clients |-> Pending]

Born(m) == held[m] # "unborn"
-----------------------------------------------------------------------------
\* A constructor creates the Held and sends it callbacks; no other process knows
\* the Maybe before it returns.
Make(m, p, events) ==
  /\ ~Born(m) /\ \A k \in 1..(m - 1) : Born(k)
  /\ \E c \in Clients : reading[c] = Nobody
  /\ held' = [held EXCEPT ![m] = "ready"]
  /\ mbox' = [mbox EXCEPT ![m] = events]
  /\ parent' = [parent EXCEPT ![m] = p]
  /\ UNCHANGED <<value, sandbox, ctx, given, reading, reply>>

New(m) == Make(m, Nobody, <<Execute("program", Pending)>>)

\* Maybe.resolve and Maybe.reject.
Settled(m, r) == Make(m, Nobody, <<Execute("empty", Pending), Execute("settle", r)>>)

Then(p, m) ==
  /\ Born(p)
  /\ Make(m, p, <<Execute("empty", Pending), Execute("then", Pending)>>)

Deliver(m, e) == mbox' = [mbox EXCEPT ![m] = IF held[m] = "ended" THEN @ ELSE Append(@, e)]

\* The getter value waits for as long as it takes.
Value(c, m) ==
  /\ reading[c] = Nobody /\ Born(m)
  /\ Deliver(m, Get(c))
  /\ reading' = [reading EXCEPT ![c] = m]
  /\ UNCHANGED <<held, value, sandbox, ctx, parent, given, reply>>

ReturnValue(c) ==
  /\ reply[c] # Pending
  /\ reading' = [reading EXCEPT ![c] = Nobody]
  /\ reply' = [reply EXCEPT ![c] = Pending]
  /\ UNCHANGED <<held, value, mbox, sandbox, ctx, parent, given>>
-----------------------------------------------------------------------------
\* The Held process takes its first event.
Take(m, kinds) ==
  /\ held[m] = "ready" /\ mbox[m] # <<>> /\ Head(mbox[m]).kind \in kinds
  /\ mbox' = [mbox EXCEPT ![m] = Tail(@)]

HandleExecute(m) ==
  /\ Take(m, Callbacks)
  /\ held' = [held EXCEPT ![m] = "waiting"]
  /\ sandbox' = [sandbox EXCEPT ![m] = Head(mbox[m]).kind]
  /\ ctx' = [ctx EXCEPT ![m] = Head(mbox[m]).to]
  /\ UNCHANGED <<value, parent, given, reading, reply>>

\* Mutant: a get is answered by a settled Maybe only.
HandleGetLater(m) ==
  LET c == Head(mbox[m]).from IN
  /\ Take(m, {"get"}) /\ c \in Clients
  /\ reply' = [reply EXCEPT ![c] = IF value[m].value = Null THEN Pending ELSE value[m]]
  /\ UNCHANGED <<held, value, sandbox, ctx, parent, given, reading>>

HandleGetOfClient(m) ==
  LET c == Head(mbox[m]).from IN
  /\ Take(m, {"get"}) /\ c \in Clients
  /\ reply' = [reply EXCEPT ![c] = value[m]]
  /\ UNCHANGED <<held, value, sandbox, ctx, parent, given, reading>>

\* The callback of a then goes on with the parent's resolution: it calls one of
\* the program's callbacks, or none if the resolution were still pending.
HandleGetOfThen(m) ==
  LET k == Head(mbox[m]).from IN
  /\ Take(m, {"get"}) /\ k \in Maybes
  /\ IF sandbox[k] # "asking" THEN UNCHANGED <<sandbox, given>>
     ELSE /\ given' = [given EXCEPT ![k] = value[m]]
          /\ sandbox' = [sandbox EXCEPT ![k] = IF value[m] = Pending THEN "empty" ELSE "program"]
  /\ UNCHANGED <<held, value, ctx, parent, reading, reply>>
-----------------------------------------------------------------------------
\* Mutant: a then waits for its own resolution.
AskItself(m) ==
  /\ sandbox[m] = "then"
  /\ Deliver(m, Get(m))
  /\ sandbox' = [sandbox EXCEPT ![m] = "asking"]
  /\ UNCHANGED <<held, value, ctx, parent, given, reading, reply>>

\* The callback of a then asks for the parent's resolution, without a timeout.
AskParent(m) ==
  /\ sandbox[m] = "then"
  /\ Deliver(parent[m], Get(m))
  /\ sandbox' = [sandbox EXCEPT ![m] = "asking"]
  /\ UNCHANGED <<held, value, ctx, parent, given, reading, reply>>

\* Mutant: the last call counts.
SettleLast(m, r) ==
  /\ sandbox[m] = "program"
  /\ ctx' = [ctx EXCEPT ![m] = r]
  /\ UNCHANGED <<held, value, mbox, sandbox, parent, given, reading, reply>>

\* The program's callback calls ctx.resolve or ctx.reject; the first call counts.
Settle(m, r) ==
  /\ sandbox[m] = "program" /\ ctx[m] = Pending
  /\ ctx' = [ctx EXCEPT ![m] = r]
  /\ UNCHANGED <<held, value, mbox, sandbox, parent, given, reading, reply>>

\* A callback that settled nothing resolves to nothing.
Unpack(r) == IF r = Pending THEN Resolution("Resolved", Null) ELSE r

\* Mutant: the sandbox goes on after it has sent its result.
ReturnSandboxAgain(m) ==
  /\ sandbox[m] \in {"empty", "settle", "program"}
  /\ held' = [held EXCEPT ![m] = "ready"]
  /\ value' = [value EXCEPT ![m] = Unpack(ctx[m])]
  /\ UNCHANGED <<sandbox, ctx, mbox, parent, given, reading, reply>>

\* The callback returns and the Held process replaces its value.
ReturnSandbox(m) ==
  /\ sandbox[m] \in {"empty", "settle", "program"}
  /\ held' = [held EXCEPT ![m] = "ready"]
  /\ value' = [value EXCEPT ![m] = Unpack(ctx[m])]
  /\ sandbox' = [sandbox EXCEPT ![m] = "none"]
  /\ ctx' = [ctx EXCEPT ![m] = Pending]
  /\ UNCHANGED <<mbox, parent, given, reading, reply>>

LoseSandbox(m) ==
  /\ held' = [held EXCEPT ![m] = "stuck"]
  /\ sandbox' = [sandbox EXCEPT ![m] = "none"]
  /\ UNCHANGED <<value, mbox, ctx, parent, given, reading, reply>>

Trap(m) == m \in Trapping /\ sandbox[m] = "program" /\ LoseSandbox(m)

\* The sandbox of a then holds a handle of the parent, and is linked to its process.
DieWithParent(m) ==
  /\ sandbox[m] \in {"asking", "program"}
  /\ parent[m] # Nobody /\ held[parent[m]] = "ended"
  /\ LoseSandbox(m)

End(m) ==
  /\ m \in Ending /\ held[m] = "ready"
  /\ held' = [held EXCEPT ![m] = "ended"]
  /\ UNCHANGED <<value, mbox, sandbox, ctx, parent, given, reading, reply>>
-----------------------------------------------------------------------------
Explicit == {r \in Resolutions : r.value # Null}

ProgramNext ==
  \/ \E m \in Maybes : New(m) \/ \E r \in Explicit : Settled(m, r) \/ Settle(m, r)
  \/ \E p, m \in Maybes : Then(p, m)
  \/ \E c \in Clients, m \in Maybes : Value(c, m)

HeldNext(m) == HandleExecute(m) \/ HandleGetOfClient(m) \/ HandleGetOfThen(m)

SandboxNext(m) == AskParent(m) \/ ReturnSandbox(m)

HostNext == \E m \in Maybes : Trap(m) \/ DieWithParent(m) \/ End(m)

Next ==
  \/ ProgramNext \/ HostNext
  \/ \E m \in Maybes : HeldNext(m) \/ SandboxNext(m)
  \/ \E c \in Clients : ReturnValue(c)

Spec == Init /\ [][Next]_vars

\* Lunatic runs each Held process and each sandbox, and wakes a client whose
\* answer has come; a callback of the program is taken to return or to trap.
FairSpec ==
  /\ Spec
  /\ \A m \in Maybes : WF_vars(HeldNext(m)) /\ WF_vars(SandboxNext(m))
  /\ \A c \in Clients : WF_vars(ReturnValue(c))
-----------------------------------------------------------------------------
\* m still has callbacks to execute, or will never answer.
Working(m) ==
  \/ sandbox[m] # "none" \/ held[m] = "stuck"
  \/ \E i \in DOMAIN mbox[m] : mbox[m][i].kind \in Callbacks

Unborn == Resolution("Unborn", Null)

\* What m was told to become: by the program's callback, or when it was made.
Wanted(m) ==
  LET S == {i \in DOMAIN mbox[m] : mbox[m][i].kind = "settle"} IN
  IF ctx[m] # Pending THEN ctx[m]
  ELSE IF value[m].value # Null THEN value[m]
  ELSE IF S # {} THEN mbox[m][CHOOSE i \in S : TRUE].to
  ELSE Pending

Outcome(m) == IF ~Born(m) THEN Unborn ELSE IF Working(m) THEN Pending ELSE value[m]

AllWanted == [m \in Maybes |-> Wanted(m)]
AllOutcomes == [m \in Maybes |-> Outcome(m)]

\* Each Maybe is settled once, as its callback said first; the callback of a then runs once and on what its
\* parent was settled with; and no reader sees the resolution that the empty
\* callback of a constructor leaves behind (maybe.ts:78-171, held.ts:67-87).
Abstract == INSTANCE Promises WITH
  Promised <- Maybes,
  Outcomes <- Resolutions,
  Nothing <- Unpack(Pending),
  wanted <- AllWanted,
  outcome <- AllOutcomes,
  read <- reply
KeepsPromises == Abstract!Spec

\* m and the Maybes it waits for, directly or not.
Line[m \in Maybes] == {m} \cup IF parent[m] = Nobody THEN {} ELSE Line[parent[m]]

Broken(m) == \E k \in Line[m] : held[k] \in {"stuck", "ended"}

\* A Maybe is settled in the end, unless a callback of it or of a Maybe it waits
\* for trapped, or one of their processes ended (maybe.ts:121-171).
Settles == \A m \in Maybes : Born(m) ~> ~Working(m) \/ Broken(m)

\* Who reads a Maybe gets its resolution, under the same condition
\* (maybe.ts:174-177).
Answered == \A c \in Clients, m \in Maybes : reading[c] = m ~> reading[c] # m \/ Broken(m)
=============================================================================
