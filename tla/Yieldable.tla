----------------------------- MODULE Yieldable ------------------------------
(***************************************************************************)
(* A Yieldable (src/assembly/managed/yieldable.ts): a process, the         *)
(* generator, that runs a callback which yields values to whoever calls    *)
(* next.  The generator handles the events in its mailbox only while the   *)
(* callback waits in yield, and after it has returned.                     *)
(*                                                                         *)
(* Handles are counted by the same protocol as those of a Held, written a  *)
(* second time: what the consumers and their helpers do is an instance of  *)
(* HeldLifetime, and so are the handlers that do the same.  The generator  *)
(* kills itself where the Held process returns.                            *)
(***************************************************************************)
EXTENDS Integers, Sequences, FiniteSets

CONSTANTS
  Holders, Handles, NoPid, Exiting, Crashing,   \* as in HeldLifetime
  Nothing, Never,
  Lengths   \* the numbers of values a callback may yield

ASSUME FiniteAssumption == IsFiniteSet(Holders) /\ IsFiniteSet(Handles)
ASSUME ValuesAssumption == Lengths \subseteq Nat /\ Nothing \notin Nat /\ Never \notin Nat /\ Nothing # Never

VARIABLES
  held, ref, mbox, link, status, tagged, handle, owner, helpers, died,   \* as in HeldLifetime
  phase,     \* where the generator is: "busy" in the callback, "yielding" or "done"
  out,       \* how many values it has handed out
  length,    \* how many values the callback yields
  end,       \* how the callback ends then
  calling,   \* the holders that wait in next
  reply      \* holder -> the value in its mailbox, or Nothing

holderVars == <<status, tagged, handle, owner, helpers, died>>
countVars == <<held, ref, mbox, link, holderVars>>
streamVars == <<phase, out, length, end, calling, reply>>
vars == <<countVars, streamVars>>

Count == INSTANCE HeldLifetime

Phases == {"busy", "yielding", "done"}

TypeOK ==
  /\ mbox \in Seq([kind : {"inc", "dec", "link", "signal", "next"}, pid : Holders \cup {NoPid}])
  /\ ref \in Int /\ phase \in Phases
  /\ out \in 0..length /\ length \in Nat
  /\ end \in {"return", "trap"}
  /\ calling \subseteq Holders
  /\ reply \in [Holders -> Nat \cup {Nothing}]
  /\ \A p \in Holders : Count!Running(p) /\ reply[p] # Nothing => p \in calling
  /\ phase = "yielding" => out < length
  /\ phase = "done" => out = length /\ end = "return"

\* The constructor has returned: the process is spawned and the first Link sent.
Init ==
  /\ Count!Init
  /\ phase = "busy"
  /\ out = 0
  /\ length \in Lengths
  /\ end \in {"return", "trap"}
  /\ calling = {}
  /\ reply = [p \in Holders |-> Nothing]

-----------------------------------------------------------------------------
Ready(p) == Count!Running(p) /\ p \notin calling

Serialize(p, h, q, g) == Ready(p) /\ Count!Serialize(p, h, q, g) /\ UNCHANGED streamVars
Deserialize(p, h) == Ready(p) /\ Count!Deserialize(p, h) /\ UNCHANGED streamVars
Finalize(p, h) == Ready(p) /\ Count!Finalize(p, h) /\ UNCHANGED streamVars
Exit(p) == Ready(p) /\ Count!Exit(p) /\ UNCHANGED streamVars
Trap(p) == Ready(p) /\ Count!Trap(p) /\ UNCHANGED streamVars

\* Yieldable#next: a request whose timeout is passed as its tag, so that it waits
\* for as long as it takes.
Next(p) ==
  /\ Ready(p) /\ \E h \in Handles : Count!Holds(p, h)
  /\ Count!Deliver(Count!Notice("next", p))
  /\ calling' = calling \cup {p}
  /\ UNCHANGED <<held, ref, link, holderVars, phase, out, length, end, reply>>

Return(p) ==
  /\ Count!Running(p) /\ reply[p] # Nothing
  /\ calling' = calling \ {p}
  /\ reply' = [reply EXCEPT ![p] = Nothing]
  /\ UNCHANGED <<countVars, phase, out, length, end>>

HelperSend(x) == Count!HelperSend(x) /\ UNCHANGED streamVars
HelperDies(x) == Count!HelperDies(x) /\ UNCHANGED streamVars
AckLink(p) == Count!AckLink(p) /\ UNCHANGED streamVars

\* A holder that is linked to the generator dies with it: when it trapped, and
\* when it killed itself.
DieWithGenerator(p) ==
  /\ held \in {"trapped", "returned"} /\ link[p] = "linked"
  /\ Count!End(p, "trapped")
  /\ link' = [link EXCEPT ![p] = "none"]
  /\ UNCHANGED <<held, mbox, streamVars>>
-----------------------------------------------------------------------------
Start == Count!Start /\ UNCHANGED streamVars

InCallback == held = "running" /\ phase = "busy"

\* The callback yields the next value, or it ends.
Yield ==
  /\ InCallback /\ out < length
  /\ phase' = "yielding"
  /\ UNCHANGED <<countVars, out, length, end, calling, reply>>

Finish ==
  /\ InCallback /\ out = length /\ end = "return"
  /\ phase' = "done"
  /\ UNCHANGED <<countVars, out, length, end, calling, reply>>

Fail ==
  /\ InCallback /\ out = length /\ end = "trap"
  /\ held' = "trapped" /\ mbox' = <<>>
  /\ UNCHANGED <<ref, link, holderVars, streamVars>>

\* Mutant: yield leaves the notices in the mailbox to the loop after the callback.
ReceivingLate == phase = "done"

\* YieldableContext#yield and the loop after the callback take any message.
Receiving == phase \in {"yielding", "done"}

\* Mutant: the increment is received and not counted.
HandleIncrementUncounted ==
  /\ Receiving /\ Count!Receive("inc")
  /\ Count!Continue("running")
  /\ UNCHANGED <<ref, link, streamVars>>

\* Mutant: the generator ends one reference too early.
HandleDecrementEarly == Receiving /\ Count!DecrementEarly /\ UNCHANGED streamVars

\* Mutant: the generator ends one reference too late.
HandleDecrementLate == Receiving /\ Count!DecrementLate /\ UNCHANGED streamVars

HandleIncrement == Receiving /\ Count!HandleIncrement /\ UNCHANGED streamVars
HandleDecrement == Receiving /\ Count!HandleDecrement /\ UNCHANGED streamVars
HandleLink == Receiving /\ Count!HandleLink /\ UNCHANGED streamVars

\* Mutant: the value is handed out and the callback goes on yielding it.
HandleNextAgain ==
  /\ phase = "yielding" /\ Count!Receive("next")
  /\ reply' = [reply EXCEPT ![Head(mbox).pid] = out + 1]
  /\ out' = out
  /\ phase' = "busy"
  /\ Count!Continue("running")
  /\ UNCHANGED <<ref, link, length, end, calling>>

\* The caller gets the value that is yielded; the callback goes on.
HandleNext ==
  /\ phase = "yielding" /\ Count!Receive("next")
  /\ reply' = [reply EXCEPT ![Head(mbox).pid] = out + 1]
  /\ out' = out + 1
  /\ phase' = "busy"
  /\ Count!Continue("running")
  /\ UNCHANGED <<ref, link, length, end, calling>>

\* After the callback has returned, next is handled and not replied to.
HandleNextDone ==
  /\ phase = "done" /\ Count!Receive("next")
  /\ Count!Continue("running")
  /\ UNCHANGED <<ref, link, streamVars>>

\* In yield a signal is handled as a Decrement from the process whose id is the
\* signal's tag.  Whether there is such a process, and which, is an accident.
HandleSignalYielding ==
  /\ phase = "yielding" /\ Count!Receive("signal")
  /\ ref' = ref - 1
  /\ \/ Count!Continue("trapped") /\ UNCHANGED link
     \/ /\ link' \in {link} \cup {[link EXCEPT ![q] = "none"] : q \in {p \in Holders : Count!Running(p)}}
        /\ Count!Continue(IF ref - 1 <= 0 THEN "returned" ELSE "running")
  /\ UNCHANGED streamVars

HandleSignalDone == phase = "done" /\ Count!HandleSignal /\ UNCHANGED streamVars
-----------------------------------------------------------------------------
HolderNext ==
  \/ \E p, q \in Holders, h, g \in Handles : Serialize(p, h, q, g)
  \/ \E p \in Holders, h \in Handles : Deserialize(p, h) \/ Finalize(p, h)
  \/ \E p \in Holders : Exit(p) \/ Trap(p) \/ Next(p)

HostNext ==
  \/ \E x \in helpers : HelperSend(x) \/ HelperDies(x)
  \/ \E p \in Holders : AckLink(p) \/ DieWithGenerator(p)

GeneratorNext ==
  \/ Start \/ Yield \/ Finish \/ Fail
  \/ HandleIncrement \/ HandleDecrement \/ HandleLink
  \/ HandleNext \/ HandleNextDone \/ HandleSignalYielding \/ HandleSignalDone

Step == HolderNext \/ HostNext \/ GeneratorNext \/ \E p \in Holders : Return(p)

Spec == Init /\ [][Step]_vars

\* Lunatic runs the helpers, the generator while it can go on, and a consumer
\* whose value has come.  The callback is one that reaches its next yield.
FairSpec ==
  /\ Spec
  /\ WF_vars(HostNext) /\ WF_vars(GeneratorNext)
  /\ \A p \in Holders : WF_vars(Return(p))
-----------------------------------------------------------------------------
\* The calls of next in the mailbox, and the place of one of them among them.
Asked == Count!At(mbox, "next")
Place(i) == Cardinality({j \in Asked : j <= i})

Owed(p) ==
  LET S == {i \in Asked : mbox[i].pid = p} IN
  IF p \notin calling \/ ~Count!Running(p) THEN Nothing
  ELSE IF reply[p] # Nothing THEN reply[p]
  ELSE IF S = {} THEN Never
  ELSE LET n == out + Place(CHOOSE i \in S : TRUE) IN IF n <= length THEN n ELSE Never

AllOwed == [p \in Holders |-> Owed(p)]
Taken ==
  LET n == out + Cardinality(Asked) IN
  IF ~Count!Active THEN 0 ELSE IF n <= length THEN n ELSE length

\* The values go to the calls of next in the order of the calls, each to one
\* call: no event, crash or copy of a handle in between loses or repeats one
\* (yieldable.ts:36-60, 184-191).
Abstract == INSTANCE Stream WITH Clients <- Holders, taken <- Taken, lost <- ~Count!Active, owed <- AllOwed
KeepsStream == Abstract!Spec

\* The count of handles is kept as that of a Held, although a signal is taken
\* for a Decrement and nothing is handled while the callback runs
\* (yieldable.ts:83-118, 152-159, 214-258).
Covered == Count!Covered

\* While every consumer runs the account is exact: whatever waits in the mailbox
\* while the callback runs, no reference leaks (yieldable.ts:36-60, 83-105).
Balanced == Count!Balanced

\* When the generator decides that no reference is left, in yield or after the
\* callback, each handle that still exists is matched by an increment that was
\* overtaken or killed, or by a crash; a signal taken for a Decrement ends it under
\* no other handle (yieldable.ts:55-58, 93-105).
ReturnsUnclaimed == Count!ReturnsUnclaimed

\* A call of next ends, unless the callback has returned or the generator has
\* ended (yieldable.ts:36-60).
Answered == \A p \in Holders : p \in calling ~> p \notin calling \/ phase = "done" \/ ~Count!Active

\* Once every handle was dropped by a holder that still runs, the generator does
\* not live on (yieldable.ts:93-105, 161-178).
Reclaimed == Count!Unclaimed ~> ~Count!Active
=============================================================================
