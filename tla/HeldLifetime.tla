---------------------------- MODULE HeldLifetime ----------------------------
(***************************************************************************)
(* The distributed reference count that keeps the process behind a         *)
(* Held<T> alive (src/assembly/managed/held.ts).                           *)
(*                                                                         *)
(* One Held process owns the counter ctx.ref.  Handles (Held<T> objects)   *)
(* live in other processes, the holders; a handle is copied by serialising *)
(* it into a message and is dropped by free() or by its finalizer.  The    *)
(* three notices that keep the counter right -- Increment, Link and the    *)
(* finalizer's Decrement -- are sent by short-lived helper processes, so   *)
(* they reach the Held process in an order nobody controls.                *)
(*                                                                         *)
(* The lunatic host is external.  Its behaviour is the one documented in   *)
(* process/bindings.ts: link and unlink trap on a process id that does not *)
(* exist, a linked process that traps signals its links, a process that    *)
(* returns does not, and a message to a process that ended vanishes.       *)
(***************************************************************************)
EXTENDS Integers, Sequences, FiniteSets

CONSTANTS
  Holders,   \* the processes that may hold a handle
  Handles,   \* the handle objects; each is created and dropped at most once
  NoPid,     \* no process id
  Exiting,   \* the holders whose code may return
  Crashing   \* the holders whose code may trap

ASSUME FiniteAssumption == IsFiniteSet(Holders) /\ IsFiniteSet(Handles)
ASSUME NoPidAssumption == NoPid \notin Holders

VARIABLES
  held,      \* life cycle of the Held process
  ref,       \* ctx.ref
  mbox,      \* the mailbox of the Held process, in arrival order
  link,      \* holder -> the link between it and the Held process
  status,    \* holder -> its life cycle
  tagged,    \* the holders whose Process.tag counter has left 0
  handle,    \* handle -> its life cycle
  owner,     \* handle -> the process that holds or will receive it
  helpers,   \* the helper processes that have not sent their notice yet
  died       \* the helper processes that died before they sent it

vars == <<held, ref, mbox, link, status, tagged, handle, owner, helpers, died>>
holderVars == <<status, tagged, handle, owner, helpers, died>>

Notices == [kind : {"inc", "dec", "link", "signal"}, pid : Holders \cup {NoPid}]

Helpers == [kind : {"inc", "dec", "link"}, by : Holders, of : Handles, linked : BOOLEAN]

TypeOK ==
  /\ held \in {"starting", "running", "returned", "trapped"}
  /\ ref \in Int
  /\ mbox \in Seq(Notices)
  /\ link \in [Holders -> {"none", "asked", "linked"}]
  /\ status \in [Holders -> {"running", "exited", "trapped"}]
  /\ tagged \subseteq Holders
  /\ handle \in [Handles -> {"unborn", "sent", "live", "gone"}]
  /\ owner \in [Handles -> Holders \cup {NoPid}]
  /\ helpers \subseteq Helpers
  /\ died \subseteq Helpers
  /\ \A h \in Handles : handle[h] = "live" => owner[h] \in Holders

Active == held \in {"starting", "running"}
Running(p) == status[p] = "running"
Holds(p, h) == handle[h] = "live" /\ owner[h] = p

Notice(kind, pid) == [kind |-> kind, pid |-> pid]

\* Sending never fails: to a process that ended the message is lost.
Deliver(n) == mbox' = IF Active THEN Append(mbox, n) ELSE mbox

\* The helper that p spawns for handle h.  A spawn whose link tag is 0, the
\* first value of Process.tag, is not linked to p; nor is the finalizer's.
Helper(kind, p, h) ==
  [kind |-> kind, by |-> p, of |-> h, linked |-> kind # "dec" /\ p \in tagged]

\* What the helper sends.  Only Link and Decrement carry the holder's id.
NoticeOf(x) == Notice(x.kind, IF x.kind = "inc" THEN NoPid ELSE x.by)

-----------------------------------------------------------------------------
\* Held.create has returned in process c: the child is spawned, linked unless
\* the spawn used tag 0, and the constructor has sent the first Link.
Init ==
  \E c \in Holders, h \in Handles :
    /\ held = "starting"
    /\ ref = 1
    /\ mbox = <<Notice("link", c)>>
    /\ link \in {[p \in Holders |-> "none"], [p \in Holders |-> IF p = c THEN "linked" ELSE "none"]}
    /\ status = [p \in Holders |-> "running"]
    /\ tagged \in {T \in SUBSET Holders : c \in T}
    /\ handle = [g \in Handles |-> IF g = h THEN "live" ELSE "unborn"]
    /\ owner = [g \in Handles |-> IF g = h THEN c ELSE NoPid]
    /\ helpers = {}
    /\ died = {}

\* Mutant: the copy is sent but no Increment.
SerializeUncounted(p, h, q, g) ==
  /\ Running(p) /\ Holds(p, h) /\ handle[g] = "unborn"
  /\ tagged' = tagged \cup {p}
  /\ handle' = [handle EXCEPT ![g] = IF Running(q) THEN "sent" ELSE "gone"]
  /\ owner' = [owner EXCEPT ![g] = IF Running(q) THEN q ELSE NoPid]
  /\ UNCHANGED <<held, ref, mbox, link, status, helpers, died>>

\* p serialises its handle h into a message for q, where it becomes handle g.
Serialize(p, h, q, g) ==
  /\ Running(p) /\ Holds(p, h) /\ handle[g] = "unborn"
  /\ helpers' = helpers \cup {Helper("inc", p, g)}
  /\ tagged' = tagged \cup {p}
  /\ handle' = [handle EXCEPT ![g] = IF Running(q) THEN "sent" ELSE "gone"]
  /\ owner' = [owner EXCEPT ![g] = IF Running(q) THEN q ELSE NoPid]
  /\ UNCHANGED <<held, ref, mbox, link, status, died>>

\* q receives the message and deserialises handle g.
Deserialize(q, g) ==
  /\ Running(q) /\ handle[g] = "sent" /\ owner[g] = q
  /\ handle' = [handle EXCEPT ![g] = "live"]
  /\ helpers' = helpers \cup {Helper("link", q, g)}
  /\ tagged' = tagged \cup {q}
  /\ UNCHANGED <<held, ref, mbox, link, status, owner, died>>

Drop(h) ==
  /\ handle' = [handle EXCEPT ![h] = "gone"]
  /\ owner' = [owner EXCEPT ![h] = NoPid]

\* Mutant: free() disarms the finalizer and sends nothing.
FreeSilent(p, h) ==
  /\ Running(p) /\ Holds(p, h)
  /\ Drop(h)
  /\ UNCHANGED <<held, ref, mbox, link, status, tagged, helpers, died>>

\* free() sends the Decrement itself and disarms the finalizer.
Free(p, h) ==
  /\ Running(p) /\ Holds(p, h)
  /\ Deliver(Notice("dec", p))
  /\ Drop(h)
  /\ UNCHANGED <<held, ref, link, status, tagged, helpers, died>>

\* The garbage collector runs the finalizer: a helper will send the Decrement.
Finalize(p, h) ==
  /\ Running(p) /\ Holds(p, h)
  /\ helpers' = helpers \cup {Helper("dec", p, h)}
  /\ Drop(h)
  /\ UNCHANGED <<held, ref, mbox, link, status, tagged, died>>

HelperSend(x) ==
  /\ x \in helpers
  /\ helpers' = helpers \ {x}
  /\ Deliver(NoticeOf(x))
  /\ UNCHANGED <<held, ref, link, status, tagged, handle, owner, died>>

\* A helper linked to a process that trapped dies with it.
HelperDies(x) ==
  /\ x \in helpers /\ x.linked /\ status[x.by] = "trapped"
  /\ helpers' = helpers \ {x}
  /\ died' = died \cup {x}
  /\ UNCHANGED <<held, ref, mbox, link, status, tagged, handle, owner>>
-----------------------------------------------------------------------------
\* When p ends its heap goes with it: no finalizer runs, and the messages
\* still in its mailbox are lost.
End(p, how) ==
  /\ Running(p)
  /\ status' = [status EXCEPT ![p] = how]
  /\ handle' = [h \in Handles |-> IF owner[h] = p THEN "gone" ELSE handle[h]]
  /\ owner' = [h \in Handles |-> IF owner[h] = p THEN NoPid ELSE owner[h]]
  /\ UNCHANGED <<ref, tagged, helpers, died>>

Exit(p) == p \in Exiting /\ End(p, "exited") /\ UNCHANGED <<held, mbox, link>>

\* A trap reaches the Held process only over a completed link: as a message,
\* or as its own death while dieWhenLinkDies still holds.
Trap(p) ==
  /\ p \in Crashing
  /\ End(p, "trapped")
  /\ link' = [link EXCEPT ![p] = "none"]
  /\ IF link[p] # "linked" THEN UNCHANGED <<held, mbox>>
     ELSE IF held = "starting" THEN held' = "trapped" /\ mbox' = <<>>
     ELSE Deliver(Notice("signal", p)) /\ UNCHANGED held

\* A holder linked to a Held process that trapped dies too: the default of
\* dieWhenLinkDies.
DieWithHeld(p) ==
  /\ held = "trapped" /\ link[p] = "linked"
  /\ End(p, "trapped")
  /\ link' = [link EXCEPT ![p] = "none"]
  /\ UNCHANGED <<held, mbox>>

\* p processes the Link signal of the Held process.
AckLink(p) ==
  /\ Running(p) /\ link[p] = "asked"
  /\ link' = [link EXCEPT ![p] = "linked"]
  /\ UNCHANGED <<held, ref, mbox, holderVars>>
-----------------------------------------------------------------------------
\* The first statement of the Held process: Process.dieWhenLinkDies = false.
Start ==
  /\ held = "starting"
  /\ held' = "running"
  /\ UNCHANGED <<ref, mbox, link, holderVars>>

\* The loop of the Held process takes the first message, of any tag.
Receive(kind) ==
  /\ held = "running" /\ mbox # <<>>
  /\ Head(mbox).kind = kind

\* The mailbox disappears with the process.
Continue(next) ==
  /\ held' = next
  /\ mbox' = IF next = "running" THEN Tail(mbox) ELSE <<>>
  /\ UNCHANGED holderVars

HandleIncrement ==
  /\ Receive("inc")
  /\ ref' = ref + 1
  /\ Continue("running")
  /\ UNCHANGED link

\* ctx.ref-- first; then unlink, which traps if the holder has ended; then
\* the process returns if the references left are no more than last.
DecrementUntil(last) ==
  LET p == Head(mbox).pid IN
  /\ Receive("dec")
  /\ ref' = ref - 1
  /\ IF Running(p)
       THEN /\ link' = [link EXCEPT ![p] = "none"]
            /\ Continue(IF ref - 1 <= last THEN "returned" ELSE "running")
       ELSE /\ UNCHANGED link
            /\ Continue("trapped")

\* Mutants: the process returns one reference too early, or too late.
DecrementEarly == DecrementUntil(1)
DecrementLate == DecrementUntil(-1)

HandleDecrement == DecrementUntil(0)

HandleLink ==
  LET p == Head(mbox).pid IN
  /\ Receive("link")
  /\ UNCHANGED ref
  /\ IF Running(p)
       THEN /\ link' = [link EXCEPT ![p] = IF @ = "none" THEN "asked" ELSE @]
            /\ Continue("running")
       ELSE /\ UNCHANGED link
            /\ Continue("trapped")

\* The death of a linked holder drops a reference but never ends the process.
HandleSignal ==
  /\ Receive("signal")
  /\ ref' = ref - 1
  /\ Continue("running")
  /\ UNCHANGED link
-----------------------------------------------------------------------------
HolderNext ==
  \/ \E p, q \in Holders, h, g \in Handles : Serialize(p, h, q, g)
  \/ \E p \in Holders, h \in Handles : Deserialize(p, h) \/ Free(p, h) \/ Finalize(p, h)
  \/ \E p \in Holders : Exit(p) \/ Trap(p)

HostNext ==
  \/ \E x \in helpers : HelperSend(x) \/ HelperDies(x)
  \/ \E p \in Holders : AckLink(p) \/ DieWithHeld(p)

HeldNext == Start \/ HandleIncrement \/ HandleDecrement \/ HandleLink \/ HandleSignal

Next == HolderNext \/ HostNext \/ HeldNext

Spec == Init /\ [][Next]_vars

\* Helpers, the host and the Held process are scheduled by lunatic, which runs
\* every process that is ready; what the holders do is up to the program.
FairSpec == Spec /\ WF_vars(HostNext) /\ WF_vars(HeldNext)
-----------------------------------------------------------------------------
\* What is on its way to the Held process: in its mailbox or with a helper.
At(q, k) == {i \in DOMAIN q : q[i].kind = k}
Of(S, k) == {x \in S : x.kind = k}
InMbox(k) == Cardinality(At(mbox, k))
Underway(k) == InMbox(k) + Cardinality(Of(helpers, k))

Claimed == {h \in Handles : handle[h] \in {"sent", "live"}}
Trapped == {p \in Holders : status[p] = "trapped"}

Claims == Cardinality(Claimed)
Crashes == Cardinality(Trapped)
LostIncs == Cardinality(Of(died, "inc"))

AllRunning == \A p \in Holders : Running(p)

\* Whatever the order in which the helpers' notices arrive, and whichever
\* holders end without dropping their handles, the counter with the increments
\* still on their way covers the handles that exist with the decrements on
\* their way.  A crash may cost one reference, for a signal that counts a
\* handle already given back, and the increments whose helpers it kills
\* (held.ts:89-123, 207-208, 287-342).
Covered ==
  Active => ref + Underway("inc") + LostIncs + Crashes
              >= Claims + Underway("dec") + InMbox("signal")

\* While every holder runs the account is exact, so no reference leaks either.
Balanced == Active /\ AllRunning => ref + Underway("inc") = Claims + Underway("dec")

\* When the Held process decides that no reference is left (held.ts:108), each
\* handle that still exists is matched by an increment that was overtaken or
\* killed, or by a crash: nothing else can free a value that is in use.
Overtaken == Cardinality(At(Tail(mbox), "inc")) + Cardinality(Of(helpers, "inc"))
ReturnsUnclaimed ==
  [][Active /\ held' = "returned" => Claims' <= Overtaken + LostIncs + Crashes]_vars

\* Once every handle was dropped by a holder that still runs, the Held process
\* is not kept forever (held.ts:226, 286).
Unclaimed == Claims = 0 /\ AllRunning
Reclaimed == Unclaimed ~> ~Active
=============================================================================
