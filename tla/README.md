# as-lunatic in TLA+

as-lunatic is the AssemblyScript library for [lunatic](https://lunatic.solutions), a
WebAssembly host that runs many small processes with separate heaps and mailboxes.
The library wraps the host's calls (spawn, link, send, receive, sockets, files) in
classes, and builds on them values that live in a process of their own: `Held`,
`Yieldable`, `Maybe`, `SharedMap`. All paths below are relative to `src/`.

What is hard in this code is not in any function but between processes: messages of
several senders arrive in any order, a mailbox is shared by requests, signals and plain
messages that only tags tell apart, holders of a remote value end without notice, and
finalizers run when the garbage collector likes. The project models these parts and
checks what the library promises there.

## Inventory

| part | source | state | operations | correct if |
|---|---|---|---|---|
| Processes, requests | `assembly/process/index.ts` | the counters `Process.tag`, `Process.replyTag`; links in the host | spawn and its `inherit` variants, send, request, link, unlink, kill | a request ends with its own reply or a timeout |
| Messages, mailboxes | `assembly/message/` | the mailbox in the host, the scratch message | receive, receiveUnsafe, reply | nothing is lost or reordered by a wait |
| Held, lifetime | `assembly/managed/held.ts`, `assembly/entry.ts` | `ctx.ref`, links, finalizers | create, free, finalizer, serialize, deserialize; Increment, Decrement, Link, signal | the process lives exactly as long as a handle |
| Held, value | `assembly/managed/held.ts` | `ctx.value` | getValue, setValue, execute, request | operations are atomic and every call ends |
| Sandbox | `assembly/process/sandbox.ts` | the child that runs a callback | sandbox | a trap of the callback stays in the child |
| SharedMap | `assembly/managed/index.ts` | the map | get, set, delete, clear, has, size, keys, values | operations are atomic and every read ends |
| Yieldable | `assembly/managed/yieldable.ts` | `ctx.ref`, `ctx.done`, the position of the callback | next, maybeNext, yield, (de)serialize, finalizer | each value goes to one caller, in order; an exhausted one says so |
| Maybe | `assembly/managed/maybe.ts` | a `Held` resolution, a timeout | resolve, reject, then, timeout, value | settled once; then runs one callback, after its parent |
| Parameters, bootstraps | `assembly/process/util.ts`, `assembly/entry.ts` | one static buffer of 51 bytes | reset, i32, i64, v128 | a spawn passes its own parameters |
| Result, errors | `assembly/error/` | an error id of the host | errorString, expect | an error is dropped once |
| Config, Module | `assembly/process/index.ts` | an id of the host | setters, compile | dropped once |
| Distributed | `assembly/process/index.ts`, `assembly/distributed/` | a node id in the handle | spawnDistributed, self, send, request, reply, kill | a handle means the same process wherever it is used; a request ends with its own reply |
| Registry | `assembly/registry/` | a table of the host | get, put, remove | what is put is what others get |
| TCP, UDP, DNS | `assembly/net/` | ids of the host, a read buffer, a timeout | connect, read, write, accept, intoConsumable, bindMaybe, (de)serialize | a stream is dropped once; what arrives is given in order and once, and the end last |
| Files | `assembly/fs/` | a descriptor and a buffer for the time of a call | readFile, writeFile, readDir, fstat, rename, unlink and their Maybes | what is read was there at one moment; nothing is left open; every call ends |
| Runtime hooks | `assembly/entry.ts` | none | abort, trace, seed | formatting |

How the parts interact: `Held`, `Yieldable`, `SharedMap` and the sandbox spawn a process
with `Process.inheritSpawn*`, talk to it with `send` and `request`, and it answers with
`Message.reply`. A spawn links parent and child unless the tag it takes is 0. `Maybe` is a
`Held` whose callbacks call `getValue` on the `Held` of its parent. Serialising a handle
into a message spawns a helper process that counts the copy. The finalizers of
as-disposable spawn helpers too.

## Modules

| module | what it is |
|---|---|
| `HeldLifetime` | the reference count of one Held, its holders, handles and helper processes |
| `HeldLifetime_proofs` | its theorems |
| `HeldValue` | the value of one Held, its clients, the sandbox of its callbacks |
| `AtomicCell` | what `HeldValue` implements |
| `HeldValue_proofs` | the theorem that it does, and its type |
| `Messaging` | clients, one server, their mailboxes, tags and requests |
| `RemoteCall` | what `Messaging` implements |
| `SharedMap` | the process of a map and its clients |
| `AtomicMap` | what `SharedMap` implements |
| `SharedMap_proofs` | the theorem that it does, and its type |
| `Yieldable` | a generator, its consumers and, through an instance of `HeldLifetime`, their handles |
| `Stream` | what `Yieldable` implements |
| `Yieldable_proofs` | the theorem that it does, and those on its count |
| `Maybe` | chains of Maybes, their Held processes, sandboxes and readers |
| `Promises` | what `Maybe` implements |
| `Maybe_proofs` | the theorem that it does, and its type |
| `Resources` | the objects that own a resource of the host, and the host's tables |
| `MessagingResources_proofs` | the theorems of `Messaging` and of `Resources` |
| `Files` | the directory, the files, and the calls of WASI that each function makes |
| `Sockets` | a consumable TCP stream or a bound listener, its peer and its consumers |
| `Sockets_proofs` | its theorems |
| `Nodes` | processes on several nodes, their handles, requests and registries |
| `NodesFiles_proofs` | the theorems of `Nodes` and of `Files` |
| `MC*` | each module on a small instance, for two with what a comment of the code promises |

Every library module is closed: the other side of a mailbox (a program, a helper, the host) is part of it. `Yieldable`
composes with `HeldLifetime`, whose notices and handles it shares; `Maybe` uses the Held as `HeldValue` and
`HeldLifetime` describe it (one callback at a time, stuck after a trap, possibly gone) and not its mailbox protocol again.

### HeldLifetime

A holder is a process; a handle is a `Held<T>` object with one owner. `Serialize` is the
whole of `__asonSerialize` followed by the send: the copy is on its way to its receiver
and a helper exists that will send the Increment. `Deserialize` is
`__asonDeserialize`: the copy gets its finalizer and a helper that will send the Link.
`Free` is `free()`, `Finalize` the finalizer (its helper is `__heldDecrement`). `HelperSend`
puts the notice into the mailbox of the Held process in whatever order the helpers run;
`HelperDies` is a helper that was linked to a process that trapped. `HandleIncrement`,
`HandleDecrement`, `HandleLink`, `HandleSignal` are the handlers and the loop around them,
`Start` is `dieWhenLinkDies = false`, before which a signal still kills.

Links follow the documentation in `assembly/process/bindings.ts`: `link` and `unlink` trap
on a process id that does not exist, linking is not atomic (`AckLink`), a trap reaches a
linked process, a return does not. The arguments of `Process.link` have no part here: the
handler calls the binding itself.

### Messaging

`call[c]` is the request a client is blocked in: the tag it waits for, how many messages were
there before (`send_receive_skip_search` does not look at these), and whether it has a
timeout. `ReturnRequest` takes the first later message with the tag out of the mailbox.
`ReceiveAny` and `ReceiveTagged` are the program's own receive, of the first message or of the first that has one of the tags it names.
Messages carry the number of the call or post they belong to, which the program cannot see
and the properties can.

### HeldValue

`HandleCallback` spawns the sandbox child with a copy of the value and waits for a message
with the tag that `sandbox` hands to `request`: its timeout. `RunChild` is the callback: it
returns its result or traps, and then the link's signal arrives. `EndRequest` and `EndExecute`
are the rest of the two handlers. `Misread` is the end of the wait with any other message:
the deserialisation of something that is no result is undefined behaviour, and nothing is
claimed of the process from there on (`held = "undefined"`).

The refinement maps `AtomicCell`'s value to `Final`, what the value will be once everything in `Queue` is handled: the event
in the sandbox, if there is one, and the mailbox behind it. `Run` is the value after each message of a queue. A client that waits is
owed its reply or what `Run` has before its event (`Due`), and nothing if that callback or one before it traps.

### SharedMap

One action for the operations that send, one for those that wait, one for each kind of
event in the loop; `HandleMissing` is the trap in `Map.get`.

### Yieldable

The generator is a process whose mailbox is read in two places: by `yield`, while the callback waits for the next
call, and by the loop after the callback. `phase` says which: `busy` (the callback computes and nothing is received),
`yielding`, `done`. The notices of the reference count are those of `HeldLifetime`; `next` adds one kind of its own.
What differs from Held is in the actions: the generator kills itself when the count is 0
(yieldable.ts:102), and that reaches linked holders; a signal in `yield` is handled as a Decrement from the process
whose id is the signal's tag (line 56), so that any process, or none, is unlinked: `HandleSignalYielding` allows all of it.
`next` passes its timeout in the place of the tag, as the sandbox does, and so never times out.

### Maybe

`held[m]` is the process behind Maybe `m`: `ready` for its next event, `waiting` for its sandbox, `stuck` when the sandbox trapped,
`ended`. `sandbox[m]` is where the callback is: `then` before it asks its parent for the resolution, `asking` while it
waits, `program` in the program's callback, where `Settle` may happen. Constructors send one callback or two; the first of two is the
empty one, whose return makes the value "resolved to nothing" for a while. `timeout()` only stores a number, which
`then` copies and nobody reads: it has no action, and a reader or a then waits for as long as it takes. The branch of the
code for a parent that timed out (maybe.ts:163-167) is therefore never taken.

### Resources

Objects have a life of their own (`at`), an owner, an id and the resource the id was given for. `Construct` is the
constructor of any of the classes, which registers the finalizer; `Send` and `Receive` are the two halves of serialisation:
the clone leaves the sender's table with the message, and the receiving object gets an id from its own table
and no finalizer. `CollectArmed` is the collector running a finalizer, `Collect` the collector freeing an object that has none.
A program is taken to call `drop` once for an object; that it does so before the finalizer runs is what
`DropsOnce` is about. What a call drops itself takes an id and leaves nothing in the table (`Spend`): the error of a read that failed and of a write that timed out, the
address a datagram came from, the iterator of a resolution. A write that failed otherwise leaves its error to the `Result`. All resources share one table here; in the host there is one for each kind, and the function that a
constructor registers selects it.

### Files

Every function of `assembly/fs/unsafe.ts` is one action for each call of WASI it makes, and between any two of them the other
clients may do theirs. `pc[p]` says which call is next. `OpenRead`, `Stat`, `Read` are `readFileUnsafe`: the name is
resolved once, the size fetched, a buffer of that size filled, and the assertion that it was filled
(line 72) is the branch of `Read` that traps. `OpenWrite` and `Write` are `writeFileUnsafe`: the file is emptied or made by the first, and
some of the bytes, perhaps none, are written by the second. `OpenDir` and `List` are `readDirUnsafe`: `OpenDir` opens the
directory (`fd[p] = Root`), `List` closes it and returns only when the listing left room in the buffer, and else fetches it again from the start into one of
twice the size. A listing is one call of WASI here; what it would show of a change in its middle is WASI's affair. `Rename`, `Unlink` and `Settled` (fstat, and
whatever fails in its first call) make one call. `Fail` is an error of any later call. A client in `Behind` calls through
`assembly/fs/async.ts`: then a trap ends the process of the callback, the Maybe stays unsettled, and the client is `stuck`
rather than `ended`. A byte is the client that wrote it, which is all that `OneWrite` and `ReadsWhole` tell apart; an entry of a directory takes
one unit of the buffer.

### Sockets

`intoConsumable` and `bindMaybe` are the two generators of the library. `Yieldable` models how a generator is shared and counted; here its
callback is modelled, for which `Yieldable` has a list of values. The generator reads or accepts (`reading`), and no message reaches it
there; it yields what it got (`yielding`) until a `next` takes it; it is `done` after a closed connection or an error, and `gone` when it ended: killed by
itself with its last handle, or trapped. The four ways in which a read ends are four actions. `buffer` is the one buffer of
`intoConsumable` (tcp.ts:370); `item.chunk` is the copy that `Maybe.resolve` makes of all of it, `item.count` the number of bytes that were
read, which the consumer is not told. A listener is the case of one item at a time, with no timeout and no peer that closes. `ReadElsewhere`
is a read through a clone of the socket.

The generator's links are here too, since they can end it under a consumer that waits. Each consumer has its handle and has asked for its link, and the notices lie in the
mailbox in any order; `Drop` and `Notify` are the finalizer and its helper. `Stop` is the end of a consumer, a trap of which is a signal if the link was complete,
and `MaybeTraps` that of the process of one of the Maybes in which the generator yields: it made them and is linked to them. `HandleLink` and `HandleDrop` trap when the
consumer has ended meanwhile. `HandleSignalYielding` handles a signal as a drop by a process whose id is the signal's tag (yieldable.ts:56), which
may trap, end the generator or unlink anybody; `HandleSignalDone` is the loop after the callback, which only counts. How handles are copied is left to `Yieldable`.

### Nodes

A process is a pair of a node and an id, and ids of different nodes coincide. A handle is what a `Process` object has: an id and a node, or `Local`
(`u64.MAX_VALUE`) for none. `Reached` is where `send` and `request` deliver; `ReplyTo` is where `Message#reply` does, which builds a handle
without a node from the sender's id; `Kill`, `LinkProcess` and `UnlinkProcess` pass the id only and trap, like `Put`, where there is no such process. `Give` sends a handle in a message, and its fields arrive as they were:
`strayed` remembers that one without a node crossed to another node. `of` in a handle, and `to`, `from` and `by` in messages, are for the properties.

A spawn links parent and child under the link tag it takes, unless that is 0. `linkTag` is `Process.tag`, which every new `Process` raises: those of a spawn, of a lookup, of a message that has a
sender (`Serve`), and `Self`, which stands for `Process.self`, `Distributed.self` and a spawn that fails. `LinkProcess` is `Process.link` as it is
written: the host is given the id for the tag and the tag for the id. `links` says who is told, with which tag, when another process dies, `signals` what is still to be told.
`LinkDies` tells it: the process dies as well, or, in `Patient`, which stands for `dieWhenLinkDies = false`, finds a signal in its mailbox. A process dies of a trap, of a kill, or of a link; `Finish` is the end of
a program, which is a trap or a return.

## Runs

| run | shows | instance |
|---|---|---|
| `held` | `Covered`, `Balanced`, `ReturnsUnclaimed`, `Reclaimed` with traps and returns at any moment | 2 holders, 2 handles |
| `held_value` | `KeepsValue`, `Answered`, with timeouts and a callback that traps | 2 clients with 2 calls each, values 0..1, a callback that counts and traps at 1, timeouts of 2 or none |
| `messaging` | `NoCrossTalk`, `PostsInOrder`, `RequestsEnd`, `KeepsPromise` | 2 clients with 2 calls each; one has 2 children and gets 2 posts |
| `messaging_tags` | violated: a signal ends a request | the same |
| `map` | `KeepsMap`, `Answered` | 2 clients, 2 keys, a value or none |
| `yieldable` | `KeepsStream`, `Covered`, `Balanced`, `ReturnsUnclaimed`, `Answered`, `Reclaimed` | 2 consumers, 2 handles, 2 values; one consumer returns or traps |
| `yieldable_exhausted` | violated: `next` after the end is not answered | smaller |
| `maybe` | `KeepsPromises`, `Settles`, `Answered` | 3 Maybes in any chain or tree, one traps, one loses its process; 1 reader, 2 outcomes |
| `resources` | `Accounted`, `DropsOnce` | 2 processes, 4 objects, one resource of each kind |
| `files` | `OneWrite`, `ReadsWhole`, `ListsDirectory`, `CallsEnd` with failures, short writes and changes between any two calls | 2 clients, one behind a Maybe; 2 names, writes of 1 or 2 bytes, a first buffer for 1 entry, 3 changes |
| `sockets` | `InOrder`, `TailIsOld`, `ClosedIsLast`, `Answered`, `Reclaimed` with short reads, timeouts, a peer that closes, breaks or is silent, and signals of consumers and Maybes that trap | 2 consumers, one of which may end; buffers of 0 and 2 bytes, 3 bytes or connections; one Maybe's process traps |
| `nodes` | `Faithful`, `OwnAnswers`, `Answered` with processes that end, link signals and requests that time out | 2 nodes with 2 processes each, one of the first processes survives its links; 4 acts of programs |

Why the instances are enough: every race in these components is between two parties and
the process they share. Two handles give an original and a copy whose notices overtake each other in all orders, with
either holder ending in between; two clients give a callback with
another client's event in front of it, behind it and during it; two calls of one client give a late
reply during the next request; three Maybes give a then of a then, and two thens of one parent; four objects give a socket, its
clone, the one that is sent and the one that is received, beside an error; three changes of a file or the directory put one before,
between and after the calls of another client, and two names outgrow a buffer of one entry, and of two; three bytes fill a buffer of two and leave a
short read over old bytes; two processes on each of two nodes give every process a twin with its id on the other node. The theorems hold for every number of these.
The runs `held_value`, `maybe`, `map`, `files` and `sockets` also check the type invariant of their module; every module's is proved, whether a run checks it or not.
Those of `Files` and `Resources`, like their `Init`, `Next` and `Spec`, carry the module's name (`FilesTypeOK`), since each of the two shares a proof module with another component.
The bounds are `MaxCalls`, `MaxPosts`, `MaxSpawns` and `Busy`, the clients that spawn and are posted to (Messaging);
`MaxEvents` (mailboxes of HeldValue and SharedMap); `MaxCalls` and `MaxTag` (HeldValue); `Lengths`, how many values a
generator has, and who may end in `Exiting` and `Crashing` (Yieldable, HeldLifetime); `MaxMaybes`, `Trapping` and `Ending`
(Maybe); `MaxChanges` and `Capacity` (Files: the code's first buffer has 4096 bytes); `SpentIds`, the ids that a call may get for a resource it drops itself (Resources: the second one, when an object may have the first); `MaxSent`, `MaxTraps` and who may end in `Ending` (Sockets); `Patient`, `MaxId` and `MaxActs`, which bounds
what programs do of themselves and not what they do with their mailboxes (Nodes). Handles and objects are created once each. The bounds guard only what a program or a failure may do, never a handler or
a reply. Deadlock is not checked: programs stop when the bound is reached or their
processes ended.

### What the properties say

* `Covered`: `ref` plus the increments underway (and those killed with their helper) is at least
  the handles plus the decrements underway, up to one reference for each crash. `Balanced` is the
  exact account while every holder runs.
* `ReturnsUnclaimed`: the step in which the Held process returns leaves no handle behind but those whose
  increment was overtaken or killed, and one per crash. This is the strongest form the code satisfies.
* `KeepsValue`, `KeepsMap`: linearizability with the point of the call as the linearization point, as
  a refinement: the abstract value is the concrete one with the events in the mailbox applied.
* `KeepsPromise`, `NoCrossTalk`: a request ends with its own answer, computed once, or a timeout.
* `KeepsStream`: a value goes to one caller, in order, and to a caller that waits; notices in between use up neither.
* `KeepsPromises`: a Maybe is settled once and as its callback said first, the callback of a then runs once and on what its parent was settled
  with, and a reader sees no other resolution; in particular not the intermediate one of a constructor.
* `Accounted`, `DropsOnce`: a host table has what the objects of its process own and nothing else but what received objects left
  behind, and no finalizer drops what was dropped. Both speak of several processes: a clone that
  was sent and dropped elsewhere must not take the sender's resource away.
* `OneWrite`: the bytes of a file are those of one write, unless two had it open at once. `ReadsWhole`: a file is read as it
  was at one moment if it did not change since its size was fetched; if it did, it is cut to that size or the reader traps. `ListsDirectory`: a
  listing has every name that was there all the time and none that never was.
* `InOrder`: what arrives reaches consumers in order and once; lost is only what the generator had read ahead when it ended, and what it sent to a consumer that had ended. `TailIsOld`: behind
  the bytes of a short read a consumer finds bytes that were given out before, or zeros, never bytes to come. `ClosedIsLast`: nothing that arrived is
  left when a consumer is told of the end, and nothing is given after it.
* `Faithful`, `OwnAnswers`: a handle leads to the process it was made for, and a request ends with the answer of the process it was sent to, with the
  exceptions that the code really has, each of which occurs in the run: the reply that a twin on another node should have got, a request, and the signal of a
  linked process. A signal whose tag is an id that nobody has taken as a link tag needs more acts than the run has; the theorem covers it.
* `TypeOK` of Sockets: while the callback runs, `ref` is positive, although signals of consumers that hold no handle any more and of Maybes count as drops. The loop after the callback may count below zero.
* `Answered` of Sockets: a call of `next` ends unless the peer is silent for good, the generator is done, or it has ended, and that under a call only after a consumer or a Maybe's process ended.
  `Reclaimed`: once every handle was dropped the generator ends, whatever it counted; unless the peer is silent for good.
* `CallsEnd`, `Reclaimed`, `Answered`, `Settles`, `RequestsEnd`: liveness. Where a property names an exception (a stuck process, a trapped callback,
  a server that ended) the code does hang there, and the run for the claim without the exception would fail.

### Fairness

Weak fairness of what lunatic schedules: the Held process, the map's process, the generator and the server while they have
mail, helpers and sandboxes, the host's link signals (but for those of `Nodes` and `Sockets`, where nothing waits for one), and the wake-up of a process whose message or timeout has
come; WASI returns from every call; a read or accept returns once there is something to return. Nothing is assumed of a peer or of programs: they need not call, drop, trap or return. The callbacks are an exception: a generator's callback
reaches its next `yield` or ends, and a Maybe's callback returns or traps, since nobody who waits for a callback that
runs forever could be answered. So are the processes of `Nodes`: each receives and replies while it is not blocked in a request.

## What the violations show

* `messaging_tags` (process/index.ts:227): the link tag of a child equals the tag of a request; its
  signal ends the request.
* `yieldable_exhausted` (yieldable.ts:143): after the callback has ended the loop handles a call of `next` and sends no reply,
  though the comment in front of it says it replies with null; the caller waits for good.

Other behaviours that the models have, and no run is spent on:

* held.ts:294 calls `__asonSerialize` safe. A copy is counted by an Increment that a helper process sends in its own time: when a copy is sent and the
  original freed, the Decrement may overtake it, and the process of the Held returns under the copy. `ReturnsUnclaimed` names the case.
* held.ts:286 says that `free()` frees safely. The Decrement makes the Held process unlink the holder, which traps if the holder has returned
  meanwhile; another holder that is linked to the Held process then dies with it.
* process/index.ts:233 calls the tag of a request automatically unique. `sandbox` (sandbox.ts:23) passes its timeout as the tag, so that the wait for a callback
  never times out and may end with another client's event: `Misread` in `HeldValue`.
* The signal of the last holder's death brings the count of a Held to 0 without ending its process.
* A callback that traps leaves its Held process waiting for good, with everyone who asks it (`Answered`, `Settles` name the case).
* The late reply to a request that timed out stays in the mailbox and is later received as a message of the program.
* The timeout of a Maybe has no effect.
* A received socket is never dropped by the collector, since its class's constructor did not run (`leaked` in Resources).
* A write that fails or is short leaves the file empty or cut; two writers at once leave a mixture. A read of a file that shrank traps, which
  behind a Maybe leaves it unsettled.
* `writeFileMaybe` (async.ts:14) passes its parameter `flags`, `"w"` by default, as the encoding: a string is refused with "Invalid encoding: w".
* A consumer of a socket gets the whole buffer and not the number of bytes in it. What was read ahead may be old: a timeout is given out although bytes have
  arrived since. An empty buffer is reported as a closed connection.
* A write that times out drops the error that the host is taken to have written (tcp.ts:316); where the host writes none, the id is what an earlier call left in the shared `opaquePtr`.
* A generator that waits in `read` or `accept` ends neither with its last handle nor by any message; a listener stays bound until a
  connection comes.
* `Message#reply` goes to the sender's id on the local node: a request to another node is not answered by its callee, and a process with the id of the one that
  asked may get the reply. `Process#kill` and `Process.unlink` hit the process of that id on the local node; `Kill` and `UnlinkProcess` do so in `Nodes`, and no property is about it.
* Two processes that ask each other wait for good, or take each other's request for the reply if the tags agree.
* `Process.link` (process/index.ts:246) passes its arguments in the other order than the bindings declare them: it links the process whose id is the next link tag, or traps, and the signal comes
  under the id of the process that was meant (`LinkProcess` in `Nodes`).
* A signal during the callback of a generator is handled as a Decrement of the process whose id is the signal's tag (yieldable.ts:56), most often of none: the generator of a socket traps
  when a consumer or one of its Maybes has trapped, and others that wait in `next` wait for good. The same happens when the helper of a dropped handle comes after its holder's end (yieldable.ts:101).
* `Process.module` gives the id of the running module an object whose finalizer drops it.
* `Process.spawn` allocates after its parameters were built in the static buffer (process/util.ts:15), and a finalizer that spawns may run in between.
* A raw message (`sendDataUnsafe`) has no sender: read as a `Message`, eight bytes of its data are taken for one, and a shorter one underflows
  (message/index.ts:30).

## Proofs

`HeldLifetime_proofs` proves for all finite sets of holders and handles `TypeOK`, `Covered`, `Balanced` and
`ReturnsUnclaimed`. The accounts are not inductive by themselves: nothing keeps a helper from being spawned twice or a
signal from coming from a holder that runs. `IInv` is `TypeOK`, `Covered`, `Balanced` and the part `Book`: there are finitely
many helpers; a helper that counts a copy exists only once the copy does, and one of a finalizer only once its handle is gone
(`Fresh`), so that a new helper changes the count by one; and a signal comes from a holder that trapped (`SignalsTrue`), so
that handling it is paid for by a crash. The proof has one lemma per action, on the cardinalities it changes, and a
theorem that puts them together. Assumptions: `FiniteAssumption`, `NoPidAssumption`.

`MessagingResources_proofs` proves of `Messaging` for any clients and bounds `TypeOK` and `NoCrossTalk`. `IInv` adds that every message and
queued request is well tagged: a reply with the tag of the pending request is the reply to it, since every request
takes a tag below the counter and no two take the same. There is one lemma on removing a message from a mailbox, one on
delivering one, and the step proof by action. `PostsOrdered` needs for every mailbox that its posts have the numbers behind `got`
in their order (`PostsInv`): an append puts the highest at the end, and a removal takes the lowest, or no post at all.

The last of its lemmas on `Messaging` prove the refinement, `PromiseKept`: the initial state of `Messaging` is one of `RemoteCall` and every step is
one of its steps or changes nothing it speaks of. What the abstract step needs and `IInv` does not say is `Booked`: a call is in the server's mailbox at most once and only
while it is not served, and a reply in a mailbox is to a call that was served.

`SharedMap_proofs` proves `TypeOK` and the refinement of `AtomicMap`, `MapKept`, for any clients, keys, values and bound. The abstract map is what the map's process will have
once it has handled its mailbox: `Run` applies the events one after the other. `RunAppend` says that a call adds its effect at the end and leaves what is owed to the
others, `RunTail` that handling an event moves the process along the same run. So a call is the abstract operation, a handler changes nothing abstract, a reply or
a death of the process is the step that the client sees. `IInv` is `Typed`, `Balanced` (a client that waits has one event or one reply, which is what `TypeOK` says of clients that run) and that a dead
process has no mail. `Run` is a recursive function on the positions of a mailbox; that it exists and what it does is proved from the well-foundedness of the naturals (`Induction`), as a statement on
sets, since the library's induction theorem takes an operator. Assumption: `SharedMapAssumption`, that the markers are no answers and the creator is a client.

`Yieldable_proofs` proves `TypeOK`, `Covered`, `Balanced`, `ReturnsUnclaimed` and the refinement of `Stream`, `StreamKept`, for any finite sets of consumers and handles and any numbers of values. The twenty-odd actions change the state in
few ways, which `StepShapes` names: `Copies`, `Collects`, `Ends`, `Takes`, `HandsOut` and so on; every later lemma takes one of these. `Account` is `Covered` as credit and debt, and `Settles` says
once what a step must do to each term; `Exact` is that the two are equal, and no signal is underway, as long as every consumer runs. `StepReturns` is that only a Decrement or a signal that
leaves no reference ends the generator, with which `Account` says which handles may still exist. `Book` is, as for Held, that no helper is spawned twice. `Asking` is what the stream needs: a consumer that runs has at most one call in the mailbox, only while it waits and has no
value yet. A call's place among the calls (`Rank`) and what was handed out give the number of its value: an append leaves the others' places (`ValueAppend`), a value that is handed out moves every
other call one place up and the count one value on (`ValueTail`), so nobody's value changes. Assumptions: `FiniteAssumption`, `ValuesAssumption`.

`MessagingResources_proofs` proves of `Resources` `ResourcesTypeOK`, `Accounted` and `DropsOnce` for any processes, objects and resources. The three are inductive
together: that a new id is fresh needs the account (what is in a table belongs to an object) and the type invariant (whose ids are
below the counter); that a finalizer drops nobody else's resource needs that no two objects of a heap have one id.
`Added` and `Deleted` say what the host does to the tables, `Gains` and `Releases` what that does to the account, and each action is
one of them but `Send`, `Collect` and `End`. Assumption: `NamesAssumption`.

`NodesFiles_proofs` proves of `Nodes` `TypeOK`, `Faithful` and `OwnAnswers` for any nodes and any number of processes. `Faithful` speaks of handles that a process has; `HandlesSound` and
`Fine` extend it to those in a registry and in a mailbox, where one that leaves its node is what makes `strayed` true. `OwnAnswers` needs `Placed`, of every request and
reply in a mailbox: its tag is below the asker's counter, so that no later call takes it; while it is the tag of the asker's call, it is the request of that call or the reply to it; and the reply
lies with a process of the asker's id on the node of the one that replied, which is all that `Message#reply` ensures. `TagsTaken` bounds the counters by the acts. `SignalsTrue` is the part on links: every link's tag, and that of every signal underway, is an id or below the link counter of one of the two processes,
and who is told of has ended; `Grown`, that no process comes back and no counter falls, keeps it for signals in a mailbox and for answers. `StaysFine` says once what
happens to the messages that a step leaves alone. Assumption: `NodesAssumption`.

`NodesFiles_proofs` proves of `Files` `FilesTypeOK`, `OneWrite`, `ReadsWhole` and `ListsDirectory` for any clients, names, lengths and capacity. That a descriptor is open for exactly the calls under way is part of `FilesTypeOK`. `OneWrite` is inductive with `OneWriter`: of a
file that no two writes had open at once, the one that has it open finds it empty. `ReadsWhole` needs `SizeKnown`, that a reader whose file did not
change knows its size, and `ListsDirectory` needs `Watched`: what stayed since a listing began is there and what is there was seen. Both are properties
of a step and follow from the invariant before it. Assumption: `FilesAssumption`.

`Sockets_proofs` proves `TypeOK`, `InOrder`, `TailIsOld` and `ClosedIsLast` for any consumers, sizes of the buffer and number of bytes. The stream is what was given, what
is yielded and what is on the wire, one after the other. `Arrive` appends the next byte to it (`Continued`), a read and a `next` move the boundaries inside it (`Halves`,
associativity), and a read elsewhere or the end of the generator cuts a middle part out, after which it still rises (`Cut`). `Flow` says
that the buffer holds bytes given out or yielded, or zeros, and that the end is yielded when nothing can arrive any more. The count needs nothing more:
whichever notice or signal lowers it while the callback runs, the generator ends if none is left. Assumption: `SocketsAssumption`.

`HeldValue_proofs` proves `TypeOK` and the refinement of `AtomicCell`, `ValueKept`, for any clients, values, callbacks, timeouts and bounds. What keeps it true although
callbacks run on copies is `Boxed`: while the Held process waits, either its only child still runs, with the value that the process has, or exactly one message in
the mailbox is no event, and if that is a result, it is the callback's of that value. `Fits` says that a client has at most one event of each tag in the queue, none
of a tag it has not used, and none for the call that it has a reply to. The queue changes in two ways. A message comes: `RunAppend` leaves the earlier values and `DueAppend` what the others are owed. A
message goes (`Gap`): if it is the first, with its effect, or has none, the values of the messages that are left are what they were (`GapTail`,
`AgreeRemove`), so that `Final` and what is owed stay (`AgreeFinal`, `OwedGap`). The end of a callback is one after the other: the event leaves the sandbox with its effect, and the result leaves the mailbox without one. So a call is the
abstract operation, a return is its return, a misread result is `Break`, and nothing else changes anything abstract. Assumptions: `CallbacksAssumption`,
that a callback returns a value or traps; `NothingAssumption`, that the markers are neither values nor events.

`Maybe_proofs` proves `TypeOK` and the refinement of `Promises`, `PromisesKept`, for any clients, trapping and ending Maybes and bound. The abstract promise of a Maybe
depends on where its process is between the callbacks of its constructor, so `IInv` says that every Maybe is in one of nine stages (`Stage`), told by the callbacks that are left in its
mailbox, in front of every get: not made; made; in its empty callback; between its two; setting what it was made with; in a then before its parent answered; in the program's callback; settled; stuck. `StagesMean` says
what `Promises` sees in each. A step changes the stage of one Maybe (`ExecuteMoves`, `AskMoves`, `ReturnMoves` and so on) and delivers gets, which change no stage (`StageKept`).
`Asking` says whose the gets are: a client has one in at most one mailbox, and only without a reply; a then's is in its parent's. The steps then map to
`Create`, `Run`, `Tell`, `Settle`, `Ask`, `Answer`, `Return` or nothing. Assumptions: `MaxAssumption`, and `ClientsAssumption`, that a client is no Maybe.

Only model-checked: liveness (`Answered`, `Settles`, `Reclaimed`, `CallsEnd` and the like), since fairness and ENABLED are beyond the prover. Every safety property that a passing run checks is
proved. The theorems do not need the bounds of the instances, but the model's own bounds on what programs do (`MaxEvents`, `MaxActs`) are parameters there as well.

## Not modelled

The host is external: its processes, mailboxes and links are modelled as `assembly/process/bindings.ts` and
`assembly/message/bindings.ts` document them, files and sockets as their bindings do. Serialisation (ASON) is the identity on what the properties see, except that it
makes copies and counts handles. Left out, since each is one call of the host or formats something: the bytes that are written, sent or received as
datagrams, addresses, the options of a socket, `Process.sleep` and the getters, the setters of a configuration, the wording and caching of an
error, `abort`, `trace` and `seed`. Left out, since the library uses none of them and nothing depends on them: a receive that times out, which returns nothing, and raw messages. `Parameters` is filled and used in one go by all of the library's spawns.

## Plan

1. Done: HeldLifetime, Messaging, SharedMap, HeldValue, Yieldable, Maybe, Resources, Files, Sockets, Nodes; proofs of all their safety properties.
2. Open: `maybeNext` as a Maybe over `Yieldable`.
