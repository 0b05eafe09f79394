-------------------------------- MODULE Files --------------------------------
(***************************************************************************)
(* Files and directories (src/assembly/fs/).  Every function is a few      *)
(* calls of WASI, each atomic, between which other processes may change    *)
(* the same file: open, size and read; open, which empties the file, and   *)
(* write; open and as many listings as it takes for one to fit.            *)
(*                                                                         *)
(* A byte is known by the client that wrote it.  A client performs its     *)
(* calls itself or, if it is Behind, through the Maybe of fs/async.ts:     *)
(* another process then performs them while the reader of the Maybe waits. *)
(*                                                                         *)
(* External: WASI.  A descriptor stays with its file when the name is      *)
(* moved or removed; any call may fail; a write may be short.              *)
(***************************************************************************)
EXTENDS Naturals, Sequences, FiniteSets

CONSTANTS
  Clients,
  Names,      \* the names in the one directory
  Lengths,    \* the lengths of what is written
  Capacity,   \* how many entries fit into the first buffer of readDir
  Behind,     \* the clients that make their calls through a Maybe
  MaxChanges, \* bound on the writes, renames and unlinks
  Absent, Closed, First,
  Root        \* the directory, as what a descriptor is open for

ASSUME FilesAssumption ==
  /\ IsFiniteSet(Names) /\ Lengths \subseteq Nat /\ Capacity \in Nat \ {0}
  /\ Behind \subseteq Clients
  /\ Absent \notin Nat /\ Closed \notin Nat /\ Root \notin Nat /\ Closed # Root

VARIABLES
  dir,        \* name -> its file, or Absent
  data,       \* the contents of the files, which are numbered as they are made
  folder,     \* the files that are directories
  pc,         \* client -> the next call of WASI, or "idle", "ended", "stuck"
  fd,         \* client -> the file its descriptor is open for, Root or Closed
  arg,        \* client -> the size it was told, the length it writes, or the
              \* capacity of its buffer
  changes,    \* how many writes, renames and unlinks there were
  event,      \* what the last step read and for whom, or Nothing
  changed,    \* the clients whose file changed since they were told its size
  mixed,      \* the files that two writes had open at once
  stayed,     \* client -> the names that were there since its readDir began
  seen        \* client -> the names that were there at some time since then

store == <<dir, data, folder>>
ghosts == <<changed, mixed, stayed, seen>>
filesVars == <<store, pc, fd, arg, changes, event, ghosts>>

Files == DOMAIN data
Bytes == Clients \cup {First}
Present(d) == {n \in Names : d[n] # Absent}

Nothing == [kind |-> "nothing"]
Data(p, s) == [kind |-> "data", to |-> p, bytes |-> s]
Listing(p, S) == [kind |-> "listing", to |-> p, names |-> S]

Events == {Nothing} \cup [kind : {"data"}, to : Clients, bytes : Seq(Bytes)]
                    \cup [kind : {"listing"}, to : Clients, names : SUBSET Names]

Calling == {"stat", "read", "write", "list"}

\* A descriptor is open for exactly the calls that are under way, for the
\* directory while readDir fetches its listing: every way out of a call closes it
\* (fs/unsafe.ts:51-66, 110, 152, 162), and a trap does.
FilesTypeOK ==
  /\ data \in Seq(Seq(Bytes))
  /\ dir \in [Names -> Files \cup {Absent}]
  /\ folder \subseteq Files
  /\ pc \in [Clients -> Calling \cup {"idle", "ended", "stuck"}]
  /\ fd \in [Clients -> Files \cup {Closed, Root}]
  /\ arg \in [Clients -> Nat] /\ changes \in Nat
  /\ event \in Events
  /\ changed \subseteq Clients /\ mixed \subseteq Files
  /\ stayed \in [Clients -> SUBSET Names] /\ seen \in [Clients -> SUBSET Names]
  /\ \A p \in Clients : /\ fd[p] # Closed <=> pc[p] \in Calling
                        /\ fd[p] = Root <=> pc[p] = "list"

\* Some names are there: at most one directory, and files of one byte.
FilesInit ==
  /\ \E S, D \in SUBSET Names :
       /\ D \subseteq S /\ Cardinality(D) <= 1
       /\ \E f \in [S -> 1..Cardinality(S)] :
            /\ \A m, n \in S : f[m] = f[n] => m = n
            /\ dir = [n \in Names |-> IF n \in S THEN f[n] ELSE Absent]
            /\ folder = {f[n] : n \in D}
       /\ data = [i \in 1..Cardinality(S) |-> IF i \in folder THEN <<>> ELSE <<First>>]
  /\ pc = [p \in Clients |-> "idle"]
  /\ fd = [p \in Clients |-> Closed]
  /\ arg = [p \in Clients |-> 0]
  /\ changes = 0
  /\ event = Nothing
  /\ changed = {} /\ mixed = {}
  /\ stayed = [p \in Clients |-> {}] /\ seen = [p \in Clients |-> {}]
-----------------------------------------------------------------------------
\* The directory becomes d.
Enter(d) ==
  /\ dir' = d
  /\ stayed' = [p \in Clients |-> stayed[p] \cap Present(d)]
  /\ seen' = [p \in Clients |-> IF pc[p] = "list" THEN seen[p] \cup Present(d) ELSE {}]

\* One more change of the directory or of a file.
Change == changes < MaxChanges /\ changes' = changes + 1

\* The content of file i becomes s.
Store(i, s) ==
  /\ data' = [data EXCEPT ![i] = s]
  /\ changed' = changed \cup {q \in Clients : pc[q] = "read" /\ fd[q] = i /\ s # data[i]}

\* A call makes its first call of WASI and goes on.
Begin(p, next, a) ==
  /\ pc[p] = "idle"
  /\ pc' = [pc EXCEPT ![p] = next]
  /\ arg' = [arg EXCEPT ![p] = a]
  /\ event' = Nothing

\* The call of p is over: its descriptor is closed.
Leave(p, next) ==
  /\ pc' = [pc EXCEPT ![p] = next]
  /\ fd' = [fd EXCEPT ![p] = Closed]
  /\ arg' = [arg EXCEPT ![p] = 0]

\* The call returns e, or the Maybe is settled with it.
Return(p, e) == Leave(p, "idle") /\ event' = e

\* A trap ends the client, or the process behind its Maybe, which then is never
\* settled.  Either way the host closes the descriptor.
Trap(p) == Leave(p, IF p \in Behind THEN "stuck" ELSE "ended") /\ event' = Nothing

\* The call returns an error.
Fails(p) == Return(p, Nothing)

\* A call that makes one call of WASI, or none.
Once(p) == pc[p] = "idle" /\ event' = Nothing /\ UNCHANGED <<pc, fd, arg>>
-----------------------------------------------------------------------------
\* path_open of a name that is there.
OpenRead(p, n) ==
  /\ dir[n] # Absent
  /\ Begin(p, "stat", 0)
  /\ fd' = [fd EXCEPT ![p] = dir[n]]
  /\ UNCHANGED <<store, changes, ghosts>>

\* fd_filestat_get; a buffer of that size is allocated.
Stat(p) ==
  /\ pc[p] = "stat"
  /\ IF fd[p] \in folder
       THEN Fails(p)
       ELSE /\ pc' = [pc EXCEPT ![p] = "read"]
            /\ arg' = [arg EXCEPT ![p] = Len(data[fd[p]])]
            /\ event' = Nothing
            /\ UNCHANGED fd
  /\ changed' = changed \ {p}
  /\ UNCHANGED <<store, changes, mixed, stayed, seen>>

\* Mutant: what was not read is left in the buffer.
ReadUnchecked(p) ==
  /\ pc[p] = "read"
  /\ LET s == data[fd[p]] IN
     Return(p, Data(p, [i \in 1..arg[p] |-> IF i <= Len(s) THEN s[i] ELSE First]))
  /\ UNCHANGED <<store, changes, ghosts>>

\* fd_read into the buffer, and the assertion that it is full.
Read(p) ==
  /\ pc[p] = "read"
  /\ LET s == data[fd[p]] IN
     IF Len(s) < arg[p] THEN Trap(p) ELSE Return(p, Data(p, SubSeq(s, 1, arg[p])))
  /\ changed' = changed \ {p}
  /\ UNCHANGED <<store, changes, mixed, stayed, seen>>

\* The clients that have file i open for writing.
Writers(i) == {q \in Clients : pc[q] = "write" /\ fd[q] = i}

\* Mutant: path_open without TRUNC.
EmptiedNever(p, i) ==
  /\ fd' = [fd EXCEPT ![p] = i]
  /\ mixed' = IF Writers(i) = {} THEN mixed \ {i} ELSE mixed \cup {i}
  /\ UNCHANGED <<store, changed, stayed, seen>>

\* TRUNC: file i is emptied.
Emptied(p, i) ==
  /\ Store(i, <<>>)
  /\ fd' = [fd EXCEPT ![p] = i]
  /\ mixed' = IF Writers(i) = {} THEN mixed \ {i} ELSE mixed \cup {i}
  /\ UNCHANGED <<dir, folder, stayed, seen>>

\* CREAT: the file is made.
Created(p, n) ==
  /\ data' = Append(data, <<>>)
  /\ Enter([dir EXCEPT ![n] = Len(data) + 1])
  /\ fd' = [fd EXCEPT ![p] = Len(data) + 1]
  /\ UNCHANGED <<folder, changed, mixed>>

\* path_open for writing.
OpenWrite(p, n, len) ==
  /\ dir[n] \notin folder
  /\ Change
  /\ Begin(p, "write", len)
  /\ IF dir[n] = Absent THEN Created(p, n) ELSE Emptied(p, dir[n])

\* s after k bytes of b were written at its start.
Overwrite(s, b, k) ==
  [i \in 1..(IF Len(s) > k THEN Len(s) ELSE k) |-> IF i <= k THEN b ELSE s[i]]

\* fd_write: some of the bytes, or all of them.
Write(p) ==
  /\ pc[p] = "write"
  /\ \E k \in 0..arg[p] :
       /\ Store(fd[p], Overwrite(data[fd[p]], p, k))
       /\ Return(p, Nothing)
  /\ UNCHANGED <<dir, folder, changes, mixed, stayed, seen>>

\* path_open of the directory; the buffer is allocated.
OpenDir(p) ==
  /\ Begin(p, "list", Capacity)
  /\ fd' = [fd EXCEPT ![p] = Root]
  /\ stayed' = [stayed EXCEPT ![p] = Present(dir)]
  /\ seen' = [seen EXCEPT ![p] = Present(dir)]
  /\ UNCHANGED <<store, changes, changed, mixed>>

\* Mutant: the descriptor of the directory stays open.
ListedLeaking(p, S) ==
  /\ pc' = [pc EXCEPT ![p] = "idle"]
  /\ arg' = [arg EXCEPT ![p] = 0]
  /\ event' = Listing(p, S)
  /\ stayed' = [stayed EXCEPT ![p] = {}]
  /\ seen' = [seen EXCEPT ![p] = {}]
  /\ UNCHANGED fd

\* The descriptor is closed and the names are returned.
Listed(p, S) ==
  /\ Return(p, Listing(p, S))
  /\ stayed' = [stayed EXCEPT ![p] = {}]
  /\ seen' = [seen EXCEPT ![p] = {}]

\* The buffer is made larger.
Relist(p, capacity) ==
  /\ arg' = [arg EXCEPT ![p] = capacity]
  /\ event' = Nothing
  /\ UNCHANGED <<pc, fd, stayed, seen>>

\* Mutant: a listing that fills the buffer is taken for complete.
ListFilled(p) ==
  /\ pc[p] = "list"
  /\ \E S \in SUBSET Present(dir) :
       /\ Cardinality(S) <= arg[p]
       /\ Cardinality(S) < arg[p] => S = Present(dir)
       /\ Listed(p, S)
  /\ UNCHANGED <<store, changes, changed, mixed>>

\* Mutant: the buffer does not grow.
ListAgain(p) ==
  /\ pc[p] = "list"
  /\ IF Cardinality(Present(dir)) < arg[p] THEN Listed(p, Present(dir)) ELSE Relist(p, arg[p])
  /\ UNCHANGED <<store, changes, changed, mixed>>

\* fd_readdir from the first entry on: a listing that leaves room in the buffer
\* is complete, another is fetched again into one of twice the size.
List(p) ==
  /\ pc[p] = "list"
  /\ IF Cardinality(Present(dir)) < arg[p] THEN Listed(p, Present(dir)) ELSE Relist(p, 2 * arg[p])
  /\ UNCHANGED <<store, changes, changed, mixed>>

\* fstat, and what fails at its first call of WASI.
Settled(p) == Once(p) /\ UNCHANGED <<store, changes, ghosts>>

\* rename and unlink make one call of WASI.
Rename(p, m, n) ==
  /\ dir[m] # Absent
  /\ dir[n] # Absent => (dir[m] \in folder <=> dir[n] \in folder)
  /\ Once(p) /\ Change
  /\ Enter(IF m = n THEN dir ELSE [dir EXCEPT ![n] = dir[m], ![m] = Absent])
  /\ UNCHANGED <<data, folder, changed, mixed>>

Unlink(p, n) ==
  /\ dir[n] # Absent /\ dir[n] \notin folder
  /\ Once(p) /\ Change
  /\ Enter([dir EXCEPT ![n] = Absent])
  /\ UNCHANGED <<data, folder, changed, mixed>>
-----------------------------------------------------------------------------
Start(p) ==
  \/ OpenDir(p) \/ Settled(p)
  \/ \E n \in Names : OpenRead(p, n) \/ Unlink(p, n)
  \/ \E n \in Names, len \in Lengths : OpenWrite(p, n, len)
  \/ \E m, n \in Names : Rename(p, m, n)

\* A call after the first fails.
Fail(p) ==
  /\ pc[p] \in Calling
  /\ Fails(p)
  /\ changed' = changed \ {p}
  /\ stayed' = [stayed EXCEPT ![p] = {}]
  /\ seen' = [seen EXCEPT ![p] = {}]
  /\ UNCHANGED <<store, changes, mixed>>

Continue(p) == Stat(p) \/ Read(p) \/ Write(p) \/ List(p) \/ Fail(p)

FilesNext == \E p \in Clients : Start(p) \/ Continue(p)

FilesSpec == FilesInit /\ [][FilesNext]_filesVars

\* The host returns from every call.
FilesFairSpec == FilesSpec /\ \A p \in Clients : WF_filesVars(Continue(p))
-----------------------------------------------------------------------------
\* A file holds bytes of one write, unless two had it open at once: they may
\* then overwrite each other's beginning (fs/unsafe.ts:88-110).
OneWrite == \A i \in Files \ mixed : \A j \in DOMAIN data[i] : data[i][j] = data[i][1]

\* A file that did not change since its size was fetched is read whole.  One that
\* did is cut to that size, or the reader traps; it never gets bytes that the
\* file does not have (fs/unsafe.ts:44-74).
ReadsWhole ==
  [][\A p \in Clients : pc[p] = "read" /\ pc'[p] # "read" =>
       \/ event' \in {Nothing, Data(p, data[fd[p]])} /\ pc'[p] = "idle"
       \/ /\ p \in changed
          /\ \/ pc'[p] \in {"ended", "stuck"}
             \/ /\ arg[p] <= Len(data[fd[p]])
                /\ event' = Data(p, SubSeq(data[fd[p]], 1, arg[p]))]_filesVars

\* A listing has every name that was there during the whole call, however the
\* buffer was grown, and none that was not there at all (fs/unsafe.ts:143-186).
ListsDirectory ==
  [][event'.kind = "listing" /\ event' # event =>
       /\ stayed[event'.to] \subseteq event'.names
       /\ event'.names \subseteq seen[event'.to]]_filesVars

\* Every call returns or traps: the buffer of readDir outgrows any directory, and
\* a Maybe is settled unless its process trapped (fs/unsafe.ts:144-160,
\* fs/async.ts:28-38).
CallsEnd == \A p \in Clients : pc[p] \in Calling ~> pc[p] \notin Calling
=============================================================================
