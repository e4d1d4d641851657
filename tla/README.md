# A verification project for c_specx

`c_specx` is a standard library for C: an error object, allocators, data
structures over fixed or growing memory, concurrency primitives over POSIX (or
Windows) threads, byte streams, a small polling TCP server and a test framework.
This directory holds TLA+ models of its components, the TLC configurations that
check them on small instances, and proofs (TLAPS) of the properties that matter
most, for every size of instance.

1. [Inventory](#1-inventory): the system and what can go wrong in it
2. [Modules](#2-modules): how state and actions correspond to the code
3. [Runs](#3-runs): what is checked, the bounds and why they are enough
4. [Fairness](#4-fairness)
5. [Proofs](#5-proofs): what holds for every value of the constants, and why
6. [What the models say about the code](#6-what-the-models-say-about-the-code)
7. [Assumptions and limits](#7-assumptions-and-limits)
8. [Plan](#8-plan)

## 1. Inventory

Paths are below `src/src/` (`.c`) and `src/include/c_specx/` (`.h`).

| Component | State | Operations | What is hard | What makes it correct |
|---|---|---|---|---|
| granularity lock, `concurrency/gr_lock` | a mutex, a holder count per mode (IS, IX, S, SIX, X), a list of waiters that live on their threads' stacks, a condition variable each | `gr_lock`, `gr_trylock`, `gr_unlock` | wakeups and barging; waiters that leave the list in any order; a condition variable that cannot be made; a try on a busy mutex | holders are compatible; counts are the holders; the list is the waiters; nobody who could be granted sleeps |
| S/X latch, `concurrency/spx_latch.h` | one atomic word: 16 bits of readers and an exclusive bit | lock and unlock S and X, upgrade, downgrade | every load and compare-exchange interleaves; two readers upgrade at once | a writer is alone; an upgrade that kept its S writes over what it read; whoever set X drains the readers |
| spin latch, `concurrency/latch.h` | one atomic word | lock, unlock | mutual exclusion | the calls it protects are atomic |
| periodic task, `concurrency/periodic_task` | mutex, two condition variables, four flags, a worker thread | init, start, wake, stop | wake against check, stop against sleep, free against last use | no wake is lost, stop returns, nothing is freed in use |
| polling server, `net/polling_server`, `net/echo_server` | two parallel growing arrays (descriptors, connections), a capacity, one error object; per connection a receive and a send buffer | accept, read, write, remove inside one `poll` loop; `pserv_close` | partial reads and writes, removal while iterating, failures of one peer among others | slots are the open connections; what poll reported stays usable; echoes arrive whole and in order |
| TCP client, `net/client` | a socket | connect, exact reads and writes, disconnect | partial transfers | frames are whole |
| slab allocator, `memory/slab_alloc` | a doubly linked list of slabs with free lists inside the free blocks, a remembered slab | alloc, free, destroy | a slab empties at any place of the list; stale `current` | a block has one owner; nothing dangles; an empty slab is alone; growth only when full |
| chunk allocator, `memory/chunk_alloc` | a list of linear allocators, three counters, five limits | malloc, calloc, reset all, free all | limits checked on several paths, before and after the count | regions are disjoint; counters are those of the list; limits hold |
| linear allocator, `memory/lalloc` | base, limit, used | malloc, reset, save and rewind | the last byte; stale saved states | regions are disjoint |
| robin-hood tables, `ds/robin_hood_ht.h`, `ds/robin_hood_manual_ht.h` | an array of slots with a distance from home each | init, insert, get, delete | displacement, backward shift, a full table | the table answers as a dictionary |
| circular buffer, `ds/cbuffer` | array, head, tail, full flag | write, read, copy, move between buffers, files, single elements at both ends | empty against full, two wraps at once | the buffer behaves as a queue |
| chained hash table, `ds/hash_table` | buckets of nodes, a size, a latch | insert, lookup, delete, random, foreach | the pointer a lookup returns outlives the latch; the size is read outside it | a node is deleted once, the size is the number of nodes |
| block array, `ds/block_array` | a linked list of blocks with counts | insert, read, write, remove with strides | splitting, compacting and draining blocks; allocation failures half way | it is a sequence of bytes |
| growing array, double buffer, `ds/ext_array`, `ds/dbl_buffer` | array, length, capacity | append, insert, read, write, remove | growth, stale pointers | they are sequences |
| strides, `ds/stride` | none | resolve a slice of an array | negative, missing and clamped bounds; the last partial step | it selects what a slice selects |
| data writer, validator, `ds/data_writer.h`, `dev/data_validator` | two containers behind function tables | insert, read, write, remove in both, compare | one side fails; results are compared, not only bytes | it raises an alarm when and only when the containers differ |
| byte streams, `ds/stream` | a done flag and the state of source and sink | read, write, adapters | a sink that takes a part of a batch, a limit inside a batch | no byte lost between source and sink without a word |
| serializers, `memory/serializer`, `memory/deserializer` | a cursor and a bound under a latch | write, read | threads that race for the tail; 32-bit sums in the bound check | records are whole and read once, in order |
| strings, list, bytes, `ds/*` | none | pure helpers | | |
| malloc plan, alloc wrapper, `memory/malloc_plan`, `memory/alloc`, `intf/os/memory` | a two-pass plan; a tag | plan, allocate, free | the passes must agree | |
| OS mutex, condition variable, thread, `intf/os_posix/*` | pthread objects | wrappers | error codes | |
| semaphore, read-write lock, `intf/os_posix/*`, `intf/os_windows/*` | POSIX: a mutex, a condition variable and a count; the system's lock.  Windows: the system's semaphore; an SRWLOCK and a flag | post, wait, try, timed wait; lock, try, unlock in both modes | a deadline against a post; which release the flag says | a count is taken once; the release fits the holder |
| files, `intf/os_posix/file.c`, `intf/os_windows/file.c` | a descriptor with a position | some and all, positional, vector and stream transfers, resize, seek | short transfers, EINTR, vectors, 32-bit lengths, a shared position | the bytes asked for, at their places, or an error |
| sockets, timers, `intf/os_*/*` | descriptors | wrappers | | |
| error object, `dev/error` | a code, a message | raise, change, trace, reset | the code stays until it is reset | |
| test framework, logging, assertions, core helpers, the rest of the Windows backend | — | — | — | not modelled |

How they interact.  Threads meet in the locks, the periodic task, and the
allocators and the hash table, which put a spin latch around each call.  The
chunk allocator is a list of linear allocators; both allocators and the server's
arrays call the heap, which may fail.  The server calls the connection functions
through pointers and shares one error object among all connections; it meets its
clients through the sockets only.  Streams and the validator drive the
containers.  `PROJECT.json` lists under "hazards" what is hard to test in all of
this, at its line, with the property that covers it or the reason why none does.

## 2. Modules

A module per component, an abstract specification where the component promises
something simpler than what it does, and a module of proofs beside it.  A name
of the code is kept where it can be.  Definitions whose comment begins with
"Mutant" are not part of a model: each is a plausible bug in the definition that
follows it, and shows that a property would notice.

| Code | Abstract | Model | Proofs |
|---|---|---|---|
| granularity lock | `GranularityLock` | `GrLock` | `GrLockProofs` |
| S/X latch | `SharedExclusiveLock` | `SpxLatch` | `LatchProofs` |
| periodic task | | `PeriodicTask` | `LatchProofs` |
| polling server with echo connections | | `EchoServer` | `EchoServerProofs` |
| slab allocator | | `SlabAlloc` | `AllocatorProofs` |
| chunk allocator on linear allocators | | `ChunkAlloc` | `AllocatorProofs` |
| robin-hood tables | `Dictionary` | `RobinHood` | `RobinHoodProofs` |
| circular buffers | `ByteQueues` | `CBuffer` | `CBufferProofs` |
| strides, growing array, block array, validator | `ByteArray` | `Strides`, `ExtArray`, `BlockArray`, composed in `DataValidator` | `CBufferProofs` (`Strides` only) |
| files on POSIX and on Windows | `FileContract` | `OsFile` (the kernel and the callers), `PosixFile`, `WindowsFile`, composed in `Files` | `FilesProofs` |
| spin latch | | `Latch` | `WorkersProofs` |
| streams, serializer, deserializer | | `Streams`, composed with `Latch` in `Records` | `LatchProofs` |
| semaphore, read-write lock | | `OsSync` | `WorkersProofs` |
| chained hash table | | `HashTable`, composed with `OsSync` in `Workers` | `WorkersProofs` |

A module of proofs may extend two components whose names differ: the names that
every component has (`Init`, `Next`, `Spec`, `Inv`) carry a prefix in `PeriodicTask`,
`SlabAlloc`, `Records`, `Latch` and `OsSync`.  `Threading` declares the threads of the last two
rows.  The modules `MC...` give the constants that are not plain sets their values for TLC;
`MCAllocators` puts the two allocators, which share nothing, in one run.

**GrLock.**  `mutex`, `holder_counts` and `waiters` are the fields of `struct
gr_lock`; the doubly linked list is a sequence.  A call is cut where the mutex is
taken and where `i_cond_wait` gives it back; the code between runs alone and is one
step.  `LockEnter`/`TryEnter`/`UnlockEnter` take the mutex; `LockFast`, `LockWait`,
`WaitAgain`, `WaitDone` are the branches of `gr_lock`; `gr_unlock` is one step that
decrements and walks the list.  A sleeping thread may wake for no reason; a
condition variable may fail to be made, and then `gr_lock` returns an error
(`LockWaiterInitFails`) or, as `i_cond_create` looks into `errno` for the reason, the
process ends (`LockWaiterInitCrashes`, `crashed`); so does `i_mutex_try_lock` on a
mutex that is owned.  The refinement mapping
gives the abstract lock the mode each thread asks for and holds.

**SpxLatch.**  `latch` is the word, `val[t]` the local copy of thread t, `pc[t]`
its place.  Each load, store and read-modify-write is a step, and a weak
compare-exchange may fail though the word is as expected.  `current` and
`dropped` are history: the threads whose reading no writer has outdated, and the
threads that gave their S up in an upgrade, as the loser of two upgrades does.

**PeriodicTask.**  The flags are the fields of `struct periodic_task`; `live` says
that the mutex and condition variables exist; `worker` and `owner` are the places
of the two threads, cut at the mutex as in GrLock; wakers call
`periodic_task_wake`.  A timed wait may end at any time (`TimedOut`).  `unserved`
is history: a wake after which the function has not yet run.

**EchoServer.**  `conns`, `fds`, `cap`, `running` are the fields of the server,
`conn[p]` the connection structure of peer p, `failed` the pending code of the one
error object.  Bytes travel as chunks, so that any read and write may be short.
One action accepts, one reads, one writes, one removes, with the failure paths
beside them; the loop over descriptors runs downwards as in the code, and
`remove_client` moves the last slot into the hole.  `backlog`, `link`, `sent`,
`wire` and `got` are the peers and the network.  The caller is
outside the repository: it calls `pserv_execute` while it returns a positive value,
as `pserv_execute` returns `running`, and then `pserv_close`.

**SlabAlloc.**  `slabs` is the list from `alloc->head`, `current` the remembered
slab, `freelist` and `used` the fields of each slab, `heap` the pages obtained,
`live` the blocks callers own.  Each path through `alloc` and `free` is an action:
the remembered slab, the walk, a new slab, failure; a free that keeps the slab and
one that gives it back.

**ChunkAlloc.**  `chunks` is the list from `ca->head`, `limit` and `used` those of
the linear allocator in each chunk, `live` the regions callers use.
`MallocFromHead`, `MallocFromNew`, `MallocExactFails` (the new chunk cannot serve
the request it was made for), `MallocFails` and `MallocCrashes` are the paths of
`chunk_malloc`.  With `Checked` the assertions are compiled in and may end the
process.

**RobinHood.**  `elems` is the array; a slot holds a key and its distance `dib`
or is absent.  A key hashes to itself, and values travel with keys, so both
headers are this model.  The loops are recursive functions of one pass each
(`Walked` of `InsertStep`, `ShiftedFrom` of `ShiftStep`).  `answer` is the last call and
its result; with it the refinement says that every answer is a dictionary's.
`refused` is history: an insert has found the table full, which leaves it as the
swaps have made it.  After that a delete is made only while the table is `Anchored`
(a slot is free, or an entry is at home), unless `DeletesUnanchored`.  The map
points some definitions at one header and some at the other; the code of both is the
same but for names.

**CBuffer.**  `buf[x]` is a `struct cbuffer`.  The loops of `read`, `write` and
`copy` are two passes of one piece each, as the code asserts; `move` and
`cbuffer_copy` cut the source in two pieces of their own and write each with
`cbuffer_write`.  Direct access (`get_next_*` with `fakewrite`, `fakeread`) and file
transfers, which may be short or fail after some bytes were stored, are actions;
so are the calls on one element.  `cbuffer_pop_front` and `cbuffer_pop_back` are one
action, since both take at the tail, and so are the two peeks; `End` is the end
that the callers name, and the abstract `ByteQueues` pops and peeks there.  With
`Strays` callers also ask for elements that are not all in the ring.  The mapping
reads the bytes from `tail` on.

**Strides, ExtArray, BlockArray, DataValidator.**  The two arrays are operators
from a record (their struct) to the record and result after a call: `ExtArray` has
one run of bytes and a capacity, `BlockArray` a sequence of blocks of at most
`cap_per_node` bytes.  Loops over blocks are recursive functions (`WalkFrom`, `Drain`)
with one piece of the loop body each.  An allocation may fail wherever the code
allocates.  `DataValidator` makes the calls of `dev/data_validator.c` on both, with
its early returns, and compares what it compares; `ByteArray` is a plain sequence
of bytes, and the mapping gives it the bytes of each container.

**OsFile, PosixFile, WindowsFile, Files.**  `file` is the content and `pos` the
position of the handle; `call[w]` is the call a thread is in: what it asked for,
how much it has moved, the bytes it has.  One system call is one step, which moves
any part of what was asked (`ReadCounts`, `WriteCounts`), fails, or is interrupted
(POSIX).  On Windows a positional request moves the position too, as the handle is
not opened for overlapped use; `Mixed` says whether callers make such calls while
another uses the position.  Each `..._all` loop is an action per iteration; `iov` is
the rest of a vector.  Counts wrap at `Word`, a request of Windows at `Dword`.  `FileContract`
says what a call promises: which bytes are where when it returns.

**Latch, Streams, Records.**  `Latch` has the word and the load, exchange and store
of each thread.  `Streams` has one `stream_read` at work: `StreamRead` begins a
batch, `PullBatch` fills the stack buffer, `PushPart` gives it to the destination
until it takes no more.  Sources and destinations are the buffers of `stream.c`,
a sink, an opsink, a limit around any of them, and a caller's own stream, which may
take a part or fail; as a source it may fail as well (`PullFails`).  `Records`
lets threads write records with one serializer (byte by byte inside the latch),
copies what was serialized and lets threads read it back; a thread that finds the
latch taken spins as `Latch` says.

**OsSync.**  `sem` is the POSIX semaphore (count, owner of the mutex, who sleeps,
who has reached the deadline) or the system's on Windows; `rw` the lock with who
has it and, on Windows, the flag.  `sync[t]` is the place of thread t.  The mutex is
taken and given back in steps of their own; `Deadline` and `Spurious` are the
ends of a sleep that no post caused.  A signal may go to a timed wait that has
just reached its deadline, as POSIX allows, while others sleep on; `sem.lost`
counts those signals.  `SyncSpec` is the contract of the callers:
lock what you do not have, unlock what you have, nothing else.

**HashTable, Workers.**  `link` maps every slot (head of a bucket, `next` of a
node) to a node, so that a `struct hnode **` is a slot.  An insert has three steps
inside the latch, a delete two; a walk is one.  `htable_random` draws its target
with the size it reads before it has the latch.  `Workers` is a program as the
library's users write it: a put is rdlock, insert, unlock, post; a get is a wait of
any kind, wrlock, random, delete, unlock; a peek tries the lock.

## 3. Runs

A module states its invariants as named parts.  `Inv` is the conjunction of its
type invariant and of the parts that only mean something together; a part that
answers a question of its own is a property of its own.  Every property of a
run has a mutant in `PROJECT.json` that makes TLC report it.

| Module | `Inv` |
|---|---|
| `GrLock` | `TypeOK`, `HoldersCompatible`, `CountsMatchHolders`, `ListIsTheWaiters` |
| `SpxLatch` | `TypeOK`, `WordMatchesHolders`, `WriterIsAlone` |
| `PeriodicTask` (`TaskInv`) | `TaskTypeOK`, `Stages`, `NothingFreedInUse`, `NoLostWakeup` |
| `EchoServer` | `TypeOK`, `SlotsAreConnections`, `ReportsAreUsable` |
| `SlabAlloc` (`SlabInv`) | `SlabTypeOK`, `BlocksAccountedFor`, `NothingDangles`, `EmptySlabIsAlone` |
| `ChunkAlloc` | `TypeOK`, `RegionsDisjoint`, `LimitsHold` |
| `DataValidator` | `TypeOK`, `SameBytes`, `DeliversElements` |
| `Files` | `TypeOK`, `TransfersAreExact` |
| `Records` (`RecordsInv`) | `RecordsTypeOK`, `SavedRecordsAreWhole`, `LoadedIsSaved`, `CopyIsPrefix`, `ShortMeansDone` |
| `Workers` | `TypeOK`, `TableIsWhole`, `DrawFindsNode`, `CountMatchesNodes` |

| Run | Instance | States | Shows |
|---|---|---|---|
| `grlock_safe` | 3 threads, all of which also try | 15,880 | compatibility, counts, list, no lost wakeup, refinement of the abstract lock with its fairness |
| `spx_safe` | 3 threads, 2-bit count | 65,093 | exclusion, word, upgrades, refinement, `DrainEnds` |
| `periodic_safe` | owner, worker, 2 wakers | 121 | nothing freed in use, no lost wake, stop returns |
| `echo_safe` | 2 peers, one faulty; 2 messages each of size 0 or 1; 2-chunk prefix | 648,794 | slots, reports, order of echoes, answers, closing |
| `allocators_safe` | 3 slabs of 2 blocks, or 4 chunks, 5 sizes and every limit set | 248,962 | slabs: accounts, nothing dangles, empty slab alone, growth; chunks: disjoint regions, counters, limits |
| `robin_safe` | 4 slots, 8 keys, inserts into the full table included | 17,773 | early exits never miss a key; a dictionary, which a refused insert costs one key at most |
| `cbuffer_safe` | rings of 3 and 2 bytes, elements of 1 and 2, popped and peeked at the front | 2,232 | every call is a queue's |
| `cbuffer_backs` | the same, popped and peeked at the back | | violated: both calls deliver the front (section 6) |
| `containers_safe` | blocks of 3 bytes, elements of 1 and 2, slices with every bound present or not | 14,560 | both arrays are the same sequence of bytes; strides are slices; what the validator's alarms mean |
| `files_safe` | 2 threads, 2 calls, 1 signal, files of 0 and 3 bytes, both backends; on Windows calls that use the position have the handle alone | 123,062 | transfers move the right bytes, the position follows the stream calls, calls return |
| `records_safe` | 2 threads, records of 2 bytes, every destination and limit, a source that may fail | 149,432 | records whole and in order; what a copy loses it says; calls end |
| `workers_safe` | 3 threads, 2 nodes in one bucket, both backends | 52,148 | counts match nodes, a draw finds its node, releases match, no sleep on a count whose signal was not lost, jobs end |

Why the bounds are enough.

* *Locks.*  The conflicts are between two threads; the third is the bystander
  that barges in, is left asleep, or loses the wakeup.  Every thread uses every
  mode.  What holds for three threads is proved for any number (section 5).
* *Periodic task.*  Two wakers can collide with each other and with the worker;
  the owner starts and stops again without bound.  Proved for any number of wakers.
* *Server.*  Two connections are the fewest at which removal moves another
  connection; `InitCap = 1` makes the arrays grow at the first accept; two
  messages let a reply meet the state the last one left; a 2-chunk prefix can be
  cut in the middle.  Size 0 is the empty message.  `Inv` is proved for any peers,
  sizes and capacity, the order of echoes for any of them and a client that waits
  for each reply.
* *Slabs* (`allocators_safe`).  Three slabs give a head, a middle and an end; two
  blocks give full, partial and empty.  Proved for any number.
* *Chunks* (the same run).  The sizes lie below, at and above each limit, and the limits
  exclude each other on different paths.  Proved for any settings.
* *Robin hood.*  Homes 0, 1, 2, 3 twice (keys 0..5, 6, 8), three keys with the
  same home, so that walks wrap, displace twice and shift over the end.  There are
  twice as many keys as slots, so that a full table is asked to take another, loses
  one it had, and goes on.  Proved for any capacity and keys.
* *Circular buffers.*  Every content of both arrays, every head and tail, and
  transfers longer than what is left before the wrap of either ring.  The values
  of a byte are interchangeable, so the run uses symmetry; no step looks at what
  the last call delivered, so states that differ only there are one (`RingsOnly`),
  and the step that made each is checked.  Proved for any capacities, bytes and
  elements.
* *Containers.*  Blocks of 3 bytes and elements of 2 make an insert split a block,
  fill it and spill into new ones, and a strided remove compact over two boundaries.
  The bounds of slices lie below, inside and beyond the array, from both ends.
* *Files.*  A request of 2 is cut in two, one of 5 is longer than a `Dword` of 4
  can say and ends beyond the file; the vectors have an empty buffer before, after
  and nowhere; offsets lie inside and beyond the end.  Two threads show, on POSIX,
  one thread's positional call between another's stream requests, and on both
  backends two positional calls at once.  All but the liveness
  is proved for any requests and threads.
* *Records.*  Two writers race for a buffer that has room for both records, or
  for both but one byte; destinations end inside a record; a batch of 2 bytes holds
  two elements or one.  All but the liveness is proved for any users, capacities,
  element sizes, limits and destinations.
* *Workers.*  Plans give two sleepers one poster with two posts or with one (the
  fewest with which a timed wait takes the only signal with it and the other sleeper
  is left asleep beside a count), two posters one taker, and a thread that only
  tries.  Two nodes in one
  bucket are the fewest for which a slot is inside another node.  All but the
  liveness is proved for any threads, nodes and jobs.

## 4. Fairness

Liveness is checked where the code's own scheduling justifies it.

* A thread that owns a mutex, or has work to do outside one, goes on (weak
  fairness of each of its steps).  A mutex is given in the end to a thread that
  asks again and again (strong fairness of the steps that take it): pthread
  mutexes do not promise it, but without it nothing about a lock that all
  threads share can be live.  Holders let go in the end.  Nobody has to ask for
  a lock, no wait has to time out, and no thread has to wake without a signal;
  the owner of a task need not start or stop it.
* `GrantsInTheEnd` asks for what the abstract lock promises: a request that stays
  grantable is granted; it is stated for behaviours in which the process does not
  crash.
* `spx_safe` assumes weak fairness of each thread's steps inside a call, the
  unlock of a holder among them: a spinning thread spins, but need not ever find
  the latch free, and a weak compare-exchange may fail again and again.  The one
  thing promised is that a thread that has set X becomes the writer
  (`DrainEnds`).
* The server is one thread that keeps running (weak fairness of `Server`); the
  clients do what they like.
  `poll` returns by timeout or interruption only while nothing is ready.
* A file call takes its next step if it can, and the answer of a system call is not
  an error for ever (weak fairness of the steps that do not end in an error); there
  are finitely many signals.
* A thread in `latch_lock` gets the latch if it is free again and again (strong
  fairness of the load that sees it free and of the exchange): a spinning thread
  promises no more.  The copy keeps running (weak fairness of `StepCopy`).
* The threads of `workers_safe` run, and get a mutex, lock or latch that is free
  again and again (strong fairness: neither pthread nor SRWLOCK promises it, but
  jobs are finite).  A deadline passes whatever woke the sleeper before, since it is
  a point in time.  A thread may wait for ever for a post that nobody makes, and
  need not wake without a signal.
* Allocators and containers are sequential or latched; nothing there is live.

## 5. Proofs

TLAPS checks these for every value of the constants that satisfies the module's
assumptions (and the hypothesis of the theorem, where one is named).

**Locks.**

* **`GrLockProofs.Safety`**, **`Wakeups`**, for any finite set of threads.  The
  inductive invariant adds `MutexOwner` (a thread is in a critical section exactly if
  it owns the mutex) to `Inv` and `NoLostWakeup`.  Counts equal to the number of
  holders turn "compatible by the counters" into "compatible with every holder"
  (`CompatibleWithHolders`, `GrantStep`), and a list that is exactly the waiters
  makes the walk of `gr_unlock` reach every sleeper that the remaining holders
  admit (`UnlockStep`), so nobody grantable stays asleep.
* **`GrLockProofs.Implementation`**: every step is a step of `GranularityLock` or
  stutters (`GrantableIsCompatible`, `StepImplementsLock`).
* **`LatchProofs.Safety`**, **`Upgrades`**, for any finite set of threads that fits
  in the reader count (`ReadersFit`).  The invariant adds that X has one owner, that a
  thread about to compare-exchange has seen X clear, and that only a thread that
  gave its S up waits inside an upgrade.
* **`LatchProofs.Implementation`**: the latch implements `SharedExclusiveLock`.
* **`LatchProofs.TaskSafety`**, **`WakesStand`**, for any number of wakers of a
  periodic task.  `Stages` says how far the worker can be in each call of the owner;
  with it the joins are known to wait, so what is freed has no user, and `TaskInv`
  with `WakeIsKept` is inductive.
* **`WorkersProofs.LatchExcludes`** for any set of threads: at most one has the spin
  latch.  The invariant adds that a word of 0 means that nobody has it, so it does
  not matter how old the load is that sent a thread to the exchange.
* **`WorkersProofs.ReleasesMatch`** and **`LocksExclude`** for any set of threads that
  keep to `SyncSpec`, on both backends.  The invariant ties the flag to the writer
  (`FlagIsWriter`: set exactly between the writer's store and its clear) and the
  place of each thread to what it has (`CallsFitLock`); a thread is inside the
  semaphore's mutex exactly if it owns it (`OwnerIsInside`).

**The workers and their table**, for any finite set of threads, plans, nodes and
buckets, on both backends.

* **`KeepContract`**: the threads of `Workers` keep to `SyncSpec`, so what is proved
  of the locks holds of them (**`WorkersRelease`**).  What a thread has still to do
  of its job says which call it is in and what it has of the lock (`JobsFit`, `Rests`,
  `Locked`).
* **`TableAgrees`**: the chains hold each node once, the size is their number, the
  counts of the semaphore are the nodes nobody is about to draw, and a draw finds
  its node.  `Linked(l, k, q)` says that the links `l` give bucket b the walk
  `q[b]` of `k[b]` slots; `LooseNode`, `NewHead` and `Unlinked` say what each
  store of an insert or a delete does to that.  The invariant `HInv` is the
  linkage (`Linkage`), the place of each thread in its call (`Places`), and
  `CountMatchesNodes`.  A writer keeps inserts and deletes away, so the slot it
  drew stays in the chains; every other step is `Balanced` in counts and nodes; a
  thread that draws makes the table non-empty, so its index is in range though it
  read the size before it had the latch.

**Server.**

* **`EchoServerProofs.Safety`** for any peers, frame sizes and capacity.  The
  invariant is `Typed`, with what a connection has read and asked for (`Sound`);
  `Placed`: an open connection is in one slot or in the backlog once; and
  `Polled`: what poll was asked and answered is what the connection can do, for
  the slots that the loop has still to visit.  A removal puts the last slot at
  the index being served, so the slots below keep their reports.
* **`EchoServerProofs.InOrder`** for the same, if a client waits for each reply
  (`Window <= 1`, as the library's client does).  `Flow` splits what a peer has sent
  into the messages that are done and those that are left: what was received, followed
  by what is on the wire, is the frames of those left, and what the peer got, followed
  by what is still unsent, is the answers to those done.  Only the last message can
  be left, so a frame is never received over a reply that is not sent; with
  `Window = 2` TLC shows that happen.

**Allocators.**

* **`AllocatorProofs.SlabSafety`** for any finite set of pages and any slab size: the
  invariant is the checked `SlabInv` itself; the accounts of one slab (`Accounted`) say
  when it is empty or full, which the properties of the list depend on.
* **`AllocatorProofs.SlabGrowth`**: a step that adds a slab finds every block owned.
* **`AllocatorProofs.ChunkSafety`** for any settings, with assertions or without:
  regions lie in the used part of their chunk, so a new one behind it is apart.
* **`AllocatorProofs.ChunkCounters`**: the counters are the sums over the list.  A sum
  is the last of the partial sums (`Total`); three lemmas say what it becomes when a chunk
  is put in front, when the head grows, and when the chunks are reset.

**Containers.**

* **`CBufferProofs.TypeCorrect`** for any capacities, bytes and element sizes, and
  **`Implementation`** for callers that pop and peek at the front and ask for
  elements that are all there (`InTurn`): every call on the rings is the call of a
  queue.  A read is a
  move of the tail, a write is bytes laid around the ring (`Laid`) and a move of the
  head; the two-turn loops of the code are shown to be just that, and the bytes from
  the tail on are what the queue holds.  The invariant is `Rings`: both are well
  formed, and a full one has its head at its tail.
* **`CBufferProofs.SlicesAreSelected`** for every array length and every slice with a
  positive step: `stride_resolve` finds the places of Python's slice, in order, and a
  resolved stride made a slice again (`usfrms`) finds them again.  Clamped bounds give
  the same steps as the bounds they stand for (`ResolvedIs`), a quotient rounded up
  counts the multiples below (`RoundedUp`), and an increasing function is the set of
  its values in order (`IncreasingIsInOrder`).
* **`RobinHoodProofs.DibsHold`** and **`Implementation`** for any capacity and keys,
  inserts into full tables included, if callers delete with care after one was
  refused (`~DeletesUnanchored`): the DIB invariant holds, every answer is that of a
  dictionary, and a refused insert leaves as many keys as there were, at most one of
  them exchanged.  The invariant is said of any table (`Table`: entries are placed,
  once, with their distances in order), so that it can be carried through the loops:
  during an insert it is the table without the entry that is carried that is in
  order (`Walking`), during the shift of a delete the table without the slot that is
  to be overwritten (`Shifting`).  One part is not in the code's comments: `Started`, a
  free slot or an entry at home.  It holds until an insert is refused; the DIB
  invariant alone, which holds afterwards as well, allows a full table with every
  entry displaced, in which the shift of a delete comes round the table.  So a delete
  is covered while the table is `Anchored`, which is the same condition.

**Records and streams.**

* **`LatchProofs.RecordsAreKept`** and **`LossesAreReported`**, for any users,
  record length, capacities, element sizes, batch size, limits and destinations, a
  source that may fail, and any number of calls.  The invariant `RecordsKept`,
  which TLC checked on the instance of `records_safe` first, has three groups of
  parts.
* The writers: `Holders` (the word is 1 exactly while one thread is in), `Written` (the
  buffer below `dlen` is the accepted records, each in a block of its own), `Writing`
  (what the thread inside has copied lies from `dlen` on, and the rest of its record
  fits) and `Fresh` (a record about to be written is not among the accepted, so moving
  `dlen` adds one record and one block).
* The copy (`CopyInv`): every kind of destination, through a limit or not, takes
  the front of what it is offered, and unless that is whole elements, at least
  one, it is `Closed` from then on (`PushIs`); a pull takes the next bytes of the
  source (`PullIs`).  So between two batches everything pulled has arrived, or the
  source is at a torn end, or the destination is closed and says so (`Settled`,
  `AtEnd`, `Shut`); inside a batch the elements still to be pushed are those that
  follow the ones that arrived (`Aligned`). A batch pushed after an earlier loss
  meets a destination that is still closed, which is why what arrives stays a
  prefix.
* The readers: `Reading` and `Loaded` say of the head and of what was read what
  `Writing` and `Written` say of the tail, and nothing is read beyond what was
  reported (`ReceivedFits`), which is no more than arrived, which is no more than was
  saved.

**Files.**

* **`FilesProofs.Exact`**, **`Position`** and **`Implementation`** for any threads,
  requests, vectors of up to two buffers, word sizes and initial content, on both
  backends.  Each step of either backend is first shown to be one of four moves: k
  bytes read, k bytes written, an error, a signal (`PosixMoves`, `WindowsMoves`; the
  same lemmas serve both once the request is known to be for the next bytes of the
  call).  Everything else is proved of the moves.  The inductive invariant `IInv` adds
  to the checked ones what each call has left: the bytes moved so far are the same in
  the file and in memory (`Same`), the buffers that are left are the addresses behind
  them (`Covers`), which is what the arithmetic on vectors in `i_writev_all` and
  `i_readv_all` must keep, a single request is made before anything has moved
  (`Underway`), and calls in flight are apart (`Apart`), which is the callers' part.
* The hypotheses are about signals and, on Windows, about the position; `files_safe`
  meets them.  The second is `~Mixed`: a call that uses the position has the handle
  to itself.  It is needed only there, since a positional request moves the
  position on Windows (`PosAfter` says where each backend leaves it), and on POSIX
  positional calls come between stream requests freely.  `Exact` and
  `Position` allow a signal at any moment but inside a stream call that has moved
  bytes; `Implementation` excludes also a signal before the first byte of a call
  with one buffer.  Vector calls bear a signal at any moment.  With the others
  the code does otherwise (section 6): the position runs ahead of the count, and
  the call ends in an assertion or with a result that the contract does not allow.
* The module assumes that no length is a multiple of `Dword`: the calls of a single
  request on Windows cast the length to a DWORD, and would ask for nothing when 2^32
  bytes are wanted.  Lengths below `Word - 1` keep the counts from wrapping.

What a recursive function does is proved with induction over sets of numbers
(`NumberInduction`, from the well-foundedness of the naturals): the library's own
induction theorems take an operator as a parameter, which no installed prover can
instantiate.

Only model-checked: every liveness property (fairness and ENABLED are outside the
prover's reach), `NoSleepOnCount` among them; everything of `DataValidator`, whose
block array has RECURSIVE operators, which leave a module without its SMT backend.
`SlicesSelect`, a property of its run, is an instance of `SlicesAreSelected`.

## 6. What the models say about the code

Disagreements between the code and what the repository says of it.  The models have
the code's behaviour; the runs of section 3 keep to the properties that hold with
it.  The formula in parentheses is one that TLC finds violated, with the change to
the configuration that shows it.  The first disagreement is a run of its own.

* `cbuffer_pop_back` and `cbuffer_peek_back` take the element at the front, as their
  twins do (`cbuffer.c:1223, 1468`); their header says "at the back (head side)"
  (`cbuffer.h:365, 379`).  The run `cbuffer_backs` asks for the back
  (`ImplementsQueues` with `End = "back"`).
* `cbuffer_get` beyond the end returns false according to `cbuffer.h:348`; it
  compares an index of elements with a count of bytes, so that a full ring, or one
  that holds a part of the element, comes to an assertion (`cbuffer.c:1072, 1075`),
  and without assertions delivers bytes that are not an element of the queue.  A pop
  of an element that is only there in part is not refused either
  (`ImplementsQueues` in `MCCBuffer_safe.cfg` with `Strays = TRUE`).
* `i_mutex_try_lock` looks for EBUSY in `errno`, where `pthread_mutex_trylock` does
  not put it, so `gr_trylock` on a busy lock ends in UNREACHABLE
  (`TryLockReturns` in `GrLock_safe.cfg`).  The creation of a condition variable and
  of the read-write lock does the same with the error codes of theirs
  (`os_posix/cond.c:48`), so that a failure ends the process unless `errno` happens
  to hold the right code (`LockWaiterInitCrashes`).
* The server's one error object keeps the first failure; after one peer has
  closed, each successful read of another is reported as a failure and costs it
  its connection (`FailuresStayLocal` in `EchoServer_safe.cfg`).
* `chunk_alloc_assert__` refuses an allocator that has exactly `max_chunks` chunks,
  which the settings allow (`NoAssertFails` in `Allocators_safe.cfg`).
* `ht_insert` of a new key into a full table returns HTIR_FULL after it may have
  swapped the key in; then a stored key is lost (`robin_hood_ht.h:107-117`), which the
  repository's test of a full table does not look for
  (`robin_hood_ht_tests.c:167-182`).  The abstract `Dictionary` allows that much, one
  key exchanged for the new one.  Such an insert can leave every entry displaced,
  and a delete then shifts all the way round, returns HTAR_DOESNT_EXIST for a key it
  found, and leaves a key in two slots (`DibInvariant` and `ImplementsDictionary` in
  `RobinHood_safe.cfg` with `DeletesUnanchored = TRUE`).
* The Windows positional calls move the handle's position: the comment before
  `make_overlapped` says they do not (`os_windows/file.c:143-144`), but the handle is
  opened without FILE_FLAG_OVERLAPPED (`:59-61`), and for such a handle the system
  documents that it does.  A stream call beside them goes on from the wrong place
  (`PositionFollows` in `Files_safe.cfg` with `Mixed = TRUE`).
* A timed wait that ends in ETIMEDOUT returns without a look at the count and
  without a signal of its own (`os_posix/semaphore.c:101-105`).  POSIX lets it consume
  a signal of that moment, and then another thread sleeps on beside a count that
  was posted for it.  `NoSleepOnCount` and `JobsEnd` say that nobody sleeps on more
  counts than such signals explain (`sem.lost`); without that allowance TLC finds
  them violated.
* The POSIX transfers add the -1 of an interrupted call to an unsigned count.
  Before anything was moved the count wraps, the loop ends and
  `ASSERT (nread == n)` (`os_posix/file.c:177`) or its twin for writes fails; a build
  without assertions returns as if done (`AssertsHold` in `Files_safe.cfg` with
  `Interruptible = {"start"}`).  Later, a positional transfer does one byte twice,
  which is harmless; `write_all` writes one byte twice, which is not; `read_all`
  returns 0 after bytes were consumed; the calls of a single request return -1
  without an error recorded.

Seen while modelling:

* `periodic_task_thread` waits in a loop that only a wake or a stop leaves: when
  the period ends, it waits again, so nothing is periodic.
* A new chunk of exactly the size asked for is refused by `lmalloc`, which never
  gives out the last byte (`MallocExactFails`); after `chunk_alloc_reset_all` only
  the head chunk is used again.
* The loser of two upgrades gives its S up and is not told that another writer
  came first.
* With two requests in flight on one connection the echo server overwrites the
  reply it is sending.
* After a `close` that fails, `remove_client` returns early and the connection stays
  in its slot (`polling_server.c:158-162`), though its buffers were freed; `pserv_close`
  frees them again (`:271-272`).  `EchoServer` keeps the slot, and does not say who
  owns the buffers.
* `alloc_free` of a plain heap allocator falls through to UNREACHABLE.
* The growing array's insert returns a count and the block array's returns SUCCESS:
  the validator compares the two and reports corruption at the first insert
  (`AlarmsAreCounts` says that nothing else raises its alarm), and the random test
  of the block array ends there.  `dvalidtr_insert` frees a NULL source when its own
  allocation fails, and an insert that fails in one container leaves it behind.
* `block_array_remove` of no element from a full block fails its own assertion;
  removes leave empty blocks in the list.  `stride_resolve` does not look at the bit
  that says whether there was a colon.  The header of `dblb_ensure_space` promises
  more than the code does.
* A buffer stream that ends inside an element moves the torn part and returns 0
  without being done, against the advice of `stream.h` to ask `stream_isdone`; what
  a destination did not take of a batch is gone, and a push that fails loses the
  batch (`LossIsReported` says that the caller is told).
* The Windows lock's comment calls its flag unsafe for mixed use; it is safe
  (`ReleasesMatch`).  The header of the timed wait calls its argument `nsec`, both
  backends take milliseconds.
* On Windows `i_truncate` and `i_fallocate` move the position, and `i_fallocate`
  shortens a longer file; on POSIX they do not.

## 7. Assumptions and limits

* Callers keep to the discipline of the code's users: a thread holds one mode of a
  lock at a time; a task is initialised again before it is started again, and not
  woken after stop; only owned blocks are freed; memory is not used after reset,
  free or destroy; after a robin-hood table has refused a key, nothing is deleted
  from it while it is full and no entry is at home (`DeletesUnanchored = FALSE`);
  elements of a ring that are popped, peeked at or asked for are all there
  (`Strays = FALSE`), and are popped and peeked at the front (`End`); elements fit
  in the buffer of `stream_read`, and an opsink's buffer holds whole elements, at
  least one; no call writes a region of a file that another call is in, and one
  stream or vector call is at work at a time; a slot of the hash table is used
  under a lock that keeps inserts and deletes away.
* On Windows a call that uses the position of a handle has the handle to itself
  (`Mixed = FALSE`).  Where a request leaves the position is what the system documents
  for a handle that is not opened for overlapped use; one that moves nothing may
  leave it or set it to its offset.  Lengths of a single request are not multiples
  of 2^32.
* The source of `stream_read` is a buffer, a limit around one, or a stream of the
  caller's that delivers the same bytes and may fail.
* The mark of a part that a slice leaves out is no index (`AbsentAssumption`); the code
  has a bit for it.
* The capacities of serializers, with one more record, are below 2^32.
* Readers fit in the 16 bits of the S/X latch (`ReadersFit`); the code does not
  check it.
* Relaxed and acquire loads of the S/X latch are taken in one order for its single
  word, which coherence gives; the order of other memory around it is not
  modelled.
* Allocator and hash-table calls are atomic, or take the latch in one step, because
  the spin latch around them excludes others (`WorkersProofs.LatchExcludes`).
* `target_chunk_mult` is a whole number; 32-bit sums of sizes do not overflow.
* SIGPIPE is ignored; peers read what they are sent; a client waits for each reply
  (`Window = 1`, as `net/client` is used; `InOrder` has it as its hypothesis).
* A key of a robin-hood table is its own hash and is not negative: the key type of
  the repository's table is `int`, and the remainder of a negative key is a negative
  index or a wrapped one (`robin_hood_ht.h:94, 151, 207`).  Keys, with the capacity,
  stay below the width of the type, so that a key and its distance do not wrap
  before the remainder is taken.
* The buffers of a server's connections are not modelled, only the connections:
  who frees them, and when, is outside `EchoServer` (section 6 for a failed close).
* A node is in one table; the nodes are finitely many, and a put begins only when
  there is a node nobody uses.  The threads are finitely many (`PlansAssumption`).
* `allocators_safe` runs with assertions compiled in; the proof covers both builds.
* Messages, names, logging and the contents of values are left out.

Not modelled, and why: opening, closing, naming and removing files, directories,
clocks, logging and assertions (I/O with no state of the library's own); strings,
the intrusive list, `struct bytes`, random numbers, hashes and checksums (pure
helpers; the list is a sequence where it is used); the rest of the Windows backend
(one call of the system each); the test framework.  The double buffer, the malloc
plan, the alloc wrapper and rewinding of the linear allocator are next in the plan.
`PROJECT.json` gives the state of every component.

## 8. Plan

Order: what threads share first, then what owns memory, then containers, then
what is composed of them.

Done: `GrLock`, `SpxLatch`, `PeriodicTask`, `EchoServer`, `SlabAlloc`, `ChunkAlloc`,
`RobinHood`, `CBuffer`; `DataValidator` over `ExtArray`, `BlockArray` and `Strides`;
`Files`; `Records` over `Streams` and `Latch`; `Workers` over `OsSync` and `HashTable`.

Next:

1. The linear allocator with save and rewind, composed with `ChunkAlloc`; the malloc
   plan, whose two passes must agree.
2. The double buffer, refining `ByteArray`.
3. `pserv_open` and the client's own loops, which complete `EchoServer`.
4. The recursive operators of `BlockArray` as functions, so that `DataValidator` can be
   proved about.
