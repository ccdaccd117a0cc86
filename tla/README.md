# Verification of nck

nck is a build system in the making: a daemon keeps a content-addressed store and runs builds in
sandboxes, a command line tool packs directories into archives, and a few library crates carry
buffers, files and hashes between them. This directory holds TLA+ models of it, the TLC
configurations that check them on small instances, and proofs, checked by TLAPS, of the properties
that hold for every instance.

Contents: [the system](#the-system), [the modules](#the-modules), [the runs](#the-runs),
[fairness](#fairness), [the proofs](#the-proofs), [what the models found](#what-the-models-found),
[what is not modelled](#what-is-not-modelled), [what comes next](#what-comes-next),
[running it](#running-it). Paths are relative to `src/crates/`.

## The system

| Component | Source | State | Operations | What makes it correct |
|---|---|---|---|---|
| Object pool | `io/src/pool.rs`, `io/src/pool/` | atomic counter `skip`, atomic state and plain cell of each slot | `take`, `return_value` (drop of a `Pooled`), `forget`, drop of the pool | a cell is never accessed by two threads, an object has one owner, no slot and no object is lost, no call waits for another thread |
| Global buffer pool | `io/src/pool.rs:21-80` | `CURRENT_SIZE` | take hook, return hook | the counter is the size of what is in the pool; the limits hold |
| Content store | `daemon/src/store.rs`, `io/src/fs.rs:23-146`, `daemon/src/frontend/build.rs:113-180` | lock table, builds map, `files/<hash>`, `temp/…` | `get_file`, `create_file`, `complete`, `start`, drops of the guards | the table counts the guards, who gets a file gets all of it, a temporary file is removed by its own call, or accounted for |
| Sandbox spawning | `daemon/src/build/linux/process/`, `proc.rs` | a mutex, a stream socket, the queue of received descriptors, processes and pipes | `spawn_async`, the zygote's loop, supervisor, sandbox, `ChildProcess::drop` | every request gets its own descriptor and an answer; the processes of a failed spawn come to an end; a supervisor ends with its sandbox |
| Message framing | `daemon/src/build/linux/io.rs` | bytes on a socket | `write_message`, `read_message`, sync and async | messages are not torn or mixed |
| Frontend handlers | `daemon/src/frontend/build.rs` | pending builds (`DashMap` of mutexes) | `create_build`, `post_file`, `run` | a build is run once, after its uploads |
| Archive streams | `archive/src/read.rs`, `write.rs`, `io/src/bytes_ext.rs` | `DataWriter` and `DataReader` buffers, ranges, hasher | `write`, `poll_write`, `finish`, `read`, `poll_read` | what was written is what is read, ends and hashes included |
| Archive entries | `archive/src/lib.rs`, `read.rs`, `write.rs` | `Reader::valid`, `got_header`, the place in the stream | `Writer::new`, `write_entry`, `write_data`, `next_event` | what was written is read in order; a cut or damaged archive is reported, and stays so |
| Archive creation | `cli/src/archive/create.rs` | queue of paths, two channels, a writer task, a buffered file | the walk, the task, the final writing of entries | a successful command has archived everything, in an order that can be unpacked |
| Temporary files, replacement | `io/src/fs.rs:149-305` | files, directories | `TempDir`, `write_to`, `move_replace` | a replacement is all or nothing |
| Hashing, base32 | `hashing/src/` | none | `StableHash`, encoders | distinct values are framed differently |
| Linux primitives | `daemon/src/build/linux/{fork,user_ns,fs,rootfs,shiftfs}.rs` | none of their own | system calls | they report their errors |
| Server loop, settings, entry points | `daemon/src/frontend/serve.rs`, `settings.rs`, `main.rs`, … | none | accept loop, configuration | — |

How they interact. The command line tool and the daemon share the library crates only. In the
daemon, request handlers call the store; the store calls the sandbox controller in `start`; the
controller talks to the zygote process over one socket shared by all requests, and the zygote forks
a supervisor per sandbox. The archive streams and the message framing take their buffers from the global
buffer pool.

What is hard. The pool is lock-free code over `UnsafeCell`. The store's handlers interleave at
every await, may be dropped there when a client disconnects, and start blocking file operations
that go on without them; the process may die between any two file operations. A spawn crosses four
processes, and can fail, or be given up, at each of a dozen points, over a socket whose messages
are two writes each. The stream code is a resumable state machine over partial reads and writes.
An archive has no index: once a call was given up inside an event, or an entry was refused after its
tag was written, what follows is read out of place. `archive create` is two tasks, two channels and
two error paths. `PROJECT.json` lists each of these hazards at its line with the properties that
cover it.

## The modules

| Module | Models | Extends |
|---|---|---|
| `AbstractPool` | the promise of the pool: a bounded set of pooled objects | |
| `Pool` | the object pool, one step per atomic operation or cell access | |
| `BufferPool` | `BUFFER_POOL`: `Pool` with the state of its hooks | `Pool` |
| `Store` | the content store, with clients, disk, disconnects and crashes | |
| `SandboxSpawn` | main process, zygote, supervisors, sandboxes | |
| `AbstractStream` | the promise of a blob: bytes in order, then the end and the hash | |
| `DataStream` | `DataWriter` and `DataReader` over an unreliable stream | |
| `Archive` | `Writer` and `Reader` over the bytes of an archive, with calls that fail or are given up | |
| `StableHashing` | the bytes every `impl StableHash` feeds to the hasher, as operators | |
| `ArchiveCreate` | the command, its writer task and their channels | |
| `MC*` | the instances TLC checks | the module they are named after |
| `PoolProofs`, `BufferPoolProofs`, `StoreProofs`, `SandboxSpawnProofs`, `DataStreamProofs`, `ArchiveProofs`, `ArchiveCreateProofs` | the proofs; `ArchiveProofs` also has those about `StableHashing` | the module they are about |
| `Induction` | induction over numbers and finite sets, for the proofs | |

Definitions keep the names of the source where there is one. A definition marked *Faulty* is a
plausible mistake written beside the definition it would replace; it is no part of any
specification, and a property that no such mistake violates would not be worth stating.

**Pool.** `pc[t]` is the next operation of thread `t` in `take` or `return_value`; `start`, `i` and
`val` are its locals. Each `compare_exchange`, `fetch_add`, read and write of a cell is one action
(`TakeProbe`, `TakeRead`, `TakeUnlock`, …). The second exchanges, whose results the code ignores,
are `SwapState`, which does nothing if the state is another than expected. `Probe(t)` is
`i.wrapping_add(id).wrapping_rem(CAPACITY)` with the wrap of `usize` at `SkipMod`. A `Pooled` is
sent between threads, so the values callers hold are one set, `out`. The pool is dropped (by
`DropSlot`, one turn of its loop, and `DropPass`) only when nothing is borrowed, as the borrow
checker, and the `Arc` of an `OwnedPooled`, require. Memory is sequentially consistent: the
exchanges on the state that guards a cell are `AcqRel` when they claim it and `Release` when they give it
up, and `skip`, which is `Relaxed`, only chooses where a search starts.

**BufferPool.** Each action is one of `Pool` together with what the hooks do to `CURRENT_SIZE`; the
return hook is its load (`HookLoad`) and its addition (`HookCount`). The owner of a buffer may change
its capacity between `take` and return.

**Store.** A task is one API call, from its first step until its `StoreLock` is dropped. `locks` is
the `DashMap` of counts and `name`, `hash`, `specs`, `builds` are the `DecrementLock` guards, so that
`Guards(p)` can be compared with the count. A content is a sequence of `Chunks` pieces. Writes are
handed to the blocking pool and land later (`Write`, `Land`); `tokio::fs::copy` is `CopySource`,
`CopyTruncate`, `CopyPiece`, `CopyEnd`, `CopyError`, and goes on when its caller is gone. `Cancel`
drops a handler at an await. `Crash` loses the memory and keeps the disk. `Removed` is the drop of a
`TempFile`, which swallows the error of `remove_file`: the file may stay. `stray` lists the files nobody will
remove: those of a dead process, of an open that was carried out after its caller had gone, and those a
removal left. `damaged` lists the contents of which a copy ended short, or was cut by a crash, since the
stored file was last truncated.

**SandboxSpawn.** `wire` holds the writes not yet read: a message is a `len` part, with which its
descriptor travels, and a `body`. The zygote is a sequential process (`zpc`), a supervisor has a
state and two pipes (`order`, `answer`), a sandbox is running or exited. A dropped future may leave
half a message on the wire (`Cancel`, `cut`), after which the zygote reads out of step and dies.

The drop of a `ChildProcess` (`zpc` is `kill`, then `poll`) ends in one of three ways, and the zygote answers
the error after each. `Reap`: `waitpid` finds the supervisor gone within `CHILD_DROP_WAIT`, because it had
failed, had read `Exit`, or had handlers when SIGTERM came (`Term`); the kernel drops a SIGTERM for which the
first process of a pid namespace has no handler. `Sigkill`: the time is over, SIGKILL is sent, and the single
poll that follows changes nothing; the supervisor lives on until the signal takes effect (`Sigkilled`), while
the zygote has gone on. `KillError`: `kill` or `waitpid` fails, which is only logged, and the supervisor may
stay. `drops` records which of the last two a supervisor was left with.

`Fault` is what the system does to the processes, at any moment: it kills a supervisor (`SupKilled`), and
with it its pid namespace, or fails the read of an answer (`AnswerLost`), `kill` or `waitpid`. If a supervisor
is gone before it has answered, and the socket does not report an error, the zygote's `read_impl` gets 0 bytes
from every read and never returns: `Spin`.

**DataStream.** Bytes are numbers: a byte of content is identified with its position, so that order,
loss and duplication are visible, and a hash with the number of bytes that went into it. `Base` is
the radix of the two-byte length. `Sink(n)` is one turn of the writing loop, of which the stream
below takes `n` bytes; `Fill` is one `read_exact_internal` (`Async = FALSE`) or one
`poll_read_exact` (`Async = TRUE`). Indexing past a buffer is the state `panic`.

**Archive.** `wire` is the archive's bytes, from the header on, and the entries and blobs on it are really
encoded and decoded, with bytes below `Base` and lengths of two of them, because the properties are
about what a reader makes of bytes that stand in the wrong place. `Written` puts a whole event on
the stream, `Broken` any part of one: a failed or dropped call (`WriteEntryFail`, `WriteBlobFail`), or a
refused entry, whose tag is out before its lengths are looked at (`RefuseEntry`). The Writer survives the
first and the last, so `torn` tells an archive that ends in a part of an event from one that goes on behind
it. The reader has an action for each of its reads (`rpc`); `Interrupt` is an error of the stream or a dropped
dropped future or `DataReader`, which loses the bytes the read had taken (`lost`, unless it had taken none). A blob is a sequence of chunks here;
what happens inside them is `DataStream`'s.

**StableHashing.** A type is a function from its values to bytes; `Slice`, `Option`, `Pair`, `Iter`, `Set` and
`Map` build types from types as the `impl`s do. `FramesDistinct` compares all values of nine types. `Before` is the order of byte
strings, which is what keys of sets and maps are; `Ordered` is the list in that order.

**ArchiveCreate.** The initial states are all forests of `N` paths with all sets of arguments. The
walk is `Visit`, `Send`, `EndWalk`; the writer task is `TaskRecv`, `TaskCopy`, `TaskSend`; either may
fail where the code has a `?`. `Emit` is a write into the `BufWriter`, which may pass any full buffer on to
the file.

## The runs

| Run | Instance | States | Question |
|---|---|---|---|
| `pool` | 3 threads of which two may stop anywhere, 3 objects, 2 slots, counter mod 2 | 299,430 | are cells exclusive, objects single-owned, slots never lost? wait-free? does a search miss a slot across the wrap of the counter? does the drop end? does `Pool` implement `AbstractPool`? |
| `buffer_pool` | 2 threads, 3 buffers, capacities 1–3, search 1 of 2 slots | 157,364 | is the accounted size right, and how soft is the limit? |
| `buffer_leak` | the same | violation | has an empty pool room for a buffer? |
| `store` | 2 calls, 1 content in 2 pieces, 2 temporary names, 1 build, disconnects, failed removals, 1 crash | 1,192,857 | are lock counts exact, do concurrent copies converge, are temporary files accounted for? |
| `store_partial` | the same without disconnects and crashes | violation | is a file that was handed out complete? |
| `spawn` | 3 requests, failures and dropped futures anywhere, 1 fault of the system | 366,458 | own descriptor, aligned stream, an answer for all, an end of what a failed spawn has started? |
| `spawn_child` | 1 request | violation | does a supervisor end with its sandbox? |
| `data_stream` | up to 4 bytes, chunks of at most 3, reads of 1 or 2, `read` | 7,594 | do the bytes, the end and the hash come out as they went in? |
| `data_stream_async` | the same with `poll_read` | violation | is a partial read resumed? |
| `archive` | 2 entries or blobs out of 5 and 2, bytes below 4, 2 interrupted calls of the reader | 341,252 | is what was written read in order, is every cut reported, does a reader always end? do hashed values differ in their bytes? |
| `archive_create` | every forest of 3 paths (1,056 initial states), channel of 1 | 38,237 | is everything archived, in order, and does the command always return? |
| `create_flush` | 1 path | violation | is everything in the file when the command succeeds? |

Why the bounds suffice.

* *Pool.* Two slots make threads meet in one slot and pass each other in two. The third thread is
  the one that interferes between the two exchanges of a second while a third holds a slot out of
  service. With `SkipMod = 2` the counter wraps in every second call. Only `t1` is sure to go on: the other
  two stop at every point they can reach. More threads and slots add repetitions, and the
  proofs of the safety properties have no bound.
* *BufferPool.* The search of one of two slots (16 of 128 in the code) makes a return fail with a
  slot free. The limits are small enough for both threads to pass the check together.
* *Store.* Two calls reach all pairs: two uploads of one content, an upload and a reader, a start
  and an upload. A second content would only double independent states. Two pieces make a file that
  is neither empty nor complete. Two names with `MAX_RETRIES = 2` exhaust the retries after a crash or a
  failed removal left files behind. One crash leaves a partial file which a later upload repairs. `store_partial` has
  neither crashes nor disconnects: its property fails without them.
* *SandboxSpawn.* Three requests: one that fails, one that is cut, one that must not suffer from
  either. `WireCap = 2` makes writers wait for the socket; `ReplyCap` is as large as the number of
  requests, since nobody reads the replies (see the hazards). One fault at any point meets each failure of
  the program (`MapFail`, `SupFail`, `Cancel`), which are not bounded; with two, an answer
  could be lost and the drop that follows fail as well, which the property excuses as it does any drop that failed. The two
  liveness properties look at one request (`Watched`): the requests are alike, and the others surround it in every order.
* *DataStream.* `Base = 2` puts the largest chunk at three bytes, so four bytes need two; it
  includes content that ends exactly with a full chunk. Reads of one or two bytes cross chunks in every way.
* *Archive.* `Base = 4` makes `u16::MAX` 15, so a path of 15 bytes is of the greatest length and one of 16 is refused;
  the five entries are a file, a link with an empty path, a link whose target is too long, and directories at and
  over the limit. Two events are the least that can stand behind each other: a torn one and one behind it, or two
  whole ones. Two interrupts lose the place once and once more in what was found there. The tags,
  types and the content of paths share their few values, so that bytes out of place often look valid.
* *StableHashing.* Numbers of two bits and collections of up to three elements, of which the longest has the greatest
  number of elements a length can tell from `u64::MAX`.
* *ArchiveCreate.* Three files with a channel of one: one is being written, one is queued, one is
  waiting to be sent.

Values, names and calls are interchangeable where a configuration declares symmetry; runs with
liveness or refinement properties declare none. Deadlock is checked in every run: each model ends
in an explicit state of rest (`Dropped`, `Rest`, `Done`) and otherwise must go on; in `Archive` the caller
of the reader always may call again.

## Fairness

* `pool`: only the threads in `Running` are sure to take steps, and only steps of a call they
  have begun. The others may stop for ever, also between two exchanges: that is what wait-free
  means. The drop of the pool is run by the thread that drops it.
* `spawn`, `spawn_child`: the kernel runs every process and the runtime every task whose step is
  possible (weak fairness). The lock of tokio's mutex is strongly fair, since that mutex is a FIFO
  queue. A SIGKILL that was sent ends its process in the end (`Sigkilled`), as the kernel has it; the code does
  not wait for that. A sandbox may run for ever: `SandboxExit` has no fairness, and no fault need happen.
* `data_stream`: the caller of the reader keeps reading. The writer may stop for ever.
* `archive`: the reader's caller goes on calling, and a read returns whose bytes are there or whose stream has ended.
  The writer may stop for ever, and then `ReaderEnds` promises nothing.
* `archive_create`: the runtime runs both tasks. A violation of a liveness property, as in
  `spawn_child`, is reported under these assumptions, so it is not a run in which the scheduler
  simply stopped.

## The proofs

All theorems hold for every value of the constants that satisfies the `ASSUME`s of the module (named
beside the constants; TLC evaluates them in every run).

**Pool** (`PoolProofs`): `TypeCorrect`, `Exclusion`, `Integrity`, `Ownership`, `SlotsKept`,
`DropComplete`, for any number of threads, slots and objects and any search length. The properties
are not inductive one by one. That a claimed slot is in state `TAKING` needs that no other thread
exchanges it meanwhile, which needs `SlotExclusive`; that a returned object overwrites nothing needs
that the cell of an `EMPTY` slot is empty, which is part of `NoSlotLost`; and that an object in a
cell has no other owner needs to know which local variables are in use at which `pc`. Their conjunction,
with `LocalsMatch` (a thread has a value exactly between reading and publishing it) and
`DropExclusive` (a drop runs alone), is the invariant `IInv`; the step lemma has a case per action.

**Refinement** (`PoolProofs`): `Pool` implements `AbstractPool`. A take happens at its exchange
to `TAKING`, a return at its exchange to `AVAILABLE`; every other step of a call stutters, apart from
those that create or discard an object. The mapping is checked by TLC as a property, and proved step
by step from `IInv`.

**Search** (`PoolProofs`): `SearchComplete` and `StalledSearch`. If `CAPACITY` divides `2^usize::BITS`, then from any reachable
state in which a thread is between two calls, and as long as the others take no step, wherever in their calls they have stopped,
it creates an object only when none is in the pool, and drops one only when no slot is free (`SearchComplete`). `Searched` says
of the slots behind the loop counter that the search could not use them, which stays true while nobody else moves; the arithmetic
(`EverySlotLookedAt`) shows that consecutive probes, wrap included, are consecutive slots. `StalledSearch` derives the property
`StalledSearchComplete` of run `pool` from it and from `WaitFree`, which is liveness and stays with TLC: a thread inside a call
when the others stop comes to the end of that call. The assumption on `CAPACITY` cannot be dropped: with
`CAP = 3` and `SkipMod = 4` a search that starts at 3 looks at slot 0 twice. The code's pools have
powers of two, but nothing in `Pool` requires it.

**BufferPool** (`BufferPoolProofs`): every behaviour is one of `Pool`, hence the theorems about
`Pool` hold of `BUFFER_POOL`; `BufferOwnership` is one of them carried over. `BufferTypes`,
`BufferSoftLimit` and `BufferAccounts` are about the hooks. A thread between its load and its addition may be one of many
that saw room, so the limit alone is not inductive: `Room` says that if all additions now pending (`Pending`) were made, the
limit would be passed by no more than one buffer for each of them but one. The one is the thread that loaded last: what it
saw left room for its own buffer, and every other addition is of at most `MAX_SINGLE_BUFFER` (`Small`). A load makes its
thread that one; an addition or an uncounted buffer leaves the sum as it was or lowers it.
`BufferAccounts` (`SizeAccounts`: the counter is what the counted buffers can hold) needs to know which buffers are counted.
`Held` says they are those in a cell or with a call that is past its hook; each step of the pool then leaves
that set alone, adds the buffer whose hook ran or removes the one that was taken or dropped, and `Exact` goes with it. The
sum over a set is a recursive function in the library; it is evaluated by proving, by induction over the set, that an
additive function on its subsets exists (`SumExists`).

**Store** (`StoreProofs`):

* `TypeCorrect`: types, and the guards a call owns at each of its steps. It is made inductive by
  `Shape`: an upload has a content, a copy that is open has a destination, a write in flight is the
  next one.
* `LocksAreExact`: the table counts the guards. `Counts(n, S)` relates an entry to a finite set of
  guards; `CountUp`, `CountDown` and `CountMove` say how it changes with the set, and `LocksUpdate`
  reduces a step of one call to what it does to each path: a call has at most one guard per path
  (`OneGuard`), so the table must go up, down or stay. The retry, which locks the new name before it
  unlocks the old, the failures of `start`, and `Cancel`, which drops guards of all kinds, are
  instances. `Started` moves a guard from a call to the builds map, which is `CountMove`.
* `TempFilesExact`: from the facts that names of calls in progress differ, and that a call writes to
  no file that was left behind (`NamesApart`). A removal that fails moves its file from the calls' to `stray`.
* `Converge`: concurrent copies of one content leave all of it. The invariant is that whenever the file
  is incomplete and no copy ended short since the last truncation, some open copy covers it: it has written
  everything up to its position since the file was truncated last (`Covered`). The copy that truncated last is one,
  whatever the copies before it, or a crash, have left.

**SandboxSpawn** (`SandboxSpawnProofs`): `TypeCorrect`, `DescriptorsMatch`, `StreamStaysAligned` and `FailuresEnd`, for any
number of requests and faults and any size of the sockets, through dropped futures and killed supervisors. Why a supervisor gets its
own descriptor is spread over three processes: the mutex lets one caller at a time be between its two writes
(`MutexOK`); hence a body on the wire is right behind its own length, or its length is what the zygote read last
(`BodyFollows`), and a length without its body is the last thing on the wire unless its future was dropped
(`LengthFollowed`, `HalfLast`); hence the zygote has one descriptor, of the request it works on, between the two
reads and up to the fork, and none otherwise (`ZygoteOK`). `FailuresEnd` says where the burden lies: in every state
in which a failure was answered the supervisor is gone, has a SIGKILL under way, or its drop met an error
(`FailureOK`). That this stays so needs that a request is worked on once (`Once`): no later fork brings a process back. Its
hypothesis is that a SIGKILL that was sent takes effect; the run has it as a fairness, with which no prover here can
reason.

**DataStream** (`DataStreamProofs`): for content, buffers and chunks of any length, with partial reads and writes.

* `ReturnsFit`, and `HashedOnce`: between two calls the hasher has seen just the bytes the callers were told are written. A
  write that was not ready is resumed with a buffer that may be another one; `WriterInv` says that the chunk under way was
  cut from that buffer or from a shorter one, and that the hasher is ahead by exactly that chunk.
* `StreamTyped`, `StreamInOrder`, `StreamEndExact`, `ReadNeverPanics` and `StreamRefines`, of the synchronous reader (each
  assumes `~Async`; the asynchronous one violates them, see below). The invariant `StreamInv` takes all bytes on their way
  (`Stream`: in the reader's buffer, on the stream below, not yet taken by it) for whole chunks one behind the other and
  then the start of the trailer (`Blob`). A byte of content carries its position, so a chunk says where in the
  content it belongs (`IsChunk`), and the first one goes on where the reader is. `Within` says how far the reader is by the
  read it is about to do. `StreamRefines` maps each step to one of `AbstractStream` or to a stutter.

**Archive** (`ArchiveProofs`): `ArchiveTyped`, `ArchiveInOrder`, `ArchiveEndExact`, `ArchiveCutReported` and `InvalidForEver`, for
any entries and blobs a caller can write (`Entry`, `Blob`: paths of any length, blobs of any number of chunks), any number of
them, any cuts and any number of interruptions; a byte has at least four values and a hash at least one byte.

* The bytes of an event are described twice: `EntryBytes` and `BlobBytes` are what the Writer puts together, and
  `Reads(p, q, n, e, r)` says that a reader at the read `p`, with the part `q` of an event and the length `n`, has all of
  `e` but the bytes `r`. `EntryShape` and `BlobShape` take the Writer's bytes apart in the order of the reads, and
  `EventAdvances` shows that a read that finds the start of `r` keeps this true of the rest, or hands out `e`. That a length
  comes out as it went in is `U16Value`; what has no length (`Fits`) is never put on the wire whole.
* `ArchiveInv` says of the whole stream where the reader is. `OnTrack`: the wire is what is left of the event being read,
  then the bytes of the events behind it (`Queue`), then what was torn (`Ended`); this follows a write, which makes all of
  these longer at the end (`QueueAppend`, `QueueLonger`), and a read, which shortens the first. `Past`: the reader has all events
  of `sent` and is in what was torn behind them. There nothing is promised if more was written behind the torn event
  (`torn = "mid"`). If it is the last, the reader has reported an error, or it is inside the event and the wire is too
  short for what it reads (`Inside`, `NoHeader`), so that it will: that is `CutReported`.
* Once an interrupted read has lost its place (`lost`) nothing is known of the rest; `got` ends there.
* A refused entry is the case that looks easiest and is not: the Writer has put out its tag, and perhaps its path and type,
  before it looks at the length. `RefusedPart` shows that these bytes are the start of some other entry, one that fits, so
  that a reader takes them as a cut entry and never as one that ended.
* `InvalidForEver`: `Refused` ties the result a caller saw to `valid`. An invalid reader is idle, and an idle reader can
  only begin a call (`IdleBegins`), which refuses.

The proofs speak of concatenations through `Joins(x, y, z)`, which hides `\o`, because the provers get lost in nested ones.

**StableHashing** (in `ArchiveProofs`): `ValuesHashedApart` and `DistinctNested`, for any number of values of a byte (at least two),
any width of a number, and collections of any size below `u64::MAX`; a set or a map is keyed by byte strings.

* `DistinctNested` is the statement about types: if in `f` and `g` no value's bytes begin another's, the same holds
  of options, slices, pairs, sets and maps of them, and so of any nesting. (That every type is such a nesting is an induction
  over types, which is not formalised; `ValuesHashedApart` applies the theorem to the nine types of the run.)
* The proofs use an equivalent form, `Told(f)`: two values with anything behind their bytes are the same when the whole is the
  same (`ToldDistinct`). A sequence is then told by its elements one after the other (`SameElements`), once it is known how many
  there are: from the length in front of a slice (`SliceTold`), and in `update_iter` from the index in front of each element,
  since `u64::MAX` behind the last is no index (`IterTold`).
* A number is told by its bytes: `U64Value`, by dividing by smaller and smaller powers of `Radix`.
* A set is iterated in one order only. `Before` is a strict total order of byte strings (`BeforeTotal`, `BeforeTransitive`), the
  rank of an element in a finite set rises with it (`RankRises`) and takes every value (`RankOnto`), so the list exists
  (`OrderedIs`).

**ArchiveCreate** (`ArchiveCreateProofs`): `CreateTyped`, `CreateParentsFirst`, `CreateReportsFailure` and `CreateComplete`, for
any forest of files, any arguments and any capacity of the channels. `Kept` is a balance: as long as nothing failed, a path
is in the archive, on its way to it or still to be visited as often as it is an argument or its directory was archived.
What nobody waits for at the end is therefore archived, which is `Complete`, by induction from a path to what is above it.
`Ordered` says of the entries in the channel what `ParentsFirst` says of those in the archive; `Shape` says what is
left in the queues when a task has ended. What is above a path is a recursive function over the tree; that it has
a solution is proved first (`AboveIs`): the least set with the path that is closed under parents.

`Induction` has the two principles used: a set that has 0 and the successors of its members has every number, and a set of sets
that has the empty set, and with a set that set with one element more, has every finite set. The property to prove is
a set here because the provers cannot instantiate an operator.

Only model-checked: the liveness properties and the spin of the drop (temporal reasoning under
fairness), of which `StalledSearchComplete` is reduced to `WaitFree`. `HashedOnce` and
`ReadNeverPanics` are proved, and no passing run checks their properties.

## What the models found

Each finding is a run whose configuration has the one property, which TLC violates; the finding in
`PROJECT.json` quotes the line of the source that says otherwise.

1. `buffer_leak`: the return hook counts a buffer before `return_value` has found a slot for it. If it
   finds none the buffer is dropped and stays counted, until an empty pool refuses everything.
   What does hold is `SizeAccounts`, which has these buffers as `lost`.
2. `store_partial`: `complete` copies over `files/<hash>` in place, so a `get_file` of the same hash
   opens an incomplete file while the copy runs or after it failed; and nothing waits for the
   upload's last write before the copy reads it. What does hold is `CopiesConverge`.
3. `spawn_child`: the supervisor registers its `SIGCHLD` handler after the sandbox runs. A sandbox
   that exits at once leaves the supervisor waiting for ever.
4. `data_stream_async`: `poll_read` takes one poll of the stream for a whole read and indexes past
   what it got. The synchronous `read` has all the properties of `AbstractStream`.
5. `create_flush`: the command returns without flushing its `BufWriter`.

## What is not modelled

* The pending builds of the frontend: `create_build` (`daemon/src/frontend/build.rs:76-91`) registers nothing at this
  commit, so no later request can find a build. The handlers' calls of the store are modelled.
* `create_temporary_entry` and the directory layout of the store; the temporary file in which `start` writes the
  spec is one step with its errors.
* `move_replace` and `TempDir` (`io/src/fs.rs:149-305`). Nothing uses `TempDir`. `move_replace` is a single `rename`
  unless the file system refuses to rename onto a file; `start` calls it through `write_to` for the file of its spec,
  which is one step there. Its fallback leaves the destination without a file between two renames (see the hazards).
* The text form of a hash (`hashing/src/base32.rs`, `supported.rs:70-99`): a library encodes it.
* `extend_from_reader_async` and the async functions of the entries differ from their sync variants in their awaits
  only, and are the same actions.
* Partial writes and reads of one message part in `daemon/src/build/linux/io.rs`, which the loops there continue, and the end
  of the zygote's request socket: it does not end while the daemon lives, nor after, since the zygote inherits the other end.
* A `DataWriter` over a stream that takes zero bytes, where its loop spins.
* Time: `CHILD_DROP_WAIT` is not a number of seconds, it may be over whenever the supervisor is not gone.
* `Stopped`, which `ChildProcess::poll` takes for an end: nothing stops a supervisor.
* What a request for a content gets after a crash has left a partial file and before the next upload: `HeldComplete`, which
  would say, fails without a crash already.
* Weak memory orderings, the hash functions, HTTP, settings and the wrappers of system calls, of
  which only success or failure is seen. `daemon/src/routes.rs` is not compiled in and
  `daemon/src/sandbox.rs` is empty. The daemon crate does not build at this commit (`store.rs` uses names that
  are not defined); it is modelled as written.

## What comes next

In this order.

1. `MoveReplace`: `move_replace` and its fallback of two renames, with crashes and errors between them, against an
   abstract atomic replacement; `TempDir`.
2. `Builds`: the frontend's map of pending builds and the lock order of its shards against the build's mutex
   (`frontend/build.rs:101`, `194-201`), once builds are registered.

## Running it

    tlc -workers 2 -config MCPool.cfg MCPool      # a run; see PROJECT.json for the others
    tlapm StoreProofs.tla                         # the proofs of a module

No run takes more than three minutes, and no proof module more than six, on two cores.
