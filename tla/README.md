# HybridDatabases: models, checks and proofs

HybridDatabases is a C library for in-memory object databases. Application
threads run transactions on a graph of nodes in memory; a service thread writes
what they committed to a redo log on disk. This directory holds TLA+ modules of
the library, the TLC runs that check them, and theorems that TLAPS checks.

## 1. The system

| component | code | state | operations |
|---|---|---|---|
| Transactions | `database.include/transaction.c`, `inline.h` | per handle: `start_time`, `read_set`, `acquired_locks`, `log`, `transactions` (savepoints), `commit_type`; global: `D->time` | `tr_begin`, `tr_commit`, `tr_abort`, `tr_hard_abort`, `tr_validate` |
| Locks | `utils/lock.h`, `utils/utils.h` | one 64-bit word per object: an odd version or a pointer to the owner | `l_lock`, `l_check`, `l_unlock`, `util_lock`, `l_lock_` (dump) |
| Node access | `database.include/macros.h`, `node.c` | attributes of nodes, user memory | `trRead`, `trUncheckedRead`, `trWrite`, `tr_node_read/write/create/delete`, `trMemory*` |
| Output queue | `transaction.c`, `database.c` (top level) | linked list `D->head .. D->tail`, `D->mutex`, semaphore `D->counter` | `output_queue_push`, `sendServiceMsg` |
| Service thread | `database.include/threads.c` | current job, `dump_running`, write buffer, file | `service_thread`, `do_dump`, `buffered_write`, `buffered_sync` |
| Timer thread | `threads.c`, `database.include/database.c` | `sync_helper_period` | `sync_thread`, `database_set_sync_period` |
| Handles | `database.include/handle.c` | `D->handles`, `write_finished`, `pending_transactions` | `db_handle_init`, `db_handle_destroy` |
| Database functions | `database.include/database.c` | `service_thread_pause`, `dump_running`, stack semaphores | `database_close/dump/wait_for_dump/create_new_file/collect_garbage/pause/resume` |
| Data files, recovery | `database_create.c`, `read.c`, `write.c` | numbered files with magic numbers, dictionary id -> node | `load_data`, `load_file`, `_database_new_file` |
| Storage format | `storage/` | nested arrays of numbers and strings, CRC | reader, writer |
| Allocators | `allocators/` | free lists with release times, blocks of nodes, dump cursor | alloc, free, collect garbage |
| Containers | `utils/` | shared list, stacks, dictionary | push, pop, swap; insert, remove, look up |
| Indexes, attributes, generators | `attributes/`, `generate/`, `database.types/` | user code, Perl | |

How they interact. A transaction reads and writes objects **in place**, under
locks it takes without waiting; the undo log is in the handle. `tr_commit`
moves the clock, links a job to the output queue, validates the read set,
releases the locks with the new version and fills the job's buffer with redo
records. The service thread takes jobs in list order, waits for each buffer
(`ready`), writes it, and posts the semaphore the job names: `write_finished`
for a synchronous commit (after `fsync`), `pending_transactions` for the
others. Requests (dump, new file, flush, pause, garbage collection) go through
the same queue. A dump is written by the service thread between jobs.

What is hard in it: the read protocol checks the lock once, *after* the load;
an abort has to move the clock; `FAST_COMMIT` enters the queue *before* the
transaction is known to be valid; savepoints are pointers into the log; handles
collect semaphore tokens to know that nobody refers to them any more; the
thread is stopped by a token without a job, while a dump takes tokens with
`sem_trywait`; a dump is mixed with the transactions that go on meanwhile; the
files must be readable after a crash at any moment. `PROJECT.json` lists these
hazards, each at its line and with the properties that are about it.

What makes each part correct:

* transactions: opacity (also of transactions that will abort), serialisability,
  undo that restores the committed state, savepoints, no leaked lock;
* redo stream: conflicting writers in commit order, each prefix the result of a
  serial run, since recovery may start from any prefix;
* queue and service thread: every commit written once and in order, synchronous
  commits durable when they return, bounded backlog, no semaphore used after its
  owner is gone, every call returns;
* recovery: what is loaded is the committed state of a prefix of the stream;
* allocators: nothing is released or set up anew while a running transaction can
  reach it; counters agree with the lists they count;
* containers: the shared list is atomic, the dictionary a map, a stack a stack;
* pointers: reference counts are right, and no pointer leads to a deleted node.

## 2. Modules

**`AtomicStore`** is the abstract specification of the transactions: a store, a
private buffer of writes and a set of reads per handle, savepoints that copy
both. A commit installs the whole buffer in one step, an abort discards it, a
read returns the committed value of that moment. No locks, no versions, no log.

**`HybridStm`** is the transactional memory. One action is one access to state
that other threads can see: a lock word, an object, the clock, the queue.
What a handle does privately joins the access it precedes. `pc[h]` says where a handle is inside a call:

| `pc` | between |
|---|---|
| `run` | two calls of the transaction |
| `check` | the load of `trRead` and its `l_check` |
| `store` / `copied`, `storeCopied` | the lock of `trWrite` and its store / the steps of `tr_node_write`, which copies the old value before it locks |
| `failed` | an access that failed and the abort the caller must make |
| `push`, `validate` | steps of `_tr_commit_main` (one step per read-set entry in `tr_validate`) |
| `undo`, `undoNested` | log items undone one by one |
| `unlockCommit`, `unlockAbort`, `unlockReadOnly` | locks released one by one |

The two commit paths (`FAST_COMMIT` on or off) are both in the module; `Builds`
says which of them a run explores, `fastCommit` which one an execution uses.
The other switches have their default values (`database.types/enums.h`): locks
inside the objects, `SIMPLE_SERVICE_THREAD`, `DB_DEFER_DEALLOC`. `queue` never
shrinks, so it is also the redo stream. `seen` and `synced` are history
variables that only properties read. Abstractions: the read set is a set
(the code may list a lock twice); `tr_begin` reads the clock and publishes
`start_time` in one step (only garbage collection can tell the difference); the
lock the service thread takes on a node it dumps is left out here (it leaves the
version as it was and makes a transaction at most fail, which `failed` allows
at any time through `HardAbort`).

`ImplementsAtomicStore` is the refinement: the committed value of an object is
what memory holds, or what its owner's log would put back (`Stored`); the
abstract buffer is the effect of the log (`Buffer`); a commit takes effect when
validation succeeds (`Validated`, or `CommitReadOnly`), an abort when it is
decided.

**`CommitPipeline`** is everything behind the commit: the queue, `D->mutex`,
all semaphores, the service thread label by label, handles from init to
destroy, requests of other threads, the timer, `database_close`. `queue` keeps
all jobs, `cur` is the one the service thread works on; `stream` is what was
written to the file or its buffer, `durable` the prefix that `fsync` covers.
The outcome of validation is a choice here; what it depends on is
`HybridStm`'s subject. So is whether the next file can be opened (`NewFile`).
`_database_new_file` has closed the old one by then and leaves `D->file_desc` as
it is: `file` is "closed", the requests are answered, commits go on into the
buffer, and the first `util_fd_write` after that (`SvcDies`) or the `close` of
`database_close` (`CloseDies`) ends the program; nothing moves once `alive` is
FALSE. The model takes it that no other file of the process gets the number of
the closed descriptor. Deaths for other reasons (no memory, a full disk) leave
every state as a crash does and are left to `DataFiles`. `dumpOf` and `failures`
are history variables.

**`Loading`** has the records of a data file and what `load_file` makes of
them, as operators: a node is an id and one value, a file a header with a magic
number and a sequence of records. What has been loaded is a dictionary id ->
value; `ghosts` are ids that `read_node_prepare` has given to a second node.

**`DumpReplay`** is a dump that runs while transactions create, change and
delete nodes. Nodes have places in memory (`Slots`), a lock and an id; the dump
walks over the places (`cursor` is `dump_ptr`), locks a node, writes it and goes
on, or tries again if somebody has the lock. A transaction enters the queue
(`Push`), gives its locks back (`Unlock`) and fills its job (`Fill`), or fails
in between (`Invalid`). Deleted nodes are freed by the service thread after
their job (`SvcCommit`). `file` is the present file with its records in order;
`AsLast` loads it after all older files, `AsFirst` on its own. `Committed(k)` is
the state the first k jobs leave, straight from their operations. What the
module takes from `HybridStm`: a node is changed under its lock, and one that
somebody has committed to delete is not reached any more.

**`DataFiles`** is the life of the files: `load_data` (`Start`), the steps of
`_database_new_file` (`CloseOld`, `OpenNew` or `OpenFails`, `WriteHead`), the
service thread's buffer (`Spill`, `Sync`), crashes between any two of these
steps (`Crash`: the buffer is lost; `PowerFails`: so is any part of what no
`fsync` covers, with a torn record at the end), and the user, who deletes files
older than a complete dump and repairs a damaged end with `rescuer`. Transactions
create one node each, so that a missing one shows, or change only memory of
indexes (`CommitMemory`). `synced` of a file is the number of records that are
safe; `committed`, `acked` and `excuse` are history variables: the nodes of
transactions that went through, those a synchronous commit has answered for, and
what has happened that the code cannot cope with. A dump writes the nodes in
whatever order they lie in memory.

**`StorageFormat`** has the bytes of a file: what a `Writer` puts together (a
header with the length, nested arrays, strings, numbers in the form of
`_write_number`, a checksum, the closing dot), how `buffered_write` passes it on,
what a crash leaves (the first n bytes, with or without zeros behind them), and
`rescuer.c` with its `Reader`, token by token, on what is left. `copy` is what the
tool has passed to `fwrite`: all of it comes out when `main` returns, whether it
has reached the end or given up on an element, but only some first part of it when
the tool crashes on a length (`ReadStringCrashes`). `ByteBits` and
`WordBytes` scale bytes and words down; all lengths follow from them as they do
from 8 and 8 in the code.

How these fit: `HybridStm` says in which order transactions enter the queue and
with which operations, `CommitPipeline` that the jobs are written in that order
and when callers may go on, `DumpReplay` what a file with a dump in it is worth,
`DataFiles` what a sequence of such files is worth, `StorageFormat` what a torn
file is worth. Each takes what the others show as its environment; only `Loading`
is shared as a module.

The modules about memory, from the bottom:

* **`AtomicList`** is what `utils/slist.h` promises: a stack with push, pop and
  swap in one step. **`SharedList`** is how it does it: the head is locked by
  exchanging it for -1, and every operation is two steps with the links of the
  items between them. `ListImplements` is the refinement; the abstract list is
  the history variable `contents`, which changes where the head is released,
  and the invariant of the proof says that the links spell it.
* **`PageAllocator`** is the cache of `page_allocator.h` and of
  `simple_allocator.h`: the list (now atomic), and beside it the counter, changed
  before a push and after a pop; collections that several threads run at once;
  mapping a block of new pages under the mutex.
* **`Reclaim`** is deferred release: `tr_begin` in its two steps, the read
  protocol on a pointer, a write that replaces what is pointed to, commit and
  abort up to `handle_cleanup`, garbage handed to the service thread,
  `generic_allocator_free` and the collection with `get_time` handle by handle.
* **`NodePages`** is the node allocator over the `vpage_allocator`: slots with
  locks that outlive the nodes, pages that empty and fill, the pool with time
  stamps and its counter, transactions that create and delete nodes, and one that
  reads. `early` notes when the code takes a page before its time.
* **`References`** has attributes of type Pointer: the reference counts, the
  locks of up to three nodes one write needs, failures at each, the log with
  which an abort puts everything back, and the deletion of nodes. `found` are the
  nodes a transaction may have come by since its start; it may go on to write to
  them, point to them or delete them when another has deleted them and committed
  that, and only `Locks`, which is `util_lock` with its look at the version,
  refuses it (`LocksAnyVersion` is the mutant of `NoDanglingPointer`).
* **`NumDictionary`** and **`Stacks`** are the containers: hash chains with
  growth and shrinking and cells cut from pages; stacks made of pages on a
  doubly linked list, with swap, erase and the remembered places of nested
  transactions; and the array of `stack.h`.

How these fit: `PageAllocator` uses the list as `SharedList` shows it to be;
`Stacks`, `NumDictionary` and `NodePages` take pages from a set; `NodePages` takes
the oldest start in one step, which `Reclaim` refines to a scan. Locks and the
clock are `HybridStm`'s and are kept to what each module needs.

**`MCHybridStm`, `MCCommitPipeline`, `MCDatabaseFiles`, `MCMemory`** are the
modules TLC starts from. The last two put several specifications that share no
variable next to each other: `part`, chosen in the initial state, is the one
that takes steps while the others stand still, so a run of them explores the
disjoint union of their state spaces, and `Parts` says of which. An invariant of
a machine is true in the initial states of the others and then does not change.

**`HybridStmProofs`, `SerialProofs`, `PipelineProofs`, `RecoveryProofs`,
`DumpProofs`, `ReclaimProofs`, `AllocatorProofs`, `ReferenceProofs`** hold the
theorems (section 4).

Definitions named in comments as mutants are deliberately wrong versions of the
definition that follows them; no specification uses them. Every property of a
passing run is violated when the definition that `PROJECT.json` names is
replaced by its mutant, so each property depends on the code it is about.

## 3. Runs

| run | instance | shows |
|---|---|---|
| `stm` | 2 handles, 2 objects, 2 values, one write per transaction, every access function, both builds | `TypeOK`, `LockDiscipline`, `SnapshotReads` (opacity), `SerialClock`, `SerialQueue` (the redo stream is serial), `ReadyIsDecided`, and that it implements `AtomicStore` |
| `stm_nested` | 2 handles, 1 object, 2 writes by `tr_node_write`, reads by `trRead`, 1 level of nesting, CT_ASYNC and CT_SYNC, without FAST_COMMIT, `FairSpec` | `CleanMemory`, `UndoRestores`, `SavepointIntact`, `WishKept`, the refinement with nesting, and `EndingEnds`: commits and aborts end with all locks given back |
| `pipe` | 2 handles, 2 commits, 1 round of the timer, 1 request for a new file, which may fail, limit 1, both builds | `StreamComplete`, `PendingBound`; `NoPostToDestroyed` and `SyncReturnDurableUnlessFailed`, with FAST_COMMIT for handles none of whose commits failed |
| `pipe_requests` | 1 handle with 1 commit, 2 admins with 2 requests of all kinds, a dump of 1 batch, both builds, `FairSpec` | `DumpAwaited`, `SignalsMatched`, `CloseLosesNothing`, and `EveryCallReturns` unless the program ends after a failed open |
| `files` | dump: 2 handles, 2 places, 3 ids, 2 transactions of 2 operations, 1 dump; files: 2 nodes, 3 files, 3 starts, power failures, a transaction that changes only memory; format: bytes of 4 bits, words of 2 bytes, 2 elements of 3 tokens | `ChainLoads`, `DumpIsState`, `RefusedOnlyForEarlyCreation`; `RecoveryIsPrefixUnless`, `FilesHoldAll`, `ReadOnlyReasons`, `AppendsToLast`; `RescuedIsWhole` |
| `memory` | 2 threads each; list of 3 items; 5 pages, threshold 4; 2 objects, clock up to 3; 2 pages of 2 slots, a pool without slack, time up to 3; 3 nodes, 2 with a pointer; 4 keys, capacities 3, 5, 7; 2 stacks on 3 pages of 2 items, 2 nested places | `ListImplements`; `CounterExact`, `CacheBounded`; `HeldIsLive`; `RoomIsLast`, `PoolDrift`, `StaleReadsFailUnlessEarly`; `CountsAreExact`, `NoDanglingPointer`; `DictionaryIsMap`; `StacksHold` |

Runs that find a disagreement between the code and what its documents say
(`findings` in `PROJECT.json` quotes both sides):

| run | violated | what happens |
|---|---|---|
| `pipe_sync_early` | `SyncReturnDurable` | a failed synchronous FAST_COMMIT leaves a token in `write_finished`; the retry takes it and returns before its own records are on disk. |
| `pipe_close_handles` | `CloseDestroysHandles` | `database_close` walks over `D->handles` while `db_handle_destroy` moves the last entry into the slot just visited. |
| `files_dump_loads` | `DumpLoads` | a dump has begun; a transaction creates a node, commits and its CREATE record is written; then the dump comes to the node and writes it, too. Loaded without the older files, this file counts as corrupted. |
| `files_reopen` | `RecoveryIsPrefix` | the process ends after the end mark of a file was written and before the next file is there (a crash, or the `open` failed). The next start creates the new file and then, for a misplaced `else`, appends to the closed one; what it commits is behind the end mark, where the start after that does not look. |
| `memory_nodes` | `StaleReadsFail` | a page is emptied and goes to the pool with time 3 while a transaction that started at 2 remembers a node on it; the next one to need a page takes it at once and sets its locks to version 1, which the reader's check accepts. |
| `memory_references` | `PointersCanBeCleared` | Write of Pointer tests the address of the new value instead of the value; `destroy_pointers` writes null, and the count of the node at address 0 is increased. |

What the modules showed further, without a run of its own:

* With FAST_COMMIT the redo stream is not serial for reads that are not checked:
  T1 has its end time but is not queued yet, T2 reads its value with
  `trUncheckedRead` and is queued before it. A crash in between recovers T2
  without T1. `SerialQueue` excepts exactly these reads in that build.
* A nested CT_FORCE_ASYNC takes back an earlier sibling's CT_SYNC
  (`inline.h:94`; `enums.h:173-174` reads otherwise).
* A failed asynchronous FAST_COMMIT leaves a token in `pending_transactions`
  (`transaction.c:156`), so the limit of `enums.h:103-106` grows by one each
  time, and `db_handle_destroy` can end while a job still names the semaphore.
  This is why the properties of `pipe` except handles with a failed commit in
  that build.
* After a failed open (`database.c:261-267`) the database seems to go on:
  asynchronous commits return and collect in the buffer, until a flush, a
  synchronous commit or the next request for a file ends the program and they are
  lost (`SvcDies`). With nothing to write, `database_close` ends it, since it closes
  the closed descriptor once more (`database.c:134`, `CloseDies`). So `CloseReturns`
  does not hold, and `EveryCallReturns` excepts what happens after a failed open.
* `DumpAtomic` does not hold: the end mark of a dump is made durable while jobs
  with one half of their effects in the dump are still queued. Together with
  the older files the state is right (`ChainLoads`), alone only after these jobs
  are written (`DumpIsState`).
* `NoGhosts` does not hold: a CREATE record for a dumped node is ignored as
  `text/kap3.tex:300-301` wants it, but `read_node_prepare` has already taken a
  node from the allocator and given it the id. It stays there uninitialised,
  gets into the indexes (`fill_indexes`) and into the next dump, which then has
  two records for the id and cannot be loaded on its own.
* Two more ways to lose data (`excuse` in `DataFiles`): the end mark of a file
  is never synchronised, so after a power failure a file that is not the last
  may lack it and nothing after it is loaded; and a transaction that changes
  only memory of indexes is written as an empty array, which `load_file` takes
  for a corrupted file.

* A rollback reads the clock once (`transaction.c:93`) and frees with that time. A
  page it empties may have had a node deleted by a later commit in between, so it
  goes to the pool with a time that is too old. This and the missing look at the
  time stamp are what `early` stands for in `StaleReadsFailUnlessEarly`.
* `free_pages_count` of the pool loses one for each collection that meets a page
  too young to go (`vpage_allocator.include.c:36`): `PoolDrift` says that this is
  the only difference. The counter is unsigned and goes below zero; from then
  on every release of a page starts a collection.
* A node with a pointer cannot be deleted at all (`memory_references`), except when
  the lock of the node it points to is not to be had: then the deletion goes on
  with the pointer as it is, and the count it stands for is never given back
  (`node.c:72`). `CountsAreExact` therefore counts deleted nodes as well.
* `num_dictionary.h:14-17` says that nothing is ever removed from the one
  dictionary in use; `read.c:162` removes from it. It does no harm
  (`DictionaryIsMap`); the pages are given back only in the end.
* Write of RawString copies from the address of the pointer
  (`attributes/defs.h:228`), and its Store reads through a null pointer when the
  string is empty (`defs.h:248`). Contents of strings are not modelled.

**Bounds.** They are constants: `MaxBegins` (main transactions), `MaxLog`
(writes per transaction), `MaxNest`, `Calls` (access functions in use),
`MaxCommits`, `MaxRequests`, `MaxTimer`, `MaxPending`, `Batches`, `MaxId`,
`MaxOps`, `MaxDumps`, `NodesPerBatch`, `MaxNodes`, `MaxFiles`, `MaxStarts`.
Conflicts between transactions need two of them and two objects (write skew, a
read of one and a write of the other); with one write each, `stm` has both.
Undo order needs two writes of one object, savepoints one level of nesting with
a sibling. `stm_nested` writes with `tr_node_write`, whose early copy may be
stale; seen from shared memory, a `trWrite` is a `tr_node_write` whose copy happens
to be made immediately before the lock, so nothing is lost without it, and `stm`
has both. In the pipeline, a limit of one pending job makes every asynchronous
commit reach it; two handles with two commits, of both or of one, let a half-filled
job, a finished one and a flush or a failed open meet, and a failed commit its
retry; a dump of one batch already has a step at which jobs are taken between
batches. A dump needs one node that is there before it, one that is created
meanwhile, and a place that is freed and used again: two places and three ids;
two transactions of two operations make one that is half dumped and one that
overtakes it. Files need one that is closed, one that follows it and one more
start after each mistake: three of each. The torn file needs strings whose length takes one byte and
two (empty, short and 11 bytes), numbers of no, one and two bytes, and a buffer of
40 bytes, so that elements fit, overflow it, and are longer than its half. In
`memory`, two threads meet in every pair of steps, and a third thing (item, page,
object) is the one that moves between them; 5 pages against a threshold of 4 let a
cache go over it; time 3 is the first at which a page can be freed after a start
and taken again; the keys 0, 3 and 6 collide in the first capacity and part in
the second. Versions are compared only, and
bounded by the number of transactions; overflow of the 64-bit clock is out of
reach of the program.

**Symmetry** is used only where handles, objects or admins are
interchangeable and no liveness property is checked.

**Deadlock** is checked in the runs of the transactions, the pipeline and the dump:
the only states without a step of the code are those in which all handles are idle
(`Quiescent`, `Idle`) and those after `database_close` or `utilDie` (`Terminated`).
A database that is down need not be started again, and a tool ends (`MayStop` in
`MCDatabaseFiles`). In `MCMemory` it is not checked: the machines end where their
bounds end, and after the null pointer of `References` nothing goes on.

**Fairness.** `HybridStm!FairSpec`: a call once made goes on (weak fairness of
`CallStep`), and a caller whose access failed aborts, as the macros do
(`AbortStep`); nobody has to begin, to read, to write or to commit.
`CommitPipeline!FairSpec`: threads inside a call go on, the service thread goes
on, whoever paused it resumes it (`database.h:133` warns of the dead-lock
otherwise), and a dump that tries again and again to lock a node succeeds in the
end (strong fairness of `DumpProgress`): transactions end, which is
`EndingEnds` of `HybridStm`, and the dump retries for ever. The other modules are
about safety only; a thread that spins on the head of a shared list waits for one
that runs two steps without waiting for anybody.

## 4. Proofs

`HybridStmProofs` proves for every set of handles, objects and values, every
bound, and both commit paths:

* `TypeCorrect`: `Spec => []TypeOK`. The inductive invariant `TypeInv` adds what
  typing needs: an access is an entry while `pc` is in a step that uses it,
  savepoint positions lie inside the log, a nested rollback has a savepoint, the
  job index of a committing handle is in the queue. So no step takes the top of
  an empty log, an empty stack of savepoints or a job that is not there.
* `LocksCorrect`: `Spec => []LockDiscipline`. `LockDiscipline` is not inductive:
  `LockInv` adds that a store is only made under a lock already recorded, that
  the log is empty once the locks are released without a commit, and that no
  end time lies ahead of the clock. `QuietStep` covers all steps that leave
  locks and logs alone; taking a lock, storing, undoing, unlocking and
  finishing have a lemma each.

Both rest on `ConstAssumption` alone (handles are not numbers: a pointer is
even, a version odd).

The same module proves, from the same assumption and with the same generality,

* `AtomicRefinement`: `Spec => ImplementsAtomicStore`. The inductive invariant
  `AtomicityInv` adds to `LockInv`:
  * `Chained`: the newest log item of an object has left the value that is in
    memory, and each older one what the next has overwritten. So whatever is
    undone first, what remains of the log still says what is stored, and a commit
    stores what the log says. That the early copy of `tr_node_write` is such a
    value is the point of the next conjunct.
  * `Loaded`: a value loaded before the lock was looked at is still in memory
    whenever the look lets it through, now or after the present owner has unlocked
    (`Current`); it needs that every end time a handle will unlock with is after
    the start of whoever has loaded under its lock (`EndTaken`), which is why the
    clock ticks on abort too.
  * `Ordered`: savepoints lie in the log, one behind the other, so that a nested
    rollback leaves the outer savepoints alone.

  With it each action is mapped. `Validated` and `CommitReadOnly` are the abstract
  `Commit`; `HardAbort` and `ValidateFailed` are `Abort`; `AbortNested` is
  `Revert`, before anything is undone; the check of `trRead` is `Read`, the store
  under the lock is `Write`; and everything that follows a decision (the undo, the
  ticks, the unlocking, the filling of the job) is a stutter.

Two more theorems about nesting build on it:

* `SavepointsIntact`: `Spec => []SavepointIntact`. `SavepointInv` adds to
  `AtomicityInv` that a savepoint speaks only of objects its handle has locked
  (`SavepointsHold`): another transaction writes what it has locked itself, so it
  disturbs no savepoint but its own. Of the handle's own steps a write appends
  the old value behind every savepoint and an undo removes what lies behind them
  (`BackAppend`, read in the two directions); the nested rollback stops at the
  newest savepoint, which `AtomicityInv'` says in terms of positions.
* `WishesKept`: `Spec => []WishKept` where `CommitTypes` lacks `FORCE_ASYNC`, which
  takes back what others wished (section 3). `WishKept` speaks of the code between
  calls and is not inductive. `WishInv` adds what every savepoint has saved: its
  `commit_type` is synchronous if one of the savepoints up to it remembers a
  synchronous commit; and that a nested rollback under way has already put the
  history back to the savepoint it will take `commit_type` from.

`SerialProofs` proves what the order of commits is worth, for both commit paths:

* `OneSnapshot` (`SnapshotReads`), `SerialByClock` (`SerialClock`), `SerialByQueue`
  (`SerialQueue`), `UnlockedIsCommitted` (`CleanMemory`), `UndoIsExact`
  (`UndoRestores`) and `JobsAreDecided` (`ReadyIsDecided`), all from one inductive
  invariant, `SerialInv`, which adds to `AtomicityInv`:
  * `BelowLock`: the version of a lock is not below the end time of any committed
    writer of its object, and whoever holds the lock started after all of them and
    is behind them in the queue. So the next writer of an object is its last one,
    on the clock and in the queue (`InOrder`), although with FAST_COMMIT the two
    are taken at different moments and unlocked later still.
  * `LastStored`: what memory holds, or its owner would put back, is what the last
    of these writers left.
  * `RightAt`, for every value `trRead` has returned: it was committed last at the
    start time, nobody with an end time up to then is still to commit, and whoever
    had such an end time is before the reader in the queue. The check of the lock
    gives all three at once (`CheckedUsable`): a version up to the start time, or
    the own lock, leaves no room for a transaction that has its end time but not
    its commit.
  * `ReadUseful`, for a value read without a look at the lock: it is the stored one
    whenever `tr_validate` will let it through.
  * `ReadsValid`, for what `tr_validate` has looked at: it fits the place in the
    queue and the end time already taken, except that others may still commit
    before it what it has not read (`Serial`); with the mutex instead of FAST_COMMIT
    it is simply what is stored.
  * `JobOwned`, `JobDecided`, `ClockFits`: which handle owns which job, and who has
    its end time.

  A step that commits nothing keeps the history (`Frame`, `HistoryStays`): it takes
  end times after the clock and places behind the queue (`Claims`). A commit
  (`Joins`, `Joined`) adds one last writer to each object it has written. That
  replaying the queue gives the last writer in it (`ReplayIs`) is proved by the
  first job where it would not, since induction with a parameter is out of reach.

This module needs that the mark of a free mutex is no handle (`FreeAssumption`).

`PipelineProofs` proves for every finite set of handles and of admins, every limit
of pending jobs, every number of calls and both commit paths, from one inductive
invariant (`PipelineInvariant`: `Spec => []PipeInv`):

* `StreamAlwaysComplete`: `Ordered` says that every job the service thread has
  passed was ready, that its records are in the stream, and that everything up to
  a passed synchronous commit is durable. Users link jobs behind `cur` and make
  ready only jobs that were not, so they disturb none of it (`UserOrdered`).
* `PendingAlwaysBounded` and `DestroyedNeverPosted`, from `AsyncTokens`: tokens in
  `pending_transactions`, jobs that will bring one, and tokens that
  `db_handle_destroy` keeps are together `MaxPending`, and one more while a
  commit is under way. A handle between two calls owes nothing; one that has
  collected all is named by no job.
* `SyncReturnAlwaysDurable`, from `SyncTokens`: `write_finished` is 0 with one job
  that will post it, or 1 with none, during a synchronous call, and 0 with none
  outside. So the token a call takes was posted for its own job, which is passed.
  This is what a failed FAST_COMMIT breaks (`pipe_sync_early`), and why handles
  with such a failure are excepted (`Untroubled`).
* `SignalsAlwaysMatched`: the same for the semaphore on the stack of a database
  function (`SignalPart`), with the answer filled in before the signal.
* `DumpAlwaysAwaited`, from `Dumps`: until the answer is posted its receiver is
  still waiting for it, and from then on `D->dump_running` is locked.
* `CloseNeverLoses`, from `Counted`: the tokens of `D->counter`, the jobs taken up
  and the jobs linked agree but for those on their way; the one token without a
  job is that of `database_close`, so the service thread meets the end of the list
  with it and not before. That everything is on the disk when it is done comes
  from `Sync`, which passes the write only on an open file or with nothing to write.
* `DumpFileStaysOpen` (`FileInv`): a dump under way keeps its file, since requests
  that could close it are refused, so the flush at its end is that of an open file;
  and the program ends on nothing but a closed one.

Steps are proved by what they leave alone: a step of a handle (`HandleStepSaved`)
leaves the parts of the others, one of an admin, of the timer or of
`database_close` (`OutsideSaved`) those of all handles, and one of the service
thread that posts nothing (`ServiceSaved`) all semaphores; `SvcPostSaved` is the
one in which a job is exchanged for its token. The proofs rest on
`ConstAssumption` and `ActorAssumption` (finitely many threads, none of which has
one of the two names the model uses for others).

`RecoveryProofs` proves for every number of nodes, files and starts, with and
without power failures and transactions that change only memory:

* `AppendsOnlyToLast` (`AppendsToLast`): whatever was lost before, the open file is
  the last one and has no end mark, unless a closed file was opened again. It needs
  `PlacesInv` only: which stage goes with an open file (`StagesFit`), that every record
  is one of those the code writes (`FileTypes`), and that load_file calls a
  file unfinished only if it has no end mark (`UnfinishedIsLast`).
* `StartsFindPrefix` (`RecoveryIsPrefixUnless`), `FilesAlwaysHoldAll`
  (`FilesHoldAll`) and `ReadOnlyHasReasons` (`ReadOnlyReasons`), from `FilesInv`:
  as long as there is no excuse, the files are in order (`FilesInOrder`), which is
  to say that there are boundaries `U` such that
  * file k consists of `B[k]` records that begin, or are, a dump of the nodes up to
    `U[k]`, the transactions that created the nodes from there to `U[k + 1]`, and
    perhaps one more record, an end mark or a torn one (`Content`);
  * each file but the last has its end mark, with the magic number of its successor
    (`Follows`), and the first begins with a dump of all there was before it, or
    with nothing before it (`FirstFits`);
  * everything is synchronised but an end mark, in files that have one (`Secure`),
    and in the last file whatever has been acknowledged (`AckSafe`): a power failure
    takes none of it;
  * the program has in memory what the files and the buffer hold together
    (`NodesFit`, `Writing`), and the steps of `_database_new_file` each find the
    file the one before has left (`Opening`, `Heading`).

  What load_data makes of such files is proved record by record and file by file
  (`ReadRecords` and `LoadFiles` are recursive functions; `AllUpTo` takes what is
  true of 0 and kept by each step): a dump in the first file gives its nodes, a dump
  in a later one is skipped, each transaction adds its node. So the nodes found are
  those up to the last boundary, or to the torn record. Each step of the program, of
  a failure and of the user has a lemma that says which boundaries it leaves: a
  commit moves none, as its record is in the buffer; writing moves the last; a power
  failure moves the last one back; deleting older files drops the first ones, and
  the dump now in front accounts for them; the rescuer cuts off only a torn record.

These proofs rest on no assumption about the constants.

`DumpProofs` proves for every set of handles and values, any finite number of
places, ids, operations, jobs and dumps:

* `ChainOfFiles` (`ChainLoads`), `DumpStandsAlone` (`DumpIsState`) and `DumpRefused`
  (`RefusedOnlyForEarlyCreation`), from the invariant `Sound /\ LastInv /\ FirstInv`
  (`DumpInvariant`).

  The argument runs over the history of the queue, `Work`: what each job does, or
  will do when it is filled unless its transaction fails, in which case it becomes
  empty. `Last(Work, k, i)` is the last operation on node i in the first k jobs, so
  `Committed(k)` is what these say (`CommittedIs`).

  * `Sound` is about memory. The jobs make a history in which a node is created
    once, before all else, and deleted once, after all else (`Valid`), and the log of
    each transaction that may still fail goes on with it (`LogsFit`). What such a
    transaction has changed is under its lock, and no job behind its own has touched
    it (`ItemsLocked`, `NobodyAfter`), so that giving it up takes nothing from
    anybody (`GiveUpLast`). A node in memory shows what its owner or, without an
    owner, the last job made of it (`ValuesShown`); it stays until the job that
    deletes it is written (`LiveNotGone`, `NodesThere`, `GarbageIs`); what would be
    put back is right (`OldShown`).
  * `LastInv`: reading the present file after the older ones gives `Now(Work, Written,
    i)` for every node, and no ghost. A job's record makes of a node what the job
    makes of it (`ReachedMore`); dumped nodes are skipped.
  * `FirstInv`: reading it on its own. As long as no node was dumped after the record
    of its creation, a value that is read is the one of some job from the last written
    to the last linked, or linked when the dump ended, and of no job whose
    transaction may still fail (`Right`, `Settled`, `Firm`): a node is dumped while
    nobody has its lock. A node that exists and has not been read is still ahead of
    the walk, in a place behind the cursor (`Whole`, `Ahead`): places freed take the
    cursor along, and new nodes have their own records. Each job written narrows
    the range for the nodes it has not touched and overrides it for those it has, so
    when all overtaken jobs are written only the last one written is left
    (`StateIs`). A node is not met twice (`WalkedPast`), so a second record of it can only
    be that of its creation; behind that one the dump finds the node known, and the
    file is corrupted for good.

  `ReadRecords` and `ReadTransaction` are recursive functions; what they do is
  proved for one record, or one operation, more (`ReadMore`, `OutcomeMore`). The
  proofs rest on `DumpAssumption`.

`ReclaimProofs` proves for every set of handles and of objects and every bound of
the clock:

* `HeldAlwaysLive`: `ReclaimSpec => []HeldIsLive`. The central conjunct `Holds` says
  that what a transaction holds is released, now or by a writer still under way,
  with a time after the transaction's start; `Scans` that each collection under way
  will find a smaller time (`Spared`), whichever clients it has passed: a client
  that collects has not reset its own start yet, and the service thread puts no
  garbage into the list while it scans. A read gets no older object because what
  its check lets through is the present pointer (`Loads`), and no younger one
  because nobody else has seen what a writer has not committed (`Clean`). An object
  waits in one list, once (`Lists`), so it is released once.

It rests on `ReclaimAssumption` (the service thread is none of the handles, and the
clock may start).

`AllocatorProofs` has three parts. About the list, for every set of threads and
items, finite or not:

* `ListInvariant`: `ListSpec => []ListInv`. One thread at a time has the head
  (`Holder`), the chain of links from the real head spells `contents` also while
  the head is taken (`Chained`), what a thread is about to publish is ready
  (`Prepared`), and no item is in two places (`Places`): without the last one a
  push could bend the chain it is pushed on.
* `ListRefines`: `ListSpec => ListImplements`, by a step lemma: the second half of
  each operation is the atomic operation, everything else a stutter.

About the caches of pages and of objects, for every finite set of threads and pages
and every threshold of at least 2:

* `CounterAlwaysExact` and `CacheAlwaysBounded`. The invariant `PageInv` adds to
  the two that a thread carries a page exactly where the counter is off by it
  (`HandsFull`) and that no page is in two places (`Apart`), so that each step
  changes `Cardinality(cached)` and `Cardinality(Moving)` by what it says.
  `CacheBounded` is inductive only together with `CounterExact`: whoever leaves
  the collection has seen the counter, not the list.

About the nodes on their pages, for every set of workers and of pages, every finite
set of at least two slots, every threshold and every bound of the clock, from one
inductive invariant, `NodeInv`:

* `RoomAlwaysLast` (`RoomIsLast`). What is inductive is the order of the whole list:
  no page with a free slot is before a full one (`RoomSorted`). That a freed slot
  moves its page keeps it only because a page is in the list once and in no other
  place (`PagesApart`), because a node being freed sits on a page in the list in a
  slot that is not free (`NodesSit`), and because `used` counts the slots that are
  not (`UsedFits`), so a page that leaves the list leaves with its last node. The
  service thread finds each deleted node alive, and once (`DoomedFit`).
* `DriftAlwaysCounted` (`PoolDrift`): inductive with the types alone, by the
  cardinality of what a collection keeps.
* `StaleReadsAlwaysFail` (`StaleReadsFailUnlessEarly`). As long as nothing was early,
  `ReaderSafe` says of the node a reader has found: while its check succeeds the
  node is there and nobody has committed its deletion; otherwise the page has seen
  a deletion after the reader's start; and in any case the page waits, in the list,
  with a thread that frees it, or in the pool with a time after the reader's start.
  A page comes into the pool with a time not before the last deletion on it, or it
  was early; it is taken from the pool with a time up to the oldest start, hence
  the reader's, or it was early. A collection releases what is not younger than the
  oldest start it has seen; one that has seen a later moment than the reader's start
  began before the reader did, and only the service thread is then at work, while
  every node the reader finds is still there (`GcWaits`): a worker that collects is
  itself in a transaction, with a start that the collection has seen.

Each action has a lemma for what it does to the places of pages and nodes
(`TakeSlotShelf`, `SiftedPages`, ...); steps that leave lists, pool and hands alone
share `QuietWorker`.

`ReferenceProofs` proves of the pointers, for every set of handles and every finite
set of nodes:

* `CountsAlwaysExact` (`CountsAreExact`) and `PointersNeverDangle`
  (`NoDanglingPointer`). Both speak of what nobody has locked, and neither is
  inductive: an abort must find the counts it restores to be those of the pointers
  it restores, while others are half way through changes of their own. `RefInv`
  therefore speaks of the database as each handle will leave it if it commits and
  all others abort, and as all would leave it by aborting (`TargetSeen`,
  `CountSeen`, `AliveTo`): each of these has exact counts (`CountsFit`), no pointer
  to a node its handle is deleting (`DeletedFree`) and none to a node that is gone
  (`TargetsAlive`). They do not disturb each other, since a changed pointer has the
  nodes at both of its ends, old and new, locked by who changed it (`EndsLocked`),
  and every entry of a log is of a node that is locked (`LogsLocked`). A
  transaction may name nodes whose deletion has been committed meanwhile:
  `FoundInv` says that such a node is free and too new for whoever has found it, so
  that a lock that is taken is one of a node still there (`KnownAlive`). An operation
  that failed half way may leave counts of its own that do not fit; it can only
  abort.

It proves of the dictionary, for every set of keys, every finite set of cells and
every list of capacities:

* `DictionaryAlwaysMap` (`DictionaryIsMap`). `DictInv` says that a cell of a page is
  free or in the bucket its key is hashed to under the present capacity and in no
  other, that the cells in the buckets are the entries, each once, and that there are
  as many as `size` says; growing and shrinking change the capacity and every bucket
  in one step and keep it.

And of the stacks, for every set of stacks, finite set of pages, size of a page and
set of items:

* `StacksAlwaysHold` (`StacksHold`). The property follows pointers from page to page
  (`Blocks`); the invariant `FastInv` says which pages these are instead: there is a
  list of pages for each stack, `L`, no page on two of them or twice on one, that the
  pointers link behind the head both ways (`OnRing`), and on which item `k` of what
  was pushed is in cell `At` of page and cell (`Fits`); while no item is there, one
  page may be kept. `RingIs`, `FollowIs` and `FlattenIs` say that the walk finds `L`
  and that its cells, put together, are the items; what would be an induction over
  the list is the least place where it would not be so (`AllUpTo`). A push, a pop,
  an erase and a destroy give one stack another list (`Expands`, `Contracts`,
  `Clears`, `StackChanges`); a swap gives two lists each other's head
  (`SwapLinks`), which takes that no list has a page of the other: the four pairs of
  pointers it writes are then different ones. Remembered places are those of cells
  below the pointer, on pages that stay as long as the items do (`PlacedStays`), and
  `AtOne` and `TopIsOne` tell that no other number of items is in the same place: a
  rollback that stops at the remembered address stops with as many items as there
  were, not before and not after. `ArrayInv` keeps the items of the array of
  `stack.h` below its pointer in every reallocation.

The proofs rest on `ThresholdAssumption`, `PagesAssumption`, `NoneAssumption`,
`SlotsAssumption` (the service thread and the mark of an open lock are no workers),
`RefAssumption` (null is neither a node nor a handle), `DictAssumption`,
`StacksAssumption` (a head of a list is no page), and the list on the assumption of
its module about its marks. TLC evaluates all assumptions in
the runs.

Only model-checked:

* `RescuedIsWhole`: that a length or a number is read as it was written rests on
  powers and on folds over the digits (`Digits`, `FromDigits`), for which the provers
  have no theory and only an induction over data would give one. It also needs
  lengths that fit a word, which the bounds of the run see to;
* liveness (`EndingEnds`, `EveryCallReturns`), which needs fairness and ENABLED,
  out of its reach, too.

## 5. Not modelled

* Indexes are code of the library's user; what they write through `trMemory*` is a
  write in `HybridStm`. Their callbacks are not called in the models.
* The builds with global tables of locks (`bit_array.h`, `inline_stack.h`), without
  `SIMPLE_SERVICE_THREAD` and without `DB_DEFER_DEALLOC`, which are not the default.
* The schema file, the names of data files and gaps in their numbers,
  `fix_pointers` and `fill_indexes` after loading; checksums while loading: a
  record is read as a whole (`database_create.c:370` applies it before its sum is
  looked at).
* Of the storage format the functions no modelled reader uses: `reader_skip`,
  `reader_get_pos`, `reader_set_pos`, `read_number`; the growth of a Writer's
  memory; the arithmetic of CRC-32C, for which some sum stands.
* Attributes with a textual form, the copying of scalar types, the tool
  `show_file`, the Perl generators but for `destroy_pointers`, sleeping between
  retries (`_tr_retry_wait`), debug output.
