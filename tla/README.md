# A TLA+ development for LevelDB (annotated edition)

Specifications of the parts of `src/` whose correctness depends on
interleavings, ordering, failure or long histories; TLC configurations that
check them on small instances; and TLAPS proofs for every instance.
`PROJECT.json` maps each definition to the lines it models, and lists the
runs, mutants, hazards, findings and theorems.

## 1. The system

A database is one process. Writers append batches to a log and insert them
into a memtable; a single background thread turns full memtables into sorted
table files, and merges table files into deeper levels; readers look through
memtable, the memtable being flushed and the levels. All shared state of
`DBImpl` is under one mutex, given up for every slow operation.

| Component | State | Operations | Talks to |
|---|---|---|---|
| Write path (`db_impl.cc`, `write_batch.cc`) | `writers_`, `mem_`, `imm_`, `log_`, `LastSequence`, `bg_error_` | `Write`, `BuildBatchGroup`, `MakeRoomForWrite` | log, memtable, background thread (`MaybeScheduleCompaction`, `background_work_finished_signal_`) |
| Background thread (`db_impl.cc`) | `background_compaction_scheduled_`, `pending_outputs_`, running compaction | `BackgroundCall`, `CompactMemTable`, `DoCompactionWork`, `RemoveObsoleteFiles` | versions, tables, writers, `CompactRange` callers |
| Versions and compaction (`version_set.cc`) | files per level, `compact_pointer_`, `file_to_compact_`, file numbers | `LogAndApply`, `PickCompaction`, `CompactRange`, `SetupOtherInputs`, `Get`, `Finalize` | background thread, readers, MANIFEST |
| Snapshots (`snapshot.h`) | ordered list of sequence numbers | `GetSnapshot`, `ReleaseSnapshot` | compaction's drop rule |
| Recovery (`db_impl.cc`, `version_set.cc`, `filename.cc`) | MANIFEST, CURRENT, log files, table files | `DB::Open`, `Recover`, `RecoverLogFile`, `NewDB`, `SetCurrentFile` | environment |
| Log format (`log_writer.cc`, `log_reader.cc`) | block offset, fragments | `AddRecord`, `ReadRecord` | recovery |
| Skip list / memtable (`skiplist.h`, `memtable.cc`) | nodes, `max_height_` | `Insert`, `FindGreaterOrEqual`, iterators | writers, lock-free readers |
| Caches (`cache.cc`, `table_cache.cc`) | hash table, two lists, reference counts, open files | `Lookup`, `Insert`, `Release`, `Erase`, `Prune`, `FindTable` | readers, compaction, limits of open files |
| Iterators (`db_iter.cc`, `merger.cc`, `two_level_iterator.cc`) | direction, saved key and value | `Seek`, `Next`, `Prev` | tables |
| Tables (`table/*`, `bloom.cc`, `builder.cc`) | blocks, index, filter | build, search | files |
| Environment (`env_posix.cc`) | buffers of written files, table of locks, limits of open files, queue of work | `Append`, `Sync`, `LockFile`, `NewRandomAccessFile`, `Schedule` | everything above |
| Repair (`repair.cc`) | lists of files found, new MANIFEST, `lost/` | `RepairDB` | the directory, recovery |
| Encodings, tools | | | |

What makes it correct, component by component:

* **Write path.** One writer at a time owns log and memtable; every call
  returns, with the status of the group its batch went into; a sync write is on
  disk when it returns; sequence numbers in the log only grow; a reader sees
  exactly the writes up to its sequence number, whatever happens after it
  captured its state; nothing leaves the logs before it is in a table.
* **Versions and compaction.** Levels from 1 on do not overlap; of two entries
  of a key the newer one is higher up; entries a snapshot needs are kept and
  deleted keys stay deleted; so a database is a mapping with snapshots.
  Compactions come to an end.
* **Recovery.** After a crash at any point every synced write, and of the rest
  a prefix, is there again. **Log format.** A torn tail costs only itself.
  **Skip list.** A reader without a lock sees a sorted list that includes all
  that was there when it began. **Caches.** Every handle is freed once, and not
  while in use, and no more files are open than allowed. **Iterators.** They are
  cursors over a snapshot, and the direction can change anywhere. **Tables.** A
  lookup finds what a scan finds. **Environment.** What is appended reaches the
  file once and in order, and what was synced survives; a database has one owner;
  scheduled work is done. **Repair.** It destroys nothing that could be read, and
  what it leaves can be opened.

The hard behaviours are the hand-over of the mutex around I/O, the group commit
with its many reasons to be woken, the flush of a memtable in the middle of a
compaction, compactions that see a stale oldest snapshot, failure of one step of
several, shutdown, and crash. `PROJECT.json` lists them under `hazards`, each
with the line where it bites.

## 2. The modules and how they compose

| # | Module | Models | State |
|---|---|---|---|
| 1 | `WriteQueue`, `WriteQueueProofs` | write path, flush, shutdown | proved |
| 2 | `KVStore` | what the interface promises | implemented by `LSM` |
| 3 | `LSM`, `LSMProofs` | levels, compaction, snapshots, `Get` | proved |
| 4 | `ManualCompaction` on `WorkQueue` | `TEST_CompactRange` and the background thread under errors; the queue and thread of `PosixEnv` | proved |
| 5 | `Recovery`, `RecoveryProofs` | logs and MANIFEST with synced prefixes, CURRENT, obsolete files, crash at any step, `DB::Open` | proved |
| 6 | `Repair` (extends `Recovery`) | `RepairDB` on the same directory | model-checked |
| 7 | `LogFormat`, `LogFormatProofs` | fragments, torn tails, failed appends, resynchronisation | proved |
| 8 | `LRUCache`, `LRUCacheProofs` | one shard of `cache.cc` with its clients | proved |
| 9 | `TableCache` (extends `LRUCache`), `TableCacheProofs` | the table cache, the files its entries own and the limits of open files; the block cache | proved |
| 10 | `SkipList`, `SkipListProofs` | one writer, lock-free readers, the memory model | proved |
| 11 | `Tables` | layout of a table file and how it is read | model-checked |
| 12 | `Iterators` (extends `Tables`), `Cursor` | `DBIter`, merging and two-level iterators; the cursor they implement | model-checked |
| 13 | `WritableFile`, `FileLock` | written files and the lock of `env_posix.cc` | proved |

`LSM` implements `KVStore` and `Iterators` implements `Cursor`. `LSM` takes the
handshake of a manual compaction in outline and `ManualCompaction` has it in
detail. `Recovery` takes a write, a log and a sync in outline: `WriteQueue` has
the steps of a write, `LogFormat` the bytes of a log, `WritableFile` what a sync
covers. `Iterators` takes the memtable's iterator to be exact at every step,
which `SkipList` shows. `MCEnvironment` puts `TableCache`, `WritableFile`,
`FileLock` and `ManualCompaction` side by side: they share no state, so a
behaviour is one of a single part.

"Proved" means the safety properties; liveness is always model-checked. The proofs
about 4 and 13 are in `EnvironmentProofs`.

## 3. State, actions and code

### 3.1 WriteQueue

State and code correspond one to one (see the comments at the `VARIABLES`).
`mutex` is explicit, and an action is what a thread does between two points at
which it takes or gives up the mutex (or waits); log append, sync and memtable
insertion of a leader, and building a table and writing the MANIFEST by the
background thread, are actions of their own, made without the mutex. A batch is
a number of operations; an entry is `[seq, w, i]`, operation `i` of the batch of
writer `w`. Batch sizes count operations, so `SmallBatch`, `MaxGroup` and
`WriteBufferSize` scale the constants of `BuildBatchGroup` and
`write_buffer_size` down. A log is a sequence of records with a synced prefix.
Condition variables wake waiters by moving them to a state in which they wait
for the mutex; spurious wake-ups are modelled. With `IOErrors` each operation on
a file may fail where the code checks a status. `sound` says how many records of
a log recovery is sure to find. It grows with every append as long as the
`log::Writer` is in step with the file; a failed append may leave its record torn
and the writer out of step, and then it grows no more. A failed `Close` of the
old log may take back what was not synced.
`committed` and `before` are history variables.

### 3.2 LSM and KVStore

`LSM` keeps the entries of the memtables and of every file of the current
version. A file is a non-empty set of entries; its size is their number;
`smallest` and `largest` are its extremes in internal-key order. Numbers of
files matter in level 0 only, where they order the search, so other files have
none and two states that differ in numbers only are one. `PickCompaction`,
`SetupOtherInputs`, `AddBoundaryInputs`, `IsBaseLevelForKey`, `ShouldStopBefore`
and the loop of `DoCompactionWork` are translated as operators; the loop is a
fold over the merged inputs. A compaction takes its inputs, its version and the
oldest snapshot in one action and installs its outputs in another: writes,
snapshots, flushes and errors fall between. `allowed_seeks` is abstracted: any
lookup that examines two files may be the last one allowed. Only the one
background thread makes versions, which is why a flush is one action.

`KVStore` is the interface of `include/leveldb/db.h`: `Put`, `Delete`,
`GetSnapshot`, `ReleaseSnapshot` on one mapping. `LSM` implements it with the
mapping of `Get` at the last sequence number and at each snapshot
(property `KVSpec`).

### 3.3 ManualCompaction

Threads in `TEST_CompactRange` share one pointer, `manual_compaction_`, to a
record on the stack of one of them. An action is what a thread does while it
holds the mutex; `DoCompactionWork`, which gives it up, is a start and an end,
with flushes in between. A range is the number of compactions it takes. An error
may be recorded by the background thread, by a flush in the middle of its work
and by a writer whose sync failed. `crashed` records that the background thread
used a null pointer; nothing happens afterwards. The background thread is the
one of `WorkQueue`: `PosixEnv::Schedule` puts work in a queue and signals when
the queue was empty, and the thread runs the work of all databases of the
process, so another database's work may come first.

### 3.4 Recovery

The disk (logs, tables, MANIFESTs, CURRENT) and the process (versions, memtables,
pending outputs, the running flush and compaction, the step `DB::Open` is at).
`LogAndApply` is two actions, the append of the record and its sync, so that a
crash or another thread falls in between; so are collecting obsolete files under
the mutex and removing them without it. A crash of the process keeps what was
appended; a crash of the machine may cut each file anywhere behind its last sync
and may come when some of the obsolete files have been removed. Assumed of the
file system: creating, renaming and removing a file are durable at once, in
order. That a reader stops silently at a cut is what `LogFormat` shows. A write
is one action here; its id is never reused, its sequence number may be after a
crash. `scenario` fixes the options and bounds of a behaviour, so one run covers
several without their product; it also says whether operations on tables,
MANIFESTs and CURRENT may fail (`ioErrors`), and on logs (`logErrors`).

An append that fails leaves its record whole, torn or absent. `torn` has the logs
and MANIFESTs with a torn record: what is appended to them later may be found or
not, and for a MANIFEST may show as a corruption (`behind`). A log sees later
appends because only a failed `Sync` sets `bg_error_`; a MANIFEST sees them
because a running compaction flushes and logs its own edit without looking at
`bg_error_`. Without `paranoid`, `RecoverLogFile` takes any part of a log that
cannot be opened or read for the whole. `excused` has the writes that one of these
may have lost while they were in no table, and those of a log whose `Close`
failed; `NothingLost` says that nothing else is.

`Repair` adds the `Repairer` to the same disk: `FindFiles`, one step per log
converted and per log archived, one per table scanned, four for a table that has
to be copied, and the replacement of the MANIFEST in three steps. `lost/` is what
can be read of the file of each name there. A table may be damaged while the
database is closed, a file operation may fail, a crash may come between any two
steps, and afterwards the repair is run again or the database is opened.
`DB::Open` meets damaged tables only if no version names them, and removes them
like any other. `saved` has the synced writes that a repair could read, `unkept`
those in tables it could not archive, or could not begin to copy, and in files of
`lost/` that another took the place of. `settled` is false from the start of a
repair until one returns OK, and after a crash of the machine that came before
the repaired MANIFEST was ever synced.

### 3.5 LogFormat

A file is a sequence of cells: the first cell of a header is the checksum and its
last two are length and type, a byte of data is a cell that names its record and
its place. For TLC, blocks are 7 cells and headers 3. `Emit` is one turn of the loop of `AddRecord` with
`EmitPhysicalRecord`; if it fails, any prefix of trailer, header and data is in
the file and `block_offset_` has moved on, as in the code. `Crash` cuts the file
anywhere and may leave zeros, `Reopen` is the Writer for a file that has a
length. The Reader takes one step per block read or physical record; cells that
are no header, read as one, give any length and any type. `damage` and `clean`
are history: which cells are not part of fragments in step with the blocks, and
at which lengths a cut leaves whole fragments.

### 3.6 LRUCache

One shard of `ShardedLRUCache` with its clients: look up, on a miss create a
value without the mutex and insert it, use, release; besides them erase, prune
and, at the end, destruction. A handle is an address, reused once it is freed.
The loops of `Insert` and `Prune` are one action per turn while the mutex is
held. The hash table is the partial function it implements.

`TableCache` is what the clients are. With `use = "tables"` they are in
`TableCache::FindTable`: a miss goes through `NewRandomAccessFile`, which asks a
`Limiter` for a mapping and another for a descriptor, each in the two atomic
steps of `Acquire`; an entry that is freed closes its file and gives back the
permit afterwards. With `use = "blocks"` they are in `Table::BlockReader`.

### 3.7 SkipList

Memory is the sequence of the writer's stores. A thread has a view, the stores
that happen before its next step; a load returns the last store of the view to
its location or a later one, and an acquire load of a release store extends the
view. So a reader may see `max_height_`, read relaxed, older or newer than the
pointers. `Insert` is one action per store; a search one per load. `MemTable::Add`
and `Get` and the publication of the sequence number under `mutex_` are around it.

### 3.8 Tables, Iterators and Cursor

`Tables` is operators only: `TableBuilder` with blocks, restart points, prefix
compression, index separators and filters; `Block::Iter` with its binary search
over restart points, `TwoLevelIterator`, `InternalGet`. Keys are short sequences
of small numbers, offsets count the sizes of values and block trailers. Footer,
metaindex block, filter block, index block or a data block may be damaged:
`ReadBlock` notices a failed or short read and a bad type, other bytes only when
checksums are compared, and an entry that does not decode shows when it is
reached. `TableOpen` is `Table::Open` with `ReadMeta`: without footer or index
there is no table and an error, without filter block a table without filter. `Iterators` is `DBIter` over
`MergingIterator`, one action per move of the merging iterator and two where it
turns around, while entries are added to the memtable. `Cursor` is
`include/leveldb/iterator.h`: an unchanging mapping and a position.

### 3.9 WritableFile, FileLock

`WritableFile`: a call is cut at every system call; `write` takes any part of
what it is given or fails, `fdatasync` may fail, a crash leaves any length
between what was synced and what the kernel had. After a failed sync a later one
is taken to cover nothing more. Bytes are numbered, and each byte of a MANIFEST
refers to the files that existed when it was appended.

`FileLock`: threads of several processes in `LockFile` and `UnlockFile`, cut at
every system call and use of the table; the kernel's lock belongs to a process
and goes with any descriptor of the file the process closes.

## 4. Runs

| Run | Bounds | Shows |
|---|---|---|
| `write_queue` | 3 writers, 4 logs: sync and plain batches with failing I/O and no reader; plain and null batches with an iterator and no failures | mutual exclusion, status, durability, recoverability, what readers see, order of calls |
| `write_queue_live` | 3 writers, failing I/O, fair scheduling | every call returns, the destructor ends |
| `lsm` | 2 keys, 4 levels, files of one or two entries: 4 writes of which the third may delete, with a snapshot; and 3 writes with seeks, errors and one `CompactRange` over two ranges | levels, order of versions, `Get` against iterators; `LSM` implements `KVStore`; compactions settle, `CompactRange` returns |
| `lsm_manual_overlap` | 3 keys, 5 writes, 1 `CompactRange` | finding: overlapping files |
| `log_format` | 3 records of 0, 1 or 6 bytes (one to three fragments), a crash at any byte; 2 crashes with reuse; failing appends | no record made up, damage confined, torn tail silent, reading ends |
| `manual_null` | 2 callers, 1 other reason to work, errors | finding: null pointer |
| `recovery` | 3 writes and 2 crashes of any kind; 2 writes with failing operations on tables and MANIFESTs and an iterator; the same with failing operations on logs; `reuse_logs` with 2 crashes of the process; 2 repairs with a damaged table and 2 crashes; 1 repair with one failing operation | nothing lost but what failing logs excuse, numbers unique, tables in use kept, leftovers removed, repairs destroy nothing but what they fail to archive, always opens |
| `recovery_reuse_reboot` | `reuse_logs`, 2 writes, 2 crashes of any kind | finding: a synced write lost |
| `environment` | caches: 2 clients, 2 keys, 3 addresses, one file per Limiter; file: buffer of 2, Appends of 1 and 3 bytes, a crash; lock: 2 processes of 2 threads, a kill; work: 2 callers, ranges of up to 2 compactions, 2 other reasons to work, another database | references, lists, usage and permits exact; files written in order, synced data survives; lock table exact; requests of manual compactions answered |
| `lock_exclusion` | the lock part of it | finding: two processes hold the lock |
| `skiplist` | 3 entries of 2 user keys with deletions, heights 1 and 2, one reader | searches and `Get` exact without a lock, levels nested |
| `iterators` | every history of 4 writes to 2 user keys over memtable and two tables; a table of five blocks with each kind of damage, with and without checksums; every run of its entries as a table of its own; Seek, Next and Prev in any order, entries added meanwhile | tables find what is in them or report an error; `DBIter` implements `Cursor` |

Why the bounds are enough to be interesting: three writers make a leader, a
follower and a newcomer; several logs make a switch with the old one still being
flushed. In `LSM`, limits of one or two entries per level and two files in
level 0 make three writes reach the deepest level; two entries of one key kept
apart by a snapshot and files of one entry make boundary files. In `Recovery`,
two records fill a memtable, so three writes make a log with a full table and a
rest, and the second crash falls into the recovery from the first. In
`LogFormat`, the sizes make full blocks, trailers, a fragment without data in
front of a block's end, and a middle fragment. In `SkipList`, three entries and
two levels let a reader stand on a node while another is linked before and behind
it. In `TableCache`, two clients and one permit make the race at the limit, and
three addresses a replaced entry that is still in use. An Append of 3 bytes to a
buffer of 2 fills the buffer, flushes it and goes to the buffer or directly to
the file, depending on what was there. Two tables and a memtable make the
children a turning merging iterator leaves on the wrong side. The sizes of values
put the five blocks of the long table at 0, 4, 8, 24 and 28 with a filter for
every 8: filters of two blocks, a block on a boundary, one that reaches over a
filter which stays empty; and one of its index separators is a shortened key that
no entry has. The mutants listed
in `PROJECT.json` are all caught within these bounds. `CHECK_DEADLOCK FALSE` in
the configurations of `LSM`, `Recovery` and the environment: when the bounded
writes, crashes and file numbers are used up, the cache is destroyed or all
callers have returned, the system is at rest.

In `recovery` the first of two repairs follows an orderly close
(`ClosedFirst`); the crash comes in the repair or after it. Symmetry in
`environment` is over handles, of which its temporal property says nothing.

**Fairness.** `write_queue_live`: weak fairness for every thread, because a
thread that can run does; strong fairness for the end of a compaction's loop,
because its input is finite; and only finitely many spurious wake-ups, because a
thread woken again and again without a signal could keep the mutex from the
others. Writers are interchangeable, so only requests with the null ones
first are looked at (symmetry reduction is not sound for liveness). `lsm`:
the background thread goes on while it has work, because
`MaybeScheduleCompaction` is called whenever work appears and after every
`BackgroundCall`; a caller of `CompactRange` goes on when it can. `environment`:
the same two, for the background thread of `PosixEnv` and the callers of manual
compactions; the other parts have safety properties only. `log_format`: the
caller reads until `ReadRecord` returns false. The numbers of writes and of other
reasons to work are bounded, so nobody is starved by an endless stream of them.

## 5. Findings

* `lsm_manual_overlap`: the inputs of a manual compaction may leave a gap; a
  memtable flushed meanwhile can be placed in the gap at the output level, and
  the output then overlaps it. Automatic compactions are not exposed: their
  inputs are connected, so a table placed at the output level lies outside.
* `manual_null`: an error recorded while a manual compaction runs makes its
  caller withdraw the request; `BackgroundCompaction` reads
  `manual_compaction_` again afterwards and uses a null pointer.
* `recovery_reuse_reboot`: with `reuse_logs`, `DB::Open` acts on the last record
  of a MANIFEST that was never synced and removes the logs it gives up; a crash
  of the machine then takes the record, and a synced write is gone.
* `lock_exclusion`: `LockFile` opens the LOCK file before it asks the table of
  its process, and closes the descriptor when it is refused; the kernel then
  drops the lock that another thread of the process holds, and a second process
  can open the database.

Met while modelling, and not runs of their own. The first three are losses of
acknowledged data; the properties state each as an exception by name, and TLC finds the behaviour
when the exception is taken out of the property:

* A failed `AddRecord` leaves part of a record in the log, `block_offset_` has
  moved on (`log_writer.cc:117`), and only a failed `Sync` makes a background error
  (`db_impl.cc:1311`). The next write, with sync or without, returns OK, and a
  reader of the log need not find it, although `options.h:183` compares a write with
  sync to `write()` and `fsync()`. Likewise a `Close` that fails at a switch of logs
  may lose what was not synced. `Recoverable` has these as `BehindFailure` and
  `LostInClose`, `NothingLost` in `excused`.
* With the default of `paranoid_checks`, `DB::Open` ignores that a log cannot be
  opened or read (`db_impl.cc:408`, and the reporter without a status), gives the
  log up in its edit and removes it. An error that would have passed, such as no
  descriptor being left, destroys its writes, although `options.h:178` says that no
  writes are lost when only the process ends. `NothingLost` has them in `excused`.
* `RepairTable` returns before it archives the table when the copy cannot be
  created (`repair.cc:302`; `repair.cc:290`: "RepairTable archives input file").
  `RepairDB` returns OK with a MANIFEST that does not name the table, and the next
  `DB::Open` removes it as obsolete. `NothingDestroyed` has it in `unkept`.
* A null batch (`TEST_CompactMemTable`) absorbed in another writer's group is
  answered with OK although no memtable was switched (`db_impl.cc:1373`); `LSM`
  includes this case in `ManualSwitch`.
* A synced write is no barrier for earlier ones: a switch of memtables closes the
  old log without a sync, so after a crash of the machine a later synced write
  may be there and earlier ones not. `doc/index.md` suggests restarting a bulk
  load behind the last synced write.
* With `reuse_logs`, records appended behind a torn one in the same block are
  dropped with it; `DamageIsConfined` states exactly that this is the extent of
  the loss. After a failed `AddRecord` the file is out of step with the blocks,
  and `DamageIsConfined` does not cover it.
* A MANIFEST that a running compaction appends to behind a record torn by a failed
  append may not be readable at the next `Open` (`version_set.cc:869`);
  `OpenSucceeds` and `NeverCorrupt` make this exception.
* `log::Writer` flushes every record to the kernel before `Sync` syncs the
  directory, so the kernel may write a MANIFEST's record to the medium before the
  directory entries of the files it names; `SyncedSurvives` speaks of what `Sync`
  has put there. Directory entries of new logs are not synced at all.
* After a failed `write` the rest of the buffer is dropped, and a later `Append`
  goes on behind the hole, which is how a failed append tears a record.
* Repair. A copied table is renamed over its source without a sync. If the
  machine then crashes, a second repair archives the torn copy under the name its
  original has in `lost/`, and overwrites it (`ArchiveTable`). `NothingDestroyed`
  excepts this, an `ArchiveFile` that failed, whose error is ignored, and the table
  that could not be copied (`unkept`). A repair that is cut short and followed by `DB::Open` has its
  tables removed as obsolete, and the data is in `lost/` only. The new MANIFEST
  is not synced before CURRENT names it (`OpenSucceeds` expects nothing after a
  crash of the machine before it is synced). All tables go to level 0 in the
  order of their numbers, which need not be that of their entries. The comment at
  `repair.cc:169` says that the log reader checks checksums; `false` is passed.
  `RepairDB` takes no lock, and an abandoned copy stays as an empty file.

## 6. Proofs

### 6.1 The write path

`WriteQueueProofs` proves, for any number of writers and iterators and all
values of the constants that satisfy `WQAssumption`:

* `TypeCorrect`: `Spec => []TypeOK`;
* `LeaderIsFront`: `Spec => []ExclusiveLogger`;
* `StoreIsComplete`: `Spec => []StoreComplete`;
* `SnapshotsAreConsistent`: `Spec => []SnapshotConsistency`.

The argument is three layers of inductive invariants. `TInv` (types, cut into
named parts so that each action is checked against the parts it can disturb)
holds by itself; the only real lemmas are about `GroupEntries` and `SizeTo`,
which count with cardinalities of finite sets and not with recursion.
`EInv` says who may be where: a writer in a leading state is the head of the
queue, the queue has no duplicates and holds exactly the writers between their
enqueueing and their removal, and done writers are not in it. `ExclusiveLogger`
is not inductive without it, because a woken writer becomes leader by looking at
the head only. `SInv` relates data: what the leader has collected but not yet
inserted carries sequence numbers above `lastSequence`, all that is committed is
in the memtables or the version, and what an iterator captured contains all
entries up to its sequence number; a flush moves entries from `imm_` to the
version in one step, and the switch only happens when `imm_` is empty.

`WriteQueueProofs` also proves what becomes of a write, for the same constants:

* `CommittedIsRecoverable`: `Spec => []Recoverable`;
* `ReturnedStatusIsTrue`: `Spec => []StatusTruthful`;
* `WritesAreInRealTimeOrder`: `Spec => []RealTimeOrder`.

`Recoverable` says where recovery finds a committed entry: in a table or in a
record of a log that is still read. Of that record it says that it is among those
surely found (`sound`), or that an append of a write that got an error lies
before it, or that the log could not be closed and `bg_error_` is set. These two
exceptions are the code's (section 5); an entry is never missing for another
reason, such as a log given up too early. It needs
`LogInv`: a memtable is covered by its log, an entry in a log is committed or in
the group of the leader that is writing; and `SoundInv`: where a log has a record
that need not be found, the first such was refused, or the log could not be
closed and all that was synced is found. The other two
need `OutcomeInv`. `QueueShape`: a writer is in the queue once, until it is
finished. `GroupShape`: the group of a leader is a prefix of the queue, and has
all operations of its writers. `StoreOutcome`: entries of an unfinished writer
are in the store only through a leader that is inserting its group; a group
that went well is stored as a whole, and a sync group is in the synced part of
a log. `Outcomes`: what a finished writer was told is true. `BeforeInv`: a
group comes after all that was committed before its writers called. A leader gives up the mutex in the middle of its group, so each
part must survive whatever the others do meanwhile: the long part of the proof
are the frame lemmas that say which steps can touch a group (`GroupFrame`).

### 6.2 The caches

`LRUCacheProofs` proves, for any finite set of clients, any keys, addresses,
charges and capacities that satisfy the module's assumption: `TypeCorrect`,
`RefsAreExact`, `HandlesStayValid`, `NothingLeaks`, `ListsAreExact`,
`TableIsExact`, and `CacheIsExact`, the conjunction of references, lists and
table that TLC checks. The properties are inductive only together (`IInv`). A
handle is freed when its count falls to 0, so that no client has it needs
`RefsExact`; that eviction by key removes the entry it looked at needs
`TableExact`; that the entry evicted has no client needs `ListsExact`. `IInv`
adds what a client's position says of the mutex and of its handle (`Pcs`) and
that a live entry is counted (`Counted`). The lemmas are about removing from and
appending to lists without repetition, and about the cardinality of the set of
clients that have a handle. `UsageIsExact` (`[]UsageExact`) rests on `IInv`: an
entry leaves the cache only through the table, so with its charge. The sum of
the charges is stated as a cardinality, of the units that the entries are
charged for (`Units`), so that adding or removing an entry (`UnitsAdd`,
`UnitsRemove`) needs no induction.

`TableCacheProofs` proves of `CacheSpec`, in which the entries of the cache own
files: `PermitsAreExact` (`[]PermitsExact`), for any limits, and that
`CacheExact`, `NoUseAfterFree` and `UsageExact` hold there too. Its invariant `PermitIInv`
counts where the permits of each kind are: with the entries that own a file,
with the clients that are opening one, or on their way back. The steps of the
cache keep `IInv` by the lemmas of `LRUCacheProofs`.

### 6.3 Manual compaction and the environment

`EnvironmentProofs` proves of `ManualCompaction`, for any callers, databases and
amounts of work: `ManualTypeCorrect`, `RequestsDoNotDangle` (`[]NoDanglingRequest`) and
`ReturnsAreDone` (`[]ReturnMeansDone`). `ManualIInv` says that
`background_compaction_scheduled_` is set exactly while the work of the database
is in the queue, at one place, or runs; that a posted request is the one of a
caller in its loop; and that the request the thread works for is still posted,
unless an error made its caller withdraw it.

It proves of the other parts of `env_posix.cc`: `LockTableIsExact`
(`LockSpec => []LockTableExact`), `AppendsInOrder`
(`FileSpec => []AppendedInOrder`) and `SyncedDataSurvives`
(`FileSpec => []SyncedSurvives`), for any processes and threads, any size of the
buffer and of the Slices, and any cut of a `write` by the kernel. `LockIInv`
has one owner per process and ties it to the table; `FileIInv` says, for every
point of a call, which part of the Slice is in the file, in the buffer or still
to come, so that their concatenation is what was appended, and what a MANIFEST
may refer to while it is synced.

### 6.4 The skip list

`SkipListProofs` proves, for any number of readers, any keys and any maximal
height: `LevelsAreNested` (`[]LevelsNested`), `SearchesAreExact`
(`[]SearchExact`) and `GetsSeeTheirSnapshot` (`[]GetSeesSnapshot`). The argument
is about all moments of the writer's history at once. `ListInv` says that after
every prefix of the stores each level is a sorted list that skips over the
levels below, that whatever it links is written, and that a pointer of a linked
node is only changed by a release store. A reader's view is a prefix; an acquire
load that returns a later store moves the view to that store, which is then the
last to its location: so (`LoadIsExact`) every load is a load from the list of
the moment at which it leaves the view, and (`SearchAnswers`) a search, which
never looks back, answers for that moment, whatever height it started from.
`WriterInv` says where the new node belongs at each level, also when the writer
has raised `max_height_`, and `LinkStores` that both stores of a turn of
`Insert`'s loop, in this order, leave a list. `PublishedInv` says that the entries
up to the published sequence are linked in the published prefix, which is in the
view of whoever reads that sequence.

### 6.5 Recovery

`RecoveryProofs` proves of `Recovery`, for every size of the write buffer, any
bounds in `Scenarios` and behaviours of any length, with failing operations on
tables, MANIFESTs and CURRENT, iterators and crashes at every step:

* `TablesAreHeld`: `Spec /\ Sound => []FilesHeld`;
* `NothingIsLost`: `Spec /\ Sound => [](NothingLost /\ excused = {})`: every write
  that returned, without exceptions;
* `SequencesAreFresh`: `Spec /\ Sound => []SequencesFresh`;
* `LeftoversAreRemoved`: `Spec /\ Sound => LeftoversRemoved`;
* `EditsGoForward`, the assertions of `LogAndApply`;
* `NeverCorrupt`: `Open` finds the numbers or a table missing only in a MANIFEST
  with records behind a torn one.

`Sound` has two parts. No operation on a log fails (`~logErrors`): the code
loses writes otherwise (section 5), and what may be lost then is stated by
`NothingLost` with `excused` and model-checked. And `reuse_logs`
comes with neither crashes of the machine nor failing operations: with the first
`recovery_reuse_reboot` shows a synced write lost, and with the second the next
process appends to a MANIFEST that may be torn. Without `reuse_logs`, which is the
default, crashes of the machine and failing operations on everything but logs
are covered together.

None of this is inductive by itself, because a crash throws the process away and
what counts then is the disk alone. The invariant (`IInv`, proved by
`CrashesAreExpected`) speaks of `Versions`: the versions that `Recover` would
find, one for every length of the current MANIFEST that may survive (from its
synced prefix to its end, or the end only if the machine does not crash). Each of
them is complete (`VersionOK`): its tables are on disk, finished, and not among
those being removed; with the logs from its log number on it reaches every write
that must be found again, through the synced parts of those logs for the synced
writes; no two records it reaches have one sequence number. The rest relates the
process to them. While the database is in use every version reaches exactly its
contents (`Behind`), so an edit that is appended and not yet synced, or whose
sync failed, may be found or not; the files of the version the process works
with, of iterators, and of the running compaction are held (`InUse`,
`CompactionOK`); an edit adds tables that have the records of the memtable or the
inputs it replaces (`EditOK`). A MANIFEST with a torn record (`TornOK`) belongs to a
process that has an error since, so that it removes no file: the versions on disk
stay complete although edits that go behind the record may be missed (`Missed`),
and the next process makes a new MANIFEST. In `Open`, the logs read so far are in tables or
the memtable (`Reading`), and the edit that is saved gives up logs only with
their records in its tables (`SavingAtOpen`).

The proof has one lemma per action for the types and one for `IInv`. A step
that does not touch what the versions reach keeps it by `DatabaseKept`;
the steps of `LogAndApply` rest on `FoundInAppended` and `FoundInSynced` (the
versions of a MANIFEST with one more record, and after its sync), the crash of
the machine on `FoundInCut` and `CutLogs`. `FilesAfter` is a union over the
edits, not a fold, so that `FilesAfterAppend` needs no induction. Sequence
numbers are bounded by the number of writes made, which is what lets maxima be
taken of sets that are not known to be finite.

The types that are proved (`Types`) leave file numbers unbounded, where `TypeOK`
bounds them by the scenario. The theorems are about `Recovery` without repairs: `Repair` adds steps that
rewrite the directory, and its properties are model-checked.

### 6.6 Levels and compaction

`LSMProofs` proves of `LSM`, for any number of keys, levels and writes, any limits
of sizes and files and any scenario (`LSMAssumption`):

* `AlwaysInv`: `Spec => []Inv`, and from it `LSMTypeCorrect` (`[]TypeOK`) and
  `InputsStay` (`[]InputsInVersion`);
* `LevelsStayDisjoint`: `Spec /\ []ManualConnected => []LevelsDisjoint`;
* `NewerStaysAbove`: `Spec /\ []ManualConnected => []NewerAbove`;
* `GetAgreesWithIterator`: `Spec /\ []ManualConnected => []GetMatchesIterator`;
* `ImplementsKVStore`: `Spec /\ []ManualConnected => KVSpec`;
* `ImplementsWithoutCompactRange`: `Spec /\ scenario.manuals = 0 =>
  []LevelsDisjoint /\ KVSpec`.

`ManualConnected` says that the inputs of a running manual compaction leave no
key between them uncovered. It is needed: a manual compaction takes all files of
level 0 in its range and not the keys between them, and `lsm_manual_overlap` shows
a memtable that is flushed into such a gap of the output level, and overlapping
files after it. It is a hypothesis on `CompactRange` only. For automatic
compactions it is proved (`PickConnected`), so that a database on which
`CompactRange` is not called needs no hypothesis. All behaviours of the run `lsm`
satisfy it, since a gap needs three keys.

`Inv` has what does not depend on the shape of the levels: sequence numbers are
used once and memtables are newer than tables; a file's bounds are its first and
last entry; an entry is in one file of one level; the snapshots are ordered; and,
of a running compaction, that its oldest snapshot is not newer than any that can
be in use when it ends, and that whatever has come to deeper levels since it
started is newer than its inputs.

`LevelsDisjoint` and `NewerAbove` are inductive only together with `MergeOK`, which
says of a running compaction that it can be installed. Its inputs are connected.
A file that stays in the output level lies before all inputs or behind all of
them. What stays beside the inputs, of a key they have, is newer than their
entries. That a compaction starts so is `SetupOK`. The files picked are contiguous
in their level, and `AddBoundaryInputs` makes them closed under one user key
(`BoundaryBlock`), or, in level 0, `GetOverlappingInputs` widens the range until
nothing older meets it (`ZeroClosed`); then the files of the next level are again a
block, and the expansion keeps all of this because it takes no more files there
(`NextMonotone`). That it stays so while memtables are flushed beside it is
`MergeFlush`: `PickLevelForMemTableOutput` goes below level 0 only where no file
overlaps, and connected inputs have no room between them.

Four loops of the code are recursive functions in the model, over the numbers up
to the length of what they run through: the widening of a range in level 0, the
chain of boundary files, the merge of the inputs and the merge loop of
`DoCompactionWork`. What they compute is proved by `UpTo`, an induction over the
finite set of the numbers for which a property holds, which needs no induction
theorem with an operator parameter. `LoopOK` says of the merge loop that its outputs
partition what was kept, in order and without empty files. `DroppedIs` says that
it drops an entry only if a newer one of its key is visible to the oldest snapshot
(`Hidden`), or if it is a deletion that the oldest snapshot sees and no deeper level
has the key (`Obsolete`).

For `ImplementsKVStore`, `GetIsIterValue` first reduces `Get` to the newest visible
entry of all: this is where `NewerAbove` and the disjointness of levels are used.
Then a step of the background thread must change the newest visible entry of no
key at no sequence number in use. `Spares` says what it may remove: an entry
hidden by one that stays, or a deletion below which nothing older is left.
`InstallSpares` shows it of the results of a compaction. It needs that `IsBaseLevelForKey`
looked at the deeper levels when the compaction started, and that a file that has come
there since is newer than the deletion it drops, so that nothing older reappears.

### 6.7 The format of logs

`LogFormatProofs` proves of `LogFormat`, for any sizes of blocks, headers and
records, any number of records and crashes, and any scenario (`LogAssumption`: a
header is at least checksum, length and type, and fits into a block):

* `LogTypeCorrect`: `Spec => []TypeOK`;
* `NeverForged`: `Spec => []NothingForged`;
* `TornTailsAreSilent`: `Spec => []TornTailSilent`.

That nothing is forged is not a matter of single fragments, which their checksums
protect, but of putting them together: a Reader that meets a first fragment and
then a last one has no way to see that they are of two records. `LogInv` says
(`FileOK`) that every checksum in the file belongs to a fragment of a record that
was begun, at a known place in it, whether or not the rest of that fragment is in the
file; and that the fragment which a middle or last one continues (`Leads`) is
complete and ends less than a header before it. This survives cuts, zeros and
appends behind them, since a Writer that failed or crashed starts with a new
record. Of the Reader it says (`Keeps`) that what it holds is the beginning of one
record, up to a fragment that ends less than a header before the place where it
reads on. Then the two fragments that both end less than a header before the next
one are the same (`OneBefore`): inside a complete fragment no cell of the header
is a checksum or a type, and none of the data is. The bound of a header is the code's
rule that only the rest of a block too small for a header is skipped without a
report, and the Reader forgets what it holds whenever it skips more (`AfterBadRecord`).

For the torn tail, `TailInv` says that a file one Writer wrote has a chain of places
from its start (`Chain`), each with its offset in the block and whether a record is
open there; every place leads to the next (`Link`), by a fragment of the type that
fits or by the rest of a block, and the last one leads out of the file if it was
cut. The Writer stands at the end of the chain (`WriterAt`), complete records end at
places where none is open (`AddedAt`), which is why a Writer that goes on behind one
takes up the chain, and the Reader walks along it with `end_of_buffer_offset_`, the
size of its buffer and `in_fragmented_record` in step (`ReaderAt`). So a fragment that
reaches out of the buffer is met only at the end of the file, where nothing is
reported.

### 6.8 Only model-checked

* Liveness (`EveryCallReturns`, `DestructorEnds`, `CompactionSettles`, `ManualEnds`,
  `ReadEnds`), which needs fairness and `ENABLED`.
* `Tables` and `Iterators`, with `TableGetExact` and that they implement `Cursor`:
  a proof would need the layout of a table as an invariant of three nested
  builders, and the searches of its readers, which take operators as parameters.
* `DamageIsConfined` of `LogFormat`: it says what the Reader must have returned when
  it comes to the end, on damaged files too, where the proofs have only what the
  Reader may return, and the undamaged file.
* What failing operations on logs may cost a database: `NothingLost` outside of
  `Sound`.
* `Repair`, with `NothingDestroyed` and `OpenSucceeds`: its invariant would have to
  describe the directory at each step of a repair that was cut short.

## 7. Not modelled

* Byte formats: varints, entry and handle encodings, checksums, compression, the
  hash of the Bloom filter (any hash is assumed) and the buckets of the cache's
  hash table. They are pure functions, or implement a function, without a
  protocol.
* Of the environment: reading, listing, renaming and removing files, which are
  single system calls; their users' models let them fail. The Windows and the
  in-memory environments implement the same interface by other system calls.
* `dumpfile.cc`, `leveldbutil.cc`, `c.cc`, benchmarks, the arena, histograms,
  `Status`, formatting and logging: no state that a protocol depends on.
* Read sampling and `allowed_seeks` as numbers: any lookup or iteration may be
  the last one allowed.
