# A TLA+ verification of mdbx-go

mdbx-go is the Go binding of libmdbx, an embedded key-value store whose data file is
mapped into every process that uses it. The repository holds the binding (`src/mdbx`),
a pool of read-only transactions (`src/exp/mdbxpool`) and the C library itself
(`src/libmdbx`, where `mdbx.c` is the engine). The modules of this directory model the engine's
core: the reader table, durability, the B+tree with its cursors, the pages of a write
transaction and its GC, table handles, the data file, the lock files, the pool, and the pure
algorithms the rest stands on. TLC checks all of them on small instances; TLAPS proves the
safety of the reader table, the pool, the lock files and the meta pages for every instance.

## Inventory

| Component | State | Operations | What makes it hard |
|---|---|---|---|
| Reader table (`lck_t.rdt`) | pid, tid and txnid of each slot, `rdt_length`, `rdt_refresh_flag`, `cached_oldest_txnid` | `mvcc_bind_slot`, `ro_seize`, `ro_slot_clean`, park and unpark, `mvcc_snapshot_oldest_rw`, `mvcc_kick_laggards`, `mvcc_cleanup_dead` | shared memory without a lock between readers and writer; processes die in the middle |
| Clones | a second handle on a running snapshot | `txn_ro_clone` | publishes an old txnid |
| Transaction pool (`TxnPool`) | `sync.Pool`, `lastid`, `idleGuard` | `View`, `BeginReadonly`, `Abort`, `Update`, `CommitID`, `handleIdle`, `Close` | goroutines race on handles and on a CAS loop; `sync.Pool` drops and hides items |
| Meta pages (troika) | three metas, each with a txnid and a steady or weak sign | `meta_tap`, `dxb_sync_locked`, `meta_sync`, `meta_wipe_steady`, `meta_override`, `dxb_setup` | torn and reordered updates; a crash falls back to the last steady meta |
| B+tree and cursors | pages, nodes, the stacks of all cursors | search, put, replace, delete, `page_split`, `page_merge`, `node_move`, `tree_rebalance`; deleting ranges, `cutoff_zikkurat`; distances, scrolling, estimates, scans | every change of shape repairs every other cursor; a range cuts pages, branches and rows at once |
| GC and page allocation | records of retired pages by txnid; loose, dirty, reclaimed and retired lists | `gc_alloc_ex`, `page_retire`, refunds, `gc_update` | saving the lists changes the tree they are saved in |
| Write transactions | the lists above, a nested parent | begin, nest, checkpoint, roll back, spill, commit, abort | a page in two lists, or in none |
| Handles of named tables | slots of the environment (flags, seq, name), their copies in each transaction | `mdbx_dbi_open`, `mdbx_drop`, `mdbx_dbi_close`, `dbi_check`, `dbi_update` | a scan without the lock; slots reused under a running transaction |
| Data file and geometry | file size, mappings, geometry of each snapshot | `dxb_resize`, `mdbx_env_set_geometry`, commit, opening | the file is cut while others map it; deaths in between |
| Lock files | record locks of the two files, the lock region, `rthc` | `lck_setup`, `lck_downgrade`, `lck_destroy`, `mdbx_env_delete` | two files locked one after the other; POSIX locks belong to the process |
| Lists and scans | `rkl_t`, `dpl_t`, descending page lists | push, remove, iterate, sort, `scan4seq` | positions at either end |
| Options of an environment | limits, times and sizes of `env->options` | `mdbx_env_set_option`, `mdbx_env_get_option`, `env_options_adjust_dp_limit` | bounds that depend on the page size, the file and each other |
| Keys made of numbers | none | `double2key`, `key2double`, `mdbx_key_from_jsonInteger`, `mdbx_jsonInteger_from_key` | the order of words must be that of the numbers; rounding half-way, the ends of the range |
| Text codecs, flags | none | base16/58/64, UTF-8 test, `operate_parameters` | boundaries of the input |
| Tools | none | `mdbx_dump`, `mdbx_load` | two programs that must agree on a format |
| Go `Txn`, `Env`, `Cursor` | C handle, cached id, `managed`, `parked`, `closeLock` | `BeginTxn`, `View`, `Reset`, `Renew`, `Checkpoint`, `Close` | the Go state must follow the C handle on every error path |
| Reader list, messages, durations, errors | a registry of callbacks | conversions | a 32-bit key that wraps; truncation in 16.16 fixed point |

The components meet in a few places. The Go pool turns `Reset`, `Renew` and `Abort` of a handle
into the binding and seizing of a reader slot. The slots bound, through
`mvcc_snapshot_oldest_rw` and `gc.detent`, what the writer may reuse; the last steady meta bounds it
too. The meta pages tell readers which snapshot to take. The lists of a write transaction and the
B+tree feed each other at commit. The lock files decide who may initialise the lock region all of
this lives in. `PROJECT.json` lists every component with what is modelled of it, and under
`hazards` the places where something can go wrong that a test would hardly reach; the
properties below are aimed at them.

What makes each part correct, in a sentence: no active reader loses a page of its snapshot; a
pooled handle has one owner and pins nothing; a crash costs no durable commit; a tree with cursors is a
sorted map with places in it; every page is in exactly one list or tree; a handle leads to the
table it was opened for; the file always covers what its snapshots need; a lock region in
use is never initialised or emptied; an algorithm computes its definition.

## Modules

| Module | Models | Uses | Instance |
|---|---|---|---|
| `Mvcc` | the reader table, one reader protocol per handle, the writer, crashes | | `MCMvcc` |
| `MvccClone` | `Mvcc` with `txn_ro_clone` | `Mvcc` | `MCMvccClone` |
| `TxnPool` | `txnpool.go` | | `MCTxnPool` |
| `Troika` | the choice among the three meta pages (operators) | | `MCAlgorithms` |
| `Meta` | writing and syncing data and metas, recovery at open, crashes | `Troika` | `MCMeta` |
| `BTree` | one table's tree as functions on a record: pages, nodes, split, merge, rebalance | | |
| `BTreeCursors` | the calls of the API on the tree and its cursors | `BTree`, refines `OrderedMap` | `MCTree` |
| `BTreeMeasure` | what the stacks tell without visiting rows: compare, distance, scroll, distribute, estimates, scans, batches | `BTreeCursors` | `MCRange` |
| `BTreeRange` | `mdbx_cursor_delete_range`, `mdbx_cursor_bunch_delete` | `BTreeMeasure` | `MCRange` |
| `OrderedMap` | abstract specification: a sorted map with places in it | | |
| `GcDense` | the solver of the dense mode of `gc_update` | | |
| `Gc` | allocating, retiring and refunding pages; the records of the GC | `GcDense` | |
| `GcUpdate` | the loop that saves the lists at commit | `Gc` | |
| `WriteTxn` | write transactions over these | `GcUpdate` | `MCWriteTxn` |
| `Dbi` | handles of named tables | | `MCDbi` |
| `Geometry` | the file, its mappings, explicit geometry, deaths | | `MCGeometry` |
| `EnvLock` | opening, closing and deleting an environment, lock by lock | | `MCEnvLock` |
| `Rkl`, `Dpl`, `Scan4seq` | the lists of a write transaction and the search in free pages | | `MCAlgorithms` |
| `GeoParams` | the arithmetic of `mdbx_env_set_geometry` | | `MCAlgorithms` |
| `Options` | the options of an environment | | `MCAlgorithms` |
| `NumberKeys` | floating-point numbers and JSON integers as keys | | `MCAlgorithms` |
| `Codecs` | text encoders and flags of the C++ API | | `MCAlgorithms` |
| `DumpLoad` | `mdbx_dump` and `mdbx_load` | `Codecs` | `MCAlgorithms` |
| `MvccProofs`, `TxnPoolProofs`, `EnvLockProofs`, `TroikaProofs`, `MetaProofs`, `MetaCrashProofs`, `GeometryProofs`, `DbiProofs` | theorems and proofs | the module of that name | |

The paragraphs below say how state and actions correspond to the code. `PROJECT.json` maps every
definition to the lines it stands for.

### Mvcc

The state is that of `lck_t` (`flag`, `cached`, `rdtlen`, and `spid`, `stid`, `stxn` per slot),
the locals of the C functions that run over it (`pc`, `slot`, `snap`, `loop` per handle; `wpc`,
`prev`, `oldest`, `wi`, `wn`, `seen`, `stucked` for the one writer), `gc.detent`, and the txnids
of the newest and of the newest steady meta. `reused` is a ghost: the highest GC record whose
pages were handed out again. GC record *x* holds the pages that transaction *x* retired; every
snapshot before *x* still needs them.

An action is one access to shared memory with the thread-local work around it, so that every
interleaving of these accesses is a behaviour. Code under `rdt_lock` is one action; so is what only the
holder of the write lock can see.

| Code | Actions |
|---|---|
| `mvcc_bind_slot` | `BindSlot` |
| `ro_seize` | `SeizeTap`, `SeizeReset`, `SeizeWrite`, `SeizeFlag`, `SeizeRetry`, `SeizeFetch`, `SeizeVerify` |
| `ro_slot_clean`, `ro_slot_release` | `Reset`, `CleanTxnid`, `CleanTid`, `CleanCheck`, `CleanFlag`; `Release` |
| `txn_ro_park`, `txn_ro_unpark` | `Park`, `ParkFlag`; `UnparkRead`, `UnparkCas`, `UnparkCheck` |
| `lck_txn_lock`, `osal_ipclock_failed` | `Lock` in `Begin` and `SyncBegin` |
| `mvcc_snapshot_oldest_rw` | `Scan`, `ScanPass`, `ScanSlot`, `ScanStuck`, `ScanStuckCas`, `ScanStore` |
| `mvcc_kick_laggards` | `Scan("kick")`, the last case of `ScanStore`, `OustRead`, `OustCas`, `OustReset` |
| `gc_alloc_ex` | `Reclaim`, `MoveSteady` |
| commit, sync, end | `Commit`, `EnvSync`, `SyncOwned`, `Toggle`, `End` |
| process death, `mdbx_reader_check` | `Crash`, `ReaderCheck` |

Abstracted: page counters in the slots, the contents of the metas, `coherency_fetch_head` (it
may ask for another round at any time), the allocation strategy (any record up to the detent may
be taken; a forced scan may come at any time). What runs under `rdt_lock` is one action, so a process that
dies inside `mvcc_cleanup_dead`, after it freed a slot and before it raised the flag, is left out. A handle whose slot is bound but that is not
started stands for a fresh, reset or finished `MDBX_txn` alike. `MvccClone` adds the two accesses of
`txn_ro_clone` (`CloneWrite`, `CloneCheck`); the origin rests meanwhile, as its documentation demands.

### TxnPool

Each goroutine runs `View` (`BeginGet`, `BeginRenew`, `BeginNew`, `EndView`, `EndStale`, `EndReset`,
`EndPut`), `Update` (`UpdateBegin`, `UpdateCommit`) with `CommitID` (`CommitIDLoad`, `CommitIDCas`),
or `Close` (`CloseStep`); `handleIdle` runs in goroutines of its own (`SweepStart`, `SweepGet`,
`SweepCheck`, `SweepExit`). libmdbx is what the pool sees of it: a handle is unbound, live or
reset and has an id; every call may fail. `UpdateHandling` is chosen once, in `Init`. `sync.Pool` is
external: `Get` may return any item or nothing at all, and `PoolDrop` is its garbage collection.
A reset handle reports an id above every committed one, as `mdbx_txn_id` does, so `handleIdle` never
finds a pooled handle stale: the branch that would renew or abort it is modelled and not reached. A
`CommitID` that comes after `abortReadonly` read `lastid` is modelled too and does no harm under the settings of
`pool`: whichever way the test went, the handle is reset or aborted before anybody else gets it.

### Troika and Meta

`meta_tap` reduces the three pages to three txnids and three signs and looks the answer up in
`troika_fsm_map`, 216 bytes indexed by the outcomes of the comparisons. `Troika` has the comparisons,
the answer as `meta_cmp2pack` computes it (`recent`, `prefer_steady`, `tail`), the table, the index and
the unpacking, and says what a right answer is. A page in the middle of an update has two different
txnids and counts as empty (`meta_snap`).

`Mvcc` takes a commit for one step; `Meta` is about what happens inside it and what a crash leaves. A
meta page exists in the page cache (`mem`) and on the disk (`disk`); the kernel may write it back at any
time (`Writeback`), `fsync` and `msync` do so for what they cover, and a write through the `O_DSYNC`
descriptor reaches both. `lck` has `unsynced_pages` (counted to "more than one") and `meta_sync_txnid` with
its mark for a lazy write. One process at a time holds the write lock; `pc` is where it is.

| Code | Actions |
|---|---|
| `env_open`, `dxb_read_header`, `dxb_setup`, `meta_override` | `Open`, `OpenPurge`, `OpenDone` |
| write transaction, spilling | `Begin`, `Spill`, `Abort` |
| `gc_alloc_ex` at the steady point, `meta_wipe_steady` | `MakeSteady`, `WipeSteady` |
| `txn_basal_commit` | `Presync`, `PureCommit`, `CommitWrite` |
| `dxb_sync_locked` | `SyncData`, `SyncDataFails`; `PwriteMeta` or, with WRITEMAP, `InvalidateMeta`, `PublishMeta`, `SignMeta`; `SyncMeta`, `WriteMetaFails` |
| `env_sync`, `meta_sync`, `mdbx_env_close_ex` | `EnvSync`, `MetaSync`, `Close` |
| `mdbx_env_set_flags` | `SetFlags` |
| death of the only process, of one of several, of the system | `Kill`, `OwnerDies`, `SystemCrash` |

Data pages are ghosts. Every write transaction has a number of its own (`gen`), since a txnid is used
again after a rollback. `owner[x]` is the transaction that wrote the pages of txnid x last, `cached` the
transactions some of whose pages may be in the cache only, `lost` those a system crash took pages
from, and `reused` the newest GC record whose pages may have been overwritten on the disk. A snapshot
is intact (`Intact`) when nothing it consists of was lost, overwritten by a transaction it does not
descend from, or reused. The ghosts take the worst case: the kernel may have written more back,
and a transaction may have reused less.

Abstracted: readers (so reclaiming is held back by the last steady meta alone, its latest possible
point), growth and shrinking of the file, `MDBX_AVOID_MSYNC`, read-only and in-core environments, and
manual recovery (`stuck_meta`). When processes share the database, they take turns as writer in one mode.

### BTree, BTreeCursors, OrderedMap

A tree is a record: pages by number, each with its nodes (key, value or child) in the bytes of the
file format, and the stacks of the cursors (`pg`, `ki`, `top`, the flags). `BTree` has one function per
C function: `tree_search`, `page_touch`, `page_split`, `page_merge`, `node_move`, `tree_rebalance`,
`tree_propagate_key`, the cursor moves, each with the loop that repairs the other cursors. `BTreeCursors`
makes the calls of the API its actions (`Put`, `Replace`, `Del`, `CursorPut`, `CursorDel`, `CursorSeek`, `CursorMove`,
`Commit`); a call is atomic, as the application may not use a transaction from two threads.
`OrderedMap` says what the calls promise: a set of rows and, for each cursor, a place that is at a row,
at the last row, in the gap a deletion left, past the end, or none. The refinement mapping is
`seen`: the rows in the leaves and the place each cursor's stack stands for (`TableOf`, `PlaceOf`).
What the code itself checks of a page and of a cursor are the operators `page_check` and `cursor_validate`;
`TreeValid` and `CursorsValid` apply them to every page and every stack.

`BTreeRange` starts from a table that was filled and committed; its steps are `DeleteRange`, `BunchDelete`,
`CursorSeek` and `Scroll`. A range is cut level by level as `cutoff_zikkurat` does it: whole branches from the
level where the two stacks part, then leaves, then rows, with the rebalancing after each. `OrderedMap` promises
the exact range where both cursors are on rows and says what is left open otherwise. `BTreeMeasure` has the functions
that compute from stacks alone; `Measured` compares each of them with a count of the rows, for every pair of
cursors in every state of the table.

Left out: `MDBX_DUPSORT`, large values, `split_reserve`, spilled pages, nested transactions,
the special thresholds of the GC tree.

### Gc, GcDense, GcUpdate, WriteTxn

The state of a transaction is a record `T` whose fields have the names of the code (the header of `Gc` lists
them), and a C function that takes the transaction is an operator from `T` to `T`. The GC is a tree of
two levels whose leaves hold a few records: what matters is which pages an update of it takes and
gives back while the lists are being saved. `gc_update` runs one round of its loop per step (`GcStep`), so that
readers end and spilling happens in between. `WriteTxn` adds `Begin`, the operations on user data (`Put`,
`PutBig`, `Del`, `Update`), `Spill`, nested transactions with checkpoint (`BeginNested`, `CommitNested`,
`AbortNested`, `CheckpointNested`), `Commit`, `Rollback`, `Abort`, and `ReaderEnds`.

### Dbi

Two threads, one with write transactions ("w") and one with read transactions ("r"). `env` is the array of
slots, changed store by store by the holder of `dbi_lock`; each transaction keeps its own states, sequence
numbers and roots. `mdbx_dbi_open` is `ScanSlot`, `MatchName`, `CheckSlot`, `BindSlot`, `ScanEnd` without the
lock and `OpenLocked`, `Store` with it, one `Store` for each field. `Begin`, `Put`, `Drop`, `Get`, `Close`,
`CloseCursor`, `Commit`, `Abort` and `dbi_update` are the rest. `Careful` restricts the application: one set of flags
for all tables, and a reader opens only what its snapshot has, while it holds no cursor. Left out: renaming, nested transactions,
comparators, a main table with `MDBX_DUPSORT`, failing memory allocation.

### Geometry

Sizes are in pages, `OsUnit` of them in a page of the system. `file` is the size of the file, each process has its
idea of the file and of its mapping, each snapshot its geometry. Readers start in two taps (`Seize`, `Publish`,
`Check`, `Setup`); the writer allocates and refunds (`Alloc`, `Refund`), commits (`Commit`, `WriteMeta`) and cuts
(`ShrinkFile`); `SetGeometry`, `SetGeometryInside` and `ResizeNow` are `mdbx_env_set_geometry`; `Open`, `Join` and
`OpenMeta` opening; `Kill` and `PowerFail` deaths. A plan fixes which of these may happen.
A kill between an explicit resize and its meta page (`ResizeNow`, `Killed`) is left out of the plans of the run, as it
breaks `Backed`. Not modelled: the steps inside `osal_mresize` as others see them.

### EnvLock

The two files are inodes in a directory (`dir`, `made`), `locks` the record locks by owner (a
descriptor with OFD locks, a process with POSIX locks), `lck` the contents of the lock region, `rthc` the
holder of the process-wide mutex. `Opening` follows `mdbx_env_open` through `lck_setup`, `lck_setup_locked`,
`dxb_setup` and `lck_downgrade`; `Closing` follows `rthc_remove`, `lck_destroy` and the restoring of POSIX locks in the legacy
mode; `Using` are the steps in operation that matter to the lock region; `mdbx_env_delete` has one action for each
system call; `Kill` closes all of a process at once. Every lock call may fail where `MayFail` says so.
Not modelled: Windows, SysV semaphores, the mode without a lock file, `fork`, `MDBX_ACCEDE`, `lck_upgrade`.

### The algorithms

`Rkl`, `Dpl`, `Scan4seq`, `GeoParams`, `Options`, `NumberKeys`, `Codecs`, `DumpLoad` and `Troika` hold operators only. `MCAlgorithms`
calls them with every argument of small sets, one call a step; the two lists are kept between the
calls beside the set they stand for, and the options of an environment are set one after another while
write transactions come and go and the file is resized. Widths are scaled (`Wide`, `Narrow`, `Big` stand for a 64-bit
and two 32-bit builds), since the code's own are beyond TLC's integers.

## Runs

| Run | Instance and bounds | Shows |
|---|---|---|
| `mvcc` | 2 handles of 2 processes, 1 slot, 3 txnids, 2 rounds of `ro_seize`; one process may crash anywhere | `SnapshotIntact`, `ActiveIsPublished`, `SteadyIntact`, `SlotExclusive`, `CacheIsFresh`, `OldestMonotone`, and under fairness `UnparkResolves` |
| `pool` | 2 goroutines, 2 sweepers, 1 handle, 3 ids; `UpdateHandling` empty, `{Outstanding, Idle}`, `{Outstanding, Renew}` | `OneOwner`, `IdlePinsNothing`, `ViewSeesEarlierCommits`, `ReturnedIsPublished`, and under fairness `NothingStuck` (`CommitIDTerminates` and `GuardReopens`) |
| `meta` | two plans. CrashPlan: durable modes with and without WRITEMAP, single weak transactions, 3 transactions, 2 system crashes, kills without WRITEMAP. KillPlan: all modes and changes between them, kills, failing writes, 2 transactions, no system crash | `HeadIntact`, `DurableSurvives`, `AlwaysOpens`, `NoClash`, `HeadMonotone`, `FallbackMonotone` |
| `tree` | 5 keys of which four fill half a leaf, so that five rows have three levels; one cursor beside those the calls open; commits anywhere | `TreeSound` (`PagesAccounted`, `TreeValid`, `CursorsValid`), and `ImplementsMap`: the whole implements `OrderedMap` |
| `range` | 2 cursors on a table of 6 rows in two levels and on one of 9 rows in three, two rows to a leaf; four choices of range, every action of a bunch, seeking three keys, scrolling by -3 (and by 3 in `Measured`); the table is followed down to 5 rows, or 8 while it has three levels (`Wide`) | `TreeSound`, `Measured`, `ImplementsMap` |
| `tree_split` (violation) | the same with `mdbx_cursor_put` of any key | `CursorsValid` fails, finding 1 |
| `write_txn` | 3 transactions of up to 3 operations, loads of 1 and 130 rows, 2 old snapshots, LIFO and FIFO | `PagesAccounted`, `SnapshotsSafe` (`SnapshotsUnwritten` and `RecordsMature`), `NeverGivesUp` |
| `dbi` | 2 slots, 2 names, 2 tables ever created, sequence numbers to 4 | `HandleSound`, `WritesSurvive` |
| `dbi_wrongflags` (violation) | the same with two kinds of flags for one table | `WritesSurvive` fails, finding 2 |
| `geometry` | 2 processes, files to 8 pages, 4 plans: dying, setting geometry, boundaries hit exactly, setting geometry inside a transaction | `Backed`, `Openable` |
| `env_lock` | OFD locks with one handle in each of two processes and a deleter; OFD locks with two handles in one process and one in another that may be killed; POSIX locks in the legacy mode; each handle is opened up to twice | `InUseIsReady`, `OneDomain`, `ReadersSpared`, `NoHang`, `DeletedIsUnused` |
| `algorithms` | every argument of the sets in `MCAlgorithms`; words of 8 bits as numbers; three steps of an environment's options | `TableInv`, `TextSound` (with the keys made of numbers), `SettingsSound` (geometry and options), `ListsSound`, `DumpLoads` |

Why the bounds are enough. Two handles and one slot make the table full and show a scan meeting a slot that
changes hands; two slots, of which the scan has passed one, are covered by the theorems. Three txnids
let the head move twice while a reader starts, which separates the head it tapped, the head at the retry test
and the head at the scan. The rounds of `ro_seize` (42 in the code) do not depend on each other. In `Meta`
three transactions write every meta page once and let a steady commit, a weak one and a third that
relies on either follow each other; a second system crash hits a rollback or a txnid used again; with two
transactions the other plan still wipes the only steady meta and changes the mode between a commit and
the next. A fresh database has txnids 1 to 3, hence `MaxTxn = 6`. The order of three metas depends on the order of
three txnids only, and `MaxTxn = 5` of `algorithms` has all orders and all distances a commit makes. The tree of
five rows has the least height at which a split and a merge climb through a branch that is not the root. The
nine rows of `range` give a range that takes a whole branch, whole leaves and single rows on both sides of it. A
floating-point number of 8 bits has subnormal and normal numbers, all signs of an exponent and every case of the
rounding; three settings let a limit be set, undercut by another one and adjusted by a resize.
`write_txn` has loads that make the retired list longer than a leaf holds, so that it is stored in large
pages and in several records; the GC tree splits and loses leaves. In `dbi` a slot is used twice, which takes two tables,
and a third table would only repeat it. `Geometry`'s file has every position of the head relative to a
system page and to the growth step. For `Mvcc`, `TxnPool`, `EnvLock`, `Meta` and `Geometry` the theorems below do
without the bounds.

Every property of a passing run has a mutant: a definition the map names is replaced by one with a
plausible mistake (`UnparkStore`, `SeizeNoRetry`, `CommitIDStore`, `SyncMetaNever` and so on, next to the
original) and TLC finds the property violated.

Configurations kept beside the runs:

| Configuration | Shows |
|---|---|
| `MCMvccClone_parked` | a clone of a parked transaction is not marked as parked (observation below) |
| `MCEnvLock_hang` | `NoHang` fails with two handles beside a deleter |

### Fairness

`FairSpec` of `Mvcc` assumes only that a thread inside `txn_ro_unpark` or `ro_slot_clean` goes on
running: these are loops without a wait. `Spec` of `TxnPool` assumes that the Go scheduler runs
goroutines inside `CommitID` and `handleIdle`. Nothing makes the application call `View`, `Update`,
`Renew` or `Unpark`, and nothing makes the writer go on. The other modules have safety properties only;
`NoHang` is the invariant that somebody who waits for a lock waits for one who can move.

### Findings

1. (`tree_split`) In its pure-right case `page_split` copies the indices of the new path into the cursor
   and not its pages (`mdbx.c` 34990). When the parent was split for the separator, the cursor is left with a
   stack that is no path of the tree.
2. (`dbi_wrongflags`) An open that fails because of its flags closes the slot it found (`mdbx.c` 17839), also
   when the running write transaction has changed the table through it: the commit loses the change.

Observations from the models, without a run of their own:

- Readers. `txn_ro_clone` does not raise `rdt_refresh_flag`: with a scan in progress the writer may store an
  oldest above the clone's snapshot. A clone of a parked transaction gets its mark in the txnid field instead of
  the tid field. `mvcc_kick_laggards` returns the answer of the scan before the oust. A writer that dies inside a
  scan, or between its meta and the flag, leaves the flag down over an old `cached_oldest_txnid`; the next owner
  of the lock trusts it until a reader or a commit raises the flag (hence `torn` in `CacheIsFresh`).
- Pool. With `HandleIdle` alone, `handleReadonly` reports "not renewed" both after an abort and when it did
  nothing, so a stale View leaves a live transaction behind: hence the settings of `pool`.
- Durability. With `MDBX_NOMETASYNC` the meta of N may be in the cache only while N+1 writes over the pages N
  retired; a crash leaves meta N-1 with pages missing. The checkpoint of `gc_alloc_ex` is written with
  `MDBX_NOMETASYNC` when `MDBX_SAFE_NOSYNC` implies it. With WRITEMAP a writer killed between the sign of its
  meta and msync leaves a steady head that exists in memory only, and the next writer may reuse pages in front of it:
  hence the plans of `meta`.
- Tables. Without CREATE, `mdbx_dbi_open` of a table that is open in the environment and absent from the
  snapshot succeeds with a stale handle (17818-17824). A reader with a cursor on a slot that was created
  again closes the writer's handle. An aborted rename leaves the new name.
- Lock files. With `MDBX_EXCLUSIVE|MDBX_RDONLY` the locks are for reading and do not keep other read-only
  environments out (26187-26214), although `mdbx.h` 1130-1145 promises exclusive use. With POSIX locks an open that is refused drops the locks of its process's other
  handles (26373). A database can be created while it is being deleted (`mdbx.h` 2592-2594).
- Geometry. Each of the spare plans in `MCGeometry` breaks a property. A transaction that shrinks the geometry and
  aborts leaves the file smaller than the meta says for other processes (`Aborted`). A process that has not noticed
  a cut by another one sets a geometry of the old size: `dxb_resize` finds its `current`, `filesize` and `limit` as
  asked and leaves early (20223), so the meta is ahead of the file (`Stale`). A process dies between the resize
  of `mdbx_env_set_geometry` and the meta page; another one, whose mapping has the old size, does not extend
  the file again (`Killed`). `Openable` fails when a geometry is set inside a transaction below what its head
  needs (`Refunded`), or while the head is weak and the system crashes (`Unsynced`).
- Options. The limit `sync_bytes` is cut to 32 bits of pages (10142-10144). Times read back up to 1/65536 s less than
  they were set. The default of `rp_augment_limit` compares a time in nanoseconds with one in 16.16 seconds
  (9970-9972). A limit of dirty pages set before a resize within a transaction is adjusted at the next begin only.
- Numbers. `mdbx_jsonInteger_from_key` of the key of zero gives INT64_MAX, as `bias - key - 1` wraps (9614);
  INT64_MIN has no absolute value. `NumbersSound` and `IntegersSound` say where the way back is exact.
- Tools. With `SkipOld`, `mdbx_load -N` skips a record it should load; with `WithSpaces`, `mdbx_dump -p` of values with
  a leading space does not load: `DumpLoads` holds without either.
- GC. `consume_remaining` of the dense solver writes one element before its array when the histogram runs out (24160);
  `nested_merge` is off by one (40625-40629).
- Tree. `SET_RANGE` past the end followed by `NEXT` leaves a soft end with an index behind the last node.
- Ranges. A range that begins in the gap a deletion left may leave rows of it, or delete some that are not next to
  each other: `cutoff_storey` asserts that the flags are clear (38031, 37931) and its callers do not see to it.
  `mdbx_cursor_bunch_delete` with `AFTER_EXCLUDING` on a fresh cursor deletes from the first row, where `mdbx.h` 6498
  has `MDBX_ENODATA`. When `mdbx_cursor_scroll` fails
  at a branch, the stack stays cut there (17121-17125). Scrolling back by one from past the end gives the second
  last row, while the distance counts the end as a place; what distance and compare say of a cursor past the rows depends on how it got there.
- Lists. `rkl_push` may leave a duplicate in its list (36062-36066).

## Proofs

The theorems hold for every value of the constants; the only assumptions are the named ones of the modules
(`MvccAssumption`, `PoolAssumption`, `EnvLockAssumption`, `MetaAssumption`, `GeometryAssumption`, `DbiAssumption`), which give the constants their types. What a theorem
restricts beyond that is a condition on the plan, on the settings or on the application, and stands in its statement.

| Module | Theorem | Statement |
|---|---|---|
| `MvccProofs` | `TypeCorrect` | `Spec => []TypeOK` |
| | `SnapshotSafety` | `Spec => []SnapshotIntact` |
| | `PublishedSafety` | `Spec => []ActiveIsPublished` |
| | `SteadySafety` | `Spec => []SteadyIntact` |
| | `ExclusiveSlots` | `Spec => []SlotExclusive` |
| | `OldestNeverFalls` | `Spec => OldestMonotone` |
| | `FreshCache` | `Spec => []CacheIsFresh` |
| `TxnPoolProofs` | `TypeCorrect`, `IdleSafety`, `ViewSafety`, `PublishedSafety` | `Spec => []` of `TypeOK`, `IdlePinsNothing`, `ViewSeesEarlierCommits`, `ReturnedIsPublished` |
| | `SingleOwner` | if `HandleIdle` comes with `HandleOutstanding`: `Spec => []OneOwner` |
| `EnvLockProofs` | `Invariance` | `Spec => []EnvInv` |
| | `ReadersSafety` | `Spec => []ReadersSpared` |
| | `ReadySafety` | `Spec => [](Calm => InUseIsReady)` |
| | `DomainSafety` | `Spec => [](Sharing => OneDomain)` |
| `TroikaProofs` | `NewestTheorem`, `TailTheorem`, `CommitTheorem` | the choice among three metas of any contents |
| `MetaProofs` | `CacheInvariance` | `Spec => []MetaInv` |
| | `HeadSafety`, `DurableSafety`, `OpenSafety` | `Spec => [](boot = 0 => P)` for `HeadIntact`, `DurableSurvives`, `AlwaysOpens` |
| | `HeadAdvances` | `Spec => HeadMonotone` |
| `MetaCrashProofs` | `CrashInvariance` | `Spec => [](Types /\ CrashInv)` |
| | `CrashHeadSafety`, `CrashDurability`, `CrashOpenSafety`, `CrashNoClash` | `Spec => [](Durably => P)` for `HeadIntact`, `DurableSurvives`, `AlwaysOpens`, `NoClash` |
| `GeometryProofs` | `Invariance`, `FileBacked`, `FileOpenable` | `Spec => [](Covered => P)` for `Inv`, `Backed`, `Openable` |
| `DbiProofs` | `Bookkeeping`, `HandlesSound`, `WritesKept` | if `Careful`: `Spec => []P` for `Inv`, `HandleSound`, `WritesSurvive` |

**Reader table.** All theorems of `MvccProofs` follow from one inductive invariant, `IInv`.
`SnapshotIntact` alone is not inductive: a reader may be about to become active, and the writer may hold an
oldest it has not stored yet. The heart of `IInv` is `Pinned`. A reader has *passed* when `meta_should_retry`
found its published head still to be the head, and has not been ousted. A passed reader has its snapshot in its
slot; the cached oldest is not above it; and neither is the oldest of the scan in progress, except where
the pass is still to meet its slot. At the moment of passing this holds since a scan's oldest is
never above the head (`ScanOrder`); afterwards the pass meets the slot. The writer's reset of a "stuck" slot cannot
hit a passed one, as it compares with a txnid below the cached oldest; its oust can, but only while the tid says
parked, and then the reader cannot become active (`OwnerTid`). The rest says who owns a slot (`Owned`,
`SlotExclusive`), orders the txnids (`MetaOrder`) and bounds the loops (`Bounds`).

`CacheIsFresh` needs another invariant, `FreshInv`. A txnid is *held* while a slot in use shows it or it is
that of the preferred meta. While nothing is pending (`Quiet`: the flag is down, nobody is about to raise it, and no
dead process has left something undone) what the scan has found so far, and what was stored, is still held
(`StillShown`): whoever takes it away is a reader that raises the flag next, or one that was ousted and will find out.
A reader may die before it raises the flag; its slot is then stale, and the sweep that frees the slot raises the flag in
its place (`CrashStill`). So the theorem goes on holding after readers died, and after a writer died with nothing
of a scan or a commit in its hands. The two places where nobody makes up for a dead writer, inside a scan and between a
commit and its flag (`Unsettled`), are recorded by the history variable `torn` until the next pass begins; no
action reads it.

**Pool.** The places a handle can be in (the `sync.Pool`, what was dropped, the locals of a goroutine or
a sweep) exclude each other (`Apart`), whoever renews, resets or aborts a handle is the only one to reach it
(`Locals`, `Known`), and a pooled handle is reset (`Idle`). `mdbx_txn_id` of a reset reader is above every id,
so `handleIdle` never finds a pooled handle stale: that the sweeps abort nothing is a by-product.
`SingleOwner` needs the condition on the settings since without it a stale View drops a live handle
(`NoneForgotten` is not invariant).

**Lock files.** Locks of two owners on one byte are both for reading (`Holds`). From `lck_seize` to the end of
its use a handle holds the first byte of its lock file, for writing while it initialises the region, and whoever
empties the file holds all of its bytes for writing; so the region is neither initialised nor emptied under a
user, and what a user found in it stays. `EnvInv` says this for OFD locks, where a lock belongs to a descriptor.
`Calm` is: nobody deletes or is killed and every close syncs; the signature and the mutexes then stay
(`MutexesWork`, `SyncPending`). Where that fails, `InUseIsReady` does too (after a close without a sync) or
relies on robust mutexes outside the model. `Sharing` is: nobody deletes and no handle is exclusive and
read-only at once; the users of one data file then share one lock file and agree on the mode (`Modes`).
Calls may fail under either, and processes may be killed under `Sharing`.

**Meta pages, system up.** `TroikaProofs` proves of any three pages that the head is the newest commit, that
the tail is neither the head nor the steady point, and what a commit into the tail changes. The argument is the
shape of two nested comparisons and a case split on the winner. `MetaProofs` is about every plan while no crash
of the system has occurred (`boot = 0`): the page cache keeps everything, so the newest page in it decides.
Only a page that continues its snapshot is ever put before it (`Continues`), what a transaction writes meanwhile
belongs to the next txnid, and whoever may still commit has a txnid left (`Room`).

**Meta pages after crashes.** `CrashInv` holds for plans that satisfy `Durably`: no flag of an
environment weakens durability, weak transactions are allowed (without `MDBX_NOMETASYNC` under WRITEMAP), kills
without WRITEMAP, fsync does not fail. `CrashPlan` is such a plan. Cache and disk then differ in one page at
most, the one being written (`Files`); both hold a steady page that is not older than any promise, whose data is on
the disk and beyond which nothing was reclaimed (`Good`, `Whole`, `Flushed`); by `TroikaProofs` it is never the
page a commit overwrites. `Calling` follows this through each step of `dxb_sync_locked`, a rollback and an
opening. Kills under WRITEMAP are excluded for the reason in the observations. TLC checks `CrashInv` on
`CrashPlan` and `MetaInv` on `KillPlan` as it does the other inductive invariants on their runs.

**File and mappings.** `Covered` is a condition on the plan: its sizes are as `mdbx_env_set_geometry` rounds them
(`Sane`), and while the file is open a geometry is set only by a process that is alone with it and commits steadily; within a
transaction, only if nothing below the head was given back and, where the mapping may get stuck, no such resize
comes with a cut (`Careful`). Each part excludes a plan that fails (the observations above), so of the run's
plans `Asking` stays with TLC: its processes set geometries side by side, and the bounds of the
run keep it from `Stale`. `Backed` is not inductive: a process that begins a transaction trusts its own idea
of the file where that is large enough. `Inv` says why it may. Between several processes the file is never smaller
than the head says (`Maps`), since only `ShrinkFile` cuts it, after the meta page; with one process the mapping
is never ahead of the file. A cut is pending only down to a size that spares the head and every reader past the check of
its slot (`Spared`), where `Largest` enters, and a reader that registers later takes the head (`Readers`). A weak head may
be dropped at a restart, so a weak commit never lowers `geo.now` (`Transacting`, `Syncing`), the steady
page stays within what was synced (`Pages`), and a cut comes with a steady page.
The arithmetic (`pgno_ceil2os`, `NextStep`, the new geometries of `mdbx_env_set_geometry` and `dxb_setup`) is proved for any
page sizes and steps. TLC checked `Inv` on the plans `Dying`, `Crowded`, `Inside` and two with `given` geometries.

**Handles of tables.** `HandleSound` says nothing while somebody holds `dbi_lock`, so `Inv` says what is true between any
two stores. The holder is in one of three sequences of stores (`Holder`): it closes slots, one after the other; it enrols a table
in a free slot; or it gives up a slot it had poisoned. All other slots are at rest, and no two of them have one name
(`SlotsInv`). What a transaction knows of a slot (`View`) has a sequence number that is not ahead of the slot's, and while
the two are the same the slot is still that of the same table, or about to get a new number (`Shuts`). The one exception is
the slot the transaction itself enrols (`Enrols`), whose future number it has already. A slot that a lock-free
scan remembers as free is not one the transaction could use as it is (`Unusable`), since the scan looks the table up
into that place. For `WritesSurvive`: nobody closes the slot of a changed table (`Changed`), since
`mdbx_dbi_close` refuses to, `mdbx_drop` takes the table away first, and `dbi_update` runs when the transaction is over; so what was
written is still found under the name of its slot (`Writes`), and two changed tables never share a name. `Careful` is
needed: `MCDbi_wrongflags` loses a write without it, and the observations have what happens to a reader
that opens what it cannot see, or that holds a cursor. TLC checked `Inv` on the instance of the run.

Each proof has one lemma per action or group of actions, under it one step per part of the invariant that the
action can disturb, and lemmas about the operators they share (`Intact`, `meta_tap`, the lock tables).

### Checked by TLC only

- `UnparkResolves`, `NothingStuck`: liveness under fairness is outside the prover; so is
  `NoHang`, which speaks of `ENABLED`.
- `FallbackMonotone`: it holds only where no write fails, and its proof needs the order of writes on the disk in plans beyond
  `Durably`. `DeletedIsUnused` concerns deletions, which the proofs of `EnvLock` leave out.
- The tree, the GC and the write transaction: their modules are recursive over pages and lists, and what a
  recursive operator computes for every input cannot be proved here. The same goes for `Measured`, `TextSound`,
  `SettingsSound`, `ListsSound`, `DumpLoads`; `TableInv` (that the table agrees with the comparisons) is a finite fact.
- `Dbi` when the application is not `Careful`; `Geometry` beyond `Covered`.

## Not modelled

- Weak memory: the models are sequentially consistent. The code relies on barriers around the slot, the
  flag and the metas. 32-bit builds, where a txnid is written in two halves (`safe64_*`).
- A reader's tap of the metas torn by an update in the mapping (`Mvcc` lets a start ask for another round at any
  time), manual recovery, the copying, checking and defragmenting of a database, the I/O ring.
- `MDBX_DUPSORT`, large values in the tree, renaming of tables, comparators; nested transactions in `Dbi`.
- The Go handles `Txn`, `Env` and `Cursor` beyond what the pool uses, the registry of callbacks,
  the conversions of durations, values and errors; `mdbxpool` built with the race detector, where nothing is pooled.
- Windows, SysV semaphores, the mode without a lock file.
- The endless repetition of a scan while readers keep starting: the code has no bound for it and no
  property claims one.

## Plan

1. (done) `Mvcc`, `TxnPool`, `EnvLock`, `Meta` with their proofs; `BTree`, `Gc`, `WriteTxn`, `Dbi`, `Geometry` and
   the algorithms with their runs.
2. (done) Proofs of `Backed`, `Openable`, `HandleSound` and `WritesSurvive`.
3. `Copy`: the two threads of a compacting copy. A reader's two taps against an update in the mapping
   (`meta_should_retry`, `coherency_fetch_head`), which justifies `SeizeRetry` of `Mvcc`.
4. The Go handles: `Txn` beside the C handle (`Checkpoint`, `Refresh`, `Amend`), `Env.Close` with its `closeLock`.
