# Verification of BR and TiDB Lightning

TLA+ models of the two programs of this repository, checked with TLC on small
instances and, where it matters most, proved with TLAPS for every instance:

* **TiDB Lightning** (`pkg/lightning`) reads SQL, CSV or Parquet files and
  imports them into a TiDB cluster, mostly through the *local backend*: rows are
  encoded to KV pairs, sorted in local pebble databases ("engines") and ingested
  into TiKV as SST files.
* **BR** (`pkg/task`, `pkg/backup`, `pkg/restore`) backs a cluster up to SST
  files in an external storage, and restores such a backup or a log that TiCDC
  wrote.

Both are concurrent programs whose mistakes lose rows silently: a checkpoint
saved ahead of the data, a flush answered too early, two instances that each
think the other one is the last, a backup that found no gap where there was one.
These are what the modules are about.

`PROJECT.json` lists the components, the runs with their properties, the mutants
(one plausible bug per property that makes TLC find it violated), the source
lines every definition stands for, the hazards and the theorems.

## 1. The system

### 1.1 Parts, state, operations

| Part | Source | State | Operations |
| --- | --- | --- | --- |
| Task metadata (parallel import) | `lightning/restore/meta_manager.go` | SQL table `task_meta`, PD schedulers and configuration, TiKV mode | InitTask, CheckTaskExist, CheckAndPausePdSchedulers, CheckAndFinishRestore, Cleanup, CleanupTask |
| Table metadata (parallel import) | same | SQL table `table_meta`: status, row id range and checksums of each task | InitTableMeta, AllocTableRowIDs, UpdateTableStatus, UpdateTableBaseChecksum, CheckAndUpdateLocalChecksum, FinishTable |
| Table restore | `lightning/restore/table_restore.go`, `restore.go` | table, engine and chunk checkpoints | restoreTable, restoreEngines, restoreEngine, importEngine, importKV, postProcess |
| Chunk delivery | `restore.go` (`chunkRestore`) | chunk offset, writers, disk quota lock | encodeLoop, deliverLoop, maybeSaveCheckpoint |
| Disk quota | `restore.go` | `diskQuotaLock`, `diskQuotaState` | enforceDiskQuota, TryRLock, Lock |
| Checkpoints | `lightning/checkpoints`, `restore.go`, `cmd/tidb-lightning-ctl` | rows (MySQL, glue) or one file | Update, Get, Move, Remove, IgnoreError, DestroyError, listenCheckpointUpdates |
| Local engines | `backend/local/local.go` | engine map, `File` with its mutex and pebble DB | OpenEngine, CloseEngine, FlushEngine, ImportEngine, ResetEngine, CleanupEngine |
| Local writers | same | write batch, open SST, sequence numbers | AppendRows, flushKVs, addSST, ingestSSTLoop, mergeSSTs |
| Range import | same, `localhelper.go` | unfinished ranges, TiKV regions | SplitAndScatter, WriteToTiKV, Ingest |
| PD control | `pdutil/pd.go` | schedulers, schedule configuration | RemoveSchedulers, pause goroutine, undo function |
| BR restore | `task/restore.go`, `restore/` | tables, batches, placement rules, TiKV mode | RunRestore, Batcher, tikvSender, GoValidateChecksum, Split, Import |
| BR backup | `task/backup.go`, `backup/`, `rtree`, `metautil` | range tree, service safe point, meta files | RunBackup, BackupRange, fineGrainedBackup, MetaWriter |
| Log restore | `restore/log_client.go`, `cdclog` | event pullers, KV buffers | RestoreLogData, pullers, doWriteAndIngest |
| Duplicate detection | `backend/local/duplicate.go` | regions to visit, handles to fetch | CollectDuplicateRowsFromTiKV, CollectDuplicateRowsFromLocalIndex |
| Post process | `restore/checksum.go`, `table_restore.go` | GC life time, service safe point | postProcess, Checksum, keeper |
| Lightning server | `lightning/lightning.go`, `common/pause.go` | task queue, current task, pauser | Run, taskLoop, HTTP handlers, Pause, Resume, Wait |
| Source files | `mydump/loader.go`, `region.go` | none across calls | setup, MakeTableRegions |
| Parsers, encoders | `mydump`, `backend/kv` | none across calls | ReadRow, Encode |

### 1.2 How they interact

A Lightning task registers in `task_meta`, pauses PD, and restores its tables
concurrently.  A table registers in `table_meta`, allocates row ids, and opens
one index engine and several data engines.  A chunk of a source file is parsed
and encoded by one goroutine and delivered by another to a writer of its data
engine and a writer of the index engine.  A writer batches rows into SSTs that
the engine's ingest loop numbers, compacts and ingests into pebble.  Independent
of all this, the disk quota goroutine flushes, imports and empties engines while
rows are still written to them.  Every step that may be skipped after a restart
goes to the checkpoint listener.  When the engines are imported the task that
ends last verifies the checksum of the table for all.

A BR restore is a pipeline of goroutines connected by channels: tables are
created, their files' ranges are collected in batches, each batch gets its
placement rules, its regions are split, its files are downloaded and ingested,
and its completed tables are checksummed; the main goroutine waits for the end or
for the first error, and undoes what it did to the cluster.

A BR backup locks its target path, registers a service safe point that a keeper
renews, and backs up one key range after another: every store is asked for the
regions it leads, the answers go to a range tree, and the gaps of the tree are asked
for again until there are none.  Files, schemas and DDL jobs go through a meta
writer that flushes batches of them.  A log restore executes the DDLs of databases
and then replays the events of every table in a goroutine, writing rows to the
regions in batches.

The Lightning process takes tasks from a queue that HTTP handlers change, and can
be paused; after the import of a table its workers compare checksums while a
manager keeps the snapshot from being garbage collected.

### 1.3 What makes it hard

* processes that crash between two durable steps and restart from a checkpoint
  (`TableRestore`, `Checkpoints`, `TableMeta`, `TaskMeta`);
* SQL transactions that are retried by running a closure again that has already
  assigned variables (`TableMeta`, `TaskMeta`);
* batches that finish out of order, and requests that wait for all of the
  earlier ones (`IngestLoop`);
* fields read without the lock that protects their update (`DeliverLoop`);
* a hand-written reader-writer lock (`DiskQuotaLock`) and Go's own used by four
  kinds of goroutines (`LocalEngines`);
* channels, several closers and a cancellable context (`RestorePipeline`,
  `BackupRange`, `TableRegions`);
* regions that split, merge and change leaders between the look at them and the
  request (`RangeImport`, `FileImport`, `LogIngest`, `DuplicateRows`, `BackupRange`);
* one word that is both a state and a spin lock (`Pauser`);
* variables of an enclosing function shared by goroutines (`ChecksumManager`);
* leases that expire when their renewal fails or comes late (`Backup`,
  `ChecksumManager`, `TaskMeta`).

The list of hazards with the lines where they bite is in `PROJECT.json`.

## 2. Modules

All modules keep the control of the code (guards, early returns, the order of
steps, error paths) and abstract its data: a row packet is a number, a checksum
is a count of KV pairs per origin, a configuration is "original" or "paused".
Names of definitions are those of the functions they model wherever TLA+ allows.
A definition whose name begins with `Mut` (`MutualExclusion` apart) is a plausible wrong
form of another one, which `PROJECT.json` names; no specification uses it.
"Edges" are behaviours of the code that a property excludes by an explicit disjunct
or precondition, or that the model contains and no property speaks of.

### TableMeta: the table metadata of a parallel import

Several tasks import into one table.  `meta` and `rows` are the SQL table, `pc`
and `loc` the place and local variables of each task in `restoreTable` and
`postProcess`, `saved` its durable checkpoint, `pend` the updates on their way to
it.  Every SQL transaction is one action (`SELECT ... FOR UPDATE` serialises them);
a commit may fail with a retryable error, and the closure then runs again with the
variables it captured as the first attempt left them.  A crash is possible
anywhere; a restart begins from `saved`.  `remote` counts the KV pairs in the
table per origin, so a checksum comparison is a comparison of what was counted.

What TLC and a close reading show of the edges of the protocol, and why the
properties carry the preconditions they carry:

* the base checksum is taken by the first task only while it is alone.  A third
  task that finished before leaves rows in the table; a second task may import
  before the first has read its base checksum (`EventuallyVerified` asks for a
  table that was empty);
* after a retried commit the closure of AllocTableRowIDs sees its old
  `curStatus`/`newStatus`, and that of CheckAndUpdateLocalChecksum adds to
  `totalKvs` again.  The ranges in the table stay disjoint (`RowRangesDisjoint`
  has no precondition) but the base a task uses may differ from its row
  (`UsedRowIDsDisjoint` asks for `retries = 0`);
* the base checksum is saved through the asynchronous checkpoint channel: a crash
  may lose it;
* a process that dies after FinishTable but before its last checkpoint is written
  finishes the table again when restarted (`redone`).  It has no row then, so nothing
  keeps other tasks from joining, and it may delete the rows of tasks that a later one
  has yet to see: `UsedRowIDsDisjoint` and `FinishCoversAllTasks` ask for `redone = 0`
  too.

### TaskMeta: who pauses PD and who switches it back

`table`, `rows`, `meta` are `task_meta`; `lock` is the row lock of the one
transaction that changes PD while it is open (CheckAndPausePdSchedulers);
`pdCfg`, `paused`, `renew`, `mode` are PD and TiKV.  A PD with temporary
configurations (`ttl`) forgets a pause that is no longer renewed; an older one has
its configuration overwritten for good.  Init chooses which.

Edges: a task that registers between the decision to switch back and the
switching back is unpaused (`after` records those); a restarted task is still
marked as exited, since InitTask is skipped when its row exists; Run switches
TiKV to normal mode at its end whatever the other tasks do; without `ttl` a
transaction that is cut short after it changed PD stores the paused values as the
original ones; a failed attempt of CheckAndFinishRestore leaves
`allFinished = false` behind.

### TableRestore: checkpoints of one table against its data

The life of one table in one task with the local backend.  Each packet of a chunk
is tracked on two sides (data and index) in writer memory, engine directory and
TiKV.  `db` is the durable checkpoint, `mem` the one in memory, `diff` and `upd`
the updates on their way.  A crash loses memory; cancellation ends gracefully
(saveCheckpoint of what is synced); imports fail; the disk quota imports and resets
engines meanwhile; `tidb-lightning-ctl` ignores or destroys error checkpoints.

Edges: an engine whose meta key on disk still says "empty" after a crash is
passed over by ImportEngine although it holds ingested data (the violation run
below); restoreEngine can return while checkpoints of its chunks are still in
`chunkCpChan`, whose loss makes the local checksum of a restarted table short
(`LocalChecksumIsExact` is stated for engines of one chunk); a crash after the
engine directory was removed and before `Imported` was saved is refused by
verifyLocalFile at the restart.

### DeliverLoop: one chunk against the disk quota

The deliver loop, its two writers with their flush in four steps (FlushStart,
FlushAdd, FlushSeq, FlushEnd), the engine's SSTs, and the disk quota check that
flushes the same writers.  IsSynced reads `batchCount` and `lastMetaSeq` one after
the other without the writer's mutex: the order in which a flush assigns them
decides whether a checkpoint can run ahead of the data.  With the unsorted writer
it cannot; with the sorted one, which resets `batchCount` before addSST has
returned the new number (`local.go:2868`), it can, although `restore.go:2083` says
"In local mode, we should write these checkpoint after engine flushed";
`SavedIsIngested` is therefore stated for the unsorted writers, and the run has
chunks of both kinds.

### IngestLoop: from SSTs to the engine's pebble DB

ingestSSTLoop with its reader, the batching by CompactThreshold, the workers, the
heap of sequence numbers that finished early, the queue of waiting flushes,
CloseEngine, ingest errors and a cancelled context.  Edge: on a context that is
cancelled from outside, addSST numbers an SST, does not send it, and returns no
error; the two safety properties exclude that configuration and say so.

### SSTMerge: write batch and compaction

appendRowsUnsorted with its sorted flag, flushKVs, and mergeSSTs over the heap of
iterators.  Edges: the flag compares the first new key with the last slot of the
preallocated array instead of the last row appended (`local.go:2782`), so an
unsorted batch may be flushed as sorted when several AppendRows fill it
(`SSTsSorted` is stated for `limit = 0`); mergeSSTs meets a duplicate key with
`continue` before it fetches the next one (`local.go:3168`) and never ends
(`DistinctMergeEnds` is stated for distinct keys).

### LocalEngines: the engine map and File.mutex

The owner of each engine, the disk quota check, a FlushEngine caller and the
ingest goroutine of each engine share `local.engines` and `File.mutex`, modelled
as Go's RWMutex (a pending writer keeps new readers out).  Panics on a nil DB or a
nil context are states of the model: EngineFileSizes may read the DB of an engine
being cleaned up, ResetEngine may create a DB after CleanupEngine, FlushAllEngines
uses the nil context of an engine reopened after a restart.

### DiskQuotaLock

`diskQuotaLock` of `restore.go`, one action per atomic operation.

### Checkpoints

The three drivers, the coalescing listener, the producers, waitCheckpointFinish,
cleanCheckpoints and the control commands.  A Move of the SQL drivers and the
rename of the file driver are two steps, so a crash may come between.  Edges: the
file driver assigns the allocator base instead of keeping the greater one; a
failed SQL Update drops its batch; the glue driver does not save the table
checksum, and its Get of a missing table returns an empty checkpoint.


### RegionCluster and RangeImport: an engine goes into TiKV

`RegionCluster` is the TiKV cluster as the importing programs see it (external:
modelled from the answers the code handles).  Regions have a key interval, an
epoch version and a leader; they split, merge and change leaders between any two
requests, requests fail, or fail after they were executed.  Every such mishap is
taken from the budget `trouble`.

`RangeImport` extends it with `ImportEngine`: the engine is cut into ranges, the
regions are split at their ends (SplitAndScatterRegionByRanges with its own
retries), each range is written and ingested region by region in a goroutine of
its own, and the rounds repeat until `finishedRanges` covers everything.  The pure
algorithms splitRangeBySizeProps, sortAndMergeRanges and filterOverlapRange are
operators.  A pair has two column families, that is two SSTs, ingested in one
request or one by one (`supportMultiIngest`).

Edges: without multi-ingest the error of an SST that failed `maxRetryTimes` is
overwritten when the next SST succeeds and the range is recorded as finished
(`local.go:1832`; excluded in `SSTPassedOver`); `codec.EncodeBytes` appends, so the
loop at `localhelper.go:132` looks up every range but the first with a wrong key and
finds that it needs a split, which costs a request and no more; when a split is
retried only the neighbourhood of the failed keys is scanned, and the first range
may then not be found, which makes ImportEngine start the split again; a cancelled
goroutine reports no error, and the cancellation surfaces in the next round.

### DuplicateRows: duplicate detection

Extends `RegionCluster`.  The manager cuts the key range of a table, or of one of its
indexes, at the regions of the moment, opens a stream to each leader, keeps the
regions whose stream failed for the next round, and fetches the rows an index's
duplicates point to; the duplicates of the local store go the same way.

Edges: getValues takes the empty end key of the last region for the smallest key
(`duplicate.go:411`, the violation run `duplicate_rows`); the handles of the last
round are dropped when their fetch fails (`:171`, `:243`); a region that was split
while its stream failed is asked again only in part (`shrunk`); the batch is not
reset after it was fetched (`:405`), which fetches rows twice; the loop at `:376`
goes on after a success.

### FileImport: backup files go into TiKV

Extends `RegionCluster` and `RangeTree`.  MergeFileRanges, RegionSplitter.Split with
rewrite rules, and one Import per group of files: scan, download by the peers of a
region, ingest, with the answers of TiKV that retry one region, the file, or nothing,
and the backoffers that end it.  A key is a prefix (table and kind) and a suffix, so
that rewriting and splitting at prefixes are arithmetic.  Raw restore has no rules
and cuts files at the range asked for.

Edges: a region in which one file of a group has no key is left out for all files
of the group (`import.go:333`); the rule of a region is chosen by its start key alone
(`:449`).  `RestoreIsComplete` is therefore stated for keys held by all files of a
group and for clusters without merges.  `errSplit` stays set once a split failed
(`split.go:132`, `:168`); RestoreRaw passes the key count twice to MergeFileRanges
(`restore_raw.go:119`).

### LogRestore and LogIngest: a log is replayed

`LogRestore` is the goroutine of each table with its puller over files in the order of
their names, the buffer, DDLs under one lock and the reload of the table info.  Its
properties compare it with a replay of all events by timestamp.  `LogIngest` extends
`RegionCluster` with one call of writeRows.

Edges: the info of a truncated table is not found again and the error returned is nil
(`log_client.go:456`); an error between Lock and Unlock of `ddlLock` leaves it locked
(`LockLeaked`); an empty log file is never passed (`puller.go:64`); a reused slot keeps
the operation of the pair it held before (`ingester.go:400`, `OperationsMixed`);
the last pair of a full region is taken for the exclusive end of what remains
(`RegionFull`); an SST that failed too often is passed over when the next one
succeeds (`SSTPassedOver`).

### RangeTree, BackupRange and RangeBackup: the backup of a key range

`RangeTree` holds the operations of `rtree.RangeTree` on sets of ranges.  `BackupRange`
extends it and `RegionCluster` with pushBackup (a sender per store), SendBackup with its
retries and responses, and the rounds of fineGrainedBackup with workers, channels
and sleeps.  `RangeBackup` is what it promises: it fails, or hands over ranges that
cover each key of the request exactly once and nothing else.  The property
`BacksUpRange` is the refinement: the files handed over are the tree once the outcome
is "ok", and none before.

Edge: for a request from the empty key whose tree is empty, GetIncompleteRange finds
no gap (`rtree.go:211`, the violation run `backup_raw`).

### Backup: a backup task

RunBackup and RunBackupRaw from the lock file to the last write, with the meta writer
in both versions of the meta format, the safe point keeper and FastChecksum.
BackupRange is used through what `RangeBackup` promises.  A crash is possible
anywhere, and a second attempt at the same path.

Edges: after a cancellation Send drops what it is given; a failed flush of DDL jobs
is not reported (`ddlLost`); the writer may wait for ever to report a failed flush
(`WriterStuck`), and FastChecksum for a reader that failed (`validate.go:35`); a failure
of RemoveSchedulers returns nil (`backup.go:308`); requests of the fine-grained phase
do not carry the raw flag and column family (`client.go:768`); the check of the lock
file and its creation are two steps.

### RestorePipeline: br restore

The main goroutine of RunRestore and ten others (creating tables, attaching file
ranges, batching, the auto-commit and the send worker of the Batcher, splitting,
restoring, cleaning up, checksumming, and the ticker that keeps TiKV in import
mode), with the channels between them, the placement rules of an online restore
and the schedulers of PD.  A batch restores some ranges of some tables; splitting
and importing it is one step that succeeds or fails.

Edges: the select of RunRestore may find an error and the end of the pipeline at
once and pick the end (`raced`); after a cancellation workers may end without an
error (`pipeline_items.go:229`, `:253`) and the pipeline finishes, hence
`~cancelled` in `SuccessIsComplete`; when restorePreWork fails RunRestore returns before the
post-work is deferred, against its comment ("Always run the post-work even on
error, so we don't stuck in the import mode or emptied schedulers",
`restore.go:374`); `hasTable` is a map used by two goroutines without a lock, which
is a crash the model contains (`ConcurrentMap`); a table whose rule could not be set
stays in `hasTable`; the cleaner reports its end before the manager is closed, so a
table may still enter afterwards; a request for import mode under way when TiKV is
switched back is undone only by TiKV's own timeout; Batcher.Close blocks for ever
when the auto-commit worker was ended by the context (it is called by the feeding
goroutine; the main one returns).

### SourceFiles and TableRegions: what the source is cut into

`SourceFiles` holds the loader (files are filtered, sorted by kind, routed and put
into databases and tables) and the cutting of one file into regions as operators;
`TableRegions` adds the goroutines of MakeTableRegions.

Edges: the count that decides whether a database was "entirely routed away" leaves out
its views and data files (`loader.go:354`), so its schema file may be dropped too
early; `fileChan` is not closed on an early return (`region.go:203`), which
leaves workers behind but lets the caller return.

### Pauser and Gate

`Pauser` has one action per atomic operation; `Gate` is what it promises: who arrives
while it is closed is held until it is opened once or gives up.  `IsAGate` is the
refinement: the gate is closed while the word says paused, or is locked by anyone but
a cancel that found it running, and it holds the waiters of the map and those that a
Resume has taken out and not yet let go.

### LightningServer

The run loop, the config list, the handlers that queue, move, delete, pause and
resume, the progress of the web interface, and the stop.  The pauser is used
through `Gate`.

Edges: a signal that comes before the task's cancel function is in place is missed
(`SignalMissed`); a failed task closes the pauser for those that follow
(`lightning.go:208`).

### ChecksumManager: post process and the garbage collector

The workers of postProcess with either manager: the service safe point with its
keeper and time to live, or the counted change of `tikv_gc_life_time`.

Edges: the goroutines of the final phase share one `err` (`restore.go:1451`, the
violation run `checksum_at_last`); an error of DoChecksum is dropped and its nil
result used; an update of the life time that fails leaves it raised (`unrestored`).

### Proof modules

`TableMetaProofs`, `TableMetaSafeProofs`, `CheckpointsProofs`, `CheckpointsSoundProofs`,
`LocalEnginesProofs`, `PauserProofs`, `DiskQuotaLockProofs` and `BackupRangeProofs` extend
their components and hold nothing but lemmas, inductive invariants and theorems
(section 5).

### Run modules

`LocalEngines` is checked as it is.  The other passing runs check several components
each.  In their modules (`MCImportMeta`, `MCTableImport`, `MCWritePath`, `MCTableData`,
`MCRegions`, `MCTasks`, `MCServer`) the variable `part` is chosen initially and never
changes: a behaviour is one of that component, and the variables of the others keep
an initial value.  The next-state relation is the disjunction of the components',
each guarded by its `part`; fairness is that of the component, subscripted with its
own variables.  A component with theorems is extended, so that TLC evaluates its
assumptions and checks the very definitions the theorems name; the others are
instantiated.  The remaining `MC` modules define plans: the initial situations of one
component, or of those that `MCRegions` instantiates (`MCRegionPlans`).

## 3. Runs

| Run | Components and instance | Distinct states |
| --- | --- | --- |
| `importmeta` | `TableMeta` (2 tasks, 2 chunks each, empty or filled table), `TaskMeta` (2 tasks, both kinds of PD); 1 crash, 1 retried commit | 185,216 |
| `tableimport` | `TableRestore` (plans of one table: 2 engines, 2 chunks, every fault), `DeliverLoop` (3 packets, 2 quota checks, 1 foreign SST, both kinds of writer) | 1,186,736 |
| `writepath` | `DiskQuotaLock` (3 readers, 2 writers), `IngestLoop` (2 workers, 1 flush, 1 close, errors, cancellation) | 226,195 |
| `localengines` | 2 engines (new or recovered), 1 quota check, 1 flush | 308,501 |
| `tabledata` | `Checkpoints` (3 drivers, 2 engines, 1 fault, 1 command), `SSTMerge` (4 keys, up to 5 rows), `SourceFiles` and `TableRegions` (2 workers) | 671,864 |
| `regions` | `RangeImport`, `FileImport`, `LogIngest`, `DuplicateRows`, each with plans of a few keys in a few regions and their own mishaps | 166,268 |
| `tasks` | `BackupRange` (4 keys, 2 stores), `Backup`, `RestorePipeline`, `LogRestore`, each with plans of faults | 285,614 |
| `server` | `Pauser` (3 goroutines, 2 calls each), `LightningServer` (2 clients, 2 requests), `ChecksumManager` (2 tables) | 408,366 |
| `tablerestore_skipped` | expected violation (section 6) | |
| `backup_raw` | expected violation | |
| `checksum_at_last` | expected violation | |
| `duplicate_rows` | expected violation | |

What each run shows is said in `PROJECT.json` (`about`) and in the comment above each
property.  A property that is the conjunction of several (`TableMetaIsSafe`,
`BackupIsGuarded`, ...) names them in its definition; those are stated and commented in
the component's module.  Every property has a mutant that breaks it.

**Bounds.**  The interesting cases need two of everything: two tasks to race for
being last, two batches to finish out of order, two engines that share a
checkpoint, two regions so that one can be stale while the other is written, two
tables that share the GC life time.  One crash, one retried commit, or one failure is
enough to separate any two steps, since it may come at every point; the constants
that bound them (`MaxCrash`, `MaxRetry`, `MaxTrouble`, `MaxQuota`, `Calls`,
`ClientRequests`, `MaxNow`, the fields of a plan) are named in the guards.  Retry limits
are 2 instead of 5 or more, so that exhausting them takes few failures.  Plans pick
combinations in Init that together reach every action; the product of all of them
is larger than TLC can explore in a few minutes, so an interaction that needs two
faults no plan combines is not covered.

**Deadlock** is checked in `tableimport`, `writepath`, `localengines` and `regions`.  In the
other runs there are components that really stop: their processes exit, or wait for
ever at one of the edges above.

## 4. Fairness

Liveness is checked under weak fairness only; failures, crashes, cancellations and
mishaps of the cluster are never fair, and callers are not forced to call.

* One condition per goroutine, because Go schedules every runnable goroutine:
  `DiskQuotaLock`, `IngestLoop`, `LocalEngines`, `TableRegions`, `Pauser`, `BackupRange`,
  `Backup` (main, the meta writer, and the jobs together), `ChecksumManager` (each
  table), `LightningServer` (the main loop, the shutdown, and the second half of a
  delete), `Checkpoints` (saver and waiter).
* `TableMeta`, `TaskMeta`: each task takes its steps, and a task that stopped is
  started again (the errors of AllocTableRowIDs ask for that).  In `TaskMeta` the
  import itself ends (`ImportEnds`) and time passes in PD and TiKV (`PauseExpires`,
  `ImportModeExpires`).
* `RangeImport`, `FileImport`, `RestorePipeline`, `LogRestore`: the disjunction of all
  program steps, that is, some goroutine that can go on does; in `RestorePipeline`
  also TiKV's own timeout that ends import mode.  `LogIngest`, `DuplicateRows` and
  `SSTMerge` are sequential.

`TableRestore` and `DeliverLoop` check safety only.  Liveness excepts the edges where the
code does wait for ever: `Backup` a stuck meta writer or checksum reader,
`LogRestore` a leaked `ddlLock`, `LightningServer` a missed signal and a closed pauser.

## 5. Proofs

TLAPS checks the following for every value of the constants that satisfies the
named assumptions: any finite set of tasks and any number of chunks, retries and
crashes (`TableMetaAssumption`); any number of engines, rows, faults and commands, with
any of the drivers (`ConstantsAssumption` of `Checkpoints`); any set of engines that is
not empty, any number of rows, quota checks and flushes (`EnginesAssumption`); any set of
goroutines and calls of the pauser; any finite set of readers below
`diskQuotaMaxReaders` and any set of writers (`LockAssumption`); any key space
(`BackupAssumption`).  A leaf of a proof names the prover Zenon where that one finds it.

**TableMeta.**  `TypeCorrect`: the type invariant.  `Invariance`: the inductive
invariant `TableMetaInv`.  `OneChecksuming`, `RangesDisjoint` and `Frozen` follow from
it.  That at most one row is "checksuming" is not inductive: a task could be about
to start importing while another one is about to be the last.  `TableMetaInv` adds

* `ProgressInv`: what the place of a task in the program and its durable
  checkpoint say about its row, so that a restarted task continues in a status
  the others can rely on;
* `ImportingInv`: a task that may still add data has a row that says
  `restore_started`;
* `ChecksumingExcludes`: while a row is checksuming, no row belongs to a task that
  is importing or has been given row ids.

The step of AllocTableRowIDs keeps the ranges disjoint because a new range begins
at the greatest end in the table (`LeastNat`, `AllocStep`); the step of
CheckAndUpdateLocalChecksum becomes "checksuming" only if every other row is past
importing (`LastOneStands`, `CheckStep`), including when the closure is run again
with stale variables.  The frozen data (`FrozenWhileChecksuming`) is an action
property that follows from `ImportingInv` and `ChecksumingExcludes` in one step.

`Safe` (`TableMetaIsSafe`) and `FinishCovers` (`FinishCoversAllTasks`) need to know what
the tasks have done that no longer have a row.  `SafeInv`, inductive together with
`TableMetaInv`, adds

* `CleanupInv` (while no commit is retried): the status of a row says what its task has
  done also after a crash, and skipped rows are never left alone, so that somebody is
  still to clean up;
* `DoneInv` (and no finished task was restarted): whoever has no row any more is done,
  and nobody who still waits to check is beside a checksuming row;
* `RowIDInv`: the row ids of a task are known to the others from its row, and, from
  before that row can be deleted, from the next row id of the table as well
  (AlterAutoIncrement); a row that was given its range later starts above them.

Proving `RowIDInv` is what showed that `redone = 0` is needed; TLC's instance, with one
crash, could not tell.

**Checkpoints.**  `Sound` (`CheckpointsAreSound`) and `Forwards` (`ProgressKept`).  That what
is on disk is a state of the import is not inductive: the disk is written from an update
that was merged from others, some of them not yet taken by the saver, and a crash may
leave the file driver's copy and its file apart.  A position or status goes through four
places: the coalesced diff, the update being saved, the store of the driver, and the
disk.  `Pos2`, `Pos3`, `Eng2`, ... are what the places add up to, from the store on, and
`IInv` says of each engine and of the table that

* no place is ahead of the one before it (`ChainInv`, `StatusInv`);
* as long as no update was lost, what they add up to is at each place a state the import
  went through (`GoodInv`; `Snap` says what such a state is), and the last one is where
  the import is, up to the row that is being delivered;
* the base of the allocator is covered before a position that needs it, in each place
  (`BaseInv`);
* the counter of `checkpointsWg`, the token and the place of the saver agree, so that
  nothing is in the diff or in the saver when the wait is over (`SaverInv`);
* the temporary file, the file and the copy in memory agree except between the two steps
  of a save (`FileInv`), and the disk is sound (`DiskInv`), also between the steps of a
  Move.

A step of a producer changes one place and one engine (`EngineStep`), Swap moves one place
on, and an Update makes the store what the update added up to (`Absorbs`); a crash, a
restart and a command start again from the disk.  `Forwards` compares two states of the
disk and follows from `ChainInv`.

**LocalEngines.**  `RowsAreKept` (`RowsKept`).  The four places of a row (writer, ingest
goroutine, engine, TiKV) add up to what was written (`Kept`), but CleanupEngine and
ResetEngine delete an engine, and nothing in the engine says that its rows are in TiKV.
`OwnerInv` says what the owner has done to the engine at each of its steps, and why an
engine that is closed or being imported may be skipped by tryRLockAllEngines; `QuotaInv`
that from FlushAllEngines on no engine holds rows that a reset would delete;
`LockedInv` that diskQuotaLock is held from then on.

**Pauser.**  `SpinLockExcludes`: at most one goroutine is between the swap of the word and
its store (`SpinLockInv`, inductive).  `PauserIsAGate`: from it, that every step is a step
of `Gate`, or a stutter, under the mapping of section 2.  Most steps are stutters;
the gate opens when Resume stores "running", and lets go at once all those it has taken
out of the map, although their channels are closed one by one later.

**DiskQuotaLock.**  `LockExcludes`, `LockRestores` and `LockTypes` from `LockInv`.
Exclusion alone says nothing about the counters.  `LockInv` says what they mean in
each phase of the writer: `readerCount` is the number of readers inside, less
`diskQuotaMaxReaders` once a writer is announced; `readerWait` is the number of
active readers minus those the writer has not yet added (`WaitInv`); the holder of
the inner mutex is the one writer that is not out (`WOwner`).  Cardinalities are
handled in `PhaseCard`, `PhaseAdd` and `DisjointCard`.

**BackupRange.**  `TreeStaysDisjoint` and `BackupRangeImplements`: the refinement of
`RangeBackup`, for every `KeyEnd`, any plans, retry limits and histories of the
cluster.  `BackupAssumption` says that plans lie in the key space and are not empty;
`BackupRangeImplements` also assumes `FromAKey`, that no request begins at the empty
key.  Without it the theorem is false, which is the run `backup_raw`; the run `tasks`
has `FromAKey` as an assumption TLC evaluates.

That the result covers the request is not inductive: nothing in the tree says where
its ranges came from, and nothing says that an empty list of gaps was computed from
the tree that is handed over.  `IInv` adds

* `RequestOK`, `ClusterOK`: the request lies in the key space and regions are not empty;
* `SendersOK`, `AnswersOK`: every range asked of a store, and every answer on its way,
  lies inside the request;
* `TreeOK`: so do the ranges of the tree, they are not empty, and they are disjoint;
* `StageOK`: nothing is incomplete once the main goroutine is about to hand the tree
  over, and there is no outcome before it is done.

Update keeps the tree disjoint because getOverlaps returns all ranges that meet the
new one (`UpdateDisjoint`, which needs a disjoint tree to begin with: Find looks at one
range only).  The step that succeeds is the one that finds no incomplete range;
`NoGap` shows that then the ranges cover the request: were a key not covered, the
first range that starts behind it, or the end of the request when there is none,
would be behind a gap; `SentCovers`
and `StepPromised` turn that into a step of `RangeBackup`.  TLC checked `IInv` as an
invariant of the runs' instance before it was proved.

**Only model-checked**: every liveness property (fairness and ENABLED are out of
the prover's reach), the recursive and folded algorithms (`RangeImport`, `SSTMerge`,
`SourceFiles`, `FileImport`), and the invariants of the other modules.

## 6. Findings

* `tablerestore_skipped`: chunk checkpoints are saved when their SSTs are ingested, but
  the engine's meta is written only when it is flushed.  After a crash in between the
  engine is loaded with `TotalSize` 0, ImportEngine skips it as empty, its data is
  deleted, and only the final checksum notices.  `local.go:136` says these fields
  "should be written to disk when we update chunk checkpoint".
* `backup_raw`: `push.go:85` says of a store that cannot be reached "The regions managed
  by this store can be retried at fine-grained backup then."  For a raw backup from
  the empty key that got no answer, GetIncompleteRange returns nothing
  (`rtree.go:211`), and the backup succeeds without a file.
* `checksum_at_last`: `tidb-lightning.toml:265` says "if checksum fails, lightning will
  exit with failure."  The goroutines of the final phase assign the `err` of the
  enclosing function and read it back (`restore.go:1451`), and another one may
  assign nil in between.
* `duplicate_rows`: `backend.go:200` says of duplicates "We will store the duplicate
  keys which may be repeated with other keys in local data source."  getValues skips
  the last region, whose end key is empty (`duplicate.go:411`).

The other edges named in section 2 are excluded by an explicit precondition or are
contained in the model without a property that speaks of them.

## 7. Not modelled

Listed with reasons as components in `PROJECT.json`.  In short:

* external storage, parsers, encoders, configuration, command lines, logging and
  metrics are I/O or data conversion without protocol state;
* restoring schemas and system tables, the pre-checks and the target database are
  sequential statements on one session; those that decide something another
  component sees are steps of that component;
* the importer, tidb and noop backends send one request per call with a plain retry
  loop; generated code and mocks are left out;
* inside modelled components: scattering, which only waits, statistics, TiFlash
  replicas, the null checkpoint driver and CSV dumps, byte encodings of keys.

The components of one run do not interact in it.  Where one uses another it uses what
the other promises (`Backup` and `RangeBackup`, `LightningServer` and `Gate`) or its
outcome as a choice (`RestorePipeline` and `FileImport`); the product of two detailed
components is beyond TLC.
