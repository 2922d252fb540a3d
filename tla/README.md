# A TLA+ verification of Feast

Feast is a feature store: a registry of feature definitions, offline stores that
hold their history, online stores that serve their latest values, and servers and
command-line tools around them. This directory models the parts of it in which
several actors share state, where a crash or a failure between two steps leaves
something behind, and where the order of calls matters.

* [The system](#the-system): the inventory of components
* [The modules](#the-modules): which module models which code, and how
* [Runs](#runs): what TLC checks, with which bounds and which fairness
* [Proofs](#proofs): what TLAPS proves, and along which argument
* [Where code and documentation disagree](#where-code-and-documentation-disagree)
* [What is not modelled](#what-is-not-modelled)
* [Plan](#plan)

Paths are relative to the repository's root; `feast/` abbreviates
`sdk/python/feast/`.

## The system

| Component | Code | State | Operations | What is hard about it | What makes it correct |
|---|---|---|---|---|---|
| Offline write batcher | `feast/feature_server.py`, `OfflineWriteBatcher` | a buffer per batch key, the keys in flight, the time of the last flush, a stop event | `enqueue`, `flush_all`, `shutdown`, the loop of the background thread, the flush all of them share | three kinds of threads meet in one flush; a flush may fail in the middle of a push to several feature views; shutdown gives up waiting | no frame is lost, duplicated or reordered on its way; nothing full stays behind; everything is delivered in the end |
| SQL registry | `feast/infra/registry/sql.py` | one table per kind of object, `feature_view_version_history`, `projects`, `feast_metadata` | `apply_*`, `delete_*`, `apply_materialization`, `mutate_project`, `delete_project`, teardown | one apply is four to six transactions; several processes apply at once; a process may die between two of them | history is append-only, a pinned view is its snapshot, numbers are assigned once |
| File registry | `feast/infra/registry/registry.py`, `file.py` | one proto in a file, a copy in each process, with a time of load and a modification time | `apply_*`, `delete_*`, `commit`, `refresh`, `_get_registry_proto` | a reload replaces uncommitted changes; two processes overwrite each other's file; a crash truncates it | a committed change survives, histories do not mix, every copy ends up as the file |
| Caching registry | `feast/infra/registry/caching_registry.py` | the cached proto, its creation time, a refresh lock, a timer | reads with `allow_cache`, `refresh`, the timer, the refresh after a write | readers that lose the lock answer from the expired cache; refreshes overtake each other | one refresh at a time, the lock always comes back, readers converge on the database |
| Materialization | `feast/feature_store.py`, `feast/feature_server.py`, `feast/feature_view.py` | each view's state, its materialization intervals | `materialize`, `materialize_incremental`, `set_feature_view_state`, the `/materialize` endpoints | jobs of several views in one call, any of which fails; a server that dies while a view is MATERIALIZING; two requests for the same view; threads that share a copy of the registry file without a lock; engines that do not wait for their jobs | a view leaves MATERIALIZING, an interval is recorded only for a job that was not reported as failed, no two jobs run for one view |
| Apply pipeline | `feast/feature_store.py` `apply`, `feast/repo_operations.py`, `feast/diff/` | registry, infrastructure | diff the registry, update the infrastructure, write the registry | infrastructure and registry are updated in separate steps, without locks | infrastructure and registry agree afterwards |
| Project metadata and data catalog | `mutate_project` and `_cas_touch_project` of `feast/infra/registry/sql.py`, `feast/api/data_catalog/` | the row of `projects`, whose tags are collections and labels; `saved_datasets` | compare-and-swap with 16 attempts; create, change and drop collections, labels, tables and volumes | two tables kept consistent without a common transaction; writers that do not compare; requests that die halfway | every request is as if it were one step |
| Go feature logging | `go/internal/feast/server/logging/` | a channel and a buffer per feature service, one directory of files for all | `EmitLog`, the goroutine that buffers, writes and flushes, `Stop` | tickers, signal and channel are chosen between at random; failed writes are repeated; panics restart the loop | a log is stored once; `Stop` writes what is buffered and returns |
| Go registry cache | `go/internal/feast/registry/registry.go` | the cached registry, its TTL | the refresh loop, getters | requests use several getters, a refresh may come between | readers see one registry |
| Feature server | `feast/feature_server.py`, `feast/utils.py`, `feast/vector_store_utils.py` | the store, the registry refresh timer, the batcher, a cache of resolved requests, an index of vector stores | `/push`, `/write-to-online-store`, `/get-online-features`, refresh timer, lifespan | `stop_refresh` races the timer it re-arms; a request is resolved while the registry is replaced | the timer stops; answers and index follow the registry |
| Dataset and monitoring jobs | `feast/dataset_job_manager.py`, `feast/monitoring/` | job records | submit, poll, expire | a job that ends while it is polled | one final state per job |
| Labelling | `feast/labeling/` | label views, conflict policies | write labels, resolve conflicts | the result depends on arrival order unless the policy fixes it | the policy's winner, in any order |
| Pure algorithms | `feast/infra/key_encoding_utils.py`, `feast/infra/online_stores/helpers.py`, `feast/aggregation/`, `feast/version_utils.py` | none | entity key encoding, tiling, version strings, versioned table names | boundary cases | agreement with a reference definition |
| Offline stores, online stores, compute engines | `feast/infra/offline_stores/`, `feast/infra/online_stores/`, `feast/infra/compute_engines/` | external databases | queries, reads, writes | behaviour of the database | -- |
| Permissions, audit | `feast/permissions/`, `feast/audit_logger.py` | policies | decision strategies | combination of policies | the strategy's definition |
| Operator, UI, Java, protos | `infra/feast-operator/`, `ui/`, `java/`, `protos/` | Kubernetes objects, browser state | -- | -- | -- |

How they interact: the feature server calls `FeatureStore`, which calls a registry, a
provider and its engine, and the offline and online stores. The registry is shared
between processes (a SQL database or a file); everything else is shared between the
threads of one process: the event loop, the request and materialization thread
pools, the batcher's thread, the refresh timers.

## The modules

| Module | Models | Role |
|---|---|---|
| `OfflineWriteBatcher` | class `OfflineWriteBatcher` of `feast/feature_server.py` and the `FeatureStore.push` it calls | component |
| `OfflineDelivery` | what the batcher promises | abstract specification |
| `MCOfflineWriteBatcher` | instances | model checking |
| `OfflineWriteBatcher_proofs` | types, conservation and the refinement of `OfflineDelivery` | proofs |
| `OfflineWriteBatcherFlush_proofs` | order of writes, full buffers, shutdown and time | proofs |
| `SqlFeatureViewVersions` | `apply_feature_view`, `delete_feature_view`, `delete_project` of `feast/infra/registry/sql.py` | component |
| `MCSqlFeatureViewVersions` | instances | model checking |
| `SqlFeatureViewVersions_proofs` | histories, pins, version numbers; one client; retries | proofs |
| `Materialization` | `materialize`, `materialize_incremental`, `set_feature_view_state` and the `/materialize` endpoints | component, composed with both registries |
| `MCMaterialization` | instances | model checking |
| `Materialization_proofs` | what is recorded was written; reservations, and that they are given back | proofs |
| `DataCatalog` | `mutate_project`, `_cas_touch_project`, `_apply_object` of `feast/infra/registry/sql.py` and the requests of `feast/api/data_catalog/` on top of them | two components, composed |
| `CatalogAtomic` | what the catalog promises about collections, labels and assets | abstract specification |
| `MCDataCatalog` | instance | model checking |
| `DataCatalog_proofs` | the refinement of `CatalogAtomic`, conflicts, creation and deletion | proofs |
| `FileRegistry` | `feast/infra/registry/registry.py` over `file.py`, with `FeatureStore.apply`, `plan` and `_apply_diffs` | two components, composed |
| `MCFileRegistry` | the calls of its runs | model checking |
| `FileRegistry_proofs` | histories in the file and in copies; calls that do not overlap | proofs |
| `RegistryCache` | `feast/infra/registry/caching_registry.py` over `SqlRegistry.proto`, `_get_cached_request_context` of `feast/utils.py`, the refresh timer of `feast/feature_server.py` and `VectorStoreRegistry` | four components, composed |
| `MCRegistryCache` | the threads of its run | model checking |
| `RegistryCache_proofs` | the refresh lock, resolved requests, mode sync | proofs |
| `GoLogger` | `go/internal/feast/server/logging/` | component |
| `MCGoLogger` | the services of its run | model checking |
| `GoLogger_proofs` | logs, directories, the stop | proofs |

An operator `X_Fault` (or `X_NoIncrement`) next to an operator `X` is a plausible mistake in
the code that `X` models. No action uses it; it is there to show that the properties
notice it (`mutants` in `PROJECT.json`).

### OfflineWriteBatcher

The threads are the producers, which call `enqueue` and flush a full buffer
themselves, the background thread `Bg`, and `Main`, the producer that also runs
`shutdown`. A step is one critical section under `_lock`, or one write of one feature
view inside `store.push`.

| Variable | Code |
|---|---|
| `buffers`, `inflight`, `stop` | `_buffers`, `_inflight`, `_stop_event` |
| `age` | the time since `_last_flush[key]`; `Never` until the `defaultdict` makes the entry |
| `waited` | how long the background thread has been in `_stop_event.wait` |
| `pc`, `cur`, `held`, `todo`, `work` | where each thread is; its `key`, `dfs`, the feature views still to be written, the keys still to be flushed |
| `accepted`, `delivered`, `written`, `lost`, `failures`, `timedOut`, `since` | history |

| Action | Code |
|---|---|
| `Enqueue` | `enqueue` up to `_flush` |
| `Shutdown`, `FlushAll` | `shutdown` before and after `join`; `join` may end with the thread alive (its timeout) |
| `Check`, `BgExit`, `NextKey` | `_run`; `NextKey` is also the loop of `flush_all` |
| `Drain`, `ConcatError`, `PushView`, `PushError`, `Restore`, `Complete` | `_flush` with `_drain_locked` |
| `Exit`, `Tick` | the end of the process; a second |

A frame is a number and a row count. `Prompt` says whether time passes only while no
thread has something to do: with `Prompt = FALSE` threads are arbitrarily slow (safety),
with `TRUE` they are fast compared to a second (what can be said about intervals).

### SqlFeatureViewVersions

One feature view of one project and the clients that work on it. A step is a statement
or a transaction which the database runs atomically at the isolation level of
read committed: `_apply_object` selects and then inserts or updates, so that these are
two steps, with the skipped `INSERT` of a lost race and the `UPDATE` that finds no row.

A definition is its schema (what `_schema_or_udf_changed` compares), the rest of it, its
`version` and its `current_version_number`. `active` is the row of the table,
`history` the table `feature_view_version_history`, and `obj`, `old`, `seen`, `nextVer`
and `tries` are the local variables of each client's `apply_feature_view`. The actions
follow that method from top to bottom: `StartApply`; `GetSnapshot`, `PinCheck` and
`SaveForward` for an explicit version; `ReadOld`, `Select`, `Write`, `ReadNew`,
`GetNextVersion`, `SaveOld`, `SaveNext` (the retry loop), `SaveFirst` and `Promote` for
the latest one. `Crash` ends a client between any two of them.

### Materialization

The life of feature views: state and materialization intervals in the registry, and
workers, each of which runs one call after the other. A step is one registry operation
on one view, one step of a commit, or one run of the engine. `backend` selects what a
registry operation does:

* the file registry changes the copy that all threads of the process share (`rows`), and
  writes it to the file (`file`) in two more steps, `OpenFile`, which takes the message of
  that moment, and `WriteFile`. No lock keeps other threads out: each of their reads
  replaces the copy by the file (`Read`, `ThreadReads`), before a change the copy may or may
  not be reloaded (`Bases`), and a reservation, a release or an interval may be lost that
  way. `raced` says that a thread has used the copy or the file between another one's change
  and the end of its commit. It copies the state of the object it is given
  (`_update_metadata_fields`);
* the SQL registry reads and writes in two transactions, and writes nothing if the
  object equals the row, where `FeatureView.__eq__` does not look at the state.

`batch` selects between engines that take all views at once and those that take one after
the other, and `waits` those that return when their jobs have ended; one that does not (the
Kubernetes engine unless `synchronous` is set) returns jobs that still run, which
`materialize` records like the ones that succeeded, and which end later (`JobEnds`) or
never. `accepted` is what was not reported as failed, `written` what has been written, and
`Delivered` the one or the other: what a success of the engine in use stands for. `Start`,
`Check`, `CollectStuck`, `GetView` and `PutView` are the handlers of the feature server,
which reserve the views of an asynchronous request before it is handed to the executor;
`Fetch`, `Transition`, `RunEngine`, `Rollback`, `Record` and `RecordPut` are
`FeatureStore.materialize` and `materialize_incremental`; `SetFeatureViewState` with
`ApplyState` and `Crash` are users and the death of a process. `loop` is the handler that
the event loop is running.

What is abstracted: dates are small numbers and data begins at 0, where the ttl of a view
that has one reaches back to; only states and intervals of a view are kept, and the views
carry no version; the engine writes all of an interval or nothing of it. The threads that
use the file registry are those of one process, several processes and the moment in which
the file is truncated are left to `FileRegistry`; `apply_materialization` of the file
registry deletes the view at the index at which it found it, and the model takes that index
to be still that of the view.

### DataCatalog

One tenant of the data catalog. `project` is the row of `projects`, of which the model
keeps the collections with their properties, the labels and a marker of each write;
`datasets` is the table `saved_datasets`. A client is a thread that serves one request
after the other; a step is a statement, or what happens between the first lock and the
commit of a read-committed transaction. `Select`, `Insert`, `Mutate`, `Swap` and `Retry`
are `mutate_project`; what the mutator sees and decides (`Verdict`, `Mutated`) depends on
the request. `TxSelect` to `TxDelete` are the transactions of `_apply_object` and
`_delete_object` on an asset, with the touch of the project row that makes the swap of an
overlapping request fail. `Discover`, `Lookup`, `ListAssets` and `Cascade` are the label
requests, which go over all assets. `GetProject` and `Reapply` are the end of
`delete_feature_view`, which writes the project back without comparing. `Crash` ends a
request at any statement.

Left out: the timestamps and the cache refresh of the registry; the sixteen attempts of
`_cas_touch_project`, which here always gets the row; requests that only list;
deletion of the project, which is protected. A `PATCH` of a table writes back the whole
row it has read, as in the code.

`ImplementsAtomicCatalog` states the refinement: `Atomic == INSTANCE CatalogAtomic WITH`
collections, labels and assets as the two tables show them. Every step is a step of
`CatalogAtomic` or leaves the three alone, with one exception that is part of the
property: `Reapply`.

### FileRegistry

Processes that share one registry file. `cache` is the copy of each, `behind` says whether
the file is newer than the process believes (`_file_mtime`), and expiry of the TTL is a
choice wherever the code compares times. A call is a list of changes (`Items`), each of
which prepares the copy (`Prepare`, `Prepared`: `_prepare_registry_for_changes`, with its
reload) and modifies it (`Modify`). A view that is created or replaced takes several steps,
each on what is then the copy: it is taken out of the list (`Modify`), a number is computed
(`Number`), records are saved (`SaveRecord`) and the view is put into the list it was taken
from (`AddView`), which is no longer that of the copy (`attached`) if another thread has
reloaded it meanwhile; a deleted view goes before its history (`Clean`). `apply` then
updates the infrastructure (`Infra`, may raise) and commits (`Open` truncates, `Write`
writes, `Stat` takes the time). `plan` with `_apply_diffs` computes its changes from the
copy first (`Plan`). `ThreadLoads` and `ThreadStats` are any other thread of the process
that reads the registry: the content first, its modification time afterwards. `Crash` kills
a process, also between `Open` and `Write`, which may have one modification time or two.

`truth` is the registry that the calls would produce one at a time (`Effect`, which says what a
call is for without the steps it takes), and `mishaps` records what may excuse a difference
from it: calls that overlap, and also a thread's read that overlaps a call of its own process
or into which a commit of another one falls (`overlap`); a crash between truncation and write,
and a call that fails after it has changed the copy (`fault`); a reload of a copy that a call
is changing (`reload`); an explicit version looked up in an old copy (`lookup`).

### RegistryCache

The threads of one feature server on a SQL registry: requests, writers, the timer of
cache mode `thread`, and the server's own `async_refresh`. Of the registry there are two
tables, entities and feature views, that `proto()` reads one after the other; each holds
the number of its last write. `cached` is the cached proto and `expired` its TTL; `res` the
entry of the resolution cache with the time it is tagged with, of which only equality and
order matter; `th` the position and locals of each thread; `vs` the vector store index. A
step is a statement that touches what threads share. `crew` fixes in `Init` which threads
there are and how often the database changes; `pool` selects the thread pool in `proto()`.

A reader looks at the expiry (`Ensure`) and tries the lock (`Acquire`) in two steps, and does
not look again, so that two readers may refresh one after the other for one expiry. Most
writes of mode `sync` are followed by a refresh (`Write`); the `UPDATE` at the end of
`apply_feature_view` (`Update`) and `delete_project` (`DeleteProject`) are not.

Left out: feature services (requests name their features), entries other than that of the
one request, a TTL of 0 (never: then nothing but writes and timers refreshes, and `Converges`
would not hold), the exit handler, which cancels a daemon timer.

### GoLogger

Logs are numbered in the order in which they are accepted. `ch`, `sig`, `logs` and `records`
are the two channels and the buffer of each feature service; `loop` is where its goroutine
is; `datasetDir`, `dirs` and `jobs` are the shared sink, the directories on disk and the
goroutines that load and remove them. Steps are the cases of the `select` and, inside the
sink, each access to the shared field or the disk, because several loggers run in it
without a lock. Faults are failed writes (the last of which leaves part of a file), failed
callbacks, panics, and logs that cannot be converted. A tick that finds nothing to do is
not a step.

## Runs

Deadlock checking is off except for `FileRegistry`: the other systems may come to rest
when their bound on operations is used up, or when the server has stopped.

| Run | Shows | Bounds | States |
|---|---|---|---|
| `batcher_safety` | exclusive flushes, conservation and order of frames, all views written, no full buffer left behind, graceful shutdown, refinement of `OfflineDelivery` | 2 producers, 1 key, 2 views, 3 frames of 1 or 2 rows, batches of 2 rows, 1 failing push, failing `concat`, slow threads | 581,000 |
| `batcher_liveness` | every frame is delivered unless the server stops; no frame is buffered for more than two intervals | 2 producers, 1 key, 4 frames, interval 2, 1 failing push | 27,000 |
| `sql_races` | append-only history, pins are snapshots, contiguous numbers, retries are not wasted | 2 clients, 2 schemas, pins of 0 and 1, 4 calls, 2 retries, crashes, both deletions | 652,000 |
| `sql_sequence` | every active definition is recorded, a version number on the active row is that of its schema, no orphan versions | 1 client, 5 calls, 2 schemas, 2 metadata values, pins of 0..2, `no_promote`, deletion | 1,205,000 |
| `mat_safety` | everything before the watermark has been delivered; nothing is available that was never materialized | 1 view, 2 workers, calls in all modes (3 with the SQL registry, 2 with the file and its threads), engines that wait and that do not, 1 failure, crashes, users | 648,000 |
| `mat_liveness` | asynchronous jobs exclude each other while nothing fails; only what was written is recorded; a view is `MATERIALIZING` only while a call that names it runs; every reservation is released | file registry, 2 views, one without ttl, batches and single views, 2 workers, 3 calls, 1 failure, up to the first race | 182,000 |
| `mat_rollback_claim` | violation, see below | SQL registry, 1 view, 2 workers, 3 calls, 1 failure | |
| `catalog` | refinement of `CatalogAtomic`; an asset is created once; a request gives up only under contention; a deleted label is gone everywhere | 2 clients, 3 requests of any kind, the default collection and another one, 1 asset in each, 1 label, 1 property, 2 attempts, crashes | 4,587,000 |
| `file_registry` | calls that do not overlap lose nothing; a history is never mixed from two; every reader ends up with the file | 2 processes, 2 calls or crashes in both cache modes with a file, 1 without one | 711,000 |
| `file_staged_claim` | violation, see below | 1 process, 1 apply | |
| `registry_cache` | readers refresh one at a time, and the lock comes back; entries of the resolution cache belong to their proto; in mode `sync` a write that a refresh follows is in the cache at rest; answers and vector store index converge; the timers end | five crews of 2 or 3 threads, up to 2 writes, 1 failure | 882,000 |
| `go_logger` | no log lost or stored twice; what is buffered is written by `Stop`; accepted logs are stored; `Stop` returns | 1 service with 3 logs and 1 fault or 2 logs and 2 faults, 2 services with 2 logs | 253,000 |

Why these bounds are enough for the cases that matter:

* Batcher: two producers and the background thread let a flush meet a flush and an enqueue;
  three frames of at most two rows give a full buffer behind a flush in progress; one
  failure puts a batch back in front of a frame that came later; two views let a push fail
  half way. Keys share nothing but the lock, so one suffices.
* SQL registry: a race needs two clients; four calls are enough to create the view and lose
  two numbers in a row, with two retries the retry loop runs to its end. `sql_sequence`
  replaces the race by a longer sequence.
* Materialization: the third call is the one that meets the reservation which a failed first
  call has reset under the second. `MaxTime` of 2 lets one interval follow another. `Starts`
  is `{0}`: a user who asks for an interval behind a gap leaves that gap. In `mat_liveness`
  a behaviour is followed up to its first race (constraint `NoRace`): what the run checks
  promises nothing after one, except `RecordedIsWritten`, which is proved without the
  exception and for engines that do not wait too.
* Data catalog: the third request is the one that meets what a request that died has left.
  With two attempts a request can lose its swap and win, or lose twice. Two collections let
  two requests change different parts of the row.
* File registry: each process reads, stages and commits in some twenty steps, so that two
  calls already give every order of reads, truncations and writes; the third actor is the
  reading thread, which may load between any two steps of a change. Version 1 is pinned in a
  registry that holds version 0, so that it is a declaration for one process and a pin for
  another.
* Registry cache: the crews are the pairs of threads that share something, and the triple in
  which a writer and a timer refresh around a request. Two writes let the second fall into
  the refresh that follows the first.
* Go logger: three logs fill a record of two and leave one behind; a channel of two can be
  full. Two services are needed for the shared sink; with them the faults are left out.

Fairness. `FairSpec` of the batcher makes each thread's steps and the passing of time weakly
fair: threads are scheduled by the operating system, and a push that was started ends.
Nothing obliges a client to push or the server to stop, and failing is allowed as often as
`MaxFailures` says. `FairSpec` of `Materialization` makes the steps of a running call weakly
fair, with its commits, and no request, user, reading thread or crash. `mat_liveness` has no
crashes because a reservation that a dead server leaves behind is released only by a forced
request. `FileRegistry` makes the steps of a call and of a start weakly fair, and the reads
with the cache allowed of a process that is up, and the end of a read that was begun,
because a server answers requests; no call need be made. `RegistryCache` makes threads,
timers, requests and the expiry of the TTL weakly fair, and neither writes nor failures nor
the shutdown. `GoLogger` makes goroutines and tickers weakly fair, and the stop signal
strongly fair: `select` chooses at random among the cases that are ready, so that a signal
that is there each time it chooses is taken, although the tickers may be there as well.

What the liveness properties except is named in them. `Converges` of `RegistryCache` holds
in spite of refreshes that fail or leave a partial proto; `VectorStoresFollow` ends with the
chain of timers, which one failing refresh breaks; `EventuallyStored` excepts services
whose buffer holds a log that cannot be converted, and loggers that have met in the sink;
`StopReturns` executions with a panic.

## Proofs

`OfflineWriteBatcher_proofs` proves for any sets of keys, views and producers, any batch
size and interval and any numbers of frames and failures:

* `TypeCorrect`, `FlushesAreExclusive` and `FramesAreConserved`: `TypeOK`,
  `InflightExclusive` and `Conservation` are invariants;
* `BatcherImplementsDelivery`: the batcher implements `OfflineDelivery`.

The inductive invariant is `TypeOK /\ ThreadOK /\ InflightExclusive /\ Conservation`.
`ThreadOK` says that a thread holds frames exactly from its drain to the end of its
flush. None of the parts is inductive alone: that nobody else holds frames of a key
follows from the key being in `_inflight`, and that releasing the key is right follows
from nobody else holding it; conservation needs both, because a second holder would
deliver out of order. `AppendMoves`, `HandToBuffer` and `PrefixGrows` are the facts about
sequences behind the steps of the buffer and of the refinement.

`SqlFeatureViewVersions_proofs` proves for any numbers of clients, definitions, calls,
versions and retries:

* `TypeCorrect`: `TypeOK` is an invariant;
* `HistoryIsAppendOnly`: no step changes a recorded version, except that
  `delete_feature_view` removes all of them;
* `PinsAreSnapshots`: a pinned active row is its snapshot;
* `VersionsAreContiguous`: races leave no gaps;
* `ActiveIsAVersion`, `NumbersAreOfTheirSchema` and `NothingIsOrphaned`: `ActiveIsRecorded`,
  `NumberIsOfSchema` and `NoOrphanVersions`, for one client that does not crash
  (`Sequential`, what `sql_sequence` checks for five calls; here there may be any number).
  The hypothesis is needed: a crash between the write of the active row and the record of
  its version leaves a definition that is not recorded;
* `GivingUpIsContention`: `RetriesSuffice`, a latest apply that gives up with a version
  conflict has met at least `max_retries` operations besides itself and the call that
  created the row, whatever deletions and crashes came in between;
* `AppliesAreBounded`: an apply is over after at most `3 * max_retries + 6` statements of
  its own: no interleaving keeps a call going round its retry loop. It is the safety half
  of termination; that the statements are executed at all is the scheduler's business.

The inductive invariant adds to the properties what each client has in hand: `LocalOK`
(the type and version of its object at each label, and that it has retries left),
`PinOK` (from the read of a snapshot to the write of the active row its object is that
version) and `NextOK` (the number it is about to claim is 0 or follows a recorded one).
`HistoryStep`, that a step keeps the history, carries the last two across the steps of
other clients: a snapshot read earlier is still the snapshot, and a version that existed
still exists. `MaxExists` shows that the recorded versions have a maximum, from the
well-foundedness of strict inclusion on finite sets.

The properties of one client follow from `SeqInv`, which says at each label of
`apply_feature_view` what is still owed: after the write of the active row its schema is
that of the object in hand, and the row it replaced, if there was one, is recorded; so
either the schema is recorded already, or the call goes on to record it. It also shows
that the first-time branch (`SaveOld`) is not reached by a sequence of calls on an empty
registry: it is for rows without a version, which are older than versioning or left behind
by a crash.

`RetryInv` is the accounting behind `GivingUpIsContention`: the retries of a call are paid
with operations, no operation pays twice, and so `ops` is at least two (the call itself and
the one that created the row) plus what the call has spent plus the calls that may
still record a number (`Claimants`). When another call takes the number that
this one was about to record, the other one leaves `Claimants` as the loss is counted
(`Lost`), and the sum stays the same. Number 0 is the exception, because the call that
records it need not be a claimant: a call that has read an old row can lose 0 only after a
deletion of the view has freed it, and the credit for that deletion is kept in `Reopened`.
A crash and the steps before a call reads the old row leave the sum alone or lower it. No
history variable for who recorded which number is needed.

`AppliesAreBounded` counts with `StepsLeft`: three statements (the read of the last number,
and the one or two that record the next) for each attempt that is left, and the fixed
number before and after. Each statement lowers it, and the statements of the others do
not touch it.

`OfflineWriteBatcherFlush_proofs` continues `OfflineWriteBatcher_proofs` with the properties
that need more than one flush:

* `ViewsSeeOrder` and `DeliveredEverywhere`: `ViewOrder` and `AllViewsWritten`, from
  `OrderInv`. It adds `PushedOK`, what the views that a push has already written hold
  compared to the frames in its hand, and that accepted frames are numbered in order; a
  retry after half a push writes frames again, but never out of order.
* `FullBuffersAreFlushed`: `NoFullBufferAtRest`, from `FullInv`, for a positive batch size.
  The code does not check `batch_size`; with 0 every buffer counts as full, also an empty
  one, and the property has no sense. The invariant says which thread has promised to look
  at `pending_rows` again.
* `ShutdownDelivers`: `GracefulShutdown`, from `StopInv`, which says what the main thread
  may rely on after each step of `shutdown`: no more frames after the stop event, no other
  flush after the join.
* `FramesWaitAtMostTwoIntervals`: `BufferedAtMostTwoIntervals`, from `TimeInv`, when threads
  run promptly and frames can be concatenated (`Prompt`, `~ConcatMayFail`, the hypotheses
  under which the run checks it). `TimeInv` relates the age of a buffer to how long the
  background thread has waited.

`RegistryCache_proofs` proves, for any threads, writes and failures:

* `TypeCorrect`, where the part that is not obvious is that no more times are told apart
  than requests, the resolution cache and the registry hold;
* `ExpiryRefreshIsExclusive`: `OneExpiryRefresh`, with the invariant that a reader in a
  refresh has the lock, and that the lock is held by nobody else. It says that refreshes of
  readers do not overlap and that none keeps the lock, not that there is one per expiry;
* `EntriesMatchTheirProto`: `EntryOfItsProto`. `EntryInv` follows a resolution from the
  time it took to the entry it makes: what it has read is of the proto of that time unless
  a refresh came between, which is what the entry records;
* `SyncIsImmediate`: `SyncImmediate`, which is about the writes that a refresh follows
  (`covered`). `SyncInv` says what the copy in a refresh under way has and lacks of the
  database, and that a cache behind `covered` has a writer that will refresh it.

`DataCatalog_proofs` proves, for any clients, assets, collections and labels:

* `TypeCorrect` with `ControlInv`, which also says who holds the lock of the uncommitted
  row;
* `AssetsAreCreatedOnce`: `CreatedOnce`, from `Balanced`: an asset was created at most
  once more than deleted, and not more often if it is not there;
* `ConflictsAreContention`: `ConflictMeansContention`, from `FreshInv`: a snapshot that
  has the stamp of the row is the row, because every write stamps it anew;
* `CatalogIsAtomic`: the refinement of `CatalogAtomic`, step by step. It needs `FreshInv`
  and `DecidedInv`: what a request has read of the assets and decided is still true when
  its swap succeeds, because whoever writes an asset touches the row;
* `DeletedLabelsAreGone`: `LabelGone`, from `AloneInv`, which follows the cascade of
  `delete_label_meta` from asset to asset.

`Materialization_proofs` proves, for any views, calls, times and failures and both
registries:

* `TypeCorrect`, with `ControlInv`: no call takes the head of an empty list;
* `IntervalsAreWritten`: `RecordedIsWritten`, whether the engine waits for its jobs or not,
  and whatever the threads of a process do to its copy of the file;
* `AvailableIsBacked`: `AvailableHasData`, unless users may set `AVAILABLE_ONLINE` by hand,
  which `set_feature_view_state` allows;
* `NothingIsSkipped`: `WatermarkCovered`, when explicit start dates reach back to the
  beginning of the data. A later start date leaves a gap, which the caller asked for;
* `ReservationsExclude`: `ExclusiveWhileNothingFails`, for asynchronous requests to one
  server when nobody sets a state other than `MATERIALIZING` by hand. The hypotheses are
  needed: synchronous calls do not reserve, forced ones take what is reserved, two servers
  check and reserve independently, and `set_feature_view_state`, which reads and writes in
  two steps, frees a view that was reserved in between. The property itself excepts
  executions with a race (`raced`): a reload between a reservation and its commit drops it;
* `NothingIsLeftBehind`: `MaterializingIsOwned`, with the file registry, for synchronous,
  asynchronous and forced calls together, on any number of servers, when no process dies and
  nobody sets `MATERIALIZING` by hand, up to the first race. It is the safety half of
  `EventuallyReleased`, for more than its run covers. Without the hypotheses it is false: a
  job that dies leaves its views as they are. With the SQL registry it is false as well
  (`mat_rollback_claim`).

`DataInv` says of every copy of a view, in the file, in the copy of it, in a message on its
way to the file, in a call or in a user's hands, that its intervals are among `Delivered`
and that its state is backed by it. It cannot be said of the registry alone, because a
rollback, `apply_feature_view` or a late commit writes a copy back that was taken long
before; it is inductive because what was delivered stays delivered (with `Agree`: an engine
that waits leaves no job unfinished). `SyncInv` says what the absence of a race is good for:
one thread at most has a change that is not in the file, its message is the copy, and
otherwise file and copy agree; `EditInv`, that a user's pending write has a state that users
may set. `HeldInv` says which views a call holds and which it has found free at each of its
labels, and that no two calls hold the same one.

`OwedInv` says instead which views a call will take out of `MATERIALIZING` before it ends
(`OwedAt`); several calls may owe the same view. What could go wrong is that a rollback
skips views whose previous state was `UNSPECIFIED`. For a synchronous call that is
harmless, because it never put such a view into `MATERIALIZING`; an asynchronous call did,
when it reserved, so the invariant has to say that it never takes `UNSPECIFIED` for
a previous state: the reservation gave the view a state, the file registry never returns to
`UNSPECIFIED`, and the call reads its copies after it has reserved (`Fresh`, `CallAt`).

Two facts about data are proved by least counterexample
(`LeastExists`, from the well-foundedness of `<` on the natural numbers): that
`MostRecentEnd` is the end of some interval, and that `Among` keeps the order of a list
and selects what it should. `Among` is written as a recursive function for that reason.

`GoLogger_proofs` proves, for any services, capacities, record sizes and faults:

* `TypeCorrect`: `TypeOK`, with the capacities of both channels;
* `StopLeavesNothing`: `StopWritesBuffer`, from `StopInv`, which follows a logger from the
  signal through its last write to its last flush;
* `LogsAreConserved`: `Conserved`. `SinkInv` says that, as long as no two loggers were in the
  sink at once, a directory is that of the sink, or handed to one callback, or removed, and
  who is in the sink has its directory. `PlaceInv` says on top of it that a log is in one
  place: a channel, a buffer, one directory, or the store. Neither can be said without the
  other half, because a directory that two callbacks hold is loaded twice.

`FileRegistry_proofs` proves, for any processes, calls, definitions, pins and contents of the
file, with and without a TTL and in both cache modes:

* `TypeCorrect`: `TypeOK`, with `ControlAt`: what is left of a call at each of its labels,
  and that an explicit version is declared just before the view is applied with it;
* `HistoriesAreConsistent`: `HistoryConsistent`, whichever calls overlap, fail, or die
  between truncation and write. `MessageInv` is about every message, in the file, in a copy
  or on its way between them: a commit publishes whatever its copy holds, also what a failed
  call has left there, so nothing can be said of the file alone. It adds that a view
  that does not exist has no history, without which a view that is created anew would
  record version 0 twice. In the middle of a change that takes several steps a copy is not
  such a message; `Midpoint` says which part of the change of a message `o` it is, with the
  number, the replaced view and the list in hand, and `MidEnds`, that the change ends in what
  one step would have made of `o`. Between the declaration of a version and its use the copy is
  only `Consistent`, and the version that was declared stands for the definition that is
  about to be applied (`Declaring`); a commit never falls into that interval, and a reload
  in it is the mishap that the property excepts;
* `SequentialCallsCompose`: `SequentialUse`. `Stage` says what a call has made of the
  registry when a given list of changes is left, and `StageStep`, that each change
  takes it to the next stage; with none left it is `Effect` (`DoneStage`), with all left the
  registry itself (`AllLeftStage`). `Orderly` says on top of it that one process at most
  is not at rest, that the file is `truth` except while that process writes, and what each
  process knows at each label (`UseAt`): a copy that is not the file is known to be
  behind, and no thread is about to say otherwise (`Old`), so that the next call reloads it
  before it changes anything; while one process writes, the idle ones are `Old`. The proof uses
  `MessageInv`: that a plan which finds no view to delete need not delete its history
  either. The hypotheses are those of the property: mode `sync`, and no mishap. In particular a
  read of another thread must not straddle a commit: it would take the new time for the old
  content, and the next call of its process would write the old content back.

The proofs assume what the named assumptions of the modules say of the constants: the
background thread is not a producer, `Main` is one, the interval is positive, there is a
retry, `NoRow` is not a row, values that mark an absence are not among the values they
mark, there are finitely many readers, the lists of views that a call is given name
no view twice, and the file that the first process finds was written by a registry.

Only model-checked:

* the liveness properties, because the prover handles neither fairness nor `ENABLED`;
* the two properties that the violation runs refute.

Every invariant and action property that a passing run checks is a theorem.

All runs but `sql_races` leave out the type invariant, which is a theorem of every
component, and spend their time on the other properties.

## Where code and documentation disagree

Two have a run that finds the violation (`findings` in `PROJECT.json`):

* `mat_rollback_claim`: with the SQL registry a change of state alone is never written, so
  that a reservation that did get written, because an interval was recorded meanwhile,
  is not taken back when the job fails.
* `file_staged_claim`: when the copy expires in the middle of an `apply`, the next change
  reloads it and drops what the same call has staged before; the commit writes the rest
  and reports success.

Seen while modelling, and the reason for an exception in a property or a bound of a run:

* Batcher. `docs/reference/feature-store-yaml.md` calls `batch_interval_seconds` the maximum
  time that rows remain buffered; the first look at a key only starts its clock, and the
  loop looks once per interval, so that it is up to two (`BufferedAtMostTwoIntervals`).
  `enqueue` flushes a full buffer in the calling thread, although the class says that the
  event loop stays unblocked.
* SQL registry. `no_promote` is documented to leave the active definition alone;
  `_apply_object` has overwritten it before `no_promote` is looked at. That apply and a
  metadata-only one leave the active row without a version number, and unversioned reads
  fall back to the table of v0 (`NumberIsOfSchema` is about rows that have one).
  `delete_project` leaves the version history, so that the first apply in a project of that
  name fails on v0 after writing the active row. The two `INSERT`s of v0 are outside the
  retry loop, so that a race on a new view surfaces as a raw `IntegrityError`. A client that
  dies between the write of the active row and the snapshot leaves an active definition that
  no version records, and an apply that overlaps `delete_feature_view` may record a version
  of a view that no longer exists: `ActiveIsRecorded` and `NoOrphanVersions` are checked for
  one client.
* Materialization. A job that fails rolls its view back and then resets it once more; in
  between the next request may have reserved it, and loses its reservation, contrary to the
  comment at `feature_server.py:1044` ("Reserve MATERIALIZING before 202 so concurrent
  requests hit 409"; `ExclusiveWhileNothingFails`). So does a thread that reloads the
  registry file between the reservation in the copy and its commit, because
  `apply_feature_view`, `apply_materialization` and `commit` take no lock; it can lose a
  release or an interval the same way (`raced`). The docstring at `feature_store.py:562`
  says that the watermark is recorded on success; it is recorded for every job whose status
  is not `ERROR`, also one that the Kubernetes engine has only submitted, so that the
  interval and `AVAILABLE_ONLINE` may be there before the data, or without it if the job
  fails later (`Delivered`). The SQL registry reads the intervals and writes them back in
  another transaction, so that an interval recorded in between is lost; the watermark goes
  back, and no data is skipped.
* Data catalog. `delete_feature_view` writes back a project that it has read before, over
  whatever the catalog has swapped in since, although the docstring of `_cas_touch_project`
  (`sql.py:2385`) says that a stale `get_project` snapshot cannot overwrite the catalog's
  `_ns_meta_*` keys. The registry server applies a project the same way in
  `_sync_protected_project_tag`. The tests of concurrency (`test_catalog_namespaces.py`) run
  two threads through one order each. A `PATCH` writes back the whole dataset it has read: a
  label added in between is lost, an asset deleted in between is inserted again. An asset
  can be created in a collection that is dropped after the check for it; the collection then
  exists by its asset alone.
* File registry. An explicit version is looked up before the copy is brought up to date, so
  that two processes can each declare it (`HistoryConsistent` excepts it). The modification
  time is taken after the content is read, so that a commit in between is noticed only after
  the TTL, and taken back if the process makes a call before that; so is a commit within the
  same tick of the file system's clock. `apply_feature_view` reads `cached_registry_proto`
  again and again without a lock: a reload by another thread between the number (line 896)
  and the record (927) can give two versions one number, and one before the view is put back
  loses the view (`HistoryConsistent` and `SequentialUse` except a reload inside a call).
  `delete_project` removes the project at the index it had before the copy was re-read, and
  `delete_label_view` keeps the version history of its view; neither is in the model.
* Registry cache. `feature_store.py:1923` speaks of immediate consistency in mode `sync`.
  The `UPDATE` with which `apply_feature_view` ends (`sql.py:1362-1398`) and
  `delete_project` come after the last refresh of the registry; at the end of an `apply`
  line 1926 refreshes once more, but after any other write of a view the cache of the
  writing process lacks them until its TTL is over. A refresh that began before a write and
  is assigned after it takes the write back until the next refresh, and for good with a TTL
  of 0. The docstring at `utils.py:1633` says that resolved requests are invalidated
  whenever the registry refreshes; one that was resolved across a refresh is tagged with the
  new time and kept. The results of `executor.map` in `proto()` are never looked at, so that
  a database error leaves a partial registry in the cache. `vector_store_utils.py:32` says
  that the index is refreshed on the registry's TTL cycle; one refresh that raises ends the
  chain of timers.
* Go logging. What is in the channel when the stop signal is taken is lost; a panic while
  the signal is handled takes the signal with it, and `WaitUntilStopped` never returns; a
  log that cannot be converted blocks all later logs of its service; two loggers that meet
  in the shared sink lose a directory or load one twice; a flush loads the logs of all
  services under the name of the one whose ticker fired; the last callback is not waited for
  when the process ends; the map of loggers is read without the lock of its writers.
* In components without a model. The ticker of the Go registry's refresh loop has the period
  of the TTL and the time of a load is taken after its download, so that only every second
  tick loads (`registry.go:103`); a Go request calls several getters, between which the
  registry may be replaced (`featurestore.go:249`). Two dataset jobs that persist to one
  location both look for the file before either has written it
  (`infra/offline_stores/dask.py:116`); `cleanup_completed` of the dataset jobs is never
  called; a process that dies in a monitoring job leaves it RUNNING in the table.

## What is not modelled

* Of the SQL registry: the tables of other objects, the lineage tables, the migrations of
  the schema, isolation levels other than read committed.
* Of the file registry: several projects, `delete_project`, teardown, remote stores
  (S3, GCS, HDFS), the objects besides a data source and a feature view; a second writing
  thread of a process (`Materialization` has those, for states and intervals); the lock inside
  `_get_registry_proto`, which keeps two reads of one process apart and no read from a change;
  two commits with one modification time.
* Of materialization: on-demand views, `version=` and pinned views, engines that record
  intervals themselves (`applies_materialization`, the Spark application), registries behind a
  remote server, several processes on one registry file.
* The data: frames, features, timestamps, wire formats. Offline stores, online stores and
  engines are steps that succeed or fail. They are most of the repository's code: adapters
  whose behaviour is that of the database behind them, SQL text, type conversions and
  configuration, in which there is no state of Feast's own for a model to keep.
* Pure algorithms (key encoding, type maps, tiling, conflict policies, decision
  strategies): functions of data, better served by tests on data than by a state space.
* The Go registry cache, dataset and monitoring jobs, and the other components marked
  `not_modelled` in `PROJECT.json`, each with its reason.

## Plan

All safety properties that the passing runs check are theorems; what is left to TLC is liveness.

To be modelled next: the jobs that persist datasets, with the check for an existing location
that every offline store makes in its own way.
