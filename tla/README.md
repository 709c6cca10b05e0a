# Everett in TLA+

This directory is a formal development of Everett, the persistent "redundant
COLA" store of this repository: TLA+ modules that model its stateful parts,
configurations that model-check them with TLC, and proofs checked by TLAPS.
Everything is translated from the code under `src/include/everett/`; each
definition's lines are listed in `PROJECT.json` ("map"), and so are the things in
the code that are hard to test ("hazards") with the properties that guard them.

Contents:

1. The system
2. What each component keeps and what makes it correct
3. The modules
4. The runs, their bounds, and why these are enough
5. Fairness
6. What is proved, and how
7. What is only model-checked, and what is not modelled
8. The plan

To use it: `tlc -config MCSession_safety.cfg MCSession.tla` checks a run, and
`tlapm SessionProofs.tla` checks the proofs of a module.


## 1. The system

A *world* is an immutable map from typed keys to values. Users open a *named
session* of a directory (a *multiverse*), contribute batches of edits to it, read
snapshots, prepare optimistic transactions, and save or fork any published
generation under another name. A write travels through these layers:

    caller threads
        |  submit / try_submit / cancel / close            tickets (futures)
        v                                                        ^
    session (session.h)            one worker thread, a bounded queue
        |  contribute, advance; publish each resulting world
        v
    persistent_engine (connection.h)      the worker's engine: core + current_
        |                    \
        |                     transactions (transaction.h): a private core per
        |                     transaction, installed through the same queue
        v
    replacement_rebuild (replacement_rebuild.h)    trims history by rebuilding
        |                                          the table beside its writers
        v
    typed_world (typed_world.h)           typed admission, deltas, table scans
        |
        v
    redundant_runtime (redundant_runtime.h)   levels of sorted runs, merged a
        |                                     little with every admission
        v   checkpoints
    runtime_store, runtime_graph_sealer (runtime_store.h, ...)
        |   seal every run and index as an immutable file, once
        v
    sqlite_catalog (sqlite_catalog.h)     the durable truth: which generation of
                                          each name is which checkpoint

Three kinds of concurrency meet here. Inside a process any number of threads
call the session, while a single worker applies. Between processes, several
connections to one name race in the catalog's transactions. And inside the
worker, work is deliberately left unfinished: merges and rebuilds advance by a
priced amount per admission, so that a checkpoint, an error or a restart can
come between any two steps of theirs.


## 2. What each component keeps and what makes it correct

Status: **M** modelled, **P** partly; `PROJECT.json` ("components") says what is left
out of each.

| Component (files) | Status | State | Operations |
|---|---|---|---|
| Session (`session.h`) | M | queue, outstanding reservations, count, accepting, stopped, current publication, tickets | submit, try_submit, apply, cancel, close, shutdown; the worker's run, maintenance, failed |
| Named-session catalog (`sqlite_catalog.h`) | P | generations of each name, saves, recorded operations; objects, pairs, pins, hints, scopes; per handle: poisoned, a transaction left open | create, publish, fork, save, each replayable; reserve, seal, register, pin, release; reopen |
| Connection and store (`connection.h`, `runtime_store.h`, `runtime_seal.h`, `*_checkpoint.h`) | P | the core's world, current durable head and logical identity, terminal error | connect, contribute, advance, publish, install, save, fork |
| Transaction (`transaction.h`) | P | base world, staged world, private core, nursery of pending edits, failed | get, change, flush, snapshot, branch, commit, abort |
| Redundant runtime (`redundant_runtime.h`) | M | levels of three slots, jobs, carriers, roots, credit | admit, serve, capture, restore, initialize |
| Replacement rebuild (`replacement_rebuild.h`) | P | foreground table, base and mutation counts, active rebuild: frozen source, candidate, queue, credit | contribute, advance, freeze, scan, replay, handoff, tiny rebuild, restore |
| Typed worlds and scans (`typed_world.h`, `typed_scan.h`, `native_sweep.h`) | P | a core, its occurrence counts and signature; a contribution and what it has observed | contribute, rebase, advance, scan, erase_remaining |
| Private construction (`private_construction.h`) | M | lock files, catalog scopes | create, release, recover |
| Object writer and streams (`object_writer.h`, `object_stream.h`) | P | the stage of one file's sealing | open, append, finish |
| Merge durability (`durability.h`) | M | pending checkpoint, output, manifest, old pins | complete_*, prepare_manifest, resume, accept, release |
| Graph sealer, bindings (`runtime_graph_sealer.h`, `catalog_bindings.h`) | P | one producer lock per shared object | prepare, ensure native, ensure pair, get_or_create |
| Binary COLA runtime (`cola_runtime.h`, ...) | P | a binary counter of runs, one continuation | contribute, perform, serve, drain, reopen |
| Storage context (`sort_runtime*.h`, `output_budget.h`) | P | a shared output budget; builders | acquire, shrink, reset; adaptive builds |
| Runtime registry (`runtime_registry.h`) | M | reference counts of a graph | replace, acquire_pair, release, clear |
| Reference world (`world.h`, `pins.h`) | P | a round of accepted batches; pin counts | apply, append, compact, add, replace |
| Nursery map (`nursery_map.h`) | M | a persistent tree with edit tokens | insert_or_assign, erase, freeze, thaw |
| Multiverse, mappings (`multiverse.h`, `mapped_*.h`) | P | directory layout, mappings | create, open |
| Native merges and builders (`native_*.h`, `index_builder.h`, `index_pipeline*.h`, ...) | P | streaming state of one builder | append, step, finish |
| Encodings (`profile*.h`, `sort_*.h`, `sections.h`, `file.h`, ...) | P | a writer's or reader's place | append, finish, read, open, scan |
| Succinct structures, queries (`elias_fano.h`, `rank*.h`, `cola_index.h`, `query.h`, ...) | P | none, or a cursor's place | build, select, rank, search, query |

How they interact, what is hard about them, and what correctness means:

* **Session.** Caller threads and the worker share one mutex and two condition
  variables, but the interesting steps are outside the lock: a submission
  reserves, unlocks to construct its request, and locks again to push; a
  cancellation erases under one lock and settles the ticket under none; the
  worker stores the new world and sets the promise after the engine has already
  changed; a failing engine drains the queue one request at a time. Correct
  means: reservations are returned exactly once; every ticket is settled once
  and truthfully (ready with a value only if a world with its contribution is
  already in `snapshot()`); admitted requests are applied in acceptance order;
  no wakeup is lost; shutdown returns.
* **Catalog.** The caller may lose the answer of a committed operation and must
  be able to ask again, from any handle, under the same operation identity.
  Correct means: effects happen exactly once and are reported without lies; a
  name's generations form a chain with one writer each; forks and saves denote
  the exact row their caller held.
* **Connection.** The core is changed before the catalog has agreed, so a
  refused or uncertain publication must stop this engine. Maintenance changes
  the layout, not the contents, and must not invalidate waiting transactions.
  Correct means: the directory behaves as a set of append-only histories.
* **Redundant runtime.** Merges of several levels are in progress while records
  arrive. Correct means: a level never needs a fourth slot, every record is
  visible exactly once and in order, checkpoints refer only to what is held,
  and offered service keeps up.
* **Replacement rebuild.** A rebuild must finish within the writes that the next
  trigger leaves it, on credit fixed at its freeze, while the same writes also
  go to the foreground. Correct means: no internal `require` ever fires, the
  candidate converges to the foreground, obsolete history stays bounded, readers
  see batches atomically.
* **Private construction, object writer, durability.** Crash consistency of
  single files: no name that outlives its owner, no sealed name whose content
  may be lost, no pin dropped before its successor is durable.
* **Graph sealer, registry, budget.** Sharing among threads: one object per
  owner, no cyclic wait, counts that survive a half-failed acquisition.
* **Objects of the catalog.** Requests validate mapped files before they take the
  write lock, and rows are never removed. Correct means: a registered pair can be
  opened down to its last target, a root's files are sealed and pinned, and
  everybody learns one output of a merge.
* **Typed worlds.** A contribution is prepared on a snapshot and admitted to a later
  world. Correct means: it is refused exactly if a value it rests on differs, and
  the metadata are those of the contents.
* **Binary runtime, registry, nursery, round.** State that is edited in place or in
  several steps, any of which may throw. Correct means: what others hold, or held
  before the failure, is as it was.
* **Encodings, merges, indexes, sections.** Pure, but stateful inside: each works on
  lengths of common prefixes, restart points, cached words and packed fields
  instead of keys and numbers. Correct means: every way of reading gives what was
  written, no code has two spellings, and a file that scans is sound.


## 3. The modules

### 3.1 Session: `SerialSession`, `Session`, `SessionProofs`

`SerialSession` says what a session promises with no threads in it: a bounded
pool of admissions, application in acceptance order, one settlement per ticket,
and progress. `Session` is the program, with one action for each region between
lock and unlock, or each effect outside the lock:

| Action | Code |
|---|---|
| `Reserve`, `Refuse`, `Block` | `enqueue` up to the reservation: oversized, closed or full; waiting is `Block` |
| `Push`, `PushThrows`, `Undo` | constructing the request outside the lock, `push_back`, and its catch block |
| `Erase`, `SettleCancelled` | `cancel`: the erasure and, in a later step, the promise |
| `Close`, `Join` | `close` and `shutdown` |
| `Await`: `Sleep`, `Claim`, `Exit`, `Maintain`, `RefuseEngine` | one turn of the worker's wait in `run`, with its check that an engine that is not ready can be served |
| `Contribute`, `Applied`, `Rejected`, `Broken`, `Publish`, `Report` | applying the claimed request, storing `current_`, setting the promise |
| `Advance`: `Serve`, `Broken` | idle maintenance, which may publish an equivalent layout |
| `Fail`, `Abandon`, `Drain` | `failed`: stop, settle the claimed request, settle the queue, wait for `count_ = 0` |
| `Wake` | a notified (or spuriously woken) thread reacquires the mutex |

A condition variable is a set of sleeping threads `asleep` and a set of woken
ones, `wakers`, that still have to reacquire the mutex; a wakeup may be late or
spurious. The engine is its contract: it owes some service, may refuse
admission while it does, may reject a contribution, break, or claim it is not
ready while owing nothing (which the code reports as an error). `MaxRevision`
is the last publication number, and is both the bound of the model and the
code's exhausted counter, which the worker checks before it publishes.

### 3.2 Catalog: `Timelines`, `Catalog`, `SessionProofs`

`Timelines` is the relational content of the session tables: a row for each
generation of a name, saves that pin rows, and, as pure operators, what each
request reads and writes (`Wins`, `After`). `Catalog` adds the transaction
protocol around it. `BEGIN IMMEDIATE` serialises writers, so a transaction is
one action: `Replay` (the operation is recorded: tell the recorded outcome),
`Refuse` (recorded under another request: reject), `Commit`,
`CommitUnreported` (the commit happened and its answer was lost), `Fault` (a storage
error: nothing was written, and the handle cannot know), `RollbackFails` (the ROLLBACK
fails as well, and the transaction stays open on its handle, with its rows and the write
lock: `left`), and `Reopen`, which closes the handle with what it left. `Begins` is the
guard of each transaction: the handle is active, and no other keeps the lock.
Requests are enumerated with every head a caller may hold, stale or forged ones
included, as the code validates them itself.

### 3.3 Connection: `NamedHistory`, `Connection`, `ConnectionProofs`

`Connection` composes the persistent engine, its queue, transactions and the
catalog of `Timelines`: opening or creating a name, contributions, maintenance,
publications that succeed, lose against another connection, fail or stay
uncertain, transactions with nursery and flushes, saves, forks, crashes and
reconnections. The session's queue is the one `SerialSession` promises; an
operation identity is fresh, so replays stay with `Catalog`. A world is the
sequence of changes in it, its layout is only whether maintenance is owed, a
logical identity is a number that is reused only when nobody holds it any more,
and each batch holds one change (or none, `EmptyBatches`). `NamedHistory` is
what users are promised: each name is one history that only grows at its end, a
new name starts empty or as a prefix of another, and no history holds a change
twice. Maintenance, retries and crashes are stuttering. What a transaction's nursery and
private core make of single keys is `Transaction` (3.8); here a flush takes the whole
nursery or fails, and what counts is when the result is installed.

### 3.4 Redundant runtime: `RedundantRuntime`, `RedundantProofs`, `ScheduleProofs`

The `frontier` holds for every level its three slots, the job that merges two
active runs into the next level, and which object carries which route to a run.
`try_contribute`, `advance`, `capture`, `try_initialize_sorted` are the calls of its
owner; `perform` spends one unit of credit on the job of the selected level (`begin`,
`step`, `finish`, `commit`); `checkpoint` publishes what `serve` leaves; `restart` is a
crash, or a poisoned executor, and `restore`. Native files and indexes are their mass and their place in the
chronology of records. The prices are those of the code divided to unit steps,
and `HalfRate = 1` is a sixteenth of the service the code grants with each record:
at the code's own rate a merge of this size ends before the next one begins and
the interesting overlaps never happen; the proofs cover every factor from 3/2, the
code's 8 included, so run and proofs approach the rate from both sides. `RunMass` is the
`1 << i` of the code, and `Built` the runs that `initialize_sorted` lays down. A restart
begins from the latest published checkpoint; it may have served less than the durable one
since, which covers the older ones. An initial construction publishes only its end.

### 3.5 Replacement rebuild: `AtomicTable`, `ReplacementRebuild`, `RebuildProofs`

`AtomicTable` is what readers are promised: a batch is asked for, and applied
whole or dropped. `ReplacementRebuild` follows one batch through `Entry`
(plain, triggering a rebuild, or queued behind one), `NextEntry`, the settlement
of the owed foreground service (`AdvanceForeground`), and `Publish`; a rebuild
through `OpenCandidate`, `ScanOne` / `CopyRow`, `FinishScan`, `Replay` and
`Handoff`, or, for a small table, `TinyRebuild`; and `Advance` as idle service with
a budget. What the code does with `require(...)` is stated as predicates,
`RefusesEntry`, `RefusesSettlement` and `RefusesService`: the actions proceed only
when none holds, and `NeverRefuses` says that none ever does. An engine is its
table, the number of native occurrences of each key and its mass; how its
merges come due is the nondeterministic `CarryBound`/`Carries`, an abstraction of
`RedundantRuntime`. Choices that a reader should know:

* The constants are scaled: the small limit 64 is `SmallLimit = 2`, the trigger's
  quarter is `HistoryDivisor = 1`, the horizon's eighth is `HorizonDivisor = 2`. The
  rounding of the divisions is the code's. The proofs hold for the code's own
  4, 8 and 64 as well (section 6).
* The scan visits rows in an arbitrary order; nothing depends on the key order.
* A restart restores the latest published snapshot; if a rebuild was active its
  queue is gone, and it starts again as an eager cleanup (`small`, recovering).
* A candidate may be found unready more often than the real one.
* The stale read-set check of a contribution refuses before anything changes
  and is not an action. `rebase`, which installs an equivalent layout, and the
  statistics of work are left out.
* After a handoff the table may hold fewer live records than the small limit
  while its base is above it: this is what the code does, and the properties
  allow for it.

### 3.6 Constructions and their files: `Construction`, `ConstructionProofs`

A construction is an owner that goes through `stage`s: `OpenLease`, `LockLease`,
`SyncLease`, `BeginScope` (`create`), `Reserve`, the steps of sealing one file (`Open`,
`WriteBody`, `SyncContent`, `Install`, `SyncNames`, `RemovePrivate`), `RecordSeal`, and the
destructor's `Release`, `RemoveLease`, `SyncUnnamed`, `CloseLease`. Any step may fail
(`Finish` leads to the destructor) and the process may die (`Die`). A recovery takes the
scopes and then the names: `Find`, `Try` (the lock, and the name under it), `Judge` (the
scope read again under the lock), `ReleaseAbandoned`, `RemoveAbandoned`, `SyncAbandoned`; an
error ends it anywhere (`Throw`). System calls are single steps.

The file system is modelled from what the code relies on: a name, or its removal,
and a file's content survive `LosePower` for certain only if they were synced; what was not
is kept or lost by chance, and a name is found only through the directories above it. The
catalog's transactions are atomic and durable. One construction reserves and seals
one object, and object identities are fresh. `recover` reads the directory entry by
entry, so it looks at every name at some moment, and finds it or not.

### 3.7 Sealing shared graphs: `GraphSealer`, `GraphSealerProofs`

A runtime graph is made of natives (runs) and pairs (an index over a native, with a
main target and perhaps a secondary native). `persist` first tries a batch,
`prepare_ready`: `Visit` collects the unbound pairs, `Plan` the units whose
dependencies are bound, `TryPair` and `TryNative` claim without waiting, `Claimed`
decides whether enough was claimed, and `FinishReady` produces each unit. Then
`Walk` seals each root by `ensure_pair` and `ensure_native`: a stack of frames, in
which `Lock` is `get_or_create` waiting for a slot's mutex, `Dependencies` calls for
the targets, `LockNative` takes the pair's own native, and `EncodeNative`,
`EncodeIndex` or `EncodeFused` make and acknowledge the objects that `InstallNative`
and `Install` bind. An exception (`Fail`) unlocks everything and leaves the slots
empty; what was acknowledged before it stays in the catalog, unused.

Planning looks at many slots, one at a time, and waits for a producer at each; the
model looks at all of them in two steps and waits for none. It holds no lock meanwhile,
and bindings are never taken back, so that what a plan has missed is what the
claims find out. Of units that share an unbound native any one is chosen, and claims are
tried in any order. The limit of 16 units and natives that are mapped already are left
out.


### 3.8 Components that stand alone (`MCComponents`; proofs in `RebuildProofs`, `GraphSealerProofs`, `SessionProofs` and `ConnectionProofs`)

Each is a module of its own; `MCComponents` instantiates them all, and `subject` chooses
which one a behaviour is about.

* `NurseryMap`: the heap of AVL nodes, each with the edit token of the map that may edit
  it in place. `insert_or_assign`, `erase`, `freeze` and `thaw` follow `editable`, the
  rotations and `remove_first` node by node; `edit_fails` leaves a tree in the middle of an
  edit, and its map failed. Nodes nobody reaches are reused at once, as by the
  allocator.
* `MergeOutputs`, first part: the stages of `merge_publication` above a store which is external:
  it verifies what it calls durable, and a manifest whose write failed may `surface` as the
  selected root until recovery settles it (`select_old_root`).
* `RuntimeRegistry`: `replace` acquires the new roots' closures, then releases the old
  ones, or rolls back. The recursion is in the state: `calls` is the stack of `replace` and
  the acquisitions in progress, each with what it has acquired and what it has not yet, and
  `releases` is the references still to be let go. A step is one acquisition
  (`acquire_again`, `insert`, `acquire_returns`, `replace_returns`), one unwound call
  (`rollback`) or one `release`. Identities are not owners: two owners may claim one
  identity, and the second is refused (`refuse_other`). An allocation may fail at any
  acquisition (`throw`). What the table promises, it promises between calls (`Returned`).
* `MergeOutputs`, second part, the budget of outputs: `try_acquire` is a `load` and an `exchange` that succeeds only on the
  value loaded; leases are shrunk, reset, or attached to an output.
* `PartitionRound`: peers hold a base and accept batches by `apply` (replay, another
  base, overlap or done), each an `append` of pins to the world's table; readers hold
  snapshots (`take_snapshot`), which `compact` rewrites. Signatures are sums modulo `Modulus`, with hashes that collide.
* `ColaRuntime`: the published runs and the job, whose stages (merge, cascade, the index
  chain, commit) are paid for by `serve`; `contribute` runs a batch record by record, and
  `contribute_throws` and `advance_throws` abandon it at any point. `reopen` restores from a
  published head, if its intervals are those of a binary counter.
* `TypedWorld`: a world is its runs, layout and metadata. `PrepareBatch` and
  `PrepareErasure` build contributions on the current world, observing values one by one
  or through a `Scan` over the `native_sweep` of its runs; other contributions and
  `Republish` come between, then `Submit` validates. Records are arrows on three states,
  composed when runs merge.
* `CatalogObjects`: the catalog's rows about immutable objects. `reserve`, `record_sealed`,
  `register_graphs`, `prepare_cola_pair` with `FinishPair`, `save`, `acquire_save`,
  `record_native_merge`, `acquire_native_merge` (in two steps), `begin_private_scope` and
  `release_private_scope`; an index file may miscount the samples of its main target,
  which is found only when its graph is opened.
* `Transaction`: the staged world, the nursery's entry for each key (an arrow and the state it
  started from) and the private core of each transaction, and the snapshots of both.
  `change` composes an entry or, where a replacement restores what is staged, takes it away;
  a `flush` hands the nursery to the core, and one that fails may leave a core that has
  taken it (`Abandoned`). `freeze` keeps a snapshot, a `branch` of it has no core, and
  `commit_async` hands over a `Candidate` or nothing. `truth` is a history: the base with every
  edit made since. Keys are of the three sorts the code distinguishes: an arrow of its
  own with the original kept, a replacement, and records that compose.

### 3.9 Codes and streams (`MCAlgorithms`)

`MCAlgorithms` instantiates the algorithms in the same way. Keys are bit sequences of
`UnitBits`-bit units, words and bytes have a few bits, and blocks and groups two or three
entries, so that limits, restarts and overflows are met by the smallest inputs. The
reference definition each is compared with is one line: the records that were written,
the comparison of whole keys, the sorted union, the sum.

* `BitCodes`: counts in exponential-Golomb code or as varints, backspaces in either code,
  written and read bit by bit. A varint is also read from every string of bytes up to one more
  than a word may take, so padded and overflowing spellings occur. `BitReservoir` is `sort_bit_reader`: the word loaded ahead,
  `refill`, `skip`, the field in two fragments, the zero run and both count decoders.
* `Keys`, `FrontCoding`: what a search knows of a key (`Context`: order and common
  length), the native, borrowed and array writers, and each reader: by ordinal, cursors,
  windows, `reconstruct_at`, `predecessor`.
* `SortRecords`: the streams of `sort_codec.h`, each record opened by how its sort's path
  continues the one before, with every key and value grammar. In an ordered string a zero
  byte is followed by a terminator or by the one escape, and any other byte is refused.
* `SortProfile`: front-coded streams of several sorts; block seeds and the dictionary of
  sorts; the selector, the sequential reader and the window comparisons; and the merge of
  two of them, step by step.
* `NativeMerge`: the merge of two native streams by `compare_successor`, with tombstones
  that keep no more of a key than they may.

### 3.10 Indexes, sections and files (`MCAlgorithms`)

* `IndexStreams`, `FractionalIndex`: `cola_index_builder` takes one occurrence at a time
  from the native and two streams of samples (`choose_frontier`), then a query walks the
  chain of nodes through one window each.
* `IndexPipeline`: the single-target index of `profile_blob.h`, and a pipeline of builders
  that hand each other samples as backspace and suffix.
* `PackedWords`, `RankSections`, `EliasFano`, `FixedSearch`: fields packed into words,
  the populations of groups by each of the four ways to sum them (`K` 2 to 6), ranks of
  bits, sequences with sampled and listed groups and their cursor, and both searches of a
  window.
* `Sections`: the three formats of files, native, index and two-target COLA index, as
  bytes: sections at their aligned places, the directory, the header and its checksums;
  `opens` is every check of `open` and the views it constructs, `scan` every check of
  `scan`. `Changes` are the small damages: a byte, a number of the header or the directory, a
  border between two sections, the end. Checksums are taken to tell all contents
  apart, so that damage is always found by them; the property asks in addition what is
  sound when they were made for the damaged bytes. Object identities in
  directories, file kinds beyond these, and streams of bit units are left out.


## 4. The runs, their bounds, and why these are enough

| Run | Instance | What it shows |
|---|---|---|
| `session_safety` | 3 requests with charges such that each of the three limits is the one that binds in some state; 2 places; 1 closer; engines owing 0 or 1, sound or not; 4 publications; no fairness | `ReservationsExact`, `TicketsTellTheTruth`, `NobodyIsForgotten` (nothing is left when the worker ends, and no wakeup is lost), `TicketsSettleOnce` |
| `session_liveness` | 2 requests, of which one fits at a time; 2 closers | `EveryoneReturns` (shutdowns, blocked submitters, maintenance), and `ImplementsPromise`: `Session` implements `SerialSession`, progress included |
| `catalog_operations` | 2 names, 1 save, 2 checkpoints, generations 0 and 1, 3 operations, 2 handles | `ReportsAreTrue` (an answer repeats the recorded outcome, effects without an answer were flagged uncertain, and a handle that answers shows committed rows only), `GenerationsFormChains` (one writer each, publications chain, pins are exact) |
| `connection_contend` | 2 connections, 2 names, 1 save, 2 changes, 1 place in the queue, 2 generations after creation | `AnswersAreKept` (acknowledged is durable, refused never appears, what is current is a generation), `ImplementsHistory` |
| `connection_transact` | 1 connection, 2 transactions, 3 changes, 3 generations | `IdentityMeansContent`, `ImplementsHistory` |
| `redundant_schedule` | 5 levels, 12 records, a sixteenth of the service | `ScheduleSuffices` (merges find a slot and the prices are enough), `ReadersAreExact`, `CheckpointsRestore` |
| `rebuild_generations` | 4 keys, 1 value, single changes, 6 accepted records and 2 after a restart | `NeverRefuses`, `CandidateKeepsUp` through a whole generation |
| `rebuild_progress` | 2 keys, 2 values, batches of 2, folding, tiny and ordinary cleanups, 1 restart | `ImplementsTable`, `RebuildsFinish` |
| `construction_crashes` | 2 constructions in one leaf shard, the second an index over the first, 1 recovery and 1 power failure; or 1 construction, 2 recoveries at once and 2 power failures; deaths anywhere | `ReceiptsAreDurable`, `RecoveryIsExact` |
| `sealing_shared` | 2 stores that seal 3 pairs and 3 natives in opposite orders, one native shared by a pair and its main target, 2 failures | `OwnersAreSealedOnce`, `SealingReturns` |
| `components` | the components of 3.8, and the redundant runtime with 4 levels and 6 records under fair service | `MapsStayApart`, `RootSurvivesDoubt`, `CountsAreExact`, `ChargesAreExact`, `RoundsConverge`, `BinaryRunsAreExact`, `TypedWorldsAreExact`, `ObjectsAreGrounded`, `TransactionsKeepTheirWorld`, `AdmissionReturns` |
| `algorithms` | the algorithms of 3.9 and 3.10 | `CodesAreUnambiguous`, `StreamDenotesTheRecords`, `SortsReadBack`, `MergeIsExact`, `QueriesFindEveryMatch`, `PipelinesBuildTheIndex`, `SectionsAreExact` |

The type invariants of the modules with proofs are proved, as parts of the inductive
invariants (section 6). Deadlock
checking is off throughout: every one of these systems may be idle for
good, or reaches a bound of the model.

Why the bounds are enough for the cases that matter:

* *Session.* The hazards involve a claimed request, a queued one and one that is
  being reserved or cancelled: three requests. Blocking needs a limit below
  that: two places. Two closers are needed for `shutdown` racing `shutdown`, and
  appear where liveness is checked.
* *Catalog.* Publications contend with two handles and two checkpoints; a retry
  after the session has moved on needs a third operation. A name needs two
  generations for "latest" to differ from "held".
* *Connection.* Losing a race needs two connections and a generation to lose;
  a transaction is invalidated by a contribution, left alone by maintenance and
  overtaken by another transaction: two transactions and three generations.
  The second name is forked from the first, at any of its generations or at a
  save, and then written by either connection.
* *Redundant runtime.* Twelve records reach the fourth level; with the reduced
  service three levels merge at once, which is when slots are short.
* *Rebuild.* Four live keys put the table above the (scaled) small limit and let a rebuild
  freeze, scan, replay several writes and hand over with the horizon still in
  reach; two keys with two values and batches exercise folding and atomicity.
* *Construction.* Two writers in one shard are the case of the comment in `finish`:
  a directory somebody else has just made. Constructions meet only in their
  directories, so one is enough against two recoveries. A second power failure
  can undo what the recovery after the first has not synced.
* *Graph sealer.* Two pairs over one native, a main target common to both roots,
  and a native that is a root of its own and a secondary: every way in which one owner
  is met twice. Batches form at the first call and, of other units, at a call
  after a failure.

* *Components.* Four keys give the nursery's tree both rotations below a root, and
  their mirrors. Two checkpoints and two manifests: the one in doubt and the one after
  it. The registry's owners share children through a pair, in lists that repeat
  owners and in one whose identities disagree. Two threads race for a budget of two.
  Two batches overlap in a key, or differ in their base. Five admissions make the
  binary counter cascade over two levels. Two keys of a sort of replacements and one whose
  records compose; three records and layouts. Three attempts on objects: a root, an index
  over it with a secondary, and one whose file miscounts. A transaction needs two edits to
  change a key, flush, and change it back, a second one to branch a snapshot, and one key of
  each sort.
* *Algorithms.* Strings of up to 11 bits hold every code of a four-bit word and the
  first that overflow it. Streams have two or three blocks, so that a reader enters at a restart, before and
  after it, and keys of up to two or three bits share every possible prefix. Merges and
  indexes take every small set of keys in either source, with equal keys. Classes fill two
  words and a bit; windows have every size to one past the largest that pivots divide.
  Files have two blocks, two samples and two groups, and each byte takes another
  value.

Every property of every run has a mutant in `PROJECT.json`: a plausible bug of
the code (a dropped guard, a swapped order, a reset forgotten) under which the
same run fails. Symmetry is used where a run has only invariants or action
properties and the constants are interchangeable (`catalog_operations`,
the connection runs, `rebuild_generations`), never with liveness.


## 5. Fairness

* *Session.* Weak fairness of the worker's steps, of a submission that has
  begun, of a cancellation that has erased, of a shutdown that has been called,
  and of a woken thread reacquiring the mutex. These are threads that the
  operating system schedules. Nobody is obliged to submit, cancel or close, and an
  engine is not obliged to be sound: `MaintenanceConverges` says what holds if
  it owes service and keeps its contract.
* *Redundant runtime* (in `components`). Weak fairness of `Serve` and of `Advance`, written
  out with what enables them: its owner, the session's worker, serves while
  `pending()`.
* *Rebuild.* Weak fairness of the steps inside a call, of
  `AdvanceForeground`, and of `Advance` with some budget: again the worker, which maintains while
  the engine is pending and no request waits. Nobody has to write.
* *Graph sealer.* Weak fairness of each store's steps: its thread runs, and gets a
  mutex it waits for if nobody else does. A failed store need not be used again.
* *SerialSession* promises progress of each accepted contribution; `Session`
  implements it under the fairness above. *Catalog*, *Connection* and the
  other safety runs assume none.


## 6. What is proved, and how

Each proof holds for every value of the constants that the module's named assumptions
allow: any number of requests, threads, names, stores, constructions or manifests, and
any limit. The assumptions are the code's own preconditions, and TLC evaluates each in a
run:

| Assumption | What it asks |
|---|---|
| `SessionAssumption` | finitely many requests, natural charges and limits |
| `TimelinesAssumption`, `CatalogAssumption` | the null values are not values |
| `ConnectionAssumption` | the same, natural bounds, and logical identities enough for every position that may be held at once, as a new one is random in the code |
| `RebuildAssumption` | finitely many keys, natural prices, a horizon of at most half the trigger, and a small limit from which neither is zero: in the code live / 8, live / 4 and 64 |
| `ConstructionAssumption` | natural bounds; a construction's target is another, and lock files are not objects |
| `GraphAssumption` | a pair's native and targets and the roots are owners of the graph, and the null value is no owner, unit or object |
| `ObjectsAssumption` | files and attempts name objects of the catalog by identity, a main target is a pair, and the null value is no native |
| `RuntimeAssumption` | levels enough for the records ever admitted, a price bound of at least five steps per record of a merge, a positive rate; the theorems of `ScheduleProofs` ask for `HalfRate >= 3` besides, where the code has 16 |
| `RoundAssumption` | finitely many keys; hashes are naturals and the ring's modulus positive; the bases are tables. Nothing of the hashes' quality: they may all collide |
| `RegistryAssumption` | finitely many owners; children and roots are owners; any set of owners has one that is no child of the others, since an owner is made after its children and keeps them |
| `TransactionAssumption` | arrows act on states and compose; those of a replacement forget the state they meet, the laws `sort_semantics` owes (`typed_world.h`); the null value is no entry and no world |
| `PublicationAssumption`, `BudgetAssumption` | null values name no manifest; finitely many threads, a natural limit |

Every proof has one form: the initial states satisfy an invariant, each action
preserves it, and it implies what a run checks. What is worth reading is what had to be
added to make the invariant inductive, which is why the code is right. The theorems are listed in
`PROJECT.json` ("theorems"). `DataLemmas` holds what several of them need of the data:
heads, tails, appended and removed elements of queues; prefixes; and sums over
finite sets.

*Session* (`SessionProofs`). `TicketsTellTheTruth` and `TicketsSettleOnce` are not
inductive: nothing in them says who may still set a promise. The invariant `IInv`
adds the missing facts, in an order in which each rests on the one before:

1. `OneOwner`: every unsettled accepted request is in exactly one pair of hands, the
   queue, the worker, the list that `failed` rejects, or a canceller.
2. `WorkerPlace`, `OnlyAcceptedSettle`: where the worker is determines what it holds.
3. `CountExact`: `count_` is the number of outstanding requests. A submission adds
   one and each owner takes away its own, so it follows from ownership.
4. `PublishedConsistent`: the published generation is the length of its world, and
   the claimed request is its last contribution when its ticket is due.

Each action preserves each conjunct (`SubmitOwners`, `CancelOwners`, `AwaitOwners`,
`EngineOwners`, `ReportOwners`, `FailOwners`, `AbandonOwners`, `TicketsStep`). Then
`EndsEmpty` follows from the count: the worker ends at `count_ = 0`, so nobody
owns anything. `SettledOnce` is an action property proved from the same invariant. Three more
rest on it:

* `NobodyForgotten`: for each kind of sleeper, if what it waits for holds then it has
  been woken. The work is the converse per action: whatever makes a condition true
  notifies the variable on which it is awaited, and whatever does not notify leaves it
  false. Only `EndedEmpty` is needed besides.
* `ReservationsHold`: `reserved_` is the sum of the charges of the outstanding
  requests. That a sum over a finite set changes by one charge when one request comes or
  goes is proved in `DataLemmas`, by taking away one member at a time.
* `KeepsThePromise`: under the refinement mapping of `Session` every step is a step of
  `SerialSession` or a stutter. It needs `OneOwner`, and that the claimed request and then the queue are in the
  order of acceptance (`InArrivalOrder`).

*Catalog* (a part of `SessionProofs`). The conjunction of the properties with `Bounded` (the length of a
timeline) is inductive; the work is in what a request does to the tables. `OneRow`
says it once: an applicable request appends at most one row to one name's
timeline, and leaves all else. From it follow that heads stay rows (`RowsStay`),
that the writer of a generation is unique (`WritersStep`), that a publication
follows the row it expected (`PublishChains`, `ChainStep`), and that saves and
sources stay exact (`SavesStay`, `SourcesExact`, `PinsStep`). `ChainedGenerations`, which
is `GenerationsFormChains`, puts the last three together. For `ReportsAreTrue` the tables a
transaction sees are `db`, or what its handle has left: whoever has left something has
stopped (`MoreStop`) and keeps all others from beginning (`OneIsLeft`), until it is closed
(`ReopenedIsClean`).

*Catalog objects* (the last part of `SessionProofs`). `ObjectsAreGrounded` says nothing of a
request that has read the files and has not yet taken the write lock. `PreparedIsSound` does:
what it read still holds, but for the objects it is about to seal itself. Every action's
tables `Advance` (files, pins, seals, rows and hints stay), and what a check accepted is
accepted ever after (`ChecksStand`), so what is read keeps, and each row, root, hint and grant
has to be looked at only by the action that adds it. A pair is registered with the main
target it was checked against (`NewRowsAreGrounded`), a graph with all its targets, which
bind (`ChainIsClosed`, `GraphsHold`); every way to register writes the row its files describe, so no
two ways disagree. Targets need not be acyclic for it.

*Connection* (`ConnectionProofs`). An answer is kept because of what the tables, every
connection, its queue and every transaction know of each other, and the invariant says it for each:
what a connection shows is a row of its name, and what its worker is about to publish continues that
(`ConnectionIsSound`, `UpdateIsSound`); a transaction continues its base (`TransactionIsSound`);
an identity names one content wherever it occurs (`IdentityMeansContent`); what waits is in one
queue and in no world (`QueuesAreSound`, `PendingInOnePlace`), and so is what was refused
(`RefusedStaysOut`). A step of one connection keeps what the others rest on because tables only
grow: `SafeStep` states what a step may do at all, `SafeStepKeeps` that the invariant survives it,
and there is a lemma per action that it is safe. Then `AnswersAreKeptHolds` and
`IdentityMeansContentHolds` are consequences, and `RefinesHistory` is the
implementation of `NamedHistory`: a published row is `Extend`, a created or forked name
is its `Found` or `Copy`, and all other steps leave every history as it was.

*Transactions* (the last part of `ConnectionProofs`). `TransactionsKeepTheirWorld` compares a
transaction with the history of its edits. The invariant says what each key's entry is
(`EntrySound`): its arrow leads from what is *staged* to the history, a replacement is kept
only if it leads elsewhere, and the original kept beside it is the staged state, not the base's;
without an entry the two agree. A core, if there is one, holds what is staged, and a
transaction that never flushed has staged its base (`StageSound`, `OpenSound`). So a core
never meets a deletion of what it has not got, a flush makes the two equal
(`SoundAfterFlush`), and a commit hands over either that or the base unchanged. A flush that
fails breaks the agreement of core and stage, which is why nothing of a failed transaction is
used again.

*Redundant runtime* (`RedundantProofs`, `ScheduleProofs`). The documents of the runtime leave a
universal proof of its schedule open (redundant-runtime.md, "Service and admission"); this is
one, for any number of levels, of records and of steps a merge may be charged. It has two
halves, the places of the runs and the work.

1. `IsWhole`: each level has one of six places (`Kinds`): no run, one, two that wait for
   their merge, the two it has consumed, a fresh run beside those until a root reaches it, or,
   at level 0, the carrier that is the root. A place names the routes to the runs,
   where their records end, and whether a root has reached them; given the places, every object's
   interval, every slot's state, every job and every `last_destination` is
   determined (`RunsAreSound`, `SlotsAreSound`, `JobIsSound`, `LastIsSound`). Each step of the code
   changes one or two places, but the commit at level 0, which reaches the levels up
   to the first that a root has reached already (`AdmissionLaysOut`, `BegunIs`, `ProducedIs`,
   `HandingLaysOut`, `Hidden`, `BatchStack`). `FrontiersStayWhole` says that the executor's
   frontier and the published one stay whole. What readers see then tiles the admitted
   records level by level, which is `ReadersStayExact`.
2. `IsRegular`: while a level waits with two runs, fewer records came since than one
   of its runs has. So the level below it has not got two runs again: adjacent levels
   are never unsafe together, and what a commit hands up finds a slot. Regularity is not
   inductive alone. It depends on each merge ending in time, hence on the work.
3. `OnSchedule`: an account of the work. `IsDebt` is what the records that came since a
   level last grew owe to the merges below it, less what those were charged already. `AllFit`
   says, of every level that waits, that what its merge and those below may still be
   charged, the checkpoint that may be due and `Rate` for every record since are covered by a fixed
   sum per record of its runs and by `service_due + credit`. A step of a merge takes from both
   sides (`ServedFits`); a commit passes what is left to the level above (`MergedFits`); and
   where nothing is left to spend, the records since are so few that another one still has room
   (`RoomRemains`). Only then is one admitted, and its budget covers what it makes every
   waiting level owe (`BudgetCovers`, `AdmittedFits`; here 3/2 is needed).
4. `Prepaid`: the initial batch's allowance covers one merge of each level left in its
   carry chain, and its two checkpoints.

`ExecutorStaysOnSchedule` is the induction, and `ScheduleHolds` and
`CheckpointsStayRestorable` are what follows of it: the latter from `IsWhole` of the published
frontier, whose places give all that `restore` asks of slots, routes and jobs, and from
`IsRegular`, for what it asks of levels that wait. After a restart
with merges in progress (`recovery`) the code promises no account and demands none: the
executor is not ready until all is served.

*Replacement rebuild* (`RebuildProofs`). That no `require()` of the executor ever fires is an
argument of amortised cost. Its parts, all of the invariant but the third, a lemma:

1. `WorkIsBounded`: what a rebuild has committed and what it may still have to pay
   (`Remaining`: the rows to scan, the queue to replay, the merges both may leave, and the
   handoff) is at most what was reserved at the freeze, and one action for each write
   admitted since. Every paid action lowers `Remaining` by at least its price.
2. `GrantsSuffice`: each write grants its share of the reservation, which rounds up, so at the
   horizon all of it is granted; a cleanup is granted everything at once.
3. `StopsInTime`: a service that stops lacks the credit for one more action, which by 1 and 2 it
   cannot at the horizon; so the rebuild has been installed by then.
4. `GenerationIsSound`: the horizon is over before the mutations it adds would pass the next
   trigger, which is where the divisors of `RebuildAssumption` are needed.
5. `ScanIsSound` and `QueueIsSound`: the candidate is the frozen table less the rows still to
   be copied, and the queued changes, applied in order to those rows and the candidate, give the
   foreground's table. At the handoff nothing is left of either, so both tables are
   equal. The rows come in any order, and occurrences of a key hidden by later
   ones count in the price and not in the table.

`NeverRefuses` follows from 1 to 5, and `CandidateKeepsUp` from 4 and 5. `BatchIsApplied`, that
the foreground is the published table with a prefix of the batch, gives the
refinement `ImplementsTable`: the step that publishes applies the batch whole, and each
other step, every one of the rebuild's included, leaves alone what readers see.

*Construction* (`ConstructionProofs`). Names and content may be lost in a power failure
unless they were synced, at any step, so the invariant states what each stage has
*reached* (`Reached`): written, synced, named, named for good, recorded. `SealIsSound` has
it for each object, together with its target's; `LeaseIsSound` keeps the lock file of a construction
alive, held and found from its root as long as its scope may be open; `RecoveryIsSound` and
`StaleIsSound` say that a recovery works on the lock it holds, and that what it has read
before it had the lock can only have become more finished. Effects on the file system are lemmas of
their own (what a sync, a rename, a removal, a loss of power leave of a name). From these
follow `ReceiptsHold` and `RecoveryHolds`.

*Graph sealer* (`GraphSealerProofs`). `OwnersAreSealedOnce` relates bindings to graphs; the
invariant relates both to what each thread is about to do. For a store `Local` says
that its phase, its units, its claims and its stack fit each other: each unit's dependencies
are bound and its locks held; each frame of the stack holds the lock it says, and
what the frames below it have computed is still true; the roots before its place are bound. Then
`BindingsAreSound` (a binding denotes its owner's graph, over the bindings of
its targets) and `WasteIsBounded` (objects without an owner are counted by failures). One argument
serves all actions (`OthersKeep`): a step of another store binds only owners whose lock it
holds, and never unbinds, so nothing that a store rests on changes. Deadlock freedom
is not part of it, so the graphs need not be acyclic; they must be for
`SealingReturns`, which stays with TLC.

*Runtime registry* (the last part of `GraphSealerProofs`). `CountsAreExact` says nothing of a
call in progress. `RegistryIInv` balances the counts at every step: the references of an
entry are the times its owner is among the registered roots, has been acquired by an owner or
by `replace`, and is still to be released, and one more while its own acquisition is in progress.
An owner in the table has acquired all its children, or those its call has
reached so far. For this the calls must be a path of distinct owners in the table, each
with one reference, which is where the graph must have no cycle: what a call finds in
the table is then not on the path (`NextIsOffCall`), so a rollback erases an entry that
nobody else has acquired. Between calls the balance makes each owner in the table
reached: of those that are not, one would be no child of the others, and nobody would have
acquired it (`LiveIsReached`).

*Merge publication and budget* (in `RebuildProofs`). `RootSurvivesDoubt` says nothing of
the manifests that may still become
the root. `PublicationIInv` does: the root is the manifest published last or the
one pending, no other is afloat, and each of the two was prepared over an
output that was durable by then (`CandidatesAreBacked`); away from an attempt in doubt there is
no candidate but the published one, and the old pins are let go only in the stage
`published`, which none leaves (`StageIsTrue`). `ChargesAreExact` is inductive once it is added that a
value loaded for an exchange was within the limit (`CallsAreSound`): the exchange succeeds
only on that value, and then the sum of the leases changes by what it was changed by.

*A round of batches* (the last part of `RebuildProofs`). The invariant says what a world is
(`IsWorld`): its runs, newest first, resolve to a table; the contributions of its pins add
up to the signature kept beside them; and both that signature and the live size are what
the table itself determines. Each peer's world is one of the base with every batch it
accepted edited in (`AfterAll`), and the batches it accepted never edit one key twice
(`AreApart`), so no order of theirs matters; each reader's world is one of the table it
took. An `append` keeps this because an edit's delta is the difference of two bindings
in the ring (`DeltaMoves`, `EditsMove`), for which the value before must be the one the
world has: that is what `Fits` checks against the base and the claims. Compaction is
never refused since the sums of all pins agree with the signature (`CompactIsFresh`).
Remainders are handled by `Same`, equality up to a multiple of the modulus.


## 7. What is only model-checked, and what is not modelled

Model-checked only:

* every liveness property (`EveryoneReturns`, `RebuildsFinish`, `SealingReturns`,
  `AdmissionReturns`) and the progress half of `ImplementsPromise`: liveness and ENABLED are
  out of the prover's reach;
* what the algorithms of 3.9 and 3.10 compute: it is defined by recursion over the data,
  and the library's induction theorems cannot be instantiated by the prover;
* `NurseryMap`, for the same reason;
* `ColaRuntime` and `TypedWorld`, which may be proved about later;
* the redundant runtime at rates below 3/2, where the run's 1/2 shows that the bound is not
  tight for twelve records.

Not modelled, beyond what `PROJECT.json` ("components") lists per component:

* Tests, benchmarks, module wrappers and the Lean development in `proof/`.
* Bytes on their way to a file: how a streaming writer cuts them (`native_file_*.h`,
  `file_index_*.h`, `sort_profile_file*.h`), mapped regions, and the adaptive builders
  that begin in memory and continue in a file. They call the same encoders and merges.
* The values of checksums and hash functions: `crc32c.h` is taken to tell contents apart,
  hashes are small tables that collide.
* Sizes beyond the machine's: `multiply` and `add` refuse what overflows 64 bits, and
  nothing near that is built here, except by `BitCodes`, whose words are small.
* Vector instructions, prefetching and statistics, which no result depends on.

Memory-order questions do not arise but for the budget's counter: other shared state is
under mutexes, or immutable. Time does not occur in the code.


## 8. The plan

Done, in this order: `SerialSession`, `Session`, `SessionProofs`; `Timelines`,
`Catalog` and its proofs; `NamedHistory`, `Connection`; `RedundantRuntime`;
`AtomicTable`, `ReplacementRebuild`; `Construction`; `GraphSealer`; the components of
3.8; the algorithms of 3.9 and 3.10; then `ConnectionProofs`, `ConstructionProofs`,
`GraphSealerProofs`, the rest of `SessionProofs`, `RebuildProofs`, `RedundantProofs` and
`ScheduleProofs`.

How the modules compose: `Connection` and `Catalog` share the tables of `Timelines`;
`Connection`'s queue is the one `SerialSession` promises and `Session` implements;
`ReplacementRebuild`'s engine abstracts `RedundantRuntime`; `Connection`'s core abstracts
`ReplacementRebuild` to what `AtomicTable` promises; `CatalogObjects` is the tables beside
`Timelines`, in `Catalog`'s transactions, of files that `Construction` makes durable;
`Transaction` is what stands behind a nursery and a flush of `Connection`;
`TypedWorld`'s merges are the runtimes', and `NativeMerge` is one such merge inside;
`NativeMerge` and `Sections` extend `FrontCoding`, `FractionalIndex` and `IndexPipeline` share
`IndexStreams`, and `Sections` is built from `EliasFano` and `RankSections`.

Next, in order of weight:

1. `ColaRuntime` shown to implement a plain counter of runs.
2. The streaming builders' switch from memory to a file under a refused lease
   (`sort_profile_adaptive.h`), composed with the budget of `MergeOutputs`.
