# pglance in TLA+

pglance is a PostgreSQL extension (Rust, pgrx) that reads Lance datasets through
foreign tables and writes them through SQL functions. This directory holds TLA+
modules of the parts that change state, TLC configurations that check them on
small instances, and proofs that TLAPS checks for all instances.

Paths below are relative to the repository, whose Rust sources are in `src/`.

1. [The system](#1-the-system)
2. [Modules](#2-modules)
3. [Runs](#3-runs)
4. [Proofs](#4-proofs)
5. [Where code and documentation disagree](#5-where-code-and-documentation-disagree)
6. [What is only model-checked, and what is not modelled](#6-what-is-only-model-checked-and-what-is-not-modelled)
7. [What would come next](#7-what-would-come-next)

## 1. The system

Every SQL function runs in the PostgreSQL backend that called it, with a Tokio
runtime of its own: there are no threads of the extension that outlive a call
and no memory shared between backends. What backends share is outside: Lance
datasets, the catalog of the database and a remote Lance namespace. All
concurrency is therefore between the steps of calls in different backends, and
every call to Lance, to SPI or to the namespace is a point where others step in.

| component | code | state it keeps | operations | interacts with |
|---|---|---|---|---|
| Streaming writes | `write/append.rs`, `write/merge_insert.rs`, `write/pg_to_arrow.rs`, `write/storage.rs` | a cursor over the source query, counters, `first` (append), the dataset handle and the list of transactions (merge) | `lance_append`, `lance_merge_insert`, `lance_merge_insert_with_schema` | the dataset: one Lance commit per chunk |
| Delete | `write/delete.rs` | the dataset handle, the count of fragments before | `lance_delete` | the dataset: one commit |
| Maintenance | `write/optimize.rs`, `write/vacuum.rs`, `write/index.rs` | the dataset handle; for a cleanup its policy | `lance_optimize`, the index functions, `lance_vacuum` | the dataset, its data files and old versions |
| Metadata | `write/metadata.rs` | the dataset handle | `lance_table_info`, `lance_fragment_stats`, listings, `lance_cleanup_plan` | reads of the dataset |
| Aggregates | `write/aggregate.rs` | running minimum and maximum | `lance_min`, `lance_max` | a scan of the dataset |
| Foreign scan | `fdw/scan.rs`, `fdw/handler.rs` | the pinned dataset, its stream, the batch in hand and the row in it | begin, iterate, rescan, end | the dataset at one version |
| Options | `fdw/options.rs` | none | validation, precedence of `ns.table_id` and `uri` | foreign scan |
| Namespace attach and sync | `fdw/attach_namespace.rs`, `fdw/sync_namespace.rs` | the listing, the mapping to local names, the local tables found | `lance_attach_namespace`, `lance_sync_namespace` | the remote namespace (requests) and the catalog (SPI) |
| Connection and import | `fdw/namespace.rs`, `fdw/import.rs` | none | connect, `lance_import` | namespace, catalog |
| Naming and composite types | `fdw/naming.rs`, `fdw/ddl.rs`, `fdw/type_mapping.rs` | the names seen and the types found so far | names of schemas, tables and types, DDL text | attach, sync, import |
| Conversions | `fdw/convert.rs`, `write/pg_to_arrow.rs` | none | Arrow values to datums and back | scan, writes |
| Entry points | `lib.rs` | the GUCs `lance.write_chunk_rows`, `lance.max_write_buffer_mb` | argument defaults, `Err` to `ERROR` | all |

What makes these hard:

* **Writes.** A call is many Lance commits, and PostgreSQL's rollback undoes none
  of them. Between two chunks other backends commit; between opening the dataset
  and the commit they do too, and Lance rebases, retries or refuses. A call may
  stop anywhere: source error, storage error, memory guard, cancel. Correct
  means: what a call has committed is an initial segment of its source, each row
  once; a merge applied in chunks means what one merge means; rerunning an
  interrupted merge completes it; nothing is lost, doubled or brought back.
* **Attach and sync.** The listing takes many requests to a namespace that keeps
  changing; the local tables are looked up once, often in a snapshot older than the
  listing, and dropped or recreated later;
  DDL of other sessions falls in between; a remote failure is sometimes a row of
  the result (and the statement commits) and sometimes an error (and it rolls
  back). Correct means: only the extension's own tables under the root are ever
  dropped, and only for the reason the caller allowed; a table that exists is
  never taken for a missing one; the rows tell what happened; a full sync brings
  the catalog in step and the next one then does nothing.
* **Scan.** All passes over one scan see one version, whatever is committed
  meanwhile. A vacuum may take that version away, and then the scan fails; what it
  returns is never a part of a version or a mixture.
* **Maintenance and metadata.** Numbers taken at different moments (fragments
  removed, latest version), rewrites and deletes prepared on a version that is no
  longer the latest, and old versions deleted under a reader. Correct means: only
  appends and deletes change rows; a cleanup takes only what is old and garbage,
  and what a plan calls garbage stays so; a report is about one version.
* **Types and values.** The import, the check at the beginning of a scan and the
  conversion of a value each have a table of types of their own, and have to agree;
  the composite types a table needs share one name space and outlive the table;
  integers, timestamps and decimals have boundaries. Correct means: what is
  imported can be scanned, what is shown is what the dataset holds, what is written
  comes back, and the two ways to a minimum give one answer.

`PROJECT.json` lists the hazards at their lines with the properties that cover
them.

## 2. Modules

### Write path

| module | models |
|---|---|
| `Chunking` | chunk boundaries: `NextStop` (`cursor.fetch(chunk)` with `lance.write_chunk_rows = 0` as one chunk) and the positions of a chunk |
| `LanceLog` | the contract of the Lance crate (outside of this repository): a dataset is a log of versions, each with the rows a reader sees; how a merge matches, and what makes a commit conflict |
| `WritePath` | the calls: fetch loop, chunk handlers of append and merge, commits |
| `MergeResult` | what a merge means as a whole, with no chunks, versions or handles |
| `WriteLedger` | abstract specification: a call makes the rows of its source durable chunk by chunk |
| `WriteRefinement` | the refinement mapping from `WritePath` to `WriteLedger`, and termination |
| `WriteClaims` | sentences of documentation and comments that the code does not keep |
| `WritePath_proofs`, `WriteRows_proofs` | proofs: of the calls and their commits; of the rows they leave |

`WritePath` and the code:

| state | code |
|---|---|
| `log` | the Lance dataset; `<<>>` when there is none |
| `args` | arguments of the SQL call and the GUC it reads; `fault` says what is wrong with the call, if anything |
| `pc` | where the call is: `fetch` (top of the loop in `for_each_spi_chunk`), `handle` (the chunk closure), `commit` (inside the Lance operation), then its outcome |
| `total` | `total_rows`, counted before the handler runs |
| `done` | source rows in finished chunks; the batches in hand are `done+1..total` |
| `first` | `first` of `lance_append_impl` |
| `handle` | `dataset: Option<Arc<Dataset>>` of the merge, as the version it is pinned to |
| `readv` | the version the Lance operation was prepared against |
| `txns` | `chunk_txns` |

| action | code |
|---|---|
| `Start` | `lib.rs` and the checks before the loop |
| `FetchChunk`, `FetchEmpty`, `FetchRejected` | one `cursor.fetch`; only an empty fetch ends the loop; the columns are looked at on the first rows |
| `GuardAborts` | the check of `lance.max_write_buffer_mb` in `convert_spi_rows` |
| `PrepareChunk`, `HandleRejected` | the handler up to the Lance operation: open or take the handle, checks of mode, keywords, `on_columns` |
| `CommitWrite`, `CommitMerge` | the commit takes effect; the whole rest of the handler belongs to it |
| `RetryMerge` | Lance executes a contended merge again on the latest version |
| `CommitRefused` | a conflict that cannot be rebased |
| `Interrupted` | any other end: source or storage error, cancel, death of the backend |

Abstractions: a row is its key and the identity of its source row, which stands
for all other columns; conversion of datums, batches inside a chunk and NULL keys
are left out; how many bytes a chunk takes is a nondeterministic choice; the
existence check of `lance_append` and the open inside `Dataset::write` are one
step, since a dataset that exists stays.

The Lance contract in `LanceLog`: an append is rebased over anything but a
replacement of the table; an overwrite always commits; a create only where no
dataset is; a merge is refused when the table was replaced or two source rows of
a chunk match one target row under update, and is executed again when a row it
rewrites has been changed. Two merges that insert one key at the same time are
*not* detected. A different contract would need another `LanceLog`; nothing else
depends on it.

### Attach and sync

| module | models |
|---|---|
| `NamespaceSync` | `lance_attach_namespace` and `lance_sync_namespace`, the remote namespace and the catalog |
| `NamespaceClaims` | what the rows of the result say, taken at their word |
| `NamespaceSync_proofs` | proofs |

| state | code |
|---|---|
| `remote` | datasets in the namespace, with their columns; changed by others at any time |
| `cat`, `types` | relations and composite types of the catalog |
| `snap`, `fresh` | the catalog in the snapshot of the calling statement, and whether the transaction has an id, so that SPI takes a new one |
| `undo`, `made` | what the transaction of the call has changed: locked until it ends, restored if it aborts |
| `arg`, `pc` | arguments and place of the call |
| `queue`, `listed` | `queue` and `out` of `list_table_ids` |
| `localOf` | `local_by_id` |
| `todo` | entries of the loop at hand (`mapping`, then `local_only`), visited in the order of names |
| `rows` | the result |
| `steady`, `meddled`, `gone`, `settled`, `changes` | history the properties speak about: which datasets have not changed since the call began, whether another session changed the catalog, which slots it emptied after the snapshot the introspection reads, whether a full undisturbed sync is the last thing that happened |

| action | code |
|---|---|
| `Begin`, `ListTables`, `ListNamespaces`, `ListFails` | connect and `list_table_ids`; a page is any non-empty part of the tables that are there at that moment and were not listed yet |
| `BuildMapping` | `build_mapping` and `introspect_local_namespace_tables`, in the snapshot of the statement or in one of its own |
| `AttachExisting`, `AttachNew`, `CreateTable`, `CreateFails`, `CreateRejected` | `attach_one`: look-up, dry run, load of the dataset, DDL; `CreateFails` is a remote error reported in a row, `CreateRejected` an SQL error, which ends the statement |
| `ReportMisplaced`, `ReportDrift`, `DropDrifted`, `DriftUnknown`, `DropDriftedFails` | the arms of the first loop of `sync_namespace` |
| `EndReconcile`, `ReportMissing`, `DropMissing`, `DropMissingFails`, `EndMissing` | the second loop |
| `Commit`, `RollBack` | the end of the statement's transaction |
| `RemoteChanges`, `OtherSession` | the environment: any dataset appears, changes or goes; another session drops a relation or creates one in an empty slot, unless the call's transaction has it locked |

Abstractions: a slot is a pair of local schema and table name, and the map from
table ids to slots is a constant (`naming.rs`), not injective. The columns of a
dataset are what drift detection can see (`flat`) and the fields of its struct
column (`nested`). The option `batch_size`, handed from the old table to the new
one, and `CREATE SCHEMA IF NOT EXISTS` are left out. The tree of namespaces does
not change, only the tables in it. A page that lists a table twice is not
modelled. The drift check and the drop after it are one step.

What the introspection sees depends on the transaction. pgrx runs a `SELECT` of SPI
read-only, in the snapshot of the calling statement, as long as the transaction has no
id; that snapshot is taken before the remote listing, which may take long. In a
transaction that has changed something already, or once the call has run its first
command, each `SELECT` takes a new snapshot. Both are modelled (`fresh`), with the
statement's snapshot at `Begin`. PostgreSQL's isolation level is taken to be READ
COMMITTED. The look-up of one name in `attach_one` (`Spi::get_one`, which gives the transaction an
id) always sees what is there.

The assumptions of `NamespaceSync` are named there. One excludes an input the
code does not: no table has the id of the root namespace itself
(`RootAssumption`; see the hazard at `sync_namespace.rs:411`).

### Foreign scan

| module | models |
|---|---|
| `TableScan` | abstract specification: a scan is opened on a list of tuples, and each pass gives them one by one |
| `ForeignScan` | the scans of a statement, as `scan.rs` implements them, beside backends that commit versions |
| `ScanRefinement` | the refinement mapping from `ForeignScan` to `TableScan` |
| `ForeignScan_proofs` | proofs |

| state | code |
|---|---|
| `data` | the versions of the dataset, each with its columns and rows |
| `attrs` | the foreign table's attributes (`tupdesc`), dropped ones included |
| `phase` | which callback PostgreSQL calls next; `reading` is inside the loop of `iterate_foreign_scan` |
| `pinned`, `colOf` | `dataset` and `att_to_batch_col` |
| `streamed`, `empties` | how far the stream is, and how many empty batches it may still deliver |
| `batch`, `row` | `current_batch` (as the numbers of its rows) and `current_row` |
| `out`, `through` | what the pass has returned; the results of the passes that reached the end |
| `boxed`, `failed`, `stmts` | scan states allocated by `Box::into_raw`, statements that failed, statements begun |

| action | code |
|---|---|
| `BeginScan`, `ExplainOnly`, `BeginFails` | `begin_foreign_scan` |
| `FetchBatch`, `ReturnRow`, `EndOfStream` | one turn of the loop of `iterate_foreign_scan` |
| `Rescan`, `EndScan` | `rescan_foreign_scan`, `end_foreign_scan` |
| `ScanFails` | a stream error, a value that cannot be converted, a cancel: no callback is called any more |
| `Start`, `Commit` | PostgreSQL begins a statement, perhaps after an ALTER; a backend commits a version |

The model takes the executor's protocol for granted: all scans of a statement
begin before the first tuple is asked for, a pass that has ended is not asked
for more rows without a rescan, and the table is not altered during a statement
(it is locked). Values are compared and never converted; whether a column's type
can be read is that it is the attribute's type.

### Maintenance

| module | models |
|---|---|
| `RowTable` | abstract specification: a set of rows, which appends and deletes alone change, each at once |
| `Maintenance` | the dataset as versions, fragments, data files, tags and indexes; delete, compaction, indexes, vacuum, cleanup plan and reports, with appends and scans beside them |
| `MaintenanceRefinement` | the refinement mapping from `Maintenance` to `RowTable` |
| `Maintenance_proofs`, `MaintenanceRows_proofs` | proofs: of vacuum and indexes; of the refinement and the reports |

| state | code |
|---|---|
| `log`, `stored`, `manifests`, `files`, `tags` | the Lance dataset: versions with their fragments, deletions and indexes; the rows of each data file ever written; which manifests and files are there |
| `call`, `pc` | the SQL call of a backend and where it is: not opened yet, with the dataset open, between the two requests of `lance_table_info`, in the removal of a cleanup |
| `base`, `seen` | the version `open_dataset` gave; the version the commit is prepared against, which a retried delete moves on |
| `cut` | `before_timestamp` of the cleanup policy, fixed before the dataset is opened |
| `mine`, `work`, `doomed` | the data file written and not yet committed; fragments to rewrite or read, or files to remove; manifests to remove |
| `reply` | the row or rows a call returned |
| `condemned`, `blind`, `late` | history: the versions vacuums set out to remove, with the calls; the files `delete_unverified` let them remove although no version named them; the versions that were tagged when a vacuum had already looked at the tags |

| action | code |
|---|---|
| `Start`, `Refuse`, `Open`, `Fail` | the arguments in `lib.rs` and the checks before the dataset is opened; `open_dataset`; any error |
| `AppendFile`, `AppendCommit` | one commit of a write (`WritePath` has the whole call) |
| `DeleteCommit`, `DeleteAgain` | `Dataset::delete` with Lance's retry; `fragments_removed` from the counts before and after |
| `RewriteFragments`, `OptimizeCommit`, `NothingToOptimize` | planner, execution and `commit_compaction` |
| `CreateIndex`, `DropIndex`, `OptimizeIndices` | the index functions |
| `Survey`, `Sweep`, `SweepFails`, `Explain` | `cleanup_with_policy`, which looks first and then removes, and the plan, which only looks |
| `CountRows`, `TableInfo`, `FragmentStats`, `List...` | the reports |
| `ReadFragment`, `ScanDone` | a foreign scan of a pinned version, which fails if a file is gone |

Abstractions: a row is an atom; a predicate is the set of rows it matches; one
append writes one data file; which counts a version does not record (`physical_rows`,
`num_rows`, both `Option`s) is the constant `Unrecorded`; a tag is set on any version that
is there, at any moment; Lance's planner is free to choose fragments within
`max_source_fragments`; an index is the fragments it covers, which is what reports
show of it. The contract of Lance here: a delete or a rewrite commits only if the
fragments it touches are as they were (a delete is otherwise prepared again, a
rewrite refused); an index call is rebased over the rest; a cleanup keeps the
version it was opened at and later ones, and tagged ones; data files no version
names are removed only with `delete_unverified` (without it Lance removes them
after a week, and a write is taken not to last that long).

### Types and values

| module | models |
|---|---|
| `Timestamps` | the arithmetic between Arrow's and PostgreSQL's timestamps in 64 bits: saturation, wrapping, truncating division |
| `Dates` | the calendars of chrono and PostgreSQL: years, leap days, and the year `make_date` takes for chrono's |
| `ArrowTypes` | Arrow types; the PostgreSQL types and composite types an import declares; their names, order and creation; the check at the beginning of a scan |
| `ArrowValues` | `arrow_value_to_datum` and `arrow_value_to_json` |
| `ColumnExtremum` | `lance_min`, `lance_max`: state, replacement, text |
| `QueryColumns` | the Arrow columns of a source query and the cells its datums become |
| `ReadBack` | a session that imports, declares, drops, writes, scans and asks for extrema, over datasets others replace |
| `ArrowValues_proofs`, `ReadBack_proofs` | proofs: of the mapping of types, the order of composite types and the conversions; of the session |

| state | code |
|---|---|
| `checked` | the build profile: whether integer overflow panics |
| `data` | the dataset: schema and rows, and for each row the query columns and datums it was written from |
| `catalog` | the composite types of the schema, which a `DROP FOREIGN TABLE` leaves |
| `table` | the foreign table: its columns, and for an imported one the schema it came from |
| `scan`, `answer` | what the scan has returned or why it failed; the answer of `lance_min` or `lance_max` |

| action | code |
|---|---|
| `Import` | `import_lance_table`: mapping, ordered `CREATE TYPE`s, `CREATE FOREIGN TABLE`, all in one statement |
| `Declare`, `DropTable` | DDL by hand |
| `Begin`, `Iterate`, `EndScan` | the three callbacks, with `validate_arrow_type_for_pg_oid` and `arrow_value_to_datum` |
| `Write` | `lance_append` in overwrite mode: rows of a query with the types of its columns; an empty source commits nothing and is not taken |
| `Merge` | `lance_merge_insert` and `lance_merge_insert_with_schema`: rows, also with `column_types`, into a dataset that is there and keeps its schema |
| `Ask` | `lance_min`, `lance_max` |
| `Replace` | another writer |

The actions run one after another: the interleavings are `ForeignScan`'s and
`WritePath`'s subject. A name is a sequence of characters, because names of
composite types collide by what is cut off and replaced; text and bytes are a
number each, and what `serde_json` makes of a JSON text is the constant `Reprinted`, a
text outside of its domain being one that does not parse. As a bound the rows of a merge
match no key: what a merge does to matching rows is `WritePath`'s subject. Names of
columns and attributes are within the 63 bytes PostgreSQL keeps of a name. A year of the
calendar has `YearDays` days or one more, and days are counted from 1970 as in the code.

### Model-checking modules

`*_MC` modules extend a specification and define the values their `.cfg` gives
to its constants. No `.cfg` replaces a definition of the specification.

## 3. Runs

| run | checks | instance | distinct states |
|---|---|---|---|
| `write_concurrent` | type invariant and seven safety invariants of the write path | two backends at once, any two of 46 calls: every mode, merges with update or not, sources of 0 to 3 rows over 2 keys, chunk 0, 1, 2, each fault; with and without a dataset before | 770 702 |
| `merge_pairs` | `ChunkedMergeIsOneMerge`, `RerunCompletesMerge` | two merges, one after the other or side by side, every source of 1 to 3 rows over 2 keys, chunk 0, 1, 2, a third key the sources never touch; the two calls are symmetric | 4.98 million |
| `write_live` | `ImplementsLedger`, `EveryCallEnds` | two contending calls, appends, overwrites and merges, under `FairSpec` | 268 000 |
| `namespace_sync` | type invariant and six safety invariants | a root with a child namespace; four ids, two of which share a slot, one below the child, one outside of the root; three slots; two column layouts; catalogs with ordinary relations, other servers' tables, tables without and with a malformed id, duplicates; attach and sync with every combination of flags that differs; two changes by the environment at any moment, also between `Begin` and the introspection; transactions with and without an id | 5.27 million |
| `foreign_scan` | type invariant, `PassShowsVersion`, `PassesAgree`, `LeaksOnlyByFailure`, `ImplementsScan`, `IterateReturns` | two statements of two scans each; two versions out of three with other rows (3, 1 or none), columns in another order, missing or of another type; two definitions of the table, one with a dropped attribute; batches of up to 2 rows, one empty batch per stream | 352 425 |
| `maintenance` | type invariant, six safety invariants and `ImplementsTable` | two backends; two fragments with three rows, a fourth row to append, one index; 17 calls of every kind, vacuums by age, by version, strict and unverified; one data file and one deletion file without a recorded count; at most 4 versions, 5 data files, 3 calls, 1 tag at any version, 1 step of time | 1 506 100 |
| `read_back` | type invariant and six invariants about types and values | 41 datasets of one to four columns of every kind, at the boundaries of their values, with nulls, NaN, nesting, shared type names, dates before Christ; 5 declarations; 9 queries, appended or merged, with and without `column_types`; up to 3 imports or declarations; both build profiles | 658 551 |
| `overwrite_empty`, `guard_abort`, `overwrites_interleave` | one sentence of the documentation each | two calls | violated |
| `nested_drift`, `drop_by_name` | one statement of the result rows each | one slot, one change by the environment | violated |

Why the bounds are enough to see the interesting cases. *Writes:* three source
rows with chunk 2 give a full and a short chunk, with chunk 1 three commits, with
0 one; two keys in three rows give a repeated key in different chunks and in the
same chunk; two calls interleave at every step, and since calls share only the
log a third one adds no kind of conflict that the second does not. *Sync:* one
change during the listing and another before a drop is the shortest way to each
of the races; two slots for three ids give conflicts and duplicates; the
catalogs put every kind of relation in the slot of a listed id. The run goes on
through several calls, so the states a call starts in are also those that
earlier calls left behind. *Scans:* three rows with batches of two give a full
and a short batch and every split with an empty one; two versions are enough for
a rescan that strays from the pinned one, and for two scans on different
versions; rescans are not bounded. *Maintenance:* three calls are one that
prepares, one that commits in between and one that cleans up, and every pair of
kinds is among them; four versions leave a cleanup some to take and some to keep; one
step of time separates old from new; more backends add no kind of conflict, since
a commit looks at the latest version only. Five data
files leave room for three writes beside the seed, failed ones among them. *Types and values:*
64 bits are 8 (`Max64 = 127`), and the other limits keep their order: the dates of
PostgreSQL begin after those of chrono, those of chrono lie inside the integers,
a calendar has 19 years of three or four days, of which six are before Christ and every
second one is a leap year,
and names are cut at 6 characters so that short paths collide by each of the three
ways (underscore, replaced character, cut). Three imports or declarations suffice
for a type left from one table, a second table that meets it and a third that
meets both. As a bound, `Replace` and `Write` happen between scans and extrema are
asked for before the first table or after a scan: they change nothing that a scan
in between depends on.

Termination. `EveryCallEnds` is checked under `WF_vars(Progress(c))` for each
call: a backend that is executing a call keeps executing it, because the loop has
no wait other than on Lance and SPI, which answer or fail. Nothing requires that
a call is started (`Start`), trips the guard or is interrupted. `IterateReturns` is
checked under `WF_vars` of the loop of `iterate_foreign_scan` while it is inside
(`phase = "reading"`): `block_on` returns when the stream answers. Nothing requires
PostgreSQL to call again. Deadlock is
checked in all runs but `maintenance`, where it means only that the bounded number
of calls has been made; `Finished` of `WritePath` is the state where all calls have
ended, and in `NamespaceSync` another call can always begin.

What the properties say (each has a comment with its definition):

* `AppliedInOrder`, `AllOrNothing`, `RejectedNeverCommits`: the log against the
  call's own counters: a prefix of the source, whole with chunking off, nothing
  from a call that is wrong in itself, although the keywords of a merge are only
  looked at with rows in hand.
* `MergeSeesOwnWrites`, `InsertsEachKeyOnce`: the handle a merge carries from chunk
  to chunk is never older than its last commit.
* `AppendedRowsStay`, `OverwriteReplaces`: what concurrent commits do to the rows
  of others. The second is about each row of a replaced table by its identity, whoever
  inserted it and whoever updated it last.
* `ChunkedMergeIsOneMerge`, `RerunCompletesMerge`: the result against the whole
  merge of `MergeResult`, whatever other calls do, as long as none of them commits
  between the version the merge was first prepared against and its last commit
  (`Undisturbed`); they may fetch, prepare, and commit earlier or later. Both, with
  `InsertsEachKeyOnce`, are about sources whose equal keys fall in different chunks
  (`DistinctInChunks`): two source rows in one chunk with one new key are both
  inserted by Lance.
* `OnlyOwnTables`, `DropsHaveCause`, `PresentNeverDropped`: what attach and sync may
  drop, under any interference. What is dropped was the extension's own in the snapshot
  the introspection read; it need not be any more if another session has emptied the slot
  since, which is possible during the whole listing.
* `RowsTellTheCatalog`: result rows against the catalog, including the table that
  is lost when it is dropped for drift and its dataset then cannot be loaded.
* `SyncConverges`, `SecondSyncIsQuiet`: an undisturbed full sync reaches the state
  the namespace has, and nothing is left for the next.

* `PassShowsVersion`, `PassesAgree`: what scans return against the version they pinned,
  while others commit versions whose rows and columns differ.
* `LeaksOnlyByFailure`: scan states are freed by `EndForeignScan` alone, and a
  statement that fails never calls it.

* `OnlyCondemnedVersionsLoseFiles`, `CondemnedAreOld`: what a vacuum may take, however
  it interleaves with writes and other vacuums. A scan pinned to a condemned
  version may fail: age is the time of the commit, and nothing protects a reader. A tag
  protects a version only from vacuums that look at the tags after it was set (`late`
  has the others).
* `PlannedStaysGarbage`: a plan is a promise about versions that do not exist yet.
* `ReportsAreOfOneVersion`, `DeleteCountsItsFragments`, `IndexesCatchUp`: the numbers
  that are returned against the dataset they are about. Of a fragment whose deletion
  file has no recorded count all rows are reported as deleted. `fragments_removed` is exact
  only when nobody commits in between, and never too high.
* `ImplementsTable`: rewrites, indexes, cleanup and failed calls change no row, and a
  delete that is retried still takes what it found.
* `ImportsScan`, `ValidatedNeverMismatches`: the three tables of types agree. The
  exceptions the first names are real: two structs that share a type name, a type left
  from before, and lists of lists, which import but cannot be scanned.
* `ShownIsTrue`, `NothingHidden`: each value shown is the one in the dataset, under any
  declaration and with any types left over; a fresh import shows all of them. A date
  before Christ is shown on its day and month, a year late (`SameDate`).
* `RoundTrip`: what queries wrote, by appends and merges, comes back, infinite timestamps
  included, JSON as `serde_json` prints it.
* `HelperAgreesWithSelect`: `lance_min` and `lance_max` against the scan. They part at NaN,
  which SQL's `max` takes for the greatest float and the helper skips, and at dates before
  Christ, which the helper writes with chrono's year.

Every property of the passing runs has a mutant in `PROJECT.json`: an operator in
the module (its comment begins "Mutant of") that stands for a plausible bug and
makes TLC find the property violated.

## 4. Proofs

`WritePath_proofs`, `WriteRows_proofs` and `NamespaceSync_proofs` hold for any number of calls, any
arguments, sources and chunk sizes; any namespace tree, catalog, set of slots and
number of interferences; `ForeignScan_proofs` for any number of scans, definitions
of the table, versions and batch sizes; the two modules of Maintenance for any
number of backends, rows, indexes, calls, versions and files; `ArrowValues_proofs` and
`ReadBack_proofs` for any types, cells and catalogs of any depth, any datasets, queries and
declarations, any width, epoch and units. They rest on the named assumptions about constants in
the modules, which TLC evaluates in the runs, and on nothing else. Some of them say more
than a type: a child of a namespace has an id that begins with its parent's
(`TreeAssumption`; `list_table_ids` builds it so), and the files of the first version share
no row (`ApartAssumption`; a row here stands for its identity, not its values); the columns
of a dataset and the fields of a struct have different names, and the cells of a dataset are
values of their types (`SessionAssumption`); the datums of a query are values of their types
too, so a timestamp is one PostgreSQL has; PostgreSQL's first date is not before the first
one of chrono (`DayAssumption`); years are adjacent and of two lengths, and every day of
chrono lies in one (`YearAssumption`).

**Write path.** The inductive invariant `IInv` is `TypeOK` and for each call
* `CursorInv`: where `done` and `total` stand at each point of the loop. Without it
  nothing says that the chunk a commit carries begins where the last one ended;
* `LedgerInv`: the versions of the call in the log are exactly its finished chunks,
  in order, each with the bounds of a chunk;
* `HandleInv`: a merge that has committed holds a handle between chunks, and neither
  handle nor read version is older than its commits. Other calls only append to
  the log, so versions never change their number, and the handle is set to the
  version just committed;
* `FaultInv`: how far a call that is wrong in itself gets, so it never reaches a
  commit.

From it follow `TypeCorrect`, `AppliedInOrderCorrect`, `AllOrNothingCorrect` (one
commit because a chunk of the whole source leaves nothing to fetch),
`RejectedNeverCommitsCorrect`, `MergeSeesOwnWritesCorrect`, and `Implementation`:
initial states map to initial states of `WriteLedger`, commits to its `Apply`,
starts and ends to its other actions, all else to stuttering. The durable rows
are read off the log; that they grow by exactly one chunk needs `LedgerInv`.

**Rows of concurrent writers** (`WriteRows_proofs`). `IInv` does not look at rows. `RowsInv`
does, and is kept by every commit (`Commits`, which `CommitWriteLands` and
`CommitMergeLands` show append and merge to be; no other step touches rows):
* `IdInv`: rows have ids of their own, and a row is in every version from the one that
  inserted it up to any that shows it. A merge keeps this because Lance starts it over
  when a row it replaces has changed (`Contended`) and refuses two updates of one row
  (`OneMatch`);
* `KeyInv`, `AlignedInv`: a row keeps the key of its source row, and chunks begin at
  multiples of the chunk size, so that equal keys of `DistinctInChunks` never share one;
* `OnceInv`: the keys a merge call inserted differ. `FreshKeyIsNew` is the step that needs
  the handle: a row of the call that is in the table has been there since its commit
  (`IdInv`), which the base of the next chunk has (`HandleInv`), so its key is matched;
* `StayInv`: while only appends follow, the table shows exactly the rows a `lance_append`
  inserted;
* `ReplaceInv`, `ReplacedGone`: the first commit of an overwrite replaced the table, and every
  row of a version since then was inserted by that commit or a later one (a row's id begins
  with the version that inserted it, and an update keeps it). A merge that read the table
  before cannot bring a row back because its commit is refused (`Refused`), which is the
  step that needs the contract of Lance.

`InsertsEachKeyOnceCorrect`, `AppendedRowsStayCorrect` (with a bijection from positions to
rows for the count) and `OverwriteReplacesCorrect` follow.

**What a chunked merge leaves** (`WriteRows_proofs`). `MergeInv` says of each undisturbed
call and each key that the rows of the key before the call's first commit became those
after its last one by merging the first `done[c]` source rows (`KeyMerged`). Steps replace
the induction over the source:
* `ChunkMerges`: a chunk prepared on the table it lands on takes the merge of the rows
  before it to the merge of its rows too. It needs that the chunk has a key once, and that
  a later source row wins over all earlier ones where matches are updated and never where
  they are not (`LaterWins`);
* `MergerMerged`: `Undisturbed` and `HandleInv` give that the chunk is prepared on the table
  it lands on, since the handle is the version the call has just committed. A handle one
  commit behind breaks the proof here;
* `BystanderMerged`: commits of others come after the last one of the call, and disturb it
  only if the call commits again.

`ChunkedMergeIsOneMergeCorrect` follows key by key (`KeysMakeMerge`), and
`RerunCompletesMergeCorrect` from `MergedAgain`: an update after an update of the same rows
leaves what the second alone would, and a row the first one inserted is matched by the
second, one row for one id (`IdInv`). That the least and greatest number of a set are in it
is taken from the well-foundedness of inclusion among finite sets. The two runs may have
different chunk sizes.

**Attach and sync.** The inductive invariant is `TypeOK`, `OnlyOwnTables`,
`DropsHaveCause` and
* `PhaseInv`: nothing is changed before the loops, nor in a dry run, and what the
  loops have left comes from the mapping or from the local tables not listed;
* `SnapInv`, `LocalInv`: a table the introspection found is under the root and in the
  snapshot it read, and the snapshot still tells what a slot held before the call unless
  another session emptied the slot since. It is what makes a drop by name hit the right
  table, or one that took its name in the meantime;
* `ListingInv`: a dataset that has been there since the call began is listed, or is
  below a namespace still in the queue, and not in the head once its pages are
  through; `QueueInv`: there is a head to list.

`OnlyOwnTablesCorrect` and `DropsHaveCauseCorrect` follow from the two drops
(`DriftedIsOwn`, `MissingIsOwn`) and from `UndoStep`, which says that there is no
other way to change a slot. `PresentNeverDroppedCorrect`: a dropped table that was
not to be recreated is unlisted (`DropsHaveCause`) and under the root
(`OnlyOwnTables`); if its dataset had been there all the time, `ListingInv` would
put the call still in its listing, where nothing is changed (`PhaseInv`). The
step that needs an argument about paths is `ParentBelowRoot` with `WaitsOn`: the
children queued for a namespace cover whatever was waiting below it.

What a whole run comes to needs a second invariant on top of the first, `RunInv`, which
compares each slot with what it held before the call (`Before`):
* `MarksInv`, `ListedInv`: what the call saw of its environment is still so, unless the
  history variables mark it; the listing has tables that were there;
* `OriginInv`, `ExactInv`: what the introspection found is what the slots held before the
  call, and with nobody else at work it overlooked nothing. Both are facts about a past
  state that later steps read through `locals` only;
* `VisitInv`, `TouchInv`, `MappingInv`: a slot is changed when a loop visits it and not
  otherwise, and each dataset of the listing has its slot in the mapping;
* `TellInv`: at every point of the loops the rows returned so far say what became of each
  slot visited so far. It needs the point between the drop and the creation of
  `recreate_changed` as a case of its own (`Dropping`);
* `SettlesInv`, `DropsInv`: of a full sync that nothing interferes with, a slot visited by
  the first loop is as it should be or reported as drift, one visited by the second is
  empty;
* `SettledInv`: while `settled` is set, the catalog has nothing for a sync to do (`Quiet`).

`RowsTellCorrect` is `TellInv` at the end. `SyncConvergesCorrect` joins the two loops: a
dataset that is there was listed (`StandingIsListed`), its table stands in its slot
(`ThereStands`) and nowhere else (`StandsOnce`), because any other table with its id was
found by the introspection and would have been drift. `SecondSyncIsQuietCorrect` is that
such an end is `Quiet`, and that in a quiet catalog nothing is missing, drifted or left
over (`NothingMissing`, `NothingDrifted`, `NothingLeftOver`), so neither loop changes a slot.

**Foreign scan.** The inductive invariant is `TypeOK`, `LeaksOnlyByFailure` and for
each scan
* `ColumnsBound`: every attribute is bound to the column of its name in the pinned
  version, which no commit changes (`CommitKeepsVersions`);
* `CursorInv`: the batch holds the last rows the stream delivered, so the rows
  returned are as many as were streamed, less the batch, plus `row`, and each
  returned tuple is the one at its place. This is what an empty batch, a short
  batch or a rescan in the middle of a batch would break;
* `Passed`: every pass that ended returned the whole list (`EndIsComplete`).

`PassShowsVersionCorrect` and `PassesAgreeCorrect` follow at once. `ScansImplement`
maps `BeginScan` to `Open` (`BoundToVersion`: the list is that of a version),
`ReturnRow` to `GiveNext`, `EndOfStream` to `GiveNone`, `Rescan` to `Restart`, every
end to `Close`, and a fetched batch or a commit to stuttering.

**Maintenance.** The inductive invariant (`MaintenanceInvariant`) is `Shape`, the types
the argument needs, `OnlyCondemnedVersionsLoseFiles`, and
* `StoreIsKnown`, `NamesWritten`, `HasOpened`: what is there was written, and backends
  hold versions that exist;
* `MineIsNew`: a file that waits for its commit is named by no version and is nobody
  else's. It is why a cleanup that has looked already cannot be surprised by it;
* `CondemnedBefore`, `SweepIsSafe`, `PlansAreSafe`: what was removed, what a cleanup has
  taken down and what a plan has answered are versions before the latest, past a limit
  of the call, and files that only they or other condemned versions name.

The step that matters is `CommitKept`: a new version names files of the latest version,
which is never condemned, and the backend's own new file, so it names nothing that was
garbage before; all six kinds of commit are instances of it. From it follow
`VacuumSparesTheRest`, `VacuumTakesTheOld` (`CutoffIsPast`: the cutoff is fixed before the
dataset is opened and time only moves on; what a sweep may still remove is not tagged
or was tagged too late) and `PlansHold`. `IndexesCover` has an invariant
of its own, what each version's indexes cover and what each answer said; compaction
keeps it because what it rewrites is never empty (`Writing`).

*One table of rows* (`MaintenanceRows_proofs`). That every call is one step of `RowTable`
needs an invariant about rows, `RowsInv`, beside the one about files:
* `VersionsAreSound`: a row is in one fragment of a version, and marks of deletion are on
  rows that are in their fragment. A compaction keeps it because the fragments it replaces
  are untouched since it read them (`Touched`), so no row comes into the table twice;
* `AppendsAreNew`, `RewritesKeepRows`: the file that waits for its commit has rows that
  nobody else has, or exactly the rows of the fragments it replaces;
* `GoneIsGone`: a row that has left the table is in no later version. It is why a delete
  that was prepared against a later version than the one it opened still removes each row
  it owes and no other.

`MaintenanceImplementsTable` then maps appends to `Append`, deletes to `Delete`, and
compaction, indexes, vacuum, tags and reports to stuttering: rows are moved between files,
marked and swept, and the table stays what it was.

*Reports* (`MaintenanceRows_proofs`, second part). `ReportInv` says of every answer that it is true of
the version it names (`ReportsAreTrue`), of every call in flight what it has read so far
(`HasRead`: a scan has the rows of all fragments but those in `work`), and that sets of rows
are finite. The steps are about counts: files hold as many rows as a version shows and has
marked (`CountDeleted`, `CountFragment`, which need `VersionsAreSound`), summed over the
fragments whose counts the version records, and the fragments a
delete reports, a difference of two counts, are those it emptied unless another commit came
between (`CountRemoved`). `ReportsHold`, `DeletesCount` and the full type invariant
(`MaintenanceTypes`) follow.

**Timestamps.** `WrittenTimestampReturns`: reading undoes writing for every 64-bit value,
also where the addition wraps. `ReadTimestampIsExactOrWraps`: which values come out
wrong, and as what. `ReadingKeepsOrder`, `InRangeIsExact`: the conversions agree with
arithmetic and with the order of times wherever they are in range.

**Types and conversions** (`ArrowValues_proofs`). Types, cells and datums are trees, and the
functions over them are recursive. `MaxDepth` bounds how deep a tree is, for any natural
number: `Types`, `Cells` and `Datums` are the last of a chain of sets each of which has the
one before inside (`TypesTo`, `CellsTo`, `DatumsTo`). That makes the structure of a type an
induction over numbers, `TypeInduction`: what holds of a type if it holds of the types of its
fields holds of every type. It is stated of a set, so that it needs no operator as a
parameter. Each recursive function is shown to be what its definition says (`ToDatumIs`,
`ValidatesIs`, `PgTypeInIs`, ...), because it looks only at what is inside (`...Local`).
* `ConversionSound`: what `validate_arrow_type_for_pg_oid` lets through, `arrow_value_to_datum`
  converts to a datum, or ends with an error other than a type that does not fit. The two
  are written apart and meet only at the catalog: the attributes of a composite type are
  those of the check and of the conversion;
* `MappingFound`: `build_schema_mapping` threads the types, the names seen and the
  definitions through all fields; each field still gets the type it would have by itself
  (`TextIn`);
* `OrderSound`: `order_composite_types` emits as long as something is left whose
  dependencies are out, so if the definitions can be ordered at all (`Orderable`) none is
  left (`EmitStep`).

**A session** (`ReadBack_proofs`). The inductive invariant `IInv` is
* `Stored`: the dataset holds values of its types, and each row a query wrote is the row of
  the query as it is appended, none of which panics, in columns of the schema there is;
* `Cataloged`: a name has one composite type, as wide and deep as it likes;
* `Tabled`: the columns of an imported table are the names of the schema it came from, with
  what `TextIn` gives each by itself. The names a mapping has seen are gone after the
  import, so nothing weaker connects a table with a schema later;
* `Scanned`: if a scan is open, every column fits; the rows shown are the first rows of the
  dataset, converted, and a scan that failed failed at the next one. It holds between
  `begin_foreign_scan` and the end because nothing replaces dataset, table or catalog there.

`TypeCorrect` and `CheckedNeverMismatches` follow from `ConversionSound` for each cell.
`ShownIsAlwaysTrue` is `ConversionTrue` for each cell: by `TypeInduction`, what a conversion
gives agrees with the cell at the number (`ScalarShown`), at the date (`ToDateIs`, which
needs that the day of the year is kept when the year is not: `DayMonthDay`,
`MonthDayDay`), in each item (`ArrayAgrees`), in
each attribute, taken from the field of its name (`RowAgrees`), and in JSON (`JsonShown`).
`WrittenComesBack` goes column by column: what a column is imported as is what the scan
requires of it (`MappedIsRequired`, `ScalarFits`), what is appended is a value of the type
that is read (`AppendHeld`), and a timestamp of PostgreSQL survives both conversions
(`WrittenTimestampReturns`), so a cell that does not come back is one of `Unreadable`.

**An import** (`ImportMade` in `ReadBack_proofs`). `ImportsScan` and `NothingHidden` do not
follow from `IInv`: what a table was declared as is worth what the catalog still holds of it.
`ImportMade` says that: an import failed only where two structs share a name, and of a table
imported where no type had one of its names every composite type is in the catalog as it was
defined. It lasts (`ImportsLast`) because nothing drops a type. That an import
makes it true is where the names seen and the order of creation come in, for a whole schema:
* `DefsIn` is what a type defines by itself, at its path; `FindsAll` says that where no name
  was seen before and the structs are `Distinct`, the definitions that `build_schema_mapping`
  ends with are exactly those of its fields (`AllFound`);
* the definitions of a type can be ordered, the inner ones before the outer (`AllOrdered`),
  so `OrderSound` leaves none out, and no name has two of them (`AllUnique`);
* each is created when it has its turn, with the types of its attributes there
  (`ImportCreates`).

Then `DeclaredFits` shows of every type that what the import declares is what
`begin_foreign_scan` requires, with `AllPlain` for the exception of lists of lists
(`ImportedScans`), and `DeclaredShowsAll` that a row has the fields of its struct, all of
them and in their order (`ImportedHidesNothing`). PostgreSQL does not tell `T[][]` from
`T[]`, so the latter is about what a list declares and about an element of it.

**The extremum helper** (`Answered` in `ReadBack_proofs`). `Answered` says that an answer given
is the one `lance_min` or `lance_max` has for the dataset that is there, and that a scan that
is done has shown every row, so with `Scanned` both read the same cells. What connects them is
a recursion on either side: a fold over the cells, and the digits of a number. Each is shown to
exist as a function (`FoldExists`, `RecursionExists`) by induction over a bound, for sets of
numbers:
* `ExtremumIs`: the value so far is the number of a cell read, and for `min` no cell read has
  a smaller one, for `max` none a greater; there is none only where every cell is NULL or NaN;
* `ReadingKeeps`: a cell's own order is the order of the datums shown, also where a timestamp
  in nanoseconds is truncated and a `Date64` is a number of days, so the extremum of the one
  is an extremum of the other (`NumberShown`);
* `DigitsNumber`, `ZerosInFront`, `ZerosBehind`, `NumberOfDecimal`: the text of a decimal is
  its number, with as many digits behind the point as its scale has, also where the digits
  are fewer; `FormatStands` says so of every type the helper formats.

`HelperAgrees` puts them together.

## 5. Where code and documentation disagree

Each is a run with `expect: violation`; `PROJECT.json` quotes the lines.

* `overwrite_empty`: an overwrite with an empty source leaves the old data.
* `guard_abort`: the memory guard does not abort a chunked append cleanly; earlier
  chunks stay committed.
* `overwrites_interleave`: later chunks of an overwrite are appended to whatever
  table is the latest, also to one that another overwrite made in between.
* `nested_drift`: `in_sync`, "up to date", is reported for a struct column whose
  fields have changed: drift detection compares the name of the composite type,
  and the type that an earlier attach made outlives its table.
* `drop_by_name`: a sync can drop a table it has just created and reported as
  attached, because the name belonged to an unlisted table when the local tables
  were looked up and another session dropped that one in between.

Met while modelling, without a run of their own, because the properties above state
what does hold and name these as their exceptions:

* The table of types in the repository's `README.md` (lines 574 to 576) maps UInt16 to
  `int2` and UInt32 to `int4`; `pg_type_for_arrow` and the scan take `int4` and `int8`.
  Its line 585 maps Map to `jsonb`: the column is `jsonb`, and every value is the
  placeholder for an unsupported type, as is a date or timestamp inside a `jsonb` list.
* A list of lists is imported as an array, and no scan of it can begin: PostgreSQL has
  one type for arrays of all dimensions and the check wants an array of arrays.
* Composite types outlive their table. A table imported again over a changed struct uses
  the old type: fields that are new are not shown, and ones that are gone refuse the scan.
* Two structs whose paths give one type name share a type: fields of one are hidden, or
  the scan is refused, or the import fails.
* A timestamp in seconds or milliseconds beyond 64 bits of microseconds saturates to the
  greatest one and is shown as a valid one far in the future. One in microseconds before
  the least integer plus the epoch wraps in a release build and is a panic in a checked
  one.
* A column type given in `column_types` that the datums are not read as writes NULL
  throughout, without an error. Integers are read as wider ones, so an `int4` column
  declared `int8` is written as it is.
* `column_types` exists for `lance_merge_insert_with_schema` only, not for `lance_append`, so
  an override never decides the type of a new dataset: it has to meet the schema there is.
* Dates before Christ are shown a year late: chrono's year goes to `make_date` unchanged
  (`convert.rs:535` and `556`), which takes -43 for 43 BC where chrono means 44 BC. Days of
  chrono's year 0 (1 BC) end the scan with an internal error, and so does a 29th of February
  before Christ, since the year it is shown in is not a leap year. A dataset written from
  PostgreSQL dates has the right days and reads back wrong.
* A column of type Null, Union or run-end encoded shows a placeholder text and not NULL:
  `is_null` asks for a mask of nulls, which those arrays do not have.
* `json` and `jsonb` are written as `serde_json` prints them: numbers beyond a double, repeated
  keys and white space change, and a `json` text that PostgreSQL takes and `serde_json` does
  not is a panic, which ends the statement after earlier chunks are committed.
* `lance_fragment_stats` reports all rows of a fragment as deleted if it has a deletion file
  whose rows are not counted; `lance_list_fragments` shows NULL for it.
* `lance_min` and `lance_max` refuse timestamps outside of chrono's calendar that a
  SELECT shows.

## 6. What is only model-checked, and what is not modelled

Every invariant and action property of the passing runs is a theorem. Only checked by TLC:
* liveness (`EveryCallEnds`, `IterateReturns`), which is outside of what TLAPS proves, as
  is anything about `ENABLED`.

Not modelled:
* `fdw/options.rs`: which option wins decides which dataset is opened and how large a
  batch is. It is one lookup, and the scan is modelled for every dataset and batch;
* connecting to a namespace service (`fdw/namespace.rs`): one call of a library with the
  options handed on. What it may answer, and that it may fail, is in `NamespaceSync`;
* the batches inside a chunk and the moments at which the memory guard looks
  (`convert_spi_rows`): a chunk that trips the guard is `GuardAborts`, wherever in it;
* the listings of branches and fields, and a count of rows with a filter: one read each;
* names of columns and struct fields longer than PostgreSQL's 63 bytes: the table is imported
  with the name cut, and no scan of it can begin. `ImportsScan` and `NothingHidden` are about
  names that are not cut;
* which spellings of a type `canonical_type_string` takes for one: columns are compared as
  opaque values, by a comparison that is taken to be right;
* how pgrx represents infinite dates, and what PostgreSQL's own casts do;
* the wording of details and errors, the SQL text of the DDL beyond what it does, storage
  options, `build.rs` and `pgrx_embed.rs` (no behaviour at run time).

## 7. What would come next

Scans, chunked writes and maintenance on one log, which now meet only through
`Maintenance`'s own appends and scans; the batches inside a chunk as a refinement of `FetchChunk`.
