# RemaGraph in TLA+

RemaGraph (`src/src/remagraph`) is a memory store for coding agents: an MCP
server, a command line and git hooks that write short "memories" into one
SQLite database per project and search them. This directory holds TLA+ models
of its core, the TLC configurations that check them on small instances, and
proofs, checked by TLAPS, of the properties that matter most. File names and
line numbers below are those of `src/src/remagraph`.

## 1. The system

| Part | State | Operations | Interacts with |
|---|---|---|---|
| Store path (`store.py`, `arbitration.py`, `dedup.py`, `audit.py`, `models.py`) | tables `memories`, `memory_labels` of one database; `audit-YYYYMM.jsonl` | `process_store`: cheap rules, duplicate check, supersede, invalidate, id, insert, labels, commit, audit | other processes through the SQLite write lock; safety valve; embedding model |
| Cross-project migration (`store.py` 465-903) | two databases | `migrate_project_memories`, `dry_run` | stores in both databases; registry (where the databases are) |
| Schema migrations and version tiers (`db.py` 194-401, 960-1415) | table `_meta` (version, compatibility keys), the tables, FTS index | `connect`, `_run_migrations`, v1..v6, FTS rebuild, read-only tier | every other operation opens its connection here |
| Maintenance (`maintenance.py` 324-686) | rows of `memories`; file sizes and the recorded size after VACUUM | checkpoint, prune, FTS optimize, VACUUM, light maintenance on connect | store path (deletes rows), labels (foreign key) |
| Safety valve (`maintenance.py` 42-298) | environment, `project.json` | `resolve_project_state_dir`, `safety_validate_project`, `_record_violation` | registry; store path (the violation is itself stored) |
| Project registry and edges (`db.py` 578-952) | `project_registry`, `project_edges` in the shared database | register, list, declare edge, foreign read-only connection, `recall_related` | safety valve, migration, search |
| MCP server (`server.py`) | rate-limiter windows, cached connection, bound project | `_RateLimiter`, `_get_conn`, `_bind_project`, tools | all of the above |
| Search (`search.py`) | none (reads) | `search_memories`, label search, related-project fan-out, `get_status` | foreign databases, read-only; registry and edges |
| Hook installer (`hooks_installer.py`, `hooks/post-commit`) | the hooks directory, the backup beside the hook, two git settings | `install_local`, `install_global` | the user, git, other tools, other installers |
| Command line, prompt hook, doctor (`cli.py`, `prompt_hook.py`, `doctor.py`) | none | parsing and printing | all of the above |

### What is hard in it

Nothing is threaded inside one process; the concurrency is between processes
(several MCP servers, command lines and hooks) that share SQLite files. The
hard behaviours, each listed in `PROJECT.json` at its line, are

- what is read before the write lock and used after it: the duplicate check,
  `created_at`, the rows a migration has selected;
- statements of one transaction that fail half-way, or a process that dies
  between two of them, or between two COMMITs on two databases;
- retries: bounded ones of `BEGIN IMMEDIATE`, and the natural retry of a whole
  migration;
- lock order between opposite migrations;
- long legal histories: a memory that is migrated and comes back;
- schema migrations that are interrupted, and code of different versions that
  opens the same database;
- limits: the 2000 candidates of the duplicate check, the LIMIT of the pruning,
  the rate limiter's window and its table, the cap of the fan-out;
- what is looked at twice, and changes in between: the entry of a project in the
  registry, the existence of a file before it is opened, the hook before it is
  moved, the file a server has kept open.

### What makes each part correct

- Store: a store takes effect at one instant or not at all and its answer says
  which; ids are never reused; a task has one active snapshot; a committed
  memory is never lost or reactivated; the audit names committed memories only;
  a duplicate, or a snapshot older than one it retires, gets in only beside a
  call that overlaps; every call ends.
- Migration: no memory is lost; a repetition copies twice at most what it cannot
  recognise, because its id belonged to another memory; a row is retired in the
  source only when the target has it; opposite migrations end.
- Schema: every interrupted upgrade is completed by a later connect; no memory is
  lost or doubled on the way; of a database that asks for a newer program the
  memories, the index, the columns and `_meta` stay as they are; the index agrees
  with the table.
- Maintenance: only old, inactive rows of the own project disappear, all of
  them in the end; no store gives an id out for the second time; read-only
  connections are left alone.
- Safety valve, registry: nothing is stored, recorded or registered in a
  directory that another project has claimed; restricted projects stay out of
  the shared database.
- Server: the limiter turns down exactly the calls it should and forgets only
  what no longer counts; a server writes into no database but its project's; what
  it reports stored is in the file at the project's path.
- Search: what is read is complete, capped as promised, reported once and in
  order, and reading creates nothing.
- Hook installer: success means that git runs the hook; no hook of the user is
  lost; no newer hook is replaced by an older one.

## 2. Modules

| Module | What it is |
|---|---|
| `MemoryRows` | the rows of `memories` with their labels, and what each SQL statement of a store does to a set of rows; no state |
| `StoreSpec` | abstract specification: a store is one indivisible step or nothing |
| `MemoryStore` | `process_store` statement by statement, for any set of processes on one database |
| `MemoryStoreHistory` | `MemoryStore` with a history variable: what each call's duplicate check selected from |
| `Migration` | `migrate_project_memories` between the databases of several projects, beside stores in them |
| `SchemaUpgrade` | `connect()`: version read, migration chain, schema script, index rebuild and version tiers, for any set of processes on one database file |
| `ProjectBinding` | which directory a process works in: environment, `project.json`, safety valve, registry, migrations' routes |
| `Maintenance` | `run_maintenance` of several processes beside stores and migrations, over days |
| `CrossSearch` | the fan-out of a search over other projects' databases, while others change registry, edges and files |
| `ServeProcess` | one `remagraph serve`: binding, limiter, kept connection and tools, while others remove and remake the files |
| `HookInstaller` | overlapping `install-hooks` invocations beside a user who changes the same files and settings |
| `MCMemoryStore`, `MCMemoryStoreHistory`, `MCMigration`, `MCSchemaUpgrade`, `MCProjectBinding`, `MCMaintenance`, `MCCrossSearch`, `MCServeProcess`, `MCHookInstaller` | constant values for TLC |
| `MemoryRowsProofs`, `MemoryStoreProofs`, `MigrationProofs`, `ConnectProofs` (of `SchemaUpgrade` and `ProjectBinding`), `MaintenanceProofs`, `CrossSearchProofs`, `ServeProcessProofs`, `HookInstallerProofs` | theorems and their proofs |

`Migration` composes with `MemoryStore` through the abstract step: a store by
another process is the single step that `MemoryStore` is proved to implement
(`StoreImplementsSpec`), written with the same operators of `MemoryRows`. `ProjectBinding` treats
stores and migrations as single steps on the same ground, and leaves what they
do inside a database to these modules; so do `Maintenance` with stores and
migrations and `ServeProcess` with its tools. `MemoryStoreHistory` extends `MemoryStore` and adds
nothing but the history.

Definitions whose comment begins with "Mutant" are plausible mistakes in the
definition after them. No specification uses them; they serve to show that the
property they break depends on that definition.

### MemoryStore and the code

| Variable | Code |
|---|---|
| `db` | the committed rows (a SELECT outside a transaction reads them) |
| `txn[p]` | what the connection of process p sees inside its transaction |
| `writer` | SQLite's single write lock (WAL mode) |
| `now[p]`, `attempts[p]`, `response[p]` | the locals of `process_store` and `_begin_immediate_with_retry` |
| `audit` | the lines of `audit.jsonl` |
| `clock` | `datetime.now(timezone.utc)` |

Each step of `pc[p]` is one statement of `process_store`, in its order:
`Arbitrate` (read-only refusal, safety valve, cheap rules), `CheckDuplicate`
(SELECT before the lock), `TakeNow`, `BeginImmediate`/`BeginLocked` (lock, back
off, give up), `Supersede`, `Invalidate`, `GenerateMemoryId`, `InsertMemory`,
`InsertLabels`, `Commit`, `AppendAudit`. `DbError` is any statement failing;
`Crash` is the process dying anywhere; other processes run in between.

A memory id is `<<date, number>>`; a summary is a model value, and `Similar` is
the pairs with cosine similarity of at least 0.90; texts, tags, learnings and
`updated_at` are left out; a request carries the verdict `valid` of the rules
that look at nothing but itself (`PassesCheapRules`). The warning about another project using the
same task id (`store.py` 354-361) only prints. The clock never goes back.

`MemoryStoreHistory` remembers in `seen[p]` the committed rows among which
`check_duplicate` chose its candidates. Its properties say exactly what reading
before the lock may cost. `DuplicatesOverlap` lets an active near-duplicate in only
beside a memory committed after the check, beside one that has no embedding, or
beside one that `DEDUP_MAX_CANDIDATES` others hid: candidates of the check
(`AsNew`: active then, with an embedding, of its project and kind) at least as
new. Rows that were already retired hide nothing, so that a LIMIT applied before
the condition on the status violates it. `DisorderOverlaps` lets a store retire a
row with a later `created_at` only when that row was committed after the check;
`SupersededReported` allows the query at `store.py` 368 to name other ids than
those superseded only when an earlier superseded row is as new.

### Migration and the code

`db[d]` and `lock[d]` are the database of project d and its write lock; `tgt[p]`
and `src[p]` are the two transactions of a migrating process; `todo[p]` the rows
selected before any lock; `skipped[p]` is `skipped_ids`. One row of the loop is
one step (`MoveRow`, or `SkipRow` with every point at which the exception may
come), since the loop runs inside both transactions and nothing of it is visible
before the two COMMITs (`CommitTarget`, `CommitSource`). `Abort` is every end
without a result: a refusal, a failing BEGIN or COMMIT, a crash. The heuristic
match on four text columns is the relation `Mentions`. Which directory a project
has is a matter of the registry; aliased directories are refused by the code
(710) and routes here join different databases. An error after which SQLite has
rolled back a transaction by itself in the middle of the loop is not modelled.

### SchemaUpgrade and the code

`disk` is the database file: the four keys of `_meta` that matter, which objects
exist, whether `memories` has `project_id` and the new CHECK, its rows with
their rowids, and the full-text index as the set of <<rowid, memory>> it finds.
`todo[p]` is the sequence of statements that a connect() has still to execute.
It is fixed when the version is read (`Open`), as in `_run_migrations` (1075),
which never looks again: `Chain` is one `From(v, n)` for each `if current_version
== n`, with that step of the chain or nothing. The connection is in autocommit mode, so each
statement is one step (`Execute`, or `Fail` when it raises), and the script of
the version 3 to 4 step, which has its own BEGIN and COMMIT, is one as well.
`Crash` is the process dying, or a statement that fails for another reason than
the schema. On a new database version 6 is written before the first table exists
(1080): `BeingCreated` is that window, in which there is no memory. `Insert` and `Delete` are stores and prunings with the triggers
that maintain the index. `Demands`, `Refused` and `ReadOnly` are the three tiers
of `_handle_newer_than_code_schema`.

What a newer version leaves behind nobody can know, so a database of version 7
may lack any of the objects of version 6 (`NewerObjects`: an index or a trigger
needs its table) and may demand anything of readers and writers. `connect()` runs
the schema script (300) on the read-only tier too and creates what it misses
there (see 5); `NewerKept` says what still holds. Its
`memories` table, where it has one, is taken to have the columns of version 6. File permissions, WAL mode and the page
limit are left out.

### ProjectBinding and the code

`meta[d]` is what `project.json` of directory d names (`Default` when there is
none), `registry` the table `project_registry`, `held[d]` the memories in d's
database by project and origin, `env[p]` the environment of a process, `server[p]`
the project it serves, and `call[p]` the locals of its present call. The files
are read and written in steps of their own: the valve of connect() (`Validate`,
`Refuse`), `RegisterKnownProject` (best effort: it may do nothing), `Connect`, the valve
of `process_store`, `InsertMemory`, and `RecordViolation`, which stores the refusal as a
memory. `CmdStore` adopts the conventional directory as `cli.py` 107 does;
`ResolveMigrationTarget` follows `store.py` 569-613 including its use of
`validate_project_metadata`, which looks at the environment first. Not
modelled: `REMAGRAPH_PROJECT` without a project argument, `REMAGRAPH_HOME`, letter
case of project ids; `project_edges` belongs to `CrossSearch`.

### Maintenance and the code

`rows` are the memories of one database with their day (of the id and of
`created_at`, which agree), project, whether active, whether they have labels and
whether a migration brought them; `pc[p]` is the next statement of
`run_maintenance`. `Others` is what else happens to the database, one memory at a
time: a store of today, or of yesterday when it began before midnight;
`MigrateIn`, which inserts a memory under the id, date and status it has in its
source (`store.py` 795-827), or under the next number of that day when the id is
in use here; `MigrateAgain`, a repeated migration, which adds labels; and
`MigrateOut`, which invalidates.
`Prune` is the DELETE of `_prune_superseded` with its LIMIT, which chooses any
rows that qualify since there is no ORDER BY. `PruneRefused` is that DELETE when one
of the chosen rows has a label: `memory_labels` refers to `memories` and foreign
keys are on, so the statement fails and the exception skips everything after it.
`Old` compares the day only, because the code compares "2020-01-01T..." with
"2020-01-01 ..." as text. `Checkpoint` and `Compact` (FTS optimize, VACUUM, ANALYZE) do not touch
memories, whether their thresholds are reached or not.

### CrossSearch and the code

`registry`, `edges` and `disk` belong to everybody. `pc` is where
`_cross_project_fanout` and its callers are: `ListKnownProjects` (label search) or
`Expand` and `NextLayer` (the breadth-first walk of `recall_related`, one project's
edges per step), `QueryOwn`, then for each candidate in sorting order `CheckAlias`
(the first read of its entry, and the cap), `Lookup` (the second read, and
`exists()`) and `OpenForeign` (`mode=ro`), and `Merge`. Any read of the registry may
fail and then counts as empty (`Reads`). `found` holds the rows with the query
they came from, `answer` the counters and rows of the response. Not modelled:
the syntax of queries, full-text ranking (a row has one rank), plain search in
one database, and `get_status`.

### ServeProcess and the code

`buckets` is the limiter's table; a timestamp is paired with the number of its
call, since two calls may read the same time. `at[q]` is the file at the path of
project q's database, `conn` the file the server has open, `home` and `held` say
at whose path a file was made and whose memories it has. `CallTool` is the common
head of the five tools (limiter, then the check of the project, which for a
migration is that of its own function), `GetConn` the reuse of the connection when
its path exists, and `Store`, `Read`, `Maintain` and `Migrate` the tools. `Remove`
and `Remake` are other processes. A tool runs to its end before the next begins
(the server is synchronous), so the clock moves between calls only.

### HookInstaller and the code

`file[d]` is what directory d holds at three places: the hook, its backup, and
the file a link leads to. A file is known by who wrote it (`by`: the user, this
package whole, `cut` with the marker or `torn` without it), a number, and its x
bit. Each test and each system call of `install_local` and `install_global` is a
step: `Call` and `SetTemplate` (the git settings), `Look` and `Read` (what is
there), `CheckBackup`, `Replace`, `Open`, `Fill`, `Chmod`; `Stop` is the process
dying or an uncaught `OSError` at any of them. Writing and chmod follow links.
`stale[p]` is history: somebody else has changed what p read.

## 3. Runs

| Run | Result | What it shows |
|---|---|---|
| `store_concurrent` | holds | two processes, snapshots and constraints, a date change, failures and crashes, and one of the two may stop anywhere, also with the write lock: `SingleActive`, `IdsNeverCollide`, `AuditSound`, `Durable`, the refinement `ImplementsStoreSpec`, and `CallEnds` under `FairSpec` |
| `store_overlaps` | holds | two overlapping stores of near-duplicates and of snapshots, with and without embedding, beyond the cap of the duplicate check: `SupersededReported`, `DuplicatesOverlap`, `DisorderOverlaps` |
| `migration_one_way` | holds | two processes migrate A to B, with stores in both, which give the same ids, skipped rows and crashes: `NothingLost`, `SecondCopiesCollide` |
| `migration_both_ways` | holds | both directions, colliding ids, a process that may stop: `LocksHeld`, `CopyBeforeRetire`, and `MigrationEnds` under `FairSpec` |
| `migration_round_trip` | violated | `NothingLost`: migrated and migrated back, no active copy is left |
| `upgrade_crashes` | holds | two processes open one database of any version 0 to 7, one may die: `VersionTruthful`, `ReadyComplete`, `IndexAligned`, `UpgradeKeepsRows`, `NewerKept`, and `OpensEventually` under `FairSpec` |
| `upgrade_stuck` | violated | `Reopenable`: a crash inside the step from version 2 leaves a database that no connect() opens |
| `binding_stores` | holds | commands, a server, `init` and a migration over every environment, with a registry entry that an earlier version left: `RestrictedElsewhere`, `ClaimRespected`, `RegistryValidated` |
| `maintenance_prune` | holds | two maintainers, a read-only connection, stores of two projects and a migration, three days: `OnlyStalePruned`, `OnlyMigrationsReuseIds`, and `UnlabelledPruned` under `FairSpec` |
| `search_fanout` | holds | searches by label and over related projects with three changes by others at any point: `SearchComplete`, `OnlyRelatedOpened`, `CapRespected`, `NoMemoryTwice`, `NewestReported`, `NeverCreates` |
| `serve_process` | holds | a server for either project, two agents and the tools' own key, files removed and remade: `LimiterExact`, `TableBounded`, `BoundProjectOnly`, `StoredReachable` |
| `hooks_install` | holds | two overlapping installers, a change by the user and a crash anywhere: `InstalledIsUsed`, `HooksKept`, `NeverDowngraded` |

The violated properties state what a document, a comment or a docstring of the
repository says; `PROJECT.json` ("findings") quotes it.

Bounds. Two processes are enough for every race here, since SQLite has one
writer per database and each race is between one process that holds the lock and
one that does not. `MaxRows` of 2 or 3 rows gives a superseded row, an active
one and a new one (in `MemoryStore` calls under way still end, so there can be one
row more); `MaxClock` of 1 gives two dates, hence a new id sequence and two
timestamps in either order. `LockRetries` (3 in the code) is 2 in `store_concurrent`,
where `CallEnds` depends on the count, and 1 in the other runs, which gives a retry that
succeeds and one that does not. In `Migration` `MaxRows` makes a database full, which in the code is an INSERT that fails. Deadlock is checked except in two runs: in `store_overlaps` every request
passes the cheap rules, so a full database with no time left ends the behaviour,
and in `hooks_install` the bounded invocations end.

`migration_one_way` has three rows in each database: the target can hold a memory
of its own, a copy that got another id because of it, and a second copy of the
same memory, so the exception in `SecondCopiesCollide` is reached.

`upgrade_crashes` starts from every version the chain knows, from no database and
from newer ones with several demands on readers and writers, lost ones among
them, and every set of objects they may lack; two old rows with a
gap between their rowids are what the renumbering needs, `MaxRowid` of 4 leaves
room for inserts, and one crash is enough since every step between statements
is a place for it. `binding_stores` has a restricted and a free project, the three
directories they can mean, and a stale entry of the registry; one memory bounds
the calls that begin (those under way still end), so that two calls overlap.
`maintenance_prune` has three days and `AgeDays` of 1, so that there are a day that
is too young, one on the edge and one that is old; two ids give two retired
memories, more than the LIMIT of 1, and the memory that arrives can take a fresh id,
one of a memory that is here (and is renumbered) or one of a memory that was pruned.
Arrivals are bounded for a reason of their own as well: were old memories to arrive for ever, a
LIMIT without ORDER BY might pass over one row for ever.

`store_overlaps` has two near-duplicates and a third content, kinds that are
superseded and kinds that are not, a `DedupCap` of 1, and two rows: the duplicate and
the one that hides it. `search_fanout` has four projects in three
files, two of them in one file; one file has a row of another file's project
under an id that file has given to another memory; requests ask for one or two
hops and one to three rows with caps that are absent, zero, below and above the
hard cap of 2; three changes are enough to move an entry between its two reads
and to remove the file it leads to. `serve_process` has a window of two ticks and
two calls, so that stamps expire while others count, a threshold of one key, and
two files, an original and its replacement. `hooks_install` starts from every
kind of directory (no hook, the user's, a link, an unversioned one of this
package, a newer one, the user's with a backup), with every git setting, three
invocations of two processes and one change by the user.

Some conditions in properties name the code's own limits. `SearchComplete`
excepts projects whose entry or file changed during the call, and reads of the
registry that failed; `NewestReported` excepts databases that gave one id to
different memories of one project; `HooksKept`, `NeverDowngraded` and
`InstalledIsUsed` except a process that acts on what others have changed since it
looked, and `StoredReachable` a path that changed during the call or was remade
since the binding. Each exception is reachable in its run. `VersionTruthful` excepts
a database that is being created (`BeingCreated`), and asks instead that nothing is
missing once that is done (`UpgradeFinished`). This and `IndexAligned` are stated for histories in which
nobody died while opening, `IndexAligned` for databases that are not newer, and
`OpensEventually` for databases that did not start at version 1, and from version 2
while nobody dies: from version 1 a second process that is slow is enough to
make the database unopenable; see 5. `UnlabelledPruned` assumes that no prunable memory has labels.
`OnlyMigrationsReuseIds` excepts the ids a migration brings, and only for memories
that are old when they arrive. `SecondCopiesCollide` lets a memory be in a target
twice only when its id belongs to another one there.

Fairness. `FairSpec` of `MemoryStore` and of `Migration` assume of the processes in
`Responsive` only that they are not stopped for ever between two statements. No
fairness is assumed of the lock or of the other processes: the liveness properties
hold because the number of attempts at BEGIN IMMEDIATE is bounded.

In `SchemaUpgrade` weak fairness of `Progress(p)` says that a process which has
not opened the database tries again (the next command, hook or tool call) and
is not stopped for ever; crashes are bounded. In `Maintenance` it says that
commands of each project keep coming, each with its connect(), and that a
maintenance under way goes on; stops are bounded. Nothing is assumed of stores and migrations.

## 4. Proofs

`MemoryStoreProofs` proves, for every set of processes, requests, dates and
retries, of `MemoryStore!Spec`:

| Theorem | Property |
|---|---|
| `Invariance` | the inductive invariant `IInv` |
| `TypeCorrect` | `TypeOK` |
| `OneActiveRow` | `SingleActive` |
| `IdsAreUnique` | `IdsNeverCollide` |
| `AuditIsTrue` | `AuditSound` |
| `TransactionsIsolated` | `Isolated` |
| `MemoriesEndure` | `Durable` |
| `StoreImplementsSpec` | `ImplementsStoreSpec` |
| `HistoryInvariance` | `IInv` and `HInv`, of `MemoryStoreHistory!HSpec` |
| `ResponsesAreTrue` | `SupersededReported` |
| `DuplicatesMustOverlap` | `DuplicatesOverlap` |
| `DisorderMustOverlap` | `DisorderOverlaps` |

`SingleActive` and `IdsNeverCollide` are not inductive: COMMIT replaces the
committed rows by the private copy of a process, of which they say nothing. The
invariant therefore relates that copy to the committed rows at every step
(`TxnOf`): after the supersede UPDATE it is `SupersedeForKind(db, req)`, after
both UPDATEs `Settled(db, req)`, and so on up to COMMIT, and exactly the process
that holds the lock is in its transaction, so `db` does not change meanwhile.
`Published` then says what COMMIT publishes: the committed rows with the
replaced ones retired, and one new row under a free id. From it follow the
safety properties, `Durable`, and the step `Apply` of `StoreSpec`. Every other
step of the model is shown to stutter, to refuse, or to acknowledge.

`MemoryRowsProofs` holds the facts about the SQL statements on which this rests:
an UPDATE that only retires rows keeps ids, uniqueness and the single active row
(`RetireRowsKeeps`); the id after SELECT MAX is free (`FreshId`, which needs that
a finite set of numbers has a maximum, `FiniteMax`); an INSERT after supersede
keeps the single active row (`InsertKeeps`).

`HInv` ties what a call saw before it had the lock to what it commits under it:
rows only grow older (`Grows`: every committed row remains, perhaps retired, and a
new one has a new id and a timestamp that has been), so a row whose id the check
saw had no later timestamp than the `now` taken after it, and one that it did not
turn down is no near-duplicate, or was hidden by `DedupCap` candidates at least as
new (`HistoryOf`). What the check selected from is remembered, and each of those
rows is still in the database, perhaps retired: a row that is active at the COMMIT
and was there at the check was active then (`SeenActive`). `ResponsesAreTrue` needs of
the query with LIMIT only what it returns: as many rows as were superseded, none of
those left out newer.

The theorem `OneActiveRow` answers a question the documents leave open:
`docs/design/01-data-model-arbitration.md:135` expects two concurrent writes to
leave two active `status_update` rows. With `BEGIN IMMEDIATE` they cannot.

Assumptions: those named in the modules (`SimilarAssumption`, `ProcsAssumption`,
`RequestsAssumption`, `NumbersAssumption`, `EmbedsAssumption`). The bounds
`MaxRows` and `MaxClock` occur in guards only; the proofs hold for every value.

`MigrationProofs` proves of `Migration!Spec`, for every set of processes,
projects, routes, requests and dates:

| Theorem | Property |
|---|---|
| `Invariance` | the inductive invariant `IInv` |
| `TypeCorrect` | `TypeOK` |
| `LocksAreHeld` | `LocksHeld` |
| `CopyComesFirst` | `CopyBeforeRetire` |
| `OneWayLosesNothing` | `NothingLost`, where `OneWayRoutes` |
| `OnlyCollisionsCopyTwice` | `SecondCopiesCollide`, where `OneWayRoutes` |

`CopyBeforeRetire` speaks of the COMMIT on the source, but what makes it true
happened many steps before: the row was read without a lock, copied inside one
transaction and marked inside another. `IInv` therefore says of each migrating
process (`ProcInv`) that the rows it has read are still in the source under their
ids, with other labels or another status perhaps; that its transactions extend
the committed rows of both databases; and that what it has marked in its source
has a copy (`CopiedInto`), first in its transaction on the target and, once that
is committed, among the committed rows. `RowsInv` says that ids are unique, so that
a row read before the locks still names one row, and `LocksHeld` that exactly one
process has a transaction open where a lock is held, so that neither database
changes under it.

The last two have a hypothesis. `OneWayRoutes` says that no project is both
migrated from and into: the run `migration_round_trip` shows `NothingLost` violated
without it. A target may be filled from several projects and by stores of its
own, so ids collide. `OneWayInv` adds to `IInv` that no row of a target was retired
by a migration, in the database or in a transaction on it, and that every row
retired in a source has its copy in a target, where it stays. `CopyInv` adds that
every row of a target is one of its own, or stands for a row of a source: under
that row's id, or under another because a different memory has that id there
(`Sourced`). So two copies of one memory have different ids (the ids of a target
are unique), one of the two was displaced, and the memory that displaced it is still
there. The invariant speaks of the transactions on targets too, since two
processes may be repeating one migration. Where no id collides nothing is displaced, and
nothing is in a target twice.

Assumptions: `MigrationAssumption` and those of `MemoryRows`.

`ConnectProofs` proves what happens before a process has a database. Of
`SchemaUpgrade!Spec`, for every set of processes and memories, every starting
version, and any number of crashes:

| Theorem | Property |
|---|---|
| `UpgradeInvariance` | the inductive invariant `IInv` |
| `TypeCorrect` | `TypeOK` |
| `VersionsAreTrue` | `VersionTruthful` |
| `ReadyMeansComplete` | `ReadyComplete` |
| `IndexEndsAligned` | `IndexAligned` |
| `UpgradesKeepRows` | `UpgradeKeepsRows` |
| `NewerIsKept` | `NewerKept` |

A process executes a plan it made from a version that may have changed since, so
none of these follows from the file alone. The invariant does not follow the
plans position by position: it knows of each the set of statements left
(`Left`) and, for the statements whose order matters, what may still come before
them (`Ordered`). `PlanInv` says that whatever the file lacks is among the
statements left of every process that is opening it, so that who gets through
has seen to all of it, or has raised on the way; `DiskInv` says what the version on disk promises. That
version 6 promises `memory_labels` is a matter of order: every plan that writes it has
the CREATE before it (`LabelsFirst`), or belongs to a database without rows.
`SeedInv` and `IndexInv` carry the
promises that need somebody alive: while nobody has died, a missing key of `_meta`,
a missing object or a wrong index is among the statements left of a process that cannot raise
(`Sure`). A crash breaks exactly these two, which is what the rows `db.py:302` and
`db.py:1081` in 5 say. `NewerInv` says that all anybody has left to do
on a newer database is to create what it lacks, and that nobody has opened it to write when it
asks for a newer writer. `UpgradeKeepsRows` is proved with a bijection from the rows
before a statement to those after it, so no statement loses a memory or makes
two of one. That the new rowids of the rebuilt table
are distinct is a fact about counting the rows below a row (`RenumberedRows`).

Of `ProjectBinding!BSpec` it proves the theorems in the first rows of the table
below. (So that one module can extend both components, the names they would share begin
with B in `ProjectBinding`, and its processes are `Callers`.)

Of the other components, the proof modules have these theorems (besides the
inductive invariants and type correctness):

| Module | Theorem | Property |
|---|---|---|
| `ConnectProofs` | `RestrictedStayOut` | `RestrictedElsewhere` |
| | `ClaimsHold` | `ClaimRespected` |
| | `RegistryHolds` | `RegistryValidated` |
| `MaintenanceProofs` | `PrunesOnlyStale` | `OnlyStalePruned` |
| | `StoresGiveFreshIds` | `OnlyMigrationsReuseIds` |
| `CrossSearchProofs` | `CapHolds` | `CapRespected` |
| | `ReportedOnce` | `NoMemoryTwice` |
| | `CreatesNothing` | `NeverCreates` |
| | `OwnFileOnce` | `OwnReadOnce` (proved only) |
| | `OpensOnlyRelated` | `OnlyRelatedOpened` |
| | `SearchesAll` | `SearchComplete` |
| | `ReportsNewest` | `NewestReported` |
| `ServeProcessProofs` | `NoWindowExceeded` | (proved only) |
|  | `LimiterIsExact` | `LimiterExact` |
|  | `TableIsBounded` | `TableBounded` |
|  | `KeepsToItsProject` | `BoundProjectOnly` |
|  | `StoredIsReachable` | `StoredReachable` |
| `HookInstallerProofs` | `InstalledHookRuns` | `InstalledIsUsed` |
|  | `HooksAreKept` | `HooksKept` |
|  | `NoDowngrade` | `NeverDowngraded` |

Binding (`BindingInv`): the valve reads `project.json`, and the memory is inserted
many steps later. What ties the two is that a `project.json` names the project
whose conventional directory it lies in and never changes again (`ClaimInv`), so
that a file which agrees with a project now agreed with it, or was absent, when
the call began (`AgreedBefore`); `ValveOK` carries that verdict to the insertion.

`MaintenanceProofs`: "the largest id of the day plus one" is new only because no
memory of a day that may still get ids has been pruned. `IdsInv` says so: an id that
was ever borne is in the table, or its day is old enough for pruning, which is
before yesterday. Migrations fit into it since they bring no id of a day to come; an id
they bring back is therefore of a day that no store will stamp again.

`CrossSearchProofs` (`IInv`): `LoopInv` says that the candidates opened have left `todo` and
are opened once each. The map from what was opened to its project is therefore
an injection into the candidates left behind, which bounds the number opened and
shows that a capped search has left somebody out (`OpenedIsFinite`). `FoundInv` says
that hits of one query come from one file, so that two hits of equal key and equal
query are one memory. `OwnInv` follows the two reads of an entry. The other three
have invariants of their own beside it. `WalkInv`: what the walk has met by layer n is within n
links of the caller by the edges there are, and has met everything within n by
the edges there were at the start (`Within` is the set of ends of paths, so adding
a link to a path is all that either needs). `CompleteInv`: a project that has left
`todo` without moving was opened, is the caller's own file, or has none. `ReadInv`:
the hits of each query are what its LIMIT leaves of the matching rows, which is
either all of them, or top_k + 1 rows that rank above the rest; what `Merge` then leaves
out ranks below top_k rows that it keeps.

`ServeProcessProofs`: the invariant says that the table holds, of each key, stamps
that were admitted, and every one of them that still counts (`LimiterInv`);
sweeping drops only what no longer does (`LiveStamps`). `HookInstallerProofs`
follows one installer: what it knows of its directory while nobody else has
touched it, from the look to the last system call.

Assumptions: those named in the modules; the bounds occur in guards only.

Model-checked and not proved: all liveness (`CallEnds`, `MigrationEnds`,
`OpensEventually`, `UnlabelledPruned`), since liveness under fairness is out of the
prover's reach. Every safety property of a passing run is proved. `TypeOK` of the
modules other than `SchemaUpgrade`, `Isolated`, `WindowRespected` and `OwnReadOnce` are
proved and in no run.

## 5. Disagreements with what the repository says

Two are shown by a run ("violated" in 3) and quoted in `PROJECT.json`. The
following were met while modelling and reproduce in the models, but no run
states them; the first column is the line where the code does it. Where a
property of a passing run states exactly what the code does allow, it is named.

| Line | The code | The repository |
|---|---|---|
| `store.py:328` | the duplicate check is before `BEGIN IMMEDIATE` and not repeated under it: two overlapping stores of one content both become active (`DuplicatesOverlap`: only overlapping ones) | `docs/design/01-data-model-arbitration.md:218`: compared with all active memories of the kind |
| `store.py:336` | `now` is read before the lock: the snapshot stamped first may commit last and stay active (`DisorderOverlaps`: only beside an overlapping call) | `store.py:363`: the newest stays active |
| `store.py:368` | the response lists the newest superseded rows of the key, which after such an inversion are not those this call superseded (`SupersededReported` states what it lists) | `docs/design/03-mcp-server-runtime.md:87`: marked superseded by this call |
| `store.py:814` | a repeated migration recognises a row only under its original id: a memory that got another id, because its own belonged to a different memory of the target, is inserted again (`SecondCopiesCollide`: no other memory is) | `store.py:804`: never inserted again under a new id, or the natural retry would double the batch |
| `store.py:797` | a migrated `status_update` is inserted active beside the active one of its task in the target | `store.py:363`: the newest stays active, the others are superseded |
| `store.py:795` | a migrated memory keeps its old id, also when the target had a memory of that id and pruned it: lines of the audit log under that id then mean another memory (`OnlyMigrationsReuseIds` says when) | `docs/design/01-data-model-arbitration.md:34`: globally unique |
| `store.py:876` | an exception while labels are copied leaves the copy in the target, reported as skipped | `store.py:673`: the order of the steps avoids that |
| `store.py:608` | when the environment names the target's project, a migration follows a stale registry entry into a directory that another project claimed, and when the environment names another directory it may be refused for that directory and not for the one it has resolved | `store.py:561`: the resolved directory is used after validation |
| `db.py:1266` | two processes opening a version 1 database can leave it unopenable without any crash | `docs/design/02-storage-search-dedup.md:246`: one transaction |
| `db.py:300` | on the read-only tier `connect()` goes on to the schema script, which creates in the newer database what version 6 has and it does not (`NewerKept`: its memories, index, columns and `_meta` stay) | `README.md:294`: writes rejected, reads unaffected; `maintenance.py:343`: no write to such a database is safe |
| `db.py:1368` | a process that read the version early writes it back after another finished the chain | the same, line 253: no downgrade |
| `db.py:302` | a crash between the new version and the rebuild loses the rebuild of the index for good | `db.py:1063`: must be rebuilt once |
| `db.py:1081` | a crash behind the first of four INSERTs on a new database loses the other keys for good | `db.py:1078`: seeded together |
| `db.py:190` | only `init` writes `project.json`: two projects store in one directory nobody initialised | `maintenance.py:136`: no `project.json` means never used |
| `maintenance.py:290` | refusing a restricted project in the shared directory stores a memory of it there | `maintenance.py:100`: must never use the default database |
| `maintenance.py:290` | the record of a refused store creates the directory that lets the same command through the second time (`cli.py` 107 adopts a directory because it exists) | `cli.py:190`: run `init` first |
| `maintenance.py:437` | one stale row that has labels makes the whole DELETE fail on its foreign key, and the next maintenance selects the same batch: nothing stale behind it is ever pruned (`UnlabelledPruned` is checked where superseded rows have no labels) | `maintenance.py:419`: deletes the memories that are superseded and old enough |
| `maintenance.py:444` | the age is that of `created_at`: what was created long ago is deleted at once when it is superseded, and has spent no day in that state (`OnlyStalePruned` says so) | `maintenance.py:419`: deletes the memories that are superseded and old enough; `docs/design/06-db-automatic-maintenance.md:186`: superseded for 90 days (line 422 of the code does say `created_at`) |
| `server.py:204` | the file under a kept connection is looked for by name: when another process, or `remagraph_maintain` of the same server, has made a new file at the path, the test passes and stores are reported that nobody can read (`StoredReachable` says when) | `server.py:177`: the test notices a removed or moved file early, instead of a later write going wrong quietly |
| `search.py:703` | a damaged candidate is counted as searched before its query fails | `search.py:755`: unreachable and damaged candidates are not counted |
| `hooks_installer.py:243` | a crash while the hook is written leaves a file without the marker, which later installs take for a foreign hook and, when there is a backup, refuse even with `--force` (`HooksKept` and `InstalledIsUsed` still hold) | `hooks_installer.py:227`: a file without the marker was not installed by remagraph |
| `hooks_installer.py:235` | the backup is tested before it is made: two overlapping `--force` installs may replace the only one | `hooks_installer.py:238`: avoids overwriting the only previous backup |

## 6. Not modelled, and the plan

What could still be added:

1. The sizes in `Maintenance`: the size recorded after VACUUM, the WAL it has
   filled, and two processes that both decide to VACUUM. These cost time and
   never a memory.
2. The declared edges as a component with operations of its own
   (`declare_project_edge`, `recall_related`); `CrossSearch` has them as far as
   a search reads them while links are added.

Not modelled, and not planned:

- the lengths and regular expressions of the cheap rules, and the similarity
  of texts (`arbitration.py`, `dedup.py`): functions of one text, without
  state; a request is valid or not, two texts are alike or not;
- the FTS query syntax, BM25 ranking, snippets and `get_status` (`search.py`):
  pure functions of what SQLite returns;
- argument parsing and printing (`cli.py`), `doctor.py`, `prompt_hook.py`: they
  read and print; what the commands call is modelled with the component
  that does it;
- the embedding model and SQLite itself: external, modelled as far as the code
  relies on them (locks, autocommit, rowids, foreign keys);
- `REMAGRAPH_HOME`, the letter case of project ids, and the case-insensitive
  file systems the valve allows for: they choose a name, and the models
  begin with the name chosen.
