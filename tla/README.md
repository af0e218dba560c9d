# DataBridge: a TLA+ model

DataBridge copies tables between PostgreSQL, MySQL and SQLite databases. A FastAPI
application accepts a migration, a Celery worker executes it, and a WebSocket
feed tells browsers how far it got. This directory holds TLA+ modules
of its core logic, TLC configurations that check them on small instances, and
theorems that TLAPS proves for every value of the constants.

Paths below are relative to `src/app/` unless they begin with `src/`.

    tlc -workers 2 -config executor_copy.cfg MCMigrationExecutor
    tlapm MigrationLifecycleProofs.tla

## 1. The system

| Component | Code | State it keeps | Operations |
|---|---|---|---|
| Lifecycle API | `services/migration_service.py`, `api/routes/migration.py` | the row of a migration (`models/migration.py`) | create, start, cancel, get_status, get_logs |
| Worker task | `workers/migration_tasks.py` | the same row; one attempt per pool slot | `_execute`, `_mark_failed`, `on_failure` |
| Broker | `workers/celery_app.py` (Celery, Redis) | queued and unacknowledged messages, revoked ids | deliver, acknowledge, requeue, revoke |
| Executor | `migration/executor.py` | locals of one run; the destination's rows | `run`, `_migrate_table`, `_insert_with_retry` |
| Planner | `migration/planner.py`, `validator.py`, `mapper.py` | the plan being built | `build_plan`, `validate_schema_compatibility`, `build_column_mappings`, `apply_mappings` |
| Providers | `providers/*.py` | a pool or a connection, an open transaction | schema reads, `fetch_batch`, `create_table`, `insert_batch`, `truncate_table` |
| Feed | `websockets/manager.py`, `services/websocket_service.py` | one dict of sockets per process | connect, disconnect, broadcast |
| Progress report | `utils/helpers.py`, `get_status` | none | percentage, speed, remaining time |
| Connection and schema services | `services/connection_service.py`, `schema_service.py` | none: the `connections` table of `models/connection.py` is never used | test a connection, list tables, read schemas |
| Credentials | `utils/encryption.py`, `schemas/connection.py`, `providers/__init__.py` | an encrypted column of the migration's row | validate, encrypt, decrypt, choose a provider and what it opens |
| Surroundings | `core/`, `main.py`, `utils/logger.py`, `src/alembic/`, deployment files | none that the above depends on | configuration, logging, assembly, the application's own DDL |

How they interact. A request handler reads the row in a session, decides, and
commits later; `start_migration` hands the task to the broker in between. The
task loads the row, marks it running, builds the plan **again**, and calls the
executor, whose callbacks open a session per batch and per message. The
outcome is committed by a last session, and by one more in `on_failure` when the
task raised. Nothing locks the row: everything a session has read may be
stale when it commits, and a commit writes the attributes that changed since the load,
not the row.

What is hard here:

* requests, attempts, the acknowledgement and the revocation interleave;
* a worker, a worker process or a request may die between any two steps; messages
  are redelivered, revokes are lost or come late;
* inserts and fetches are retried without knowing whether the failed call had
  an effect; a whole migration may be repeated over what it left behind;
* a migration that is started again meets the table its last attempt made, a plan made
  anew, and the columns of the row that no restart clears;
* three databases differ in what a failed insert leaves, in their type names, and in the
  sizes and keys their DDL can say;
* sockets come and go between the sends of a broadcast.

`PROJECT.json` lists these hazards line by line, with the properties that watch them.

## 2. The modules

| Module | Models |
|---|---|
| `MigrationLifecycle` | one migration's row, request handlers, task attempts, broker, crashes |
| `TableCopy` | what an attempt promises, without batches, offsets, transactions or retries |
| `MigrationExecutor` | the executor; `KeepsPromise` says that it implements `TableCopy` |
| `SchemaMapping` | no state: catalogs to schemas, validator, mapper, and the DDL of `create_table` |
| `MigrationPlanner` | `build_plan`, over `SchemaMapping` |
| `MigrationAttempts` | one table's migration over several attempts, over `SchemaMapping` and `ProgressReport` |
| `DestinationProvider` | what the write operations of the three providers do and leave open |
| `ConnectionManager` | the feed, step by await |
| `ProgressReport` | the progress arithmetic and `get_status`, with its theorems |
| `Credentials` | a request's credentials up to what a provider opens, with its theorems |
| `*Proofs` | theorems about the module they are named after |
| `MC*` | small instances for TLC |

Definitions whose comment begins with "Wrong on purpose" are not used by the
models. Each is a plausible slip in the code: put in the place of the
definition after it, it makes one property fail, which shows that the property
notices. `PROJECT.json` lists the pairs.

### MigrationLifecycle

`row` is the committed row; `req[r].seen` and `slot[s].seen` are what the open session of a
handler or an attempt loaded. A handler is a sequence of actions with
an `await` between them (`StartLoad`, `StartSend`, `StartCommit`), and `Flush` is
SQLAlchemy's commit: the attributes assigned a new value are written, all others keep what
the database says by then. An attempt goes from `Receive` over `ExecuteLoad`, `MarkRunning`,
`Progress` and `ExecutorReturns` / `ExecutorRaises` to `FinaliseCommit` or `FailCommit`, then
through `on_failure` and `Settle`, to `Ack`. `Progress` loads and commits in one step: the
two columns it writes are written by the final commit only, of the same
attempt. One row is enough since no handler or task touches another one's.

Failures (`FaultKinds`), at most `MaxFaults` of them in a behaviour:

| Kind | Meaning |
|---|---|
| `api_abort` | the request dies, or its commit fails, between two steps |
| `raise` | plan, executor or a callback raises into the handlers of `_execute` |
| `escape` | an error outside those handlers that leaves the final commit undone: load, decryption, provider, the commit itself; or one in `on_failure` |
| `late_error` | an error after the final commit took effect (`migration_tasks.py:172-176`): its answer, the session's end, `send_completed`, the soft time limit. `on_failure` then marks a second time |
| `worker_lost` | the pool process is killed; Celery requeues the message |
| `node_crash` | the whole worker dies; the broker restores the message later |
| `hard_limit` | `task_time_limit` kills the attempt without a handler |
| `early_restore` | the visibility timeout passes while the attempt still runs |
| `revoke_lost` | the revoke broadcast reaches no worker |

Properties: `StatusStamped` (whoever commits last, the status comes with its times and
message), `CompletedWasEarned`, `NoLostTask`, `OneCopier`, `CompletedCounts`,
`EveryTaskEnds`, `RunningEnds`; and two that the code breaks (section 4).

### TableCopy and MigrationExecutor

`copies[t][r]` counts how often the destination holds source row `r`; `taken` are keys that
other rows held before, which `ON CONFLICT DO NOTHING` / `IGNORE` turns into a row that need not
be stored. `_migrate_table` is `CreateTable`, `TruncateTable`, then `FetchBatch`, `InsertBatch`,
`Report` until `FetchNothing`. An insert may fail with nothing, some or all of its rows stored
(`insert_clean`, `insert_partial`, `insert_late`): that is what retries hang on. A destination
without `autocommit` is SQLite: a failed call leaves its rows in the open transaction
(`insert_open`), which any later commit stores, for whatever table, and a new connection does not
see. `durable` is what the last commit stored. `Rerun` starts over on a new connection with that,
after a redelivery or a restart by the user. All four booleans of the settings, and `autocommit`,
are chosen at the start. SQLite's own rollback of a transaction (disk full, for instance) is not
modelled.

The refinement maps `present` to the rows that are there (stored or taken), `phase` to `pc`,
and stutters on fetches and retries. `CompletedIsCopied` is stronger than the promise: the
rows of a completed table are *committed*, although an open transaction may have carried them.
`ProgressMovesOn` puts `on_progress` and the arithmetic of `ProgressReport` together: the plan's
total may be too small (`PlannedRows`; four where the plan has five rows), and the
percentage of the feed still never moves back within one attempt. `TableCopy` says that only the table whose turn it is
changes and that a table is called completed only when all its rows are there.

`CompletedIsCopied` takes for granted that the destination accepts the rows; the planner's
`PlannedRowsAreAccepted` says for which rows that is so. The provider's `InsertContract` is what the
executor's `InsertBatch` and `InsertFails` rest on, stated for each database.

### SchemaMapping and MigrationPlanner

`SchemaMapping` has the whole type maps of the three providers (`Discovered`), the validator's
families and checks (`Incompatible`, `Concerns`), the mapper (`ColumnMappings`, `Coerced`,
`Transformed`), and `create_table`: the size and key a column is declared with (`Size`, `DeclaredKey`), what a
database refuses (`Refuses`) and the catalog of the table it makes (`Created`). The last two, and
`Accepts`, are the databases' part and external to the code. A size of 0 stands for None, as it does in
the code's `if col.max_length`. Of a value only its Python class counts (`Classes`: null, int, float,
decimal, bool, bytes, a text of one character or more, or a class of the driver's own): `Gives` says what the source's driver
returns for a type, `Takes` what the destination's binds or encodes. So a flag of SQLite or MySQL is a number on
its way and has to be coerced for PostgreSQL, and a Decimal cannot be bound by SQLite.

`MigrationPlanner` is `build_plan` with a failing read at each place. Each read of a
database is a step, so two reads of one table need not agree. `Ordinary` names the rows outside the
promise: a NULL for a NOT NULL column, a value too long, types without a family, no shared column; and types
of one family whose values the drivers do not share (`OwnClasses`: bits, dates and times; a Decimal for SQLite).
Each is a hole of the validator, not of the model (section 4).

A count is what `get_row_count` returns: for a PostgreSQL table any number of `Estimates` above
`EstimateAbove` may stand for the rows, whether near them or not. `rows_then` and `rows_planned` are history
variables, the rows the tables really had: `TotalIsExact` compares the plan's total with them, and excepts a plan with
a count that may be an estimate.

### MigrationAttempts

The request's plan, then attempts that plan again, create the table, copy row by row, fail,
crash or complete, while the source grows and others may create the destination. What one attempt
leaves to the next is the point: the plan, the destination's table (`own` if the migration
made it), and `processed_rows`, `started_at` and `completed_at` of the row, read with `Status`.
Each commit of a time has a later `clock` than the one before. A failed attempt marks the row where it fails (`Fail`,
`CreateRefused`) and, usually, once more in `on_failure`, which may come any time later (`late`, `OnFailure`); so does a
completed one that fails after its final commit. `overtaken` remembers that such a mark hit a newer attempt.

* `OwnTableStaysPlanned`: the table an attempt made, read back through the other database's type
  names, passes the validator when the migration is started again, and no column is left out.
* `CreatedTableIsFaithful`: that table has the source's columns, key and NULLs, and `HasRoom` in each column
  exactly if it is none of those that lose it (`LosesRoom`): a `CHAR` or `BIT` whose size the source does not report or the
  DDL leaves out, MySQL's bare `DECIMAL` for any precision with scale 0, its `TEXT` and `BLOB` types for what others
  keep under those names. `HasRoom` compares lengths and digits; it does not know `Size`'s conditions.
* `StatusCoversFeed`: `get_status` measures with the total of the request's plan, the feed with that
  of the worker's, yet the first never shows less.
* `SpeedIsNotInherited`: `processed_rows` of the last attempt never counts as speed of this one; the
  stale `completed_at` that a restart leaves in the row is what prevents it. After a worker died
  there may be no such end, and after a late `on_failure` it is younger than the restart: then the speed is
  inflated (`crashed`, `overtaken`).
* `OwnKindIsCreated`: which tables of its own kind a destination refuses to create (section 4).

The databases' part is what a catalog may show and what a DDL may say. PostgreSQL shows types of its own, enums by any name
(which `create_table` creates first; the names are taken to need no quotes, as the DDL has none), and `ForeignTypes`, by
example an extension's, a composite one and an array of enums, of which a destination knows any subset. MySQL refuses a
`TEXT`, `BLOB`, `JSON` or `GEOMETRY` in a key (`Unkeyable`), and more than `RowChars` characters in a row or `KeyChars` in
a key (`TooWide`, InnoDB's 65535 and 3072 bytes at four per character of the utf8mb4 that the DDL asks for; only `CHAR` and `VARCHAR`
are counted). Ranges of integers and floats are not sizes here.

### DestinationProvider

What `insert_batch` leaves behind: PostgreSQL runs the batch in one transaction, MySQL commits by
statement, SQLite leaves its transaction open when a statement or the commit fails, and the next
call's commit, for whatever table, stores it. `seen` is what the connection sees, `committed`
what survives it. `truncate_table` may fail too: before it did anything, after it took effect, or, on SQLite, in its commit,
with its deletions left open. `acked` holds the rows of batches that returned since `truncate_table` was last called for
their table. Rows are of a class: good ones, and ones a database refuses or silently ignores.

### ConnectionManager

`asyncio.Lock` is never held across an await, so each block under it is one step; every send is a
step of its own. `expecting` remembers who was subscribed when a broadcast began. Slow clients do
not lose events, they delay the others: nothing but time, so there is no property on it.

### ProgressReport

Quotients are exact where the code's are floats; `Rounded` is Python's `round`, half to even.
`MCMigrationExecutor` assumes the values `src/tests/test_helpers.py` expects, so TLC compares the
definitions with them.

### Credentials

Requests are records of opaque texts (None, empty or a name) and a port. Of a text only this is known: whether it means itself
inside a URL (`Literal`), whether asyncpg can read it as one (`Dsns`), what is left when its scheme is replaced
(`Replaced`) and what urllib finds in it (`urlparse`, with a port that may not be one). `Accepted` is the
schema's validators; `build_credentials` (connection test) and `creds_to_dict` (migration, schema
service) make the dict, `get_provider` and the provider's `build_dsn`, `parse_credentials` or
`resolve_path` what is opened, with the exceptions they raise; PostgreSQL's credentials go into a URL without quoting, so a
text that does not mean itself there is `misread`: refused by the library, or taken for another server. `decrypt_credentials` succeeds with the
key that encrypted. No state, so theorems and no run of its own; `MCDestinationProvider` assumes `CredentialsAgree`, by which
TLC evaluates the same three statements over all requests with a port at each edge of the range.

## 3. What the runs show

Deadlock is not checked in any run: a finished migration, executor, plan, call sequence or feed
really stops, and the fault and id budgets end the others.

| Run | Properties | Instance, and why it is enough |
|---|---|---|
| `lifecycle_safety` | `TypeOK` `StatusStamped` `CompletedWasEarned` `NoLostTask` | one handler, two slots, two starts, two failures of any of the nine kinds: an attempt with its twin or its successor, both stale; more handlers only repeat the races of `lifecycle_double_start` |
| `lifecycle_exclusive` | `OneCopier` `CompletedCounts` `StartedFromPendingOrFailed` | one handler, two slots, three starts, two batches; only failures that do not write the outcome twice (see below) |
| `lifecycle_liveness` | `EveryTaskEnds` `RunningEnds` | one slot, two starts, two failures; no handler-less end |
| `lifecycle_double_start` | `StartedFromPendingOrFailed`: violated | two handlers, no failure |
| `lifecycle_outcome` | `OutcomePersisted`: violated | one start, one cancellation, no failure |
| `executor_copy` | `TypeOK` `CompletedIsCopied` `DuplicatesAccounted` `GivesUpLate` `CountsAreRight` `KeepsPromise` `ProgressMovesOn` `Terminates` | a skipped table, a keyed one of two batches (the second short), a keyless one of exactly one batch; with and without autocommit; one retry, four failures: both retries of two tables can be used up, or a table can fail and the run be repeated |
| `executor_cascade` | `TruncatesOneTable`: violated | the same with a foreign key from the first table to the second, on a destination with autocommit: only PostgreSQL's truncation says CASCADE |
| `planner_plan` | `TypeOK` `PlansEveryTable` `TotalIsExact` `PlannedRowsAreAccepted` | PostgreSQL to SQLite and MySQL, SQLite and MySQL to PostgreSQL: what each driver gives meets what each takes; tables of up to two columns, each of five or six forms at the source (number, decimal, text, JSON or bytes, flag, a type without a family) and three to five at the destination, with and without NULL and default; one table asked for twice; tables of up to three rows, exact counts up to two and estimates of three or five; two failing reads |
| `attempts` | `TypeOK` `OwnTableStaysPlanned` `CreatedTableIsFaithful` `StatusCoversFeed` `SpeedIsNotInherited` `OwnKindIsCreated` | any of the nine pairs of databases; tables of one column of each type in the maps and of some in none, with and without sizes, NULL and key, and keys of two columns; lengths on both sides of MySQL's limits; two rows and two attempts: a part of one attempt, then a plan that has grown |
| `provider_insert` | `TypeOK` `InsertContract` `AckedIsDurable` | each database, a keyed and a keyless table, four rows of three classes, three calls, two failures: a failed insert or truncation, the call that commits what it left, and one more |
| `feed_one_process` | `TypeOK` `EndedIsForgotten` `InOrder` `Delivered` `GoneIsForgotten` | two sockets, two concurrent broadcasters with three events |
| `feed_as_deployed` | `Delivered`: violated | the same with the task in a process of its own |

**Why some failures are left out of some runs.** `OneCopier` fails under each of `raise`, `late_error`, `worker_lost`,
`node_crash`, `early_restore` and `api_abort` alone. After `raise` the row is marked failed twice, once in the handler
(`workers/migration_tasks.py:158`) and once by `on_failure` (line 38): a user who restarts in
between sees the second mark hit the new attempt, restarts again, and two attempts copy. `late_error` does the same after a final
commit of 'failed': only the order of the two marks differs. A lost
worker's or node's message comes back although the user may have cancelled and started again, or its attempt had already
committed 'failed'; a restored one does while its first copy runs; an aborted start leaves
a task the row does not know. What `lifecycle_exclusive` shows is that the status check holds under the
other three: errors before the final commit, which are marked once, hard limits and lost revokes. In `lifecycle_liveness`, `hard_limit` and `escape` are
out since no handler writes an outcome then, and `early_restore` is since the twin's
acknowledgement removes the message: a crash after that leaves the row running for ever.
`RunningEnds` is about behaviours without a revocation, because a cancelled migration may be
set to running for good (section 4). `CommitWins` is the assumption of that run that a
worker does not finish the task before the start request's commit; otherwise the commit may
overwrite 'completed' with 'running'. The safety runs do not assume it.

**Fairness.** Lifecycle: weak fairness of the handlers already in flight together, and of the
workers and the broker together (there is one handler and one slot); no fairness of starting, cancelling or failing. It is what a running API process, an
idle Celery slot and a live Redis do, and every loop in the task ends (`Terminates`). Executor:
weak fairness of `Step`, the steps that are not failures: each `await` returns or raises, and
nothing is obliged to fail. Feed: weak fairness of each
socket's handler, to which the library reports a lost peer; none of the broadcasts, which may
hang on a client for ever without keeping a handler from leaving.

## 4. Where the code and its documents differ

* `lifecycle_double_start`: two start requests pass the check on what they loaded
  (`services/migration_service.py:162`) and the second enqueues for a migration already running;
  `api/routes/migration.py:44` says it must be pending or failed.
* `lifecycle_outcome`: a cancel commits between enqueueing and the attempt's load; the attempt
  sets the row back to running (`migration_tasks.py:77`) and is killed by the revoke. The row
  says running, nothing runs, and a start is refused.
* `executor_cascade`: `TRUNCATE ... CASCADE` (`providers/postgres_provider.py:278`) empties tables
  already copied.
* `feed_as_deployed`: the worker's manager has no sockets (`migration_tasks.py:115`).

Met while modelling, without a run of their own:

* a cancel that loaded 'running' overwrites a completed migration (`migration_service.py:191`);
* an unreadable source table is left out of the plan and the migration is 'completed' without it
  (`planner.py:36-39`, the worker drops `plan.warnings`);
* a family is no promise about values: a `NUMERIC` of PostgreSQL or MySQL is a Decimal, which SQLite's driver cannot
  bind, MySQL's `BIT` is bytes, which PostgreSQL's `BOOLEAN` does not take, and SQLite's dates are texts; all
  pass the validator (`validator.py:16-30`) and fail at the first batch, as `mapper.py:83-96` coerces none of them;
* the nullability of shared columns is not compared (`validator.py:90`), though line 49 calls an empty list
  of warnings fully compatible;
* `base_provider.py:95` promises the rows actually inserted where `len(rows)` is returned;
* `processed_rows`, `error_message` and `completed_at` are not cleared by a restart. After a worker died, or when the old
  attempt's `on_failure` comes after the restart, the new attempt shows the rows of the old one as its own speed;
* an error after the final commit marks a completed migration failed (`migration_tasks.py:172-176` and 35-38);
* an SQLite truncation whose commit fails leaves its deletions open, and the next commit, for whatever table, stores them
  (`sqlite_provider.py:201-202`);
* PostgreSQL's provider puts credentials into a URL without quoting (`postgres_provider.py:50-54`), so an accepted password with
  a `/` or `#` in it cannot be used; a bad port in a MySQL URL raises in the constructor (`mysql_provider.py:54-57`);
* a soft time limit raised inside a provider call is caught by the executor as an ordinary failure
  (`executor.py:116,155`);
* `create_table` declares the source's type names to the destination, which may not know them
  (MySQL's `DATETIME` or `TINYTEXT` in PostgreSQL, `BYTEA` or `UUID` in MySQL). A `VARCHAR` without a length, which PostgreSQL
  allows, is refused by MySQL, and MySQL's own `LONGTEXT` comes back from its catalog with a
  length its grammar refuses. `OwnKindIsCreated` says what each takes of its own kind: SQLite everything, PostgreSQL all tables of types it
  has, MySQL all but those with such a text, a text of no characters, a key that needs a prefix length, or more characters
  than utf8mb4 allows;
* a precision whose scale is 0 is not declared (`mysql_provider.py:211`, `postgres_provider.py:243`), and MySQL's bare `DECIMAL` has ten
  digits: a `numeric(20,0)` loses half of them, without a warning of the validator. `LosesRoom` lists all such columns;
* SQLite's schemas have no sizes, so a `CHAR(n)` of SQLite becomes `CHAR(1)` elsewhere;
* the connection test and the migration disagree on some requests (`TestSpeaksForTheMigration`): a URL beside
  credentials is ignored by the test and preferred by the migration, and a missing port is MySQL's and
  PostgreSQL's default for the migration but raises in the test (`int(None)`); `api/routes/schema.py:20`
  says that the format is the same.

## 5. What is proved

All proofs are checked by TLAPS, and hold for any number of handlers, slots, tasks, tables, rows,
sockets, retries and failures. Assumptions are those the modules name, which TLC evaluates on every
instance (`ConstantsOK`, `PlanOK`, `SettingsOK`, `FaultsOK`, `PlacesOK`, `SettingOK`, `RequestOK`, `KindsOK`, `CatalogsOK`,
`AttemptsOK`, `CatalogsShow`, `NoneIsNoTime`, `TextsApart`, `TextsRead`, `NoneApart`), and what a theorem states.

**Lifecycle** (`MigrationLifecycleProofs`):

* `TypeCorrect`: `TypeOK`.
* `StampsKept`: `StatusStamped`. Not inductive: a stale session could write 'failed' over a row
  without an end. The strengthening `Stamps` adds that what every open session loaded is `Older`
  than the row: no column a session saw set is null now, because no code path clears one. A commit
  of an attribute therefore only adds stamps (lemma on `Flush`).
* `TasksKept`: `NoLostTask`, inductive by itself.
* `CompletionIsEarned`: `CompletedWasEarned`, strengthened (`Earned`) with what the result of an
  attempt that is finalising says; a commit keeps the status or publishes its session's, so only
  `FinaliseCommit` can introduce 'completed'.

**One attempt at a time** (the end of `MigrationLifecycleProofs`), for requests made one at a time (`OneHandler`) and
failures after which no attempt writes its outcome twice and no message comes back
(`Orderly`: `escape`, `hard_limit`, `revoke_lost`). All three theorems are false without that: section 3 says how each of the other
six kinds, an error after the final commit among them, lets a second attempt in.

* `OneAttemptAtATime`: `OneCopier`. The invariant `Exclusive` has three parts: at most one task waits
  or works (`Single`); a start in flight saw a row that nobody works for, and nobody does until it
  sends (`Asked`); and while there is a task, the row says running or cancelled, or the start that sent
  it has yet to commit (`Claimed`). The last is what the status check relies on: the
  row alone does not forbid a second task between sending and committing, the handler does.
* `CompletedRowsCount`: `CompletedCounts`. `Counted` adds that the session of the final commit has the row's own
  count, which nobody else can have changed (`Exclusive`).
* `StartsAsDocumented`: `StartedFromPendingOrFailed`, from `Asked`. With two requests in flight
  `lifecycle_double_start` refutes it.

**Executor** (`MigrationExecutorProofs`):

* `ExecutorTypeCorrect`: `TypeOK`.
* `CompletedRowsAreThere`: `CompletedIsCopied`, if the plan names no table twice, truncation
  does not cascade, and scans are stable. `Copied` adds that the rows before `offset` of the current table are
  there, and those of the batch at hand between insert and report. All three assumptions are
  needed: a second occurrence of a table truncates what the first one copied, so does a cascade
  (`executor_cascade`), and `LIMIT/OFFSET` without an order may skip rows. The runs have stable
  scans throughout; unstable ones are modelled (`Batches`) and left to the assumption.
* `ImplementsTableCopy`: `Spec => KeepsPromise`, under the same assumptions, by a simulation step
  for each action.
* `DuplicatesAreFaults`: `DuplicatesAccounted`, for distinct tables and stable scans, cascading or not.
* `EachTableGetsItsRetries`: `GivesUpLate`, without assumptions. `Afforded` counts the failures already spent on the
  table at hand (`retry_count` while fetching, `attempt` while inserting) beside those of the failed tables.
* `FeedMovesOn`: `ProgressMovesOn`, from `ProgressNeverMovesBack`.
* `CountedRowsAreTheRows`: `CountsAreRight`, without assumptions. `Tallied`: the counter is at most the rows of the tables
  that are done and the `offset` of the current one, and exactly that as long as no table failed; no batch goes beyond the end
  of its table, whatever order the pages come in.

**Planner** (`MigrationPlannerProofs`), for any request, catalogs, kinds of databases and failing reads. All plan steps are one
of three (`StepsAre`: nothing planned, a warning instead of a plan, one more plan), so each invariant is proved on those:

* `PlannerTypeCorrect`: `TypeOK`, with `Shaped`: the plans are a sequence and their counts numbers.
* `PlansAllTables`: `PlansEveryTable`. `Placed` adds that no position is warned about before its turn; a
  place counts the readable positions before it, so the next plan is at the next place.
* `TotalCountsWhatIsCopied`: `TotalIsExact`, by the facts on sums below: unless a count may be an estimate, a pending plan's count
  is the history's.
* `PlannedTablesAreAccepted`: `PlannedRowsAreAccepted`. `AllPassed`: a pending plan passed the validator with the mapper's columns.
  Then a lemma per value: types that do not clash are in one family (`OneFamily`), and what the source's driver gives for a type of a
  family, coerced, the destination's takes for any other of it (`ValueIsTaken`). There is no bound on schemas or rows;
  the exceptions are those `Ordinary` names.

**Provider** (`DestinationProviderProofs`):

* `WritesTypeCorrect`, and `InsertsKeepTheirPromise`: `InsertContract`. `Underway` says of an insert
  that has not answered yet which rows of its batch are in and which are still to do.
* `ReturnedRowsAreDurable`: `AckedIsDurable`, from that contract: a call returns only after its commit. `AckedStays` adds
  that the connection still sees each such row: an open transaction, whose commit would store what it sees, has deletions
  only of tables that were given up.

**Feed** (`ConnectionManagerProofs`):

* `FeedTypeCorrect`, and `EndedSocketsAreForgotten`: `EndedIsForgotten`, from `Registered`: a process has only its
  own sockets, under their own migration, between registration and the end of their handler.
* `EventsStayInOrder`: `InOrder`.
* `NoEventIsWithheld`: `Delivered`, where publishers and sockets share a process (`OneProcess`). `Serving` says that a healthy
  socket is registered, `Waiting` that each subscriber still healthy has the event or its turn to come.
* `OtherProcessesHearNothing`: the converse, for any deployment: nothing reaches a socket of another
  process. `feed_as_deployed` is one instance.

**Attempts** (`MigrationAttemptsProofs`), for any catalogs with at most `MaxRows` rows, counted exactly:

* `AttemptsTypeCorrect`: `TypeOK`.
* `StatusIsAhead`: `StatusCoversFeed`. `Covered`: the row's total is that of an older plan, so no larger, and the
  row has counted what the attempt has. Rounding keeps that order (`RoundedAntitone`).
* `SpeedIsItsOwn`: `SpeedIsNotInherited`. `Dated`: the row has an end older than the running attempt's start; or
  none, and then counts this attempt's rows only, unless a worker died or an `on_failure` came late.
* `CreatedTablesAreFaithful`: `CreatedTableIsFaithful`. `Made`: the migration's own table is what `Created` makes of a
  schema read from the source; what a column holds there is compared with what the source reported, and the two differ in
  room exactly where `LosesRoom` says. Assumes that None is no table (`NoneIsNoTable`), as do the next two.
* `OwnTablesStayPlanned`: `OwnTableStaysPlanned`. `Kept`: a pending plan has columns; it includes all of them if the
  destination was missing or is the migration's own; and with an own table the plan is pending. It rests on `NoClash`: what a
  database shows for a type it was told to declare is in the type's old family or in none
  (`PgRoundTrip`, `MySQLRoundTrip`, `SQLiteRoundTrip`, which go through the type maps: six types change their name, of which
  PostgreSQL's `FLOAT` and MySQL's `INTEGER` and `BOOLEAN` come back without a family).
* `OwnKindsAreCreated`: `OwnKindIsCreated`. `Known`: a refusal is about a column of the source's catalog; and
  a database takes what it shows but for the exceptions (`PgTakesItsOwn`, `MySQLTakesItsOwn`). `CatalogsShow` assumes what a catalog
  of a kind may say: its own types, those of `OtherTypes` and the foreign ones, which of them have a length or a scale, and MySQL's limits.

**Pure functions**:

* Sums: `SumUpTo` is a recursive function; that it has one (`SumExists`, `SumUnique`) is proved by taking the least number
  where it would not (`LeastNumber`), since the library's induction rules take an operator. `SumNext`, `SumType` and `SumSame` are
  what planner and executor use.
* `ProgressReport`: the percentage is in 0..100 for any count and total, and never falls when
  more rows are processed; the estimate is the least number of seconds that suffices at the
  present rate; and `RestartedShowsNoSpeed`, what `get_status` shows of a restarted migration.
* `Credentials`: `AcceptedCanBeOpened` (an accepted request can be opened exactly if the database has a provider and its URL, given or made of
  credentials, can be read; credentials that are opened open what they name), `WorkerOpensWhatWasTested` (the worker, with the row alone and the same key, opens what
  the request named; with another key nothing), `TestSpeaksForTheMigration` (exactly when the
  connection test opens what the migration will: if a server has a port; with a URL beside credentials each looks at one half).

**Only model-checked**: liveness (`EveryTaskEnds`, `RunningEnds`, `Terminates`, `GoneIsForgotten`),
since fairness is out of the prover's reach. Every safety invariant and action property of a passing run is
stated by a theorem; where the theorem has hypotheses (`OneHandler`, `Orderly`, `OneProcess`, distinct tables, stable scans, no cascade), the
run that checks the property has such an instance.

## 6. What is not modelled

* Log queries (`get_logs`: one insert per message, a paged select ordered by `created_at`) and the schema service's list of
  tables with a count each: single statements without a decision.
* Configuration, logging, application assembly, health, Alembic: no state that the above depends on. The limits and process counts they set are constants of the models.
* `stream_table` and `execute_query` of the providers and `core/security.py` have no caller; `get_tables`, the text of the catalog
  queries and the quoting of identifiers are abstracted to the catalogs that come back.
* Fernet is a library, modelled by what the code uses of it.
* Pooled database connections bound to a closed event loop (every task calls `asyncio.run`) show up as
  `escape`. Row counts are exact up to `EstimateAbove`; above it PostgreSQL may answer with any
  of `Estimates` (its `reltuples`), near the rows or not.
* Slow clients delay a broadcast, they do not change it.

## 7. Plan

Written, from the row outwards: `MigrationLifecycle`, `TableCopy` with `MigrationExecutor` (with the
provider's open transaction), `SchemaMapping` with `MigrationPlanner`, `MigrationAttempts`,
`DestinationProvider`, `ConnectionManager`, `ProgressReport`, `Credentials`, and their proofs.

Left to do:

1. Compose lifecycle and feed: what a client sees against the row, for two attempts of one migration.
2. Unstable scans: what `CompletedIsCopied` weakens to without `StableScans`.
3. Pages of the log while an attempt appends to it.
4. Lifecycle: which settings make `OutcomePersisted` true, as a theorem beside `lifecycle_outcome`.
5. Lower bounds: which assumptions of `CompletedRowsAreThere` could be weakened to what the retries need.
