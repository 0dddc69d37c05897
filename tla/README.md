# LogLite in TLA+

LogLite is a small log server: clients and harvesters hand it JSON log entries,
it buffers them in memory, inserts them into one SQLite table in batches,
answers queries and streams new logs to browsers. This directory models the
parts of it where concurrency, failure and ordering decide correctness, checks
them with TLC on small instances and proves their safety properties with TLAPS,
for every instance.

Paths such as `backlog.cpp:10` are relative to `src/cpp/src/`.

## Inventory of the system

The server is one process. Its threads are: the one thread of `Server::pool_`
that runs every coroutine (HTTP handlers, background tasks, accept loop); the
single thread of the writer pool, which runs database jobs one after the other
on a strand; the threads of the reader pool; one thread per native harvester;
and the Python threads that call `PushToBacklog`. A coroutine runs alone from
one `co_await` to the next; the other threads interleave with it anywhere.

| component | state | operations | interacts with | what makes it correct |
|---|---|---|---|---|
| Backlog (`backlog.*`) | bounded deque, watermark flag | `Add` (drops the oldest at capacity), `Flush`, `IsFull` | producers on several threads, flush task | bounded; drops the oldest first and nothing else; flag exact |
| POST /logs (`handlers/insert.hpp`) | loop over the body | `HandleInsert` | Backlog | each entry of the body is added once |
| Flush task (`tasks/flush_backlog.hpp`) | deadline, batch | poll, drain, insert job, notify | Backlog, writer, notifier, shutdown | order kept, nothing stored twice, nothing waits forever |
| Writer database (`writer_database.*`, `database.*`) | Log table, `column_dictionary`, `versions`, statistics tables, open transaction | `Insert`, `DeleteLogs`, `Initialize`, migrations, statistics | SQLite | a batch is committed or undone as a whole, except for skipped rows |
| Notifier (`notifier.hpp`) | `last_id_`, subscriptions | `Notify`, `Subscribe`, `Unsubscribe`, `GetLastId` | flush task, sessions | announces only committed ids |
| Live tail (`handlers/sse.hpp`) | `pushed_id`, `current_id`, debounce and keep-alive clocks per session | the event loop of `HandleSSE` | notifier, readers, client | no log skipped or repeated; gone clients reaped |
| Column dictionary (`column_dict.*`) | `lookup_`, mirrored in a table | `GetOrCreate`, `GetValue`, `QueryCandidates` | writer transaction, readers | one-to-one; every committed row can be decoded |
| Vacuum task (`tasks/vacuum.hpp`) | – | stale logs, excessive logs, vacuum modes | writer | deletes the oldest only, reaches its target |
| Reader pool, query (`reader_database.*`, `handlers/query.hpp`) | free connections, `closed_` | acquire, release, close, `Query` | handlers, sessions | a connection is used by one job at a time; none after close |
| Metrics, diagnostics, GET /stats (`metrics.*`, `tasks/diagnostics.hpp`, `handlers/stats.hpp`) | metric window, statistics tables | `Collect`, `Flush`, prune; sample, delete old samples; two queries | all components | each observation counted in one sample; the two tables agree |
| Migrations (`migrations.*`, `database.cpp`, `api.cpp`) | `versions` table, schema of the log table | rollout at start, `migrate rollout`, `migrate rollback` | SQLite, other processes on the file | recorded if and only if applied; wholly, in order |
| Server lifecycle (`server.*`, `context.hpp`, `api.cpp`) | stop flag, timers, acceptor, global pointers | `Run`, `Stop`, teardown | everything | stops completely, uses nothing after it is destroyed |
| File harvester (`harvesters/file.hpp`) | open file, offset, line buffer | open, read, check, drain, close | file system, Backlog | each line ingested once, in order |
| Python layer, dashboard, load generator | – | – | C++ API, HTTP | not part of the core |

The hard behaviours: producers racing the flush task; a batch that fails half
way; a crash or a shutdown at any point between `Add` and `Notify`; sessions
that read an id, await a query and use the id afterwards; ids that come back;
an in-memory dictionary that survives the rollback of the rows it mirrors;
queries of several statements, each with its own snapshot; a vacuum that
estimates rows by ids with gaps; two processes that migrate one file; a server
that stops while requests, jobs and tasks are suspended anywhere; and a
harvester that looks at a path several times while it changes. `PROJECT.json`
lists each hazard at its line, with the properties that cover it.

## Modules

| module | models | composed of |
|---|---|---|
| `Backlog` | the bounded buffer; each operation holds the mutex, so each is one action | – |
| `OrderedStore` | abstract specification: entries are admitted, dropped or stored in admission order | – |
| `Ingest` | the write path: producers, flush task, `WriterDatabase::Insert` row by row, notifier, shutdown, crash, restart | extends `Backlog`, instantiates `OrderedStore` |
| `IngestProofs` | theorems about `Ingest` | extends `Ingest` |
| `LiveTail` | SSE sessions over the Log table with commits, notifications, timers and vacuum | – |
| `CompressedStore`, `MCCompressedStore` | the column dictionary, its table, the rows stored as ids, and filtered queries | – |
| `FileHarvester`, `MCFileHarvester` | the file harvester against a writer and log rotation | – |
| `Vacuum` | the vacuum task, statement by statement, with its estimates and budget | – |
| `Diagnostics`, `MCDiagnostics` | metrics registry, diagnostics task, statistics tables, GET /stats | – |
| `Migrations`, `MCMigrations` | rollout and rollback by several processes on one database | – |
| `Lifecycle` | the server from boot to exit: accept loop, connections, tasks, pools, global pointers | – |
| `LiveTailProofs`, `CompressedStoreProofs`, `VacuumProofs`, `DiagnosticsProofs`, `MigrationsProofs`, `LifecycleProofs`, `FileHarvesterProofs` | theorems about the module each is named after | extends that module |

### Ingest

Entries are numbered in the order `Backlog::Add` receives them, so order,
duplication and loss can be read off the numbers. `queue`, `logs` (the flushed
batch), `txn` (the open transaction) and `stored` are sequences of numbers;
`evicted`, `rejected` and `lost` record why an entry is gone. `phase` is the
state of the server (`RequestStop`, `pool_.stop()`, end of `RunServer`),
`flush_pc` the place of the flush task. An HTTP handler adds its body without
an await in between, so while `body > 0` no other coroutine runs
(`ServerThreadFree`), but harvesters and the database job do. The writer's own
pool goes on after `pool_` has stopped, until teardown joins it. `InsertRow`
lets every row succeed or be skipped; `InsertThrow` may come at any point of
the job. A step that fails because the disk is full or cannot be read makes
SQLite end the transaction (`StepEndsTransaction`): the rows so far are undone,
`Insert` only logs the error, the rest of the batch is committed row by row
(`AutocommitRow`), and the COMMIT at the end throws (`CommitThrow`). Rows are never
deleted in this module, so the row at index *i* has rowid *i*; deletion is
`LiveTail`'s subject.

### LiveTail

A row carries its id and the number of the log it holds, so that two logs that
had the same id can be told apart. `Insert` and `Notify` are separate steps
with everything else in between; so are the two statements of
`ReaderDatabase::Query`, each on its own snapshot. Time is abstract: `recent`
says whether the debounce window since the last push may still be open, `idle`
counts timer periods since the last write up to the 15 s of the keep-alive. A
client that has gone is noticed by a failing write only, as in the code.
`AutoIncrement` says whether the schema declares AUTOINCREMENT (the documented
one does not). A batch of which every row is skipped commits nothing and is
announced all the same (`Insert(0)`). `fields` says whether the columns that the
client asked for exist. A query that throws is retried (`QueryError`): it may
throw at any time, and with an unknown column it always does (`validate_field`).
Such a session writes nothing as long as logs are past its `pushed_id`, not even
the keep-alive, so that a client that has gone is not noticed; this is a listed
hazard and the exception of `GoneClientsReaped`. That a reader's
`sqlite3_step` fails, which the code takes for the end of the result, is left
out and listed as a hazard. `Vacuum` may delete anything a pass of `vacuum.hpp`
may delete, whatever the sizes involved; the module of that name has the
arithmetic. A push carries at most `SseLimit` logs and moves `pushed_id` over the
rest; the history variable `cut` holds the logs a session lost this way, so
that `NothingSkipped` is about all the others.

### CompressedStore

`lookup` is the in-memory table, `dict` the committed rows of
`column_dictionary`, `dict_txn` those of the open transaction. `GetOrCreate`
persists on the connection of the running batch, so a rollback undoes the
dictionary rows but not the lookup. A value is encoded as its canonical text
(`Text`), which is not injective: the number 5 and the string "5" share an
entry, so a read gives back the text, and the properties say so.

The column `value` of `column_dictionary` is declared `JSON`, a type to which
SQLite gives NUMERIC affinity: a text that looks like a number is stored as that
number and read back as the number's text. `Affinity` is this conversion, `Persisted` what
`InsertColumnDictValue` leaves in the table, and `Loaded` the lookup that
`Initialize` makes of it, in which of two rows with the same text the last one
stays. "05" therefore reads back as "5" after a restart, and if "5" has an entry
too, only one of the two ids can still be decoded or found by a filter. Within
the process that wrote a row nothing of this shows. The texts that come back as
they are, and as which no other text comes back, are `Plain`; `Reliable` is what the
properties promise: all texts in the first process, the plain ones after a
restart. A text that SQLite changes never disturbs a plain one, and no id is
given out twice.

A failing step undoes only itself (`SkipRow`) or ends the whole transaction
(`StepEndsTransaction`), as SQLite does on a full disk or an I/O error; `ended`
records whether the latter has happened, and when.

A query is the sequence of `ReaderDatabase::Query`: for each filtered column,
`QueryCandidates` turns the filter into the set of ids whose text it accepts
(under the lock of the dictionary, which may be ahead of the table), then COUNT
and SELECT run, each on its own snapshot. A filter is the set of texts its
operator accepts, column by column. Each process makes one query. LIMIT, OFFSET,
the deletion of rows, and the query without filters, whose total is an
estimate, are left out.

### FileHarvester

Files are sequences of bytes tagged with their line, so partial, overlong and
spliced lines arise from reading alone. Every stat, open and read of the code
is a step, with the writer and log rotation in between. What a read returns goes
to `buffer` and is consumed byte by byte (`Consume`), as in `consume_bytes`, before
the thread does anything else (`Proceed`). A file keeps its
identity as long as it is open, and no other file gets it (true of inodes; a
file that is removed and not open gives its inode up, and the model does not
reuse it). A stat or an open may fail at any time, and `current_path_identity`
answers a failing stat as it answers a missing file: at the identity check the
open file is drained, closed and opened again from its beginning. The same
happens when an earlier file is put back at the path (`Restore`), and a path
that comes back while it is opened goes unnoticed by the recheck (`CameBack`).
The history variable `revisited` records that the harvester or the writer has
gone back to a file, `raced` that the path has changed between the two checks of
a turn; these are the two exceptions of `OnceUnlessRaced`, and the first is that
of `OnceUnlessRevisited`. When the path has come back in this way to a file shorter
than the one that was opened, the identities agree, every poll takes the file for
truncated, and the open one is read again and again; `MaxTroubles` bounds this.
Parsing accepts exactly a whole line; the filling-in of a missing timestamp,
CR stripping and blank lines (ignored by default) are left out.

### Vacuum

A pass is a job on the write strand; each of its statements commits by itself
and is one action, so that a crash can fall between two of them. A row fills a
page, a deleted row leaves a free page, and `Remain`, `FullVacuum` and `Open` give
pages back as the three values of `auto_vacuum` do. Everything derived from ids
is derived as in the code: the row count is the span of the ids, the average
row size divides by it, and both the share of rows to delete and the cap of an
incremental pass are offsets from the smallest id. The product of a row count
and a `double` ratio is one of the two integers its rounding can give
(`Shares`). `TypeOK` says what the modes exclude: in incremental mode a pass goes on
to deleting only when no free page is left, and only full mode rebuilds the file.
The named exceptions of `Trimmed` and `ExpiredGone` are where these
estimates keep a pass from deleting anything, however often it is repeated. The
budget itself is a number of ids and not of rows, hence approximate when ids
have gaps ("at most ~limit_mb MB", says `vacuum.hpp`).

### Diagnostics

`Collect` is two steps, because it reads the clock before it takes the mutex; an
observation can therefore arrive out of order, or after the flush of the window
it belongs to. The task's timer, its flush and each of its four statements are
steps. `made`, `reported` and `gone` are history. An observation that `prune`
removes because a pass came late counts as gone: that this happens is a listed
hazard, that nothing is reported twice or forgotten otherwise is `Accounted`.
There are two clocks, as in the code: the registry and the timer use the steady
one (`now`), the windows and the retention the system clock (`system`), which
`SetClock` may set forward or back at any time, also while the server is down.
Setting it back makes windows overlap, or end before they begin, which is the exception of
`DisjointWindows`; `AnswerPaired` holds whatever is done to it, with the latest cutoff
so far (`horizon`) in the place of the last one.
The sums of `summarize_observations` are cardinalities: an item of an
observation is a pair of the observation's place and the item's number in it.

### Migrations

A migration is a sequence of statements that create or drop the table or one of
its columns. SQLite's part is external: the transaction begins without a lock,
the first write takes it, a transaction overtaken by another commit cannot
write any more, and a writer that finds the lock taken waits or fails. A write
may fail for another reason too (a full disk, an I/O error): `exec_sql` throws and
the transaction is rolled back, or SQLite has ended it already, and the ROLLBACK
of the catch clause throws out of `Initialize` (`RollbackThrows`); COMMIT may fail
(`CommitFails`); and the INSERT into `versions`, or the DELETE, fails unnoticed and
leaves the statements' effects to COMMIT (`RecordFails`).

`ApplyPendingMigrations` reads the pending list outside the transaction, as the
code does, so two processes may choose the same version; `OnlyRepeatableTwice`
says what decides that race. `migrate rollback` asks for no order; `unordered`
and `undone` record that it has happened, `undeleted` that a version rolled back
is still recorded. `migrate rollout -v` may leave out versions that are not
recorded (`left_out`); the gap it makes is what the user asked for, and `InOrder`
speaks of the other cases. A migration that was applied and not recorded is
applied again. If it can be repeated and another server's inserts keep the write
lock whenever it is to be recorded, its transaction writes nothing, COMMIT
succeeds, `true` is returned, and the loop of `Initialize` does not end: TLC finds this
behaviour when the exception of `BootTerminates` is taken out.

### Lifecycle

A handler of a pool is one step, and a coroutine is where it waits: for its
client, a timer, a queued job, or its resumption. After `pool_.stop()` nothing
of `pool_` runs; the database pools go on until they are stopped and joined,
which is what `NoUseAfterClose` depends on. `acquire` and `release` are the
steps of `ReadDatabasePool`. A request with two uses of the database goes on to the
second only if the first has not thrown. `g_backlog` is set before the harvesters
start, `g_server` after it (`Boot`, `CreateServer`), so a `StopServer` in between, or
earlier, finds the null pointer and is lost: nothing is requested, and `StopEnds`,
which begins with the request, does not speak of it.

`PushToBacklog` tests a pointer and uses it afterwards, in two steps, and
`StopServer` takes three: the test, `RequestStop`, and the close of the acceptor,
with the server thread, boot or teardown in between. That teardown can fall
between test and use is a listed hazard; the last parts of `NoUseAfterClose` state
what the code does guarantee. They except the case that `Run` throws (on a failing
bind, or because the acceptor is closed while it is set up), in which `RunServer`
leaves without clearing the pointers. Called from another thread, `RequestStop`
goes through `shutdown_timers` and `Stop` closes the acceptor without
synchronisation with the server thread: a data race. Of its outcomes the model
has those of an unharmed process: a timer that is missed expires by itself, since
every task's wake-up is possible at any time; the acceptor is closed, or not yet
open, or `Run` throws.

A job that a coroutine posts to a database pool is taken to run there, and its
coroutine to go on on the server's thread, which is what the code is written for.
With `co_await asio::post(executor, use_awaitable)` a coroutine resumes on its own
executor, so that jobs of the real program may run on the server's thread: the
interleavings modelled include those, and the safety properties carry over.

## Runs

| run | checks | result |
|---|---|---|
| `ingest` | order, accounting, bounded backlog, exact flag, announced ids, refinement of `OrderedStore`; every entry is settled, also when the flush task dies | pass |
| `ingest_shutdown` | a clean shutdown keeps what was accepted before it | **violated**: the flush task returns on stop without a last flush |
| `live_tail` | nothing skipped but what LIMIT cut off, nothing twice, every other log reaches the session; gone clients are reaped, unless every query of the session fails | pass |
| `live_tail_reuse` | nothing skipped, with reusable ids | **violated**: the vacuum frees the newest ids and SQLite assigns them again |
| `compressed_store` | rows decode now and, but for texts that look like numbers, after any restart unless SQLite has ended a transaction by itself; dictionary one-to-one; a filtered query selects by value while the writer goes on | pass |
| `compressed_store_full_restart` | rows decode after any restart | **violated**: when SQLite ends the transaction, rows are committed without their dictionary entries |
| `file_harvester` | lines are ingested once and in order unless rotation hits the race below or a file is gone back to; lines read are ingested; stream and identity agree; appended lines are eventually ingested | pass |
| `file_harvester_race` | `OnceUnlessRevisited`: no line twice, without the exception for the race | **violated**: a rotation between two stat calls passes for a truncation |
| `vacuum` | young rows go only when the database is too large, oldest first, the newest never; size and age get under their limits but for the named cases | pass |
| `diagnostics` | no observation reported twice or forgotten; windows disjoint across restarts unless the system clock is set back; the two tables agree, also as GET /stats sees them | pass |
| `migrations` | what is recorded is applied, wholly and, with nothing rolled back or left out by `-v`, in order; a migration runs twice only if it may; every command ends unless its record is refused for ever | pass |
| `lifecycle` | no connection used after close or by two threads; no reader waits; pointers cleared before their targets die; gauge exact; a stop that was requested ends the server | pass |

The violated properties are what the documentation or a comment says of the
program; `PROJECT.json` quotes the lines under `findings`. Every property of a
passing run has a mutant: a variant of one definition, as a plausible slip in
the code would make it, under which TLC finds the property violated. Mutants
stand before the definition they vary and are not used otherwise.

One more disagreement has no run of its own: docs/index.rst:261 calls the window
of GET /stats "closed-open", while `reader_database.cpp:106` selects
`until >= ? AND until <= ?`, so that a sample that ends at the upper bound is
answered by two adjacent windows. `InRange` is what the code does.

### Bounds

* `MaxSize = 2`, `MaxAccepted = 5`, `MaxBody = 2`: the backlog overflows, during
  one body and across bodies, and up to two batches follow each other. With so
  small a capacity the 95 % watermark coincides with it; `FlagExact` is proved
  for every capacity.
* `MaxRestarts = 1`: state carried over a crash is used again afterwards.
* `FlushInterval = 1`: the deadline passes before or after the watermark.
* `LiveTail`: one connection that opens session after session (sessions share only
  what the flush task writes, so one shows what any of them may meet), with known
  and with unknown fields; three logs in batches of none to two, two timestamps:
  a log can be committed before, during and after a query, deleted, and its id
  assigned again. `KeepAlive = 2` periods let the keep-alive happen between and
  after pushes, and `SseLimit = 2` is below the number of logs one push may have to
  carry.
* `CompressedStore`: two columns (symmetric), three values, of which two have texts
  that SQLite takes for one number ("5", "05"), three rows and one restart: an
  entry can be created, rolled back, reused and created again, and two entries
  become one. The filter accepts two of the three texts in every column.
* `FileHarvester`: three lines, of 1, 2 and 1 bytes with `max_line_bytes` at 1, so that
  an overlong one lies between two that are ingested; a read buffer of 2, so that
  a boundary falls inside lines, on newlines and between lines. Two files give a
  rotation, and with the one of `MaxTroubles` either a truncation, a failing
  identity check, an earlier file put back, or a file taken for a truncated one.
  The race is found with a limit of 2 and lines of 1, 3 and 2 bytes.
* `Vacuum`: five rows over a base of one page, a maximum and a target of two pages,
  an age of one of four clock ticks, a budget of two pages: the database gets too
  large, rows expire in and out of id order. One crash or shutdown. All three
  values of `auto_vacuum`, before and after a restart. That an average row exceeds
  the budget does not happen here; `ExcessMakesRoom` and `StaleMakesRoom` are proved
  for that case too.
* `Diagnostics`: two threads, of which each may be between clock and mutex
  (they are symmetric), two observations, four ticks with an interval of one
  and a retention of two: several windows, late passes, samples that expire
  while they are read, one crash, and one setting of the system clock to any
  time.
* `Migrations`: two processes and three commands, so that any two race and one
  more follows, three migrations of which the first can be repeated, the others
  not; the start versions 0 and 2, of which the latter leaves two migrations out;
  one crash and one write that fails.
* `Lifecycle`: two clients, readers and connections, two tasks that compete for
  the strand, one caller, two accepted connections.

The other instances may run out of their bounds, or the server may stop for
good, so their runs do not check for deadlock; `vacuum` does, since a pass or a
restart is always possible.

### Fairness

* `Ingest`: weak fairness of each coroutine's next segment, of the database job
  and of teardown, since the event loop and the pools run whatever is ready.
  Nothing is assumed of clients, signals, failures or restarts. `Settles`
  therefore also covers shutdown and failure, which settle an entry by losing
  it.
* `LiveTail`: timers expire, posted jobs come to an end, well or badly, and writes
  are made (weak fairness). A query on columns that exist does not fail every
  time it is retried (strong fairness): a reader is not blocked in WAL mode, and a
  database that cannot be read at all is not the live tail's to mend. Nothing is
  assumed of a query on unknown columns, which cannot succeed.
* `FileHarvester`: the thread runs, and the grace period of a drain ends.
* `Vacuum`: the timer expires and the strand runs the job, again and again; a
  server that is down is started again.
* `Migrations`: the operating system runs every process. Nothing makes a process
  start, crash or lose its wait for the lock.
* `Lifecycle`: threads run, handlers that are ready are run, timers expire.
  Nothing is assumed of clients, signals or callers; the end of the accept loop
  is fair because closing the acceptor cancels the pending accept.
* `Diagnostics` has safety properties only.

## Proofs

The theorems hold for every value of the constants that satisfies the named
assumptions of the modules, which say that bounds are natural numbers and what
the configuration guarantees: a capacity, a page size and an interval of at
least 1, a clock that starts at 1, as many connections as reader threads
(`resolve_pool_size`), and that markers such as `NoDb` and `Null` are not
connections or values. Two theorems about `LiveTail` and two about
`Migrations` have one hypothesis more, given below.

| module | theorem | states | for every |
|---|---|---|---|
| `IngestProofs` | `TypeCorrect`, `OrderPreserved`, `NothingForgotten`, `DroppedOnce`, `BoundedDropOldest`, `FlagExact`, `AnnouncedCommitted` | the seven invariants of `ingest` | capacity, interval, body, number of restarts |
| | `Refinement` | `Spec => Abstract!Spec`: the write path implements `OrderedStore` | |
| `LiveTailProofs` | `TypeCorrect` | `TypeOK` | number of sessions, logs and batches, LIMIT |
| | `SafeNothingSkipped`, `SafeAtMostOnce` | `NothingSkipped`, `AtMostOnce`, if `AutoIncrement` | |
| `CompressedStoreProofs` | `TypeCorrect`, `SafeOneToOne`, `SafeReadable`, `SafeQueryExact` | the four invariants of `compressed_store` | columns, values, texts and what SQLite makes of them, filters, rows, restarts |
| `FileHarvesterProofs` | `TypeCorrect`, `SafeOnceUnlessRaced`, `SafeReadLinesIngested` | the three invariants of `file_harvester` | lines and their lengths, buffer and line limits, files, truncations, failing stats and opens |
| `VacuumProofs` | `TypeCorrect`, `SafeFreshOnlyWhenOver` | `TypeOK`, and the action property `FreshOnlyWhenOver` | size, target, age, budget, page size, rounding |
| | `ExcessMakesRoom`, `StaleMakesRoom` | the steps behind `Trimmed` and `ExpiredGone`: a statement that leaves too much deletes the oldest row, or is in one of the named cases | |
| `DiagnosticsProofs` | `TypeCorrect`, `SafeAccounted`, `SafeDisjointWindows`, `SafeAnswerPaired` | the four invariants of `diagnostics` | threads, interval, retention, crashes, settings of the clock |
| `MigrationsProofs` | `TypeCorrect`, `SafeInOrder` | `TypeOK`, `InOrder` | processes, migrations, commands, crashes, failing writes |
| | `SafeAllOrNothing`, `SafeOnlyRepeatableTwice` | `AllOrNothing`, `OnlyRepeatableTwice`, if `Additive` | |
| `LifecycleProofs` | `TypeCorrect`, `SafeNoUseAfterClose`, `SafeExclusiveLease`, `SafeNeverWaits` | the four invariants of `lifecycle` | clients, tasks, callers, pool size |

None of the invariants is inductive as it stands. Each proof module states the
strengthening first; TLC has checked each of these on a small instance before
it was proved. The proofs have one lemma per action, and in it one step per part
of the invariant that the action can disturb.

* `IngestProofs`, `IInv`: where the batch and the transaction can be non-empty at
  each place of the flush task (`Shape`); the entries of `stored`, `txn`, `logs`
  and `queue` are increasing, ordered one after the other, and account, with
  the dropped ones, for exactly `1..accepted` (`Entries`); the queue holds the
  newest entries without a gap, which is what makes an eviction the drop of an
  entry `MaxSize` behind the newest (`Consecutive`); where the announced id
  stands with respect to the table at each place of the flush task
  (`AnnouncedAt`). `waiting` of `OrderedStore` is mapped to what is in memory and
  `gone` to what was dropped.
* `LiveTailProofs`, `Inv`: with ids given out once, a row's id is the number of its
  log (`DbInv`). Per session, what is at or below `pushed_id` has been delivered
  or cut off (`SessionInv`), and between the query and the write the result and
  what was cut off make up the whole range up to `current_id` (`WriteInv`): the id
  read before the query is still the right one after it. The hypothesis
  `AutoIncrement` is needed: `live_tail_reuse` is the counterexample without it.
* `CompressedStoreProofs`, `Inv`: the lookup of a running process is ahead of what is
  on disk and in the transaction (`Ahead`): in each column its largest id bounds
  theirs, so that a new id is new in both, also after a restart in which two texts
  have become one; it has every plain entry, and for the same id the same text or
  one that is stored as that. While inserts go on it has no plain entry besides
  (`LookupInv`). On disk an id has one text, and a plain text one id (`DiskInv`). Rows
  of the open transaction read back already (`RowsInv`). A WHERE clause made from
  an earlier lookup admits only ids of accepted texts, and every reliable row
  that passed when the query began; the total lies between the two (`QueryInv`).
* `FileHarvesterProofs` has two invariants, one per property. `OnceInv` is about
  order. The first bytes of the lines follow each other in the files as the writer
  wrote them (`WriterInv`), and everything a line goes through is kept in that
  order (`OrderInv`): what is ingested, the line being assembled, what is buffered
  (`Fetched`), and what may still be read (`Unread`: behind the offset, or in a
  file that was truncated or not opened yet). Reading never goes back because the
  harvester opens newer files only, which a failing stat or a file put back
  breaks, and because between the identity check and the size check the path names
  the open file (`PathInv`), which the race breaks; `OrderInv` holds as long as
  neither has happened. `OpenInv` says that what is read is the file whose identity
  was recorded, or the path came back in time.
  `ReadInv` is about completeness, as long as nothing is truncated. The bytes of a
  line lie next to each other after a newline or at the beginning of a file
  (`LayoutInv`), which an append keeps because of what the writer's file ends
  with (`EndInv`). The buffer is the part of the file up to the offset
  (`BufferInv`). The line being assembled begins after a newline or where the
  file was opened, and is exactly the text since, or that text is too long and is
  being dropped (`AssemblyInv`). So a newline finds the whole line assembled,
  wherever the reads were cut.
* `VacuumProofs`, `Inv`: ids are at most the number of inserts (`LogInv`), and the
  place in a pass says what the mode and the free pages are (`TaskInv`). From these, for any of the
  two roundings, the share of rows that corresponds to the pages over the target
  is less than all of them (`SharesBound`), so that the limit of the deletion lies
  below the largest id (`ExcessBelowMax`), and a share that is not 0 reaches at
  least the row with the smallest id (`ExcessStep`).
* `DiagnosticsProofs`, `Inv`: the row of the pass in progress ends where the next
  window begins (`RowInv`). As long as the system clock is not set back, it has gone
  at least as far as the steady one since the window began, so that a timer that
  has expired means a window of an interval, and earlier samples end before it
  (`Monotone`, in `WindowInv`). The samples within the retention time that lack a
  database row are at most one for each crash, besides the one that is being written (`Lacking`, in `PairInv`);
  the rows an open GET /stats has read are still there or have expired (`AskInv`). The last
  two do not depend on the clock.
* `MigrationsProofs`, `Inv`: a process has the lock only after a statement
  (`TypeInv`); until the version is recorded its draft has the committed versions,
  then one more or one less, or the same if that statement has failed
  (`DraftInv`); and as long as nothing is rolled back or left out, a version that is chosen has only
  recorded ones below it, which stays true while others commit (`OrderInv`).
  `FullInv` adds the schema: the columns of a version are there together or not at
  all; what is recorded has run (`runs`), what has run is there, recorded or
  not, and only what adds nothing has run twice (`SchemaInv`); the draft of a rollout is the committed schema and the columns
  its statements have added, none of which were there (`LockedInv`); and a rollout
  that does not hold the lock has added nothing, and still finds the table unless
  it has been overtaken (`UnlockedInv`), which is where SQLite's refusal to let an
  overtaken transaction write is needed. The hypothesis `Additive` says what the
  migrations are: a rollout creates the table or adds columns, no two the same
  ones; a rollback drops columns of its own or, that of the lowest version, the
  table. The migrations of the run are additive. Without it the two properties
  are false: one migration may drop the columns of another, or undo itself.
* `LifecycleProofs`, `Inv`: where `RunServer` is decides what is open, alive and
  reachable (`PhaseInv`) and what is not yet or no longer under way (`QuietInv`);
  a lease belongs to one waiting connection (`LeaseInv`); every connection of the
  pool is in the queue once or held by one thread (`PoolInv`). `NeverWaits`
  follows by counting: a thread without a connection leaves one in the queue.

Only model-checked:

* liveness (`Settles`, `TailComplete`, `GoneClientsReaped`, `Tailed`, `Trimmed`,
  `ExpiredGone`, `BootTerminates`, `StopEnds`): out of the prover's reach, like
  `ENABLED`. Of `Trimmed` and `ExpiredGone` the step that makes progress is proved;
  that the steps are taken, and that finitely many of them are enough, is not.

No module uses a RECURSIVE operator.

## Not modelled

* Power loss and SQLite's durability settings: a crash is the death of the
  process, after which what was committed is there.
* HTTP parsing, CORS, and what the schema, settings, health and version
  handlers answer: formatting of values read once. Their dispatch and their use
  of the database are in `Lifecycle`.
* Configuration, logging and utilities: read once at start, or conversions of
  text. What they guarantee is in the assumptions on the constants.
* Durations and byte counts in metrics, the conversion of timestamps to text,
  OFFSET, the estimated total of a query without filters, the comparison of
  texts (LIKE on plain columns, `~=` on compressed ones).
* What asio destroys in which order after the pools are joined: `Lifecycle` takes
  the suspended coroutines away in one step.
* A running server's list of columns after another process migrates: it keeps
  the old one by design.
* The Python harvester manager and the socket and ZeroMQ harvesters: their state
  is inside the Python libraries. As threads that call `push_to_backlog` they
  are producers of `Ingest` and callers of `Lifecycle`.
* The dashboard and the load generator, which are clients.

## Plan

Done: the write path, live tail, column dictionary with filtered queries, file
harvester, vacuum, diagnostics and statistics, migrations, reader pool and
server lifecycle; proofs of every safety property of the passing runs, of the
refinement, and of the steps behind the progress of the vacuum task. Left:

1. Pagination against a writer and the vacuum.
2. The retry of the load generator, and the framing of the Python harvesters.
