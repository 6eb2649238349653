# A verification project for db233-rust

db233-rust is a Rust library for stateful game servers: a small ORM over a
MySQL connection pool, a session cache of entities per player, and a local
write journal.  This directory holds TLA+ models of the parts of it that keep
state and are used concurrently, the TLC configurations that check them, and
theorems about them that the TLA+ proof system checks.

Line numbers are of the files under `src/src/`.

## 1. Inventory

| Component | State | Operations | What is hard |
|---|---|---|---|
| Session cache (`session.rs`) | the LRU map of sessions, per session the cached entities, the dirty types, the negative cache and its switch, the counts per type, the running flag | `open_session`, `close_session`, `flush_all`, `stop`, the flush task; `get`, `get_or_load`, `put`, `mark_dirty`, `flush`, `set_negative_cache_enabled` | every field has its own lock and every call takes several, one after the other; a query is awaited between the lookup and the store; the flush task runs at any time; a session outlives its place in the cache |
| Local write journal (`wal.rs`) | the file, the `BufWriter` behind a mutex, the running flag | `new`, `record_write`, `stop`, `replay`, `replay_pending`, `clear_pending` | writes fail midway; tasks share the buffer; a crash leaves a torn line; a power failure takes what was not written back; `stop` races `record_write` |
| Db write path (`db.rs`) | the pool, the optional journal | `save`, `update`, `delete`, `save_batch_upsert`, `exec*`, `close` | several awaits per call, each on another connection; the journal comes after the database; clones have no journal; errors after the effect |
| Db reads (`db.rs`) | none; the spawned tasks and their connections | `find_by_id`, `find_by_ids`, `find_by_ids_concurrent`, `query*` | chunks and their borders; tasks that go on when one has failed or the call was dropped |
| Connection pool (`connection.rs`, mysql_async) | idle connections, each with its `LAST_INSERT_ID()` | `get_conn`, `exec`, `query`, drop | fewer connections than tasks |
| Game database life cycle (`db.rs`) | the Db, its journal, its repository; what clones have of them | `enable_wal`, `init_game_db`, `Clone`, `close` | called twice, and after each other; what is cloned and what is shared; closes beside flush tasks |
| SQL generation and row mapping (`orm.rs`), entities (`entity.rs`) | none | `build_*_sql`, `row_to_json`, the macros | columns of a batch, value conversions there and back, names that the macros are given and do not use |
| Named parameters (`named_params.rs`) | none | `replace_named_parameters`, `build_batch_named_params` | scanning; a statement from one row and values from all |
| Configuration, errors | none | records with defaults, a loader, an enumeration | - |

How they interact: a `SessionRepository` owns a clone of the `Db` (without the
journal, `db.rs:663`) and every `Session` owns a clone of the repository, whose
sessions and counts are shared through `Arc` and whose running flag is not
(`session.rs:300`).  `Session::get_or_load` calls `Db::find_by_id`.  `Db::save`,
`update` and `save_batch_upsert` execute on a pooled connection and then call
`LocalWriteJournal::record_write`.  `Db::close` calls `flush_all` and the
journal's `stop`; it does not stop the flush task.  `find_by_ids_concurrent`
spawns a task with a clone of the `Db` for each chunk.

What makes each component correct:

* Session cache: no modification is forgotten by the dirty marks, a flush
  reaches what it set out to flush and writes it, the cache stays within its
  capacity with one session per player, counts do not wrap, loading never undoes
  a put.
* Journal: an acknowledged write is in the file, lines do not mix, the file is
  an append-only log, replay returns what was acknowledged, every call returns.
* Db write path: the journal has each call once and in the order of the calls,
  replaying it gives the table, no connection is lost and no call waits for
  ever, `save` sets the id of its own row.
* Db reads: an answer has exactly the rows found for the ids asked for, each
  looked up once while the call was under way; connections come back whatever
  fails.
* Life cycle: the journal records until its owner is closed, a close flushes
  what was in the cache before it stops, no repository loses its flush task.
* Mapping: it is known which entities are found as they were saved; the
  journal's parameters build the same rows; `created_at` stays.

Not all of this holds: section 3 lists the runs that show where it fails, and
section 5 what else the models show.
* Named parameters: the statement and the values that the whole statement calls
  for, or an error.

The hazards, each at its line, are listed in `PROJECT.json`.

## 2. Modules

| Module | What it is |
|---|---|
| `SessionRepository` | the session cache, a critical section at a time |
| `JournalLog` | what a journal promises: an append-only log |
| `LocalWriteJournal` | the journal of `wal.rs`, which implements `JournalLog` |
| `DbWrites` | the write path: calls, pooled connections, table, journal |
| `RowReads` | what a read of rows by their keys promises |
| `FindByIds` | the reads of `db.rs` by primary key, which implement `RowReads` |
| `GameDb` | one `Db` with its journal, repositories, clones and closes: the composition of the others, each seen from outside |
| `RowMapping` | entity to statement to row or journal line, and back |
| `NamedParams` | the scanning loop of `named_params.rs` and its use for a batch |
| `MC...` | the instances of each for TLC |
| `...Proofs` | theorems about `SessionRepository`, `LocalWriteJournal`, `DbWrites`, `FindByIds`, `GameDb`, `NamedParams` and `RowMapping` |
| `FoldLaws` | what `FoldLeft` computes, and induction over sequences: the lemmas that the proofs about folds rest on |

Definitions marked "Mutant" are plausible bugs in the code; `PROJECT.json` says
which definition each replaces and which property then fails.  No specification
uses them.

### SessionRepository

`parking_lot` locks are never held across an await, so that what happens under
one lock is one action and everything else may interleave.  A call is a chain of
actions linked by `frame[t].pc`:

| Code | Actions |
|---|---|
| `open_session` | `OpenSession` (the stub `load_entity_type` does nothing) |
| `close_session`, `flush_all`, `Session::flush` | `CloseSession`, `FlushAll`, `Flush`, then `FlushCollect` per session and `FlushRemove`, `FlushDecrement` per type |
| `put` | `Put` (check and insert), `PutMark`, `PutIncrement` |
| `mark_dirty` | `MarkDirty` |
| `get_or_load` | `GetOrLoad` (the miss), `LoadNegFlag`, `LoadNegCheck`, `LoadFind`, then `LoadStore` and the rest of `put`, or `LoadRejected`, or `LoadMissFlag`, `LoadNegInsert` |
| `set_negative_cache_enabled`, `stop` | `SetNegativeCacheEnabled`, `Stop` |
| the flush task | `FlusherCheck`, `FlusherWake`, then a flush |

`lru` is the `LruCache`, newest first; `entities`, `dirty`, `neg`, `negOn` are
indexed by Session objects, so that a session that was closed or evicted lives
on.  `unflushed` is a history variable: the types put since a flush last took
their mark.  It says nothing of the row: that a flush takes marks and writes nothing is
`FlushWritesBack`.  `db` is the tables as `find_by_id` sees them; with `RowWrites`
rows change at any time, and with `FindErrors` a query may fail, which the code
takes for a row that is not there.  Not in the model: `get` on a hit, `is_resolved`,
`can_add_entity` (nothing calls it), `touch` (nothing reads `last_access`).

### LocalWriteJournal

A line is three pieces (two halves of the JSON object and the newline) that
reach the file one after the other.  `RecordLock` takes the mutex and puts the
line behind what the buffer still holds; `WritePiece` writes; `FlushFail` is an
error that leaves the rest in the buffer, as `BufWriter` does; `WriteFail` is an
error of `writeln!` itself, when the buffer has to be emptied first or the
object is written past it.  `Crash` loses the buffer and keeps the file,
`PowerFail` cuts the file anywhere above what was written back, `Restart` is
`new` on the existing file.  `Stop` clears the running flag, waits for the mutex
and flushes what the buffer holds; it may be called again.  `Replay` is `replay`.

### DbWrites

The content of a row is the number of the call that wrote it, so that an entity
is its id.  A call acquires a connection, executes (and drops the connection in
the same step), acquires another for `LAST_INSERT_ID()` when it saved a new
entity, and then records: `JournalCheck` is the test of the running flag,
`JournalWrite` and `JournalFail` the section under the mutex.  What `BufWriter`
keeps after an error is `buffered`.  `UpsertRow` is what MySQL does with a row of
the statements that `OrmHandler` builds, and `Replay` what it does with the lines
of a journal.  A lost connection may fail a call before
or after its statement took effect.  `Close` is `Db::close`, `Crash` the end of
the process and a new `Db` with `enable_wal`.  The tasks that are not in
`Journaled` use a clone of the `Db`.

`executed` and `log` relate a call to what it did: `ExecutedOnce` says that no
row of a call is executed twice and that a call that answers Ok has executed all
of them; `JournaledOnce` that no call has two lines, also when a line that a
failed flush left in the buffer comes later, and that every recorded call that
answered Ok has one.

### FindByIds

A call is one of the three reads.  Each has a sequence of queries, `task`: one
per chunk for `find_by_ids_concurrent`, exactly one for the others.  `Begin`
computes the chunk size as the code does (`div_ceil`, `chunks`) and spawns all
tasks; `AwaitNext`, `AwaitLast` and `AwaitFailed` are the loop that awaits the
handles in their order and leaves at the first error.  A task acquires a
connection, queries (one moment of the table), converts the rows and drops the
connection (`Acquire`, `Query`, `Convert`), and may fail at each.  `Leave` is the
future of the call being dropped by its caller: its own query goes with it and
its connection returns, spawned tasks are detached and go on.  `Write` is
everyone else who changes rows.  `seen` is a history variable: what the queries
of a call that has not ended have found.

The specification it implements, `RowReads`, knows neither chunks nor
connections: every position of the list is looked up exactly once between begin
and answer.  It is no snapshot, and the code promises none.

### GameDb

Sessions are objects, each of one repository: `cached` are those in its cache,
`out` those that a task still holds after they were closed, replaced or evicted,
`dirty` those of both that have marks (a task puts into any session it holds),
`left` those that a round of the flush task has still to flush.  As `flush_all`
collects from the cache (`session.rs:173-176`), a round begins with `cached`
only; a session that leaves the cache before its turn is flushed all the same.
`running` is the flag that `stop` clears and that the flush task does not read.
`MakeRepo` keeps in `before` the `session_repo` that the repository's own clone of
the `Db` has: the clone is made before the field is set.  `EnableWal` and
`InitGameDb` take `&mut self` (`Exclusive`): no call of the `Db` itself is under
way, but calls of clones, `close_session` and the flush tasks may be.  `Close` may
be called on the `Db` or on a clone; `owed` is a history: the marks that the cached
sessions of its repository had when the close began and that no flush has taken
yet.  `unlogged` says that a write found the journal stopped.

### RowMapping

Numbers and strings are names of representative values, one for each way the
conversions treat them apart.  `Upsert` and `Update` are the statements with
their columns, values (a row is a function of its columns) and SET clause,
`ExecRow` what MySQL does with one of their rows: which row of the table it goes
to (`RowId`) and what becomes of that (`PutRow`).  `wrote` is a history variable:
what the application has saved under each id, an entity that has one under its
own, whatever the statement did with it.  Where the two part, because a batch
began with a new entity and so dropped the ids of the others, `mixed` says so.
`convert_json_value`, `convert_mysql_value`, `ToSerde` and `FromSerde` the
conversions of the code, `Serialize` and `Accepted` those of serde: of a date it
wants RFC 3339, and `convert_mysql_value` gives it the text with a space and no
offset.  `shape` is
how the application declared the entity with the macros, and the table the
application means by that.

### NamedParams

A statement is a sequence of tokens (`lbrace`, `rbrace` and `qmark` stand for the
braces and `?`).  A step is one turn of the loop, `EndPass` the end of one call of
`replace_named_parameters`; `row` 0 is the pass of `build_batch_named_params` that
makes the statement.  The reference (`Openers`, `Replaced`, `Bound`) speaks of the
statement as a whole.

## 3. Runs

| Run | Instance | Shows |
|---|---|---|
| `session` | 2 tasks and the flush task, 2 players, 1 cacheable and 1 other type, a capacity of 1, 2 sessions, 3 calls; failing queries, changing rows | type correctness, `LruOK`, `UnflushedIsMarked`, `QueuedIsFlushed`, `DirtyIsFlushed` |
| `session_flush_writes` | 1 task and the flush task | violation: a flush clears marks and writes nothing |
| `session_load_race` | 2 tasks, 1 session | violation: a loaded row replaces a newer entity |
| `journal` | 2 tasks, 3 entries of which one is larger than the buffer, errors, one crash or power failure | type correctness, `AckedIsLogged`, `ReplayReturnsLog`, `ImplementsLog`, `CallsReturn` |
| `journal_replay` | the same without errors and power failures | violation: after a crash that tore a line, replay fails although an acknowledged line is whole in the file |
| `db_writes` | 2 tasks, 1 connection, 2 calls of any kind, all errors, a crash, close | type correctness, `PoolOK`, `JournalInCallOrder`, `JournaledOnce`, `ExecutedOnce`, `ReplayRestores`, `CallsReturn` |
| `db_replay_order` | 2 tasks, 1 connection, no errors, no crash | violation: of two overlapping saves of a row the replay leaves the older |
| `db_save_id` | 2 connections, no errors | violation: `save` sets an id that is not its row's |
| `find_by_ids` | a concurrent call of 2 or 3 ids in 2 chunks (one id twice), beside a single or a plain call; 1 connection, all errors, dropped futures | type correctness, `PoolOK`, `AnswerOnce`, `ImplementsRowReads`, `CallsReturn`, `ConnsComeBack` |
| `named_params` | every statement of up to 6 tokens out of 4, batches of up to 2 rows, names with braces | type correctness, `LoopOK`, `OkIfWellFormed`, `ReplacedInOrder`, `CallEnds` |
| `row_mapping` | all 8 types of field, all 4 shapes, 2 calls, batches of 2 | type correctness, `ReadBack`, `ReplaySame`, `CreatedAtKept` |
| `game_db` | 2 tasks, 2 repositories with their flush tasks, 2 sessions, 2 calls, 2 configurations of which one does not load | type correctness, `LoggedUntilClosed`, `CloseFlushesFirst`, `MarksTaken`, `CallsReturn` |

Each violation is a disagreement between a comment and the code; the findings in
`PROJECT.json` quote the comment.

What the properties do not say, because the code does not do it:

* `DirtyIsFlushed` and `MarksTaken` are of sessions in the cache of a repository
  that was not stopped.  No `flush_all` reaches a session that was evicted, and
  after `stop` the flush task should be gone.
* `ReplayReturnsLog` is of files without a torn line; with one see
  `journal_replay`.  `AckedIsLogged` excuses what a power failure took.
* `ReplayRestores` is of programs whose calls do not overlap, do not fail and are
  all journaled; for overlapping calls see `db_replay_order`.
* `ReadBack` is of entities with fields of their own, a key named `id` and columns
  named like the fields, in programs without a batch in which an old entity
  follows a new one.  For these it says exactly which fields come back: integers,
  texts, options and doubles that are 32-bit floats do; bools, lists, dates and
  NaN are refused when they are read, other doubles come back changed.
* `LoggedUntilClosed` ends with the first close of the `Db` itself.

Bounds.  Calls, sessions, repositories and crashes are counted up to a bound
(`MaxOpens`, `MaxInits`, `MaxCalls`, `MaxCrashes`), statements and batches have a
length (`MaxLen`, `MaxRows`), and `Workers` is 2 where the code has 16; nothing
else is bounded.  They leave room for what matters: two tasks inside calls on
one session while the flush task works on it, a player whose session is replaced,
a session that is evicted while it is flushed (a capacity of one is the smallest
that has an eviction; `LruSafe` is for every capacity, 0 included); a line left over by one task and written by another, a
torn line followed by a restart; an insert followed by another call on the same
connection, a journal error followed by a successful record; chunks of one id
and of two and a shorter last one, a task left behind that still holds the only
connection while another call waits for it; two placeholders, one unclosed, a
brace inside a name, rows that lack different names; a batch that begins with a
new entity and goes on with an old one; a second repository whose predecessor is
still flushed, a close of a clone beside a close of the `Db`.

Fairness.  A task inside a call goes on (`WF` of its next step): the tokio
runtime polls a task again that can run, `parking_lot` locks are held for a few
instructions only, and a sleep ends.  No call has to be made, no query has to
succeed and no error has to happen.  In `DbWrites` and `FindByIds` weak fairness
of a waiting task suffices because each asks for a connection finitely often;
the pool wakes its waiters in turn.  In `LocalWriteJournal` the mutex of the
buffer is tokio's, which serves its waiters in their order, and other tasks may
take it again and again: `RecordLock` and `StopLock` have strong fairness.  Flush tasks have weak fairness of their
steps: they run in tasks of their own that nothing aborts.

Deadlock is not checked in instances that stop when their calls are used up.

## 4. Theorems

For every number of players, types, tasks, sessions and calls
(`SessionRepositoryProofs`):

* `TypeCorrect`: `TypeOK`.  It is not inductive: that a flush finds its session
  and its types, and a loading task its row, comes from where the task's `pc`
  is.  `TypeInv` adds that (`FramesOK`).
* `MarksKept`: `UnflushedIsMarked`, by cases on who takes a mark.
* `LruSafe`: `LruOK`.  It rests on lemmas about removing an element from, and
  adding one in front of, a sequence that is ordered and without two sessions
  of one player.

For every number of tasks, entries and crashes (`LocalWriteJournalProofs`):

* `JournalTypeCorrect`: `TypeOK`, with `CurOK` (what a call that has begun
  records is an entry it was called for).
* `AckedLogged`: `AckedIsLogged`.  The strengthening is `Pending`: while a call
  flushes, the newline of its entry is in the buffer or in the file; when the
  buffer is empty it is in the file.
* `ReplayReturns`: `ReplayReturnsLog`.  The invariant speaks of the file followed
  by the buffer as one stream of pieces: no piece is twice in it (`OnceIn`), an
  entry that is still to be recorded is not in it (`FreshIn`), and unless a part
  of a line was left behind every line in it is whole (`Whole`).  From there it
  follows by induction over the file that `EntriesOf` gives the lines in their
  order.
* `RefinesLog`: `ImplementsLog`.  A step writes a piece (`PieceAppends`), loses
  the end of the file (`PowerCuts`) or does nothing to it, and each is a step of
  `JournalLog` or a stutter (`StepOfLog`).

For every number of tasks, connections, ids, calls and crashes
(`DbWritesProofs`):

* `PoolSafe`: `PoolOK`.  The invariant `PoolInv` adds that a task's frame is one
  and that a call before its statement has something to write.  Every step but
  a crash moves one frame (`Moved`), in one of three ways: it takes a connection
  (`PoolTake`), gives one back (`PoolGive`) or does neither (`PoolKeep`).
* `JournalOrder`, `RecordedOnce` and `StatementsOnce` (`JournalInCallOrder`,
  `JournaledOnce`, `ExecutedOnce`), all from one invariant, `CallInv`.
  `CallsOK` says that a call under way has no outcome and belongs to its task,
  and that what it has executed (`Times`) and what it has still to execute
  (`Rest`) are its statements; `LinesOK` speaks of the journal followed by the
  buffer: no line twice, none of a call that has not returned, none before that
  of a call that had returned when it began.
* A step of a call either goes on (`GoesOn`) or returns (`Returns`).  A flush, be
  it complete, failed or that of `close`, moves lines from the buffer to the
  journal and leaves the two together as they were (`FlushedTo`), or adds the
  line of the call, which is the last to return (`LineAdded`); a crash cuts them
  (`LinesCut`).
* `TypeCorrect`: `TypeOK`.  What a statement makes of the table has the type of a
  table because each of its rows keeps it (`EffectOK`, with `FoldIn`).
* `ReplayRestoresTable`: `ReplayRestores`.  The strengthening `InStep` says what
  the journal gives when calls do not overlap, none fails and all are journaled:
  the replay of its lines is the table, except for the one call that has executed
  and not yet recorded; the line of that call makes them equal again.

For every number of calls, ids, chunks and connections (`FindByIdsProofs`):

* `TypeCorrect`, `PoolSafe`, `AnswersOnce` and `Refinement` (`TypeOK`, `PoolOK`,
  `AnswerOnce`, `ImplementsRowReads`), all from one invariant `IInv`, which is
  `Invariance`.  `CallsOK` ties a call to its chunks (as many tasks as chunks, a
  size of at least one), `ConnsOK` is `PoolOK` with the queries that hold
  connections, and `RowsOK` ties what a task and a call have gathered to `seen`:
  a task past its query has the rows of its chunk, and the call has those of the
  chunks before the one it awaits.
* They rest on the arithmetic of `Chunk`: two chunks share no position
  (`ChunksApart`) and every position is in one (`ChunksCover`).
* `Refinement` maps a query to `LookUp` of its chunk, the end of a call to
  `Answer` or `End`, and everything else to a stutter.

For every number of tasks, sessions, repositories and calls (`GameDbProofs`):

* `TypeCorrect`, `JournalRecords` and `FlushBeforeStop` (`TypeOK`,
  `LoggedUntilClosed`, `CloseFlushesFirst`).  The strengthening: the sessions
  whose marks a close owes are among those it has still to flush, whether they
  are still in the cache or not, nothing is owed once it is about to stop the
  journal, and a close of the `Db` that is under way has set `closed`.

For statements and batches of any length (`NamedParamsProofs`):

* `TypeCorrect`, `NeverInside` and `AnswersRightly` (`TypeOK`, `LoopOK`,
  `OkIfWellFormed`).  Together with `ScanOK` (the loop is in the statement) they
  are inductive: that the next brace opens a placeholder (`StartOpens`) needs
  that those before it are closed, and the end of a pass has found all names
  (`PassFound`).  That `str::find` has an answer (`FirstOK`) is the
  well-foundedness of `<`.
* `PlaceholdersInOrder`: `ReplacedInOrder`.  The reference joins what every
  position of the statement contributes, in order: a plain token itself, an
  opening brace a `?` and the value of its name, what is inside a placeholder
  nothing.  `BuiltSoFar` says that the loop has built the join of the positions
  it has passed (`Upto`); a turn of the loop adds plain text (`PlainText`) and
  one placeholder (`NameText`), the end of a pass the rest.

For every number of calls, ids and every batch of entities (`RowMappingProofs`):

* `TableHoldsSaved`, the inductive invariant `MapInv`: as long as no batch had an
  old entity behind a new one, the row of every id is what a SELECT reads of the
  content last saved under it (`Match`); every id is below the AUTO_INCREMENT
  counter (`Table`), and the log replays to the table and its counter, mixed
  batches or not.  From it `TypeCorrect`, `SavedReadBack` and `ReplayRebuilds` (`TypeOK`,
  `ReadBack`, `ReplaySame`), and `CreatedAtStays` for `CreatedAtKept`.
* A row of an upsert, or of an update that finds its row, puts one entity in the
  table and touches no other (`RowPut`, `PutMatches`); a batch does so for each
  of its rows, by induction over it (`UpsertedAll`).  A statement that MySQL
  accepts has columns for `created_at` and the field and no infinite value
  (`UpsertAccepted`, `UpdateAccepted`), the journal gives each of its parameters
  back as it was (`ValueKept`), so that a line is executed as its call was
  (`Executed`).  Which fields come back is the case analysis of `StoredReadBack`
  over the types.

The folds of the models (a batch, a replay, the pieces of a file, the positions
of a statement) are `FoldLeft` of the community modules.  `FoldLaws` proves of
its definition that it returns its base for the empty sequence (`FoldEmpty`),
that one more element is one more application (`FoldAppend`) and that it keeps
what the operator keeps (`FoldIn`), for an operator that is a constant of the
module; a proof takes an instance of it for each operator it folds.  Induction
over sequences is stated of the set of those for which a claim holds
(`SeqSetInduction`).

The assumptions are those named in the modules; TLC evaluates them in every run.

Every invariant and every action property of the runs, and both refinements,
are theorems.  Only model-checked: the liveness properties, which need fairness
and `ENABLED`; the violations are counterexamples, not theorems.

## 5. Observations

What the models also show of the code, without a run of its own.

Session cache:

* `stop` of a repository does not end its flush task: the task reads the flag of
  its own clone (`session.rs:199`, `300`), though `stop` says that it exits
  (`session.rs:187`).  `Stop` changes nothing that `FlusherCheck` reads.
* A query that fails counts as a missing row and puts its type in the negative
  cache (`session.rs:408-413`), which is said to have types "not found in the
  database" (`session.rs:319`).
* Nothing takes a type out of the negative cache when its row is inserted or its
  entity put: `get_or_load` answers None although there is a row
  (`session.rs:401-406`).
* Sessions are evicted in the order in which they were opened, not used: `get`,
  `put` and `touch` leave the LRU map alone, and nothing reads `last_access`,
  which is said to be for LRU eviction (`session.rs:323`, `572`).
* A session that is evicted or replaced is not flushed (`session.rs:135`):
  `flush_on_evict` (`config.rs:185`) is read by nothing.  `flush_all`, and with it
  the flush task and `close`, reach sessions in the cache only; the marks of the
  others stay unless their holder flushes.
* The counts are of puts and flushes, not of instances: the second put of a type
  counts again, two flushes of one mark count down twice, as far as there is
  something to count down.

Journal and writes:

* The journal is written after the database (`db.rs:151-160`), though the module
  says before (`wal.rs:4`): a crash or an error between the two leaves a write
  that the journal lacks, and a line left in the buffer by a failed flush is
  recorded by a later call.
* `flush` of the `BufWriter` does not sync: a power failure takes acknowledged
  lines (`wal.rs:179`), though the module speaks of power failures (`wal.rs:5`).
* A line larger than the buffer that fails midway leaves its head in the file
  (`wal.rs:177`): the process goes on, and replay fails as after a crash.
* A write that has read the running flag before `stop` may be written after
  `stop` has returned (`wal.rs:163`).
* `delete` and `exec` are not journaled, nor are the writes of clones: a replay
  brings deleted rows back and lacks the others.

Life cycle:

* After `close`, `enable_wal` and `init_game_db` keep the stopped journal
  (`db.rs:573`); writes go on, answer Ok and are recorded nowhere.
* A second `init_game_db` leaves the first repository's flush task running, and
  nothing ever ends it.

Rows and entities:

* The macros use none of the column names they are given (`entity.rs:110`, `168`)
  and the primary key's name in WHERE only.  An entity with a base is refused by
  the database, for the base is a column to the code, and so is one with a
  renamed column.  With a renamed key a new entity is inserted, as its id of 0 is
  left out, but nothing finds or changes it again.
* A batch that begins with a new entity has no id column (`orm.rs:245`): the old
  entities in it are inserted once more under new ids.
* `row_to_json` gives a bool as an integer, a list as a text and a date with a
  space and no offset (`orm.rs:408-411`): `find_by_id` fails on entities with such
  a field, which were saved without an error.

## 6. Not modelled

`config.rs` and `error.rs` declare and convert, and what the code reads of a
configuration is a constant of the models; `pending.ndjson` is written by no
code; the query helpers are one query each and keep no state, and the text of
statements, names and messages is left out.  Tests and examples call what the
models allow in any order.  MySQL, mysql_async, the `lru` crate, serde,
`BufWriter` and the operating system are modelled from how the code uses them
and are marked external in the map.

## 7. Plan

1. Done: the core (`SessionRepository`, `JournalLog`, `LocalWriteJournal`,
   `DbWrites`), then `FindByIds`, `GameDb`, `NamedParams` and `RowMapping`; the
   safety properties of all of them, as theorems.
2. Left: lemmas that liveness rests on and that are safety (that a task inside a
   call can always take a step: no state in which all wait), and batches of any
   length as calls of `RowMapping`, which the lemmas already cover.
