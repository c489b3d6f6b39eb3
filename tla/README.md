# TLA+ models of the Stoolap storage engine for MariaDB

The plugin puts the embedded Stoolap engine (MVCC, written in Rust) behind
MariaDB's handler interface. Most of what can go wrong in it is not in one
function: MariaDB calls the handler row by row, calls the handlerton when
statements and transactions end, may skip or repeat some of these calls, and
several connections do so at once; the plugin decides at each call which Stoolap
transaction it belongs to, which cached handle serves it, and which process-wide
cache it may trust. These modules model those decisions. Paths below are those
of the repository.

## The system

| Part | Where | State | Operations |
| --- | --- | --- | --- |
| Handlerton callbacks | `src/ha_stoolap.cc` 53-252 | none of their own | `register_trx`, commit, rollback, close connection, consistent snapshot, savepoints |
| `ThdContext`, one per connection | `src/stoolap_thd_context.*` | the `StoolapTx` handle, tables with dirty row counts, transaction-local counts, savepoint counter | begin, commit, rollback, `end_statement`, destructor |
| Rust `Session`, one per connection | `rust/src/session.rs`, `rust/src/ffi/transaction.rs` | the open transaction (in the executor), the statement's own transaction, `stmt_wrote`, read and write table handles, the statement's view | begin, commit, rollback, run, `with_table`, `with_write_table`, `end_statement`, drop |
| Handler: writes | `src/ha_stoolap.cc` 1034-1268, `rust/src/ffi/write.rs`, `rust/src/write.rs`, `rust/src/sql_write.rs` | row buffer, `bulk_active_`, `bulk_owns_tx_`, last row id, last duplicate key | `write_row`, `update_row`, `delete_row`, bulk insert |
| Handler: pushed writes | `src/ha_stoolap.cc` 1282-1421, `src/ha_stoolap_select.cc` 141-344 | `direct_modify_in_pre_` | `cond_push`, `direct_*_rows`, `pre_direct_*` |
| Handler: reads | `src/ha_stoolap.cc` 1449-2126, `rust/src/read.rs`, `rust/src/key.rs`, `rust/src/ffi/read.rs` | the cursor, its pages, the projection | `rnd_*`, `index_*`, `read_range_first`, `records_in_range` |
| AUTO_INCREMENT allocator | `src/stoolap_bridge.cc` 86-159, `src/ha_stoolap.cc` 2128-2179 | `ai_next_`, process-wide, in memory | reserve, seed and reserve, note an explicit id, invalidate |
| Row count caches | `src/ha_stoolap.cc` 2181-2322, `src/stoolap_bridge.cc` 63-86, `src/stoolap_thd_context.cc` 61-110 | handler-local, transaction-local and process-wide counts | look up, set, adjust, invalidate |
| DDL | `src/ha_stoolap.cc` 569-657, 787-930, 1427-1444, `rust/src/ddl.rs` | reconciled set, process-wide | create, open, drop, rename, truncate |
| SELECT pushdown | `src/ha_stoolap_select.cc`, `src/stoolap_sqlgen.cc` | rows of the running query | the select, unit and derived-table factories |
| Error classes | `rust/src/ffi/error.rs`, `src/ha_stoolap.cc` 326-402 | the last error's class, thread-local | note, classify |

External: MariaDB (which calls come in which order, what its SQL means) and the
Stoolap engine, a crate that is not in the repository (storage transactions, row
conflicts, the index, what its SQL means).

How they interact. A handler call reaches Stoolap in one of two ways. *Direct
access* goes to a table handle the session caches for the statement
(`with_table`, `with_write_table`); *SQL* goes to the session's executor
(`Session::run`): pushed queries, pushed UPDATE / DELETE, and all writes of
tables a FOREIGN KEY names. With a transaction open both use it. Without one,
direct access opens a transaction of the statement's own; a SELECT joins it, any
other SQL is autocommit. The handlerton callbacks end the statement's own
transaction, and the open one when MariaDB says so. The allocator and the caches
are shared by all connections under a mutex of their own each, held for one
operation at a time.

What makes each part correct:
- *session*: a write is committed with its transaction or not at all; a read sees
  the statement's own writes, the transaction's snapshot, one view per statement;
  no handle outlives its transaction; nothing of a statement is left after it.
- *allocator*: no id is given to two sessions, none is behind a stored one.
- *ordered reads*: each row once, in order, none passed over, whatever the
  statement writes on the way.
- *writes*: UNIQUE errors come from the row's own write; a failed write changes
  nothing.
- *row counts*: advisory; a count of one transaction must not reach another.
- *DDL*: the plugin's caches never name a table the engine does not have.
- *index reads*: the rows MariaDB's own comparison puts in the key range, in its
  order, whatever the engine's comparison says.
- *pushed statements*: what the generator writes means to the engine what the
  statement means to MariaDB; what would not, it refuses; and once a condition is
  taken, or a query run, the work is not left half done.

The hazards behind these properties are listed one by one, each with its line,
in `PROJECT.json`.

## Modules

| Module | What it is |
| --- | --- |
| `StoolapEngine` | External: a storage transaction as the plugin uses it. Operators only. |
| `TxnStore` | Abstract specification: what a connection is promised of its writes. |
| `Session` | Core: handlerton callbacks, `ThdContext`, Rust `Session`, and the handler calls that choose between them. |
| `SessionProofs` | Theorems about `Session`: its transactions and handles. |
| `SessionStoreProofs` | Theorems about `Session` as a store: what its reads return, and that it implements `TxnStore`. |
| `AutoIncrement` | The allocator, `get_auto_increment`, `write_row`'s notes, DDL and restart. |
| `AutoIncrementProofs` | Theorems about `AutoIncrement`. |
| `OrderedScan` | `Pager` and `Cursor::ordered` under a statement that writes what it reads. |
| `OrderedScanProofs` | Theorems about `OrderedScan`. |
| `UniqueWrites` | `write.rs`: inserts, batches, updates, row moves and their UNIQUE checks, over `StoolapEngine`. |
| `UniqueWritesProofs` | Theorems about `UniqueWrites`. |
| `Catalog` | Tables of the engine and of MariaDB, the reconciled set, and the three layers of row counts under transactions, savepoints and DDL. |
| `CatalogProofs` | Theorems about `Catalog`. |
| `IndexRead` | Key lookups and ranges: the handler's calls, the engine conditions `key.rs` makes of them, the handler's own filters. |
| `IndexReadProofs` | Theorems about `IndexRead`. |
| `SqlDialects` | External: values, collations, comparison and arithmetic in MariaDB and in Stoolap. |
| `SqlQueries` | External: the rows a query expression gives in either dialect. |
| `SqlGen` | `stoolap_sqlgen.cc`: which constructs are written, and what is written for them. |
| `Pushdown` | A SELECT, derived table or set operation from its factory to its last row. |
| `ModifySql` | The SQL of a pushed UPDATE or DELETE: what is refused, what is written, and what either dialect makes of a row. |
| `DirectModify` | A pushed UPDATE or DELETE from `cond_push` to the counts it returns. |
| `DirectModifyProofs` | Theorems about `DirectModify`. |
| `MC*` | One instance for TLC of each component: rows, ladders, keys, statements, symmetry, bounds. |

`Pushdown` and `ModifySql` both extend `SqlGen`, which extends `SqlQueries` and
`SqlDialects`; `DirectModify` takes what a statement's SQL does as constants, and
`MCDirectModify` gives it that of `ModifySql`, instantiated once for each statement, trust
and tables; `Session` and `UniqueWrites` share `StoolapEngine`; `Session`
implements `TxnStore`. The other modules stand alone: they meet `Session` only in
when a transaction begins and ends.

### Session

`sess[c]` is the Rust session of connection `c`, field for field: `exec` the
transaction installed in the executor, `open`, `stmtTx`, `stmtWrote`, `tables`
and `writeTables` (for each table, whose handle is cached), `view`. `hasTx` says
whether `ThdContext` holds a `StoolapTx`; `bulkOwns` is the handler's
`bulk_owns_tx_`. `pc` is where MariaDB is in the statement, `explicit` the option
bits `OPTION_NOT_AUTOCOMMIT | OPTION_BEGIN`, `reply` what the client was last
told. `base`, `cut`, `landed` and `anomaly` are observers: no guard reads them.
`anomaly` holds what the last read contradicted, so that what a read returns can be
an invariant.

The session's calls are operators from a session and the committed rows to the
set of outcomes (`Ok` or `Err`, with the session and rows they leave), because a
commit may fail. The actions are the callbacks (`StartStatement` = `register_trx`,
`CommitCallback`, `RollbackCallback`, `StartConsistentSnapshot`,
`CloseConnection`) and what a statement does in between (`DirectRead`, `Query`,
`DirectWrite`, `RowSqlWrite`, `WriteFails`, `DirectModify`, the bulk inserts).
One action is one handler call with everything it does under it; between two of
them any other connection may move.

Choices to know of:
- A table's rows are cells: a value stands for contents, absence included. FOREIGN
  KEYs only decide that writes go through SQL; a failing check is `WriteFails`.
- `with_write_table` takes the write handle, and opens the statement's own
  transaction, before it finds that the table must be written by SQL. So does
  the model.
- MariaDB batches inserts only for statements that run no triggers or stored
  functions, so `BulkInsertBegins` and `ChunkOpensTx` ask that the statement has
  written nothing else.
- A pushed UPDATE / DELETE is its statement's only access to the engine.
- A failed begin in `register_trx` fails the statement before it starts and is a
  stutter.
- A failed statement inside an explicit transaction leaves its earlier rows
  pending: there is no statement rollback (a known difference the repository's
  README lists). `TxnStore.StatementEnds` allows it.
- Not here: savepoints and DDL (in `Catalog`), the server's crash (memory only: it
  is `CloseConnection` of everyone), writes of rows named by key (`by_key`).

### AutoIncrement

`next` is the table's entry in `ai_next_`; `held[c]` the ids MariaDB has reserved
for `c`'s statement, `pend[c]` the ids it has given to rows and not committed (rows in
the bulk buffer count as pending), `gone[c]` the committed ids whose rows it has deleted
or given another id, `gen[c]` the pending ids that were generated. Rows are deleted and
given other ids one at a time (`DeleteRow`, `UpdateId`), by `delete_row` and `update_row`
or by a pushed statement: neither tells the allocator.
`get_auto_increment` is one action when the counter is there (`Reserve`) and two
when it is not (`SelectMax`, `SeedAndReserve`), as the code takes the mutex twice
with the query in between. `U` stands for `UINT64_MAX`; the arithmetic saturates
there. `loose` is an observer: the first reason, since the counter was last lost with
nothing outstanding, why it may be behind ids in use. There are four: `ddl`, DDL while
ids are outstanding or a session is between its two steps; `explicit`, a missing counter
made from an explicit id (`ai_note_explicit`) while there are higher ones; `unseen`, a
seed from a maximum that is missing a committed id (a snapshot older than the last
commit, or a commit between the two steps); `update`, a row given an id past the counter,
past a maximum just found, or pending where a maximum does not show it. The invariants
hold while it is `no`; the two violation runs, and `NewIdsPastUpdated` by hand, show what
happens after `ddl`, `explicit` and `update`. A process starts on any stored rows.

### OrderedScan

A read of a table in the order of one indexed column, by a statement that may
delete, update or move each row it is given. `offset`, `page`, `buf`, `done`,
`last` are the `Pager`'s fields (`last` with the ids given at the last key);
`handle` tells whether `with_table` finds a read handle (the statement's view) or
a write handle (no view); `wrote` whether the transaction wrote the table, when
the engine's index declines and the rest comes from a sorted scan. Rows at equal
keys come in no set order within a page. `shifted` is an observer: a page was
counted in other rows than the page before it.

### UniqueWrites

One transaction on one table, call by call; `OthersCommit` is everyone else. The
INTEGER primary key is the row id, a UNIQUE index the set of its columns, an
error names the index (`dup`, the handler's `last_dup_key_`, which only an insert resets
before it writes: after an update, a delete, a read or a commit an earlier duplicate's
index is still there). What a call may do is
the set of its outcomes, since more than one index may be hit. The engine's part
(`EngineInsert`, `EngineInsertBatch`, `EngineSet`, `Commit`) follows the comment at
`write.rs` 9-15: an insert is checked against committed rows, not against the
transaction's pending ones; an update is checked by COMMIT. `Seen` is what the
transaction reads, `Merged` what COMMIT would make of the table. An update sets the
columns in which the new record differs from the one that was read (`Changed`), in
the row as it is by then: `cur` keeps what was read.

Others do not write rows this transaction has written; two writers of one row are
in `Session`. Tables a FOREIGN KEY names are written by SQL and are not here.

### Catalog

`frm` are the tables MariaDB has, `rows` the committed rows of those Stoolap has
(`Gone` otherwise); they differ on a fresh data directory, in the middle of DROP
DATABASE and after a refused drop. `reconciled` is the engine's set of tables that
`open()` need not create. Row counts are kept in three places: `records` for the
process, `counts[c]` for a transaction, `local` in a handler, which MariaDB's table
cache hands from one session to the next. `dirty[c]` are the tables a transaction
has yet to invalidate, `due[c]` those whose invalidation follows a commit that has
just been made: the commit and the invalidation are two steps, and anybody may
count in between.

MariaDB's metadata locks are guards (`Shared`, `Exclusive`): a transaction keeps
the tables it has used from DDL. An autocommit write by direct access forgets the
counts before the statement's transaction is committed, one by SQL after; they are
separate actions for that reason. `DROP DATABASE` is a loop of `DropNext`, in any
order of its tables, a child going along with its parent: by plain SQL in the engine,
nobody asking who names the child, so that its own DROP may then be refused. `Init`
is a process that has run, one just restarted (nothing reconciled yet), or one on a
fresh data directory. `blurred`, `forced` and `taken` are observers: tables whose count
the transaction cannot know (a cascade of the engine's, ROLLBACK TO SAVEPOINT),
parents dropped with `foreign_key_checks` off, and tables that went along with a
parent from under a child of another database.

### IndexRead

A value is its place in MariaDB's order, its place in Stoolap's byte order, and how
many trailing blanks it has; so a collation is a disagreement of the two orders, and
a value past the column (`Beyond`) exists in bounds only. The calls are
`index_read_map` with each flag, `index_first`, `index_last`, `read_range_first`
with each pair of bounds, and `GetNext`. `Meets` and `Impossible` are `key.rs`:
legs of a composite bound, leading bounds, PAD SPACE candidates. `keyFilter` and
`rangeFilter` are the fields of the handler, which a second read on it must not
inherit. One step gives one row: any row of the cursor that no other sorts before.

What the model takes from the columns and from MariaDB is stated in one place
(`Column`, `KeyOf`, `CallOf`, assumed by `IndexReadConstants`): on a part that needs no
filter, stoolap's values are equal when MariaDB's are; on one that is also offered for
order, both sort alike; a PAD SPACE column has no more blanks than it has room for. A
`decimal` is stored as text of one scale, so equal numbers are equal bytes.

Three things are not claimed, and the properties say so: rows and order of lookups
other than exact ones on PAD SPACE parts (`ComparedAlike`; what goes wrong there is
`FlagsHold`), the order past a part the WHERE holds constant when stoolap compares the
bounds itself (`HeldAlike`; the finding of `index_const`), and the order past such a part
for `index_first` and `index_last`, which are not told the WHERE.

### SqlDialects, SqlQueries, SqlGen

An item is `[op, a, v]`: an operator, its arguments, a name or literal. `Eval` and
`UnitRows` say what items and query expressions give in a dialect, `"maria"` or
`"stoolap"`; the differences are those `stoolap_sqlgen.cc` states beside its code:
where NULLs sort, PAD SPACE and case, booleans that are not numbers, integer
division, `CONCAT` with NULL, a DOUBLE's 53 bits, strings compared with dates,
decimals as text. What neither the code nor its comments settle is the value
`other`, and a pushed statement that could show it violates the property.

`SqlGen` has two halves. `Allows` is what the generator asks of a construct,
`WritesExpr` and `WritesUnit` ask it of all constructs inside; `WrittenNode` and
`WrittenUnit` are the item or unit that is then written, casts, explicit NULL
placement, merged derived tables and packed date literals included. The generator
is one pass in the code, which appends as it checks; since a refusal discards the
text, the two halves say the same. Every recursion passes through one operator, and
what the arguments became is handed on as a parameter.

### Pushdown

A statement is offered to `CreateSelect` (a SELECT or set operation whose tables
are all Stoolap's) or, when other engines have tables in it, its derived tables to
`CreateDerived`. A factory runs the query at once: any failure, begin and SQL alike,
leaves the statement to the server; after that there is no way back. The rows the
server reads from the handler are compared with those its own execution could have
given (`CouldGive`): the same rows, in an order ORDER BY allows, cut by LIMIT where
nothing left out sorts before; a derived table without LIMIT in any order, since the
generator writes the server's order of a group list for the statement's own SELECT only. Statements are named by tuples and come in families,
each pairing an operator with columns of every kind and literals, over tables with
every pair of values.

### ModifySql, DirectModify

`ModifySql` is one statement on given tables. `CanDirectModify` refuses, `WrittenAssignment`
and `ModifyWhere` put together what stoolap gets as `Gen::modify` does it: assignments
with a range check or a cut, the condition, a test for NULL, and the test for changed rows.
`ByServer` is what MariaDB's row by row execution would do to each row, `ByEngine` what
the written statement does, `Counted` the rows of the count.

`DirectModify` is the calls: `CondPush`, `DirectInit`, `CountFirst`, `Modify`, `Recount`,
`Return`, with `OtherCommits` in between when the statement runs in autocommit. Any error
class may come back. What fails a row is told apart as the code does (`errors`): `strict`,
a value that does not fit its column, which the written guard reports by an overflow of its
own and `try_direct_modify` turns into MariaDB's strict-mode error (`GuardOverflow`); and
`overflow`, the statement's own arithmetic past 64 bits, in a BIGINT target, in the
condition, or inside a guard, which comes back as a generic error, 1296 where the server
raises 1690. It is apart from `ModifySql` because that is recursive over items:
the constants `Pushable`, `ServerOn`, `EngineOn`, `CountOn`, ... stand for it. What the
calls take from the generator is one assumption, `GeneratorIsFaithful`, about rows: a
statement that is pushed fails on the rows the server's does, and of the same two
causes; otherwise it takes the rows the
server takes, of an UPDATE of changed rows those that change, makes of each what the
server would, and its count takes the same rows; a condition that holds the primary
key takes one row at most. TLC evaluates it on the 3,166 statements of the instance, both
trusts and both tables, before it runs: a generator that writes a wrong condition,
assignment or check fails there (the form of `AndChanges` without its test for NULL, say).
What it does to a whole statement, its counts and its errors, in whatever order the calls
and the commits of others come, is the run's question, and the theorems'.

## Runs

| Run | Instance | Question |
| --- | --- | --- |
| `session_mixed` | 2 connections, one row of each kind | What each read sees in autocommit, READ COMMITTED and snapshot transactions; both kinds of handle and transaction in one statement; when rows written by SQL are committed, and that failures leave nothing open. |
| `ai_shared` | 2 sessions, ladders <<1,1>>, <<2,3>>, <<3,2>>, batches to 2, ids to 3 | The shared counter under races, explicit ids, deletes and UPDATEs of the id, DDL, TRUNCATE, restart, the end of the range; that each id is the least on its ladder. |
| `ai_collide`, `ai_restart` | the same | Findings: two of the ways the counter falls behind. |
| `scan` | 4 ids, 2 keys, pages of 1, 2, 4 rows, one row changed by others | Each row once, in order, none passed over. |
| `unique_writes` | 3 ids, 2 columns, indexes on each or on both, 2 writes, 1 commit of others | Which writes are refused, and what a refused one leaves. |
| `unique_lost` | the same, 3 writes | Finding: a row that cannot be put back. |
| `catalog` | 2 connections, 2 tables in a database and one outside, no FOREIGN KEYs, two to one parent, or a chain of two that leaves the database, 2 writes, 2 DDL statements | Whether a count of one transaction reaches another, and whether the caches name tables that are gone. |
| `index_read` | 14 keys of two parts over nine kinds of column, two of three parts, every two rows, every lookup and range | The rows and the order of every read, and what a read leaves behind on its handler. |
| `index_const` | the keys of three parts | Finding: the order past a part the WHERE holds constant. |
| `pushdown` | 9 families of statements, 62,976 initial states (a statement, its tables, the trust in them) | Whether a pushed query gives the server's rows. |
| `direct_modify` | SETs of 16 kinds of column to 25 values, 14 conditions, 3 modes | Whether a pushed UPDATE or DELETE leaves the server's rows and counts, and fails where the server's does, with its strict-mode error only there. |

Bounds, and why they are enough:
- Two connections: every rule of the session and the allocator is between one
  connection and all others; a second one is enough to be the others.
- Two values, two rows: a read that mixes two states needs two rows, telling
  states apart needs two values. `Val` and `Conn` are symmetric.
- `OneBusy` (`session_mixed`): at most one connection is in an
  explicit transaction or has more than one table handle at a time. Without it the
  run is six times larger and passes too.
- `NotLoose` (`ai_shared`): a behaviour is followed until the counter may be behind ids
  in use. Its properties say nothing from there on, but for `LeastOnLadder` and
  `CounterOnlyRises`, which are about single steps and of which the theorems have the
  rest. The violation runs are not bounded so.
- The ladders of `ai_shared` have an offset past its increment and increments that
  share no divisor, so that a swapped or shifted residue shows; `U = 4`: each of
  them reaches the end of the range.
- `FirstPage = 1`, `Growth = 2`, `MaxPage = 4` for 16, 4 and 65536: with four ids
  a read takes up to three pages, a page ends inside a run of equal keys, and the
  largest page is reached. `MaxChanges = 1` row changed by others.
- `MaxWrites = 2`, `MaxOthers = 1` (`unique_writes`): a write makes a row pending,
  others commit a key, a second write meets both. The properties about what a call
  answers are stated of every call in every state, so they look one write further.
  All starting tables are tried; ids and columns are symmetric.
- `catalog`: `MaxCount = 2` for UINT64_MAX and `MaxRows = 1`: a stale count one above
  the truth is adjusted past the end. `Transacting = {c1}`: one connection opens
  transactions, the other writes in autocommit; what two transactions could do to
  each other's counts goes through the process's counts, which both kinds of write
  change. `Busy`: the table outside the database is only created, dropped and
  referred to. Two writes and two DDL statements: a count is taken, made stale,
  published or adjusted, and the table dropped or made again.
- `index_read`: two parts, since every rule of the code is about the first part, a
  part before, or the last; two rows, since a wrong order or a lost row needs no
  third; `Room = 1` and `PadSpaceLookups = 3`, so that a PAD SPACE lookup goes by its
  candidates; a second read on the unique keys only, where all filters occur.
  Lookups other than exact ones are those of MIN and MAX, on parts `index_flags` offers
  order on. The keys of three parts have one value of the first and a range on it, with
  and without the second part held constant.
- `pushdown`: numbers are halves up to 30, a DOUBLE exact to 8, integers of 64 bits
  ending at 30; strings are of three characters, a blank among them. Two columns of
  a table take all pairs of their values, a statement uses at most two.
  `direct_modify`: 3 or 2 rows, an INTEGER's range -1 to 3, strings of 2 characters.

Deadlock is checked in the runs of `Session`, `AutoIncrement` and `UniqueWrites`. It is
off where the system stops: an ordered or index read ends, a pushed statement
returns, and in `catalog` the bounds on writes and DDL run out.

Fairness. `Catalog` assumes weak fairness of `Invalidate` (after a commit the code goes
straight to `invalidate_dirty_records`, waiting for no lock another session could
keep) and of `DropNext` (MariaDB drops the tables of a database in a loop), and
nothing of any statement: `StaleCountGoes` says a count of the process that has
become wrong does not stay. No other module has liveness to state: every call
modelled runs to its end in one step, mutexes are held for one operation, and
nothing waits.

### What the checks show

- Writes of a connection are atomic with its transaction, and the client is told
  the truth about it, as far as the refinement of `TxnStore` says: for all ways a
  row can be written and all ways a step can fail.
- A read sees its own transaction's writes, a snapshot transaction its snapshot,
  a READ COMMITTED statement one view of the tables it has not written.
- The allocator hands out an id once as long as the counter is not lost with ids
  in use, made or seeded too low, or passed by an UPDATE of the id column (findings).
- An ordered read gives each row once and passes over none, provided its pages are
  counted in the same rows. They are, except when other sessions commit and the
  read has no view, and for tables a FOREIGN KEY names in autocommit (finding).

- A direct write is refused exactly when its row would share a key with a row the
  transaction sees, a batch exactly when its rows one by one would be; a refused
  write changes nothing. All this as long as no one has committed a key the
  transaction holds; then COMMIT fails, but for the finding below.
- A count of the process is the committed one except between a commit and its
  invalidation; a transaction's count is what it would count itself, cascades and
  savepoints apart; no table is taken for reconciled that is gone, and no parent is
  dropped under a child, but for those DROP DATABASE takes from under another database.
- An index read gives the rows of the key range by MariaDB's comparison, but for the
  NULLs below an upper bound that `tests/diff/key_bounds.sql` names as a known
  difference; in MariaDB's order, PAD SPACE parts and the finding below apart.
- Whatever is pushed gives the server's rows or its error, for every operator the
  generator writes, on the values where the dialects part.
- A pushed UPDATE leaves the rows the server's would or fails where that does, and in a
  transaction returns its counts; a value that does not fit gives the server's error, an
  overflow another one; in autocommit the matched rows are those of some committed state of
  the statement's time.

### Findings

1. `index_const`: a range whose bounds stoolap compares itself is ordered by the bytes of
   parts the WHERE holds constant (`ha_stoolap.cc` 1980). The same function's other path
   leaves such parts out, because a collation may call different bytes equal.
2. `ai_collide`: DDL on any table clears every counter, also those whose ids are
   reserved or pending.
3. `ai_restart`: in a process just started on stored rows an explicit id makes the counter
   from 0, and the stored maximum is not looked up. The property excepts every other way
   a new id can be behind (DDL, an incomplete maximum, an UPDATE).
4. `unique_lost`: a pending row whose key another session has committed is moved to
   a new primary key. Neither the new row nor the old one can be inserted; the row is
   dropped and COMMIT succeeds without it. This rests on `write.rs` 9-15 for what the
   engine checks.

Eight more properties are refuted by configurations kept here and run by hand; they
are weaker evidence, because they rest more on what the engine or MariaDB does:

- `OneStatementViewAlways` (`MCSessionTorn.cfg`): `flush_bulk_buffer` begins a transaction
  in mid-statement (`ha_stoolap.cc` 1073), which ends the statement's view; `session.rs`
  42-45 says a statement's reads go through one.
- `FailedStatementLeavesNothing` (`MCSessionLeftover.cfg`): on tables a FOREIGN KEY
  names, a failing row of an autocommit statement leaves the rows before it, contrary
  to `tests/diff/rowpump_atomicity.sql` (which tests tables written directly).
- `ReadsOn` (`MCOrderedScanSkip.cfg`): `DELETE ... ORDER BY pk LIMIT n` on such a table
  passes over rows in autocommit. This rests on the comment in `read.rs` that the index
  declines when the transaction wrote the table, and only then.
- `RefetchedAfterSavepoint` (`MCCatalogSavepoint.cfg`): "any adjusted count is now
  wrong; re-fetch on next read" (`ha_stoolap.cc` 247), but the transaction's own counts
  stay as they were adjusted. The counts are advisory.
- `DropDatabaseRefuses` (`MCCatalogChain.cfg`): DROP DATABASE "refuses a parent another
  database's table names" (`tests/diff/drop_parent.sql` 3-5), but not where that parent
  is itself the child of a table dropped before it. This rests on the engine's DROP TABLE
  not refusing a parent by itself.
- `NewIdsPastUpdated` (`MCAutoIncrementUpdate.cfg`): an UPDATE of the id column (`update_row`,
  `ha_stoolap.cc` 1230, or pushed) does not tell the allocator, so after INSERT of id 1 and
  UPDATE to 2 the next id is 2, not "past the committed ones" (`case_22_restart.py` 113,
  about a restart).
- `ResetOnEachWrite` (`MCUniqueWritesReset.cfg`): `last_dup_key_` is "reset to MAX_KEY on each
  write" (`ha_stoolap.h` 183), but only `write_row` does (`ha_stoolap.cc` 1101): after a
  refused insert a successful update, delete or COMMIT leaves it.
- `FlagsHold` (`MCIndexReadFlags.cfg`): `index_flags` offers order on PAD SPACE binary
  collations because the "byte compare agrees"; a value followed by a character below
  the blank sorts the other way.

## Proofs

Each proof module names its inductive invariant `IInv` (or says beside which one its
own stands); its lemmas go from the operators, to one call or step, to `Next`.

**Sessions.** `SessionProofs` proves, for every set of connections, tables, rows and
values: `TypeOK`, `OneTransaction`, `HandlesAreLive`, `QuietBetweenStatements` and
`ExplicitNeverLands`. None of them is inductive alone: that nothing is left after
a statement rests on `ThdContext` and the session agreeing about the open
transaction in every phase, a bulk insert's own transaction aside. `IInv` adds
just that: `GoodSession` (what any call may find) for each session, and `InStep`
(what `hasTx`, `pc`, `explicit` and `bulkOwns` say about the session). The lemmas
go up in three layers: the engine's operators keep types; each session call keeps
`GoodSession` and says what it leaves (`EndStatementGood`, `BeginSessionGood`,
...); each action keeps `IInv`, one connection at a time (`OneConnection`).

`SessionStoreProofs` proves what reads return: `ReadsOwnWrites`, `SnapshotHolds`,
`OneStatementView`. The properties are about observers, so the strengthening,
`ReadInv`, ties each observer to the one transaction the session can read through
(`Live`): the remembered snapshot is that transaction's, the first read of the
statement is its view, a view shows the session's own writes except in tables that are
read by a write handle by now.

It then proves `ImplementsTxnStore`: the initial states are the store's,
and each action of each connection is one action of `TxnStore` or a stutter. What a
commit makes visible is what was pending because of one more invariant, `MarkInv`: a
statement's own transaction that is not marked `stmt_wrote`, which `end_statement` rolls
back without a word, holds no write.

**Allocator.** `AutoIncrementProofs` proves, for every set of sessions, every set of
ladders, every range and batch size: `TypeOK` (the arithmetic saturates),
`CounterPastIds`, `ReservedOnce`, `CounterOnlyRises` and `LeastOnLadder`. The
strengthening says that no id is reserved while the counter is missing, that a maximum
found and not yet used is past what any session has pending, and that generated ids are
pending. `LeastOnLadder` needs lemmas about remainders the provers do not know
(`DivisionUnique`, `Remainder`, `OneLadder`, `NextOfRemainder`): between two numbers of one
ladder an increment apart there is no third.

**Direct writes.** `UniqueWritesProofs` proves, for every set of ids, columns, values
and UNIQUE indexes: `TypeOK`, `WritesKeepUnique`, `FailedWriteKeepsRows`, `BatchIsSingles`
and `WritesAnswerForKeys`. They need no invariant but the types, and for the last one
that a snapshot is the committed rows while nobody has committed (`FreshSnapshot`): each
call is shown to have only outcomes that are right for the transaction it was called
with (`InsertGood`, `UpdateGood`, `MoveGood`, ...). Two lemmas carry the weight: an index
over no changed column is free for the new row because it was for the old one
(`CheckedRow`), and a row taken out can be put back unless COMMIT would fail
(`PutBackWorks`).

**Catalog.** `CatalogProofs` proves, for any connections, tables, FOREIGN KEYs and bounds:
`TypeOK`, `GlobalCountHonest`, `TxCountExact`, `ReconciledExists`, `NoOrphans`.
`SoundCatalog` says what a DROP DATABASE in mid-loop may have left of the FOREIGN KEYs;
`SoundTx` that a transaction's changes fit the rows it saw and are on tables it keeps
locked; `SoundCounts` that a count of the process is one TRUNCATE left, and that who may
still commit rows to the table will invalidate it; `SoundAuto` that an autocommit write
has dropped the count of its table, which stays while the statement lasts.

**Ordered reads.** `OrderedScanProofs` proves, for every table, page size and number of
changes by others: `TypeOK`, `GivenOnce`, `NothingSkipped`, `InOrder`. A page is `LIMIT n
OFFSET m`, so it is described by ranks: `Rank(in, i)` counts the rows before `i`, and a
page takes the rows whose ranks it spans. `Stable` says where the rows may differ from
those the read started with; `ReadSound` that, while pages are counted in the same rows,
what was given and what is loaded are the rows of rank below the offset, the rest of
them not before the last one given.

**Index reads.** `IndexReadProofs` proves, for keys of any number of parts over any
columns, any rows and any calls: `TypeOK`, `RowsOfTheRead`, `InKeyOrder`,
`EmptyIsNoError`. `Serves` is the heart of it: for each call, bounds and filters together
let through what is asked for and only that, NULLs under an upper bound aside. For
the legs of a composite bound this is an argument about the first part in which a row
differs from the key (`FirstDifference`, by well-foundedness of the naturals); for bounds
on the leading part, and PAD SPACE candidates, that they let through no less. `IInv`
says of the cursor (`Run`) that what it has yet to give and the filters keep is asked
for, is not given and sorts after what was; `OrderServes` that the parts of the ORDER BY
give MariaDB's order as far as it is promised. Trying to prove `InKeyOrder` with parts
the WHERE holds constant is what showed the finding of `index_const`.

**Pushed writes.** `DirectModifyProofs` proves, for any statements, any rows, whatever
others commit, and any generator that is faithful row by row: `TypeOK`,
`TakenConditionRuns`, `CountsAreHonest`, `OneErrorRaised`, `ModifiesAsTheServer`. From a
row to the statement is an argument about sets of rows
(`EngineLeavesWhatTheServerLeaves`, `EngineCountsWhatTheServerCounts`): an UPDATE of
changed rows writes fewer rows and leaves the same table. From the statement to the
calls is `IInv`: `KeepsCondition` (in every phase the handler holds all of the condition
or the server does, and what runs is what was allowed), `KnowsMatches` (what the
condition takes now is among the counts the client may be told, and one counted before is
exact in a transaction), `Answered` (what is on its way to the client fits the state the
statement ran in) and `Raises`. `CountsAreHonest` rests on three ways to know the rows
found: the count before, the one row of a primary key, and the recount, which comes after
the statement and is right because an UPDATE that changed nothing has left the table as
it was (`NoneChanged`).

Assumptions: those the modules name (`NoneIsNoValue`, `NoneIsNoTransaction`,
`SessionConstants`, `AutoIncrementConstants`, `UniqueWritesConstants`, `CatalogConstants`,
`OrderedScanConstants`, `IndexReadConstants`, `StatementsAndTables`,
`GeneratorIsFaithful`); TLC evaluates them in every run. Most say
that a constant is of its type, that sets the code counts are finite, or that markers
(`None`, `Gone`) are no values. `OrderedScanConstants` also has `FirstPage <= MaxPage` and
pages that are not empty, as the code's constants are. `IndexReadConstants` is about the
columns and MariaDB's calls, and is explained under `IndexRead` above.
`GeneratorIsFaithful`, under `DirectModify`, is the one assumption about code: it says of
each row what the theorems say of statements, and for the generator of the repository it
is model-checked, not proved.

Only model-checked: `StaleCountGoes` (liveness under fairness is out of the prover's
reach), and what `SqlGen`, `SqlQueries` and `ModifySql` compute, whose operators are recursive
over items and query expressions: the properties of `Pushdown`, and `GeneratorIsFaithful`
for `ModifySql`. `Pushdown` has not been taken apart as `DirectModify` has: its calls change
nothing and nobody acts between them, so all its property says is what the generator would
be assumed to do.

## Plan

1. `Session`, `TxnStore`, with `SessionProofs`, `SessionStoreProofs`: done.
2. `AutoIncrement`, `AutoIncrementProofs`: done.
3. `OrderedScan`, `OrderedScanProofs`: done.
4. `UniqueWrites`, `UniqueWritesProofs`: done.
5. Row counts, savepoints, DDL: done, in one module, `Catalog`, because DROP and
   TRUNCATE touch the counts, with `CatalogProofs`.
6. Key bounds: `IndexRead`, `IndexReadProofs`: done.
7. SQL generation and pushed statements: done, `SqlDialects`, `SqlQueries`, `SqlGen`,
   `Pushdown`, `ModifySql`, `DirectModify`, with `DirectModifyProofs` for the calls.

Every safety property the runs check is proved, but for those of `Pushdown`. Left: what the
generator writes for every item, which would take induction over items.

## Not modelled

- *Queries*: TIMESTAMP columns (the generator's class of their own, read through the
  session's time zone), division by zero, nested (parenthesized) joins, a CTE used twice or
  recursive, ANY / ALL (refused as a whole), `sql_mode` variants, OFFSET, the choice
  between rows that tie, a negative zero, the text the generator writes.
- *Pushed writes*: which of two checked values an overflow is reported for, values
  that may pass 10 MiB.
- *Index reads*: `trust_binary_strings`, the rows changing under a read (that is
  `OrderedScan`), `records_in_range`.
- *Handler*: the columns and keys `create` refuses and the CREATE TABLE text (462-657),
  `position` / `rnd_pos`, rows named by key, `extract_field`.
- *Catalog*: a KILL between two tables of DROP DATABASE, the rename of tables a FOREIGN KEY names, counts under READ
  COMMITTED. The handler's own count may be stale and carry one session's uncommitted
  rows to the next, as a comment beside the code says; it is checked only not to
  reach the other counts.
- *Errors*: the noting of a class per thread and the texts.
- Record and packet layouts (sequential translations, left to the repository's
  tests; what a value becomes is in `SqlDialects`); the C interface and its panic
  guards; plugin initialisation, counters and optimizer costs; THD inspection, whose
  answers are inputs here. Ids of 2^63 and above and negative ids.

## Running

    tlc -config MCSessionMixed.cfg MCSession
    tlapm SessionProofs.tla

Each configuration names its module in `PROJECT.json`, with the operators that
break each property (`mutants`).
