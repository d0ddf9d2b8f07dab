# A TLA+ model of pdo_duckdb

`pdo_duckdb` is a PDO driver: a PHP extension written in C and C++ that lets PHP
programs use the embedded database DuckDB through PHP's PDO classes.  This
directory holds TLA+ specifications of the driver, the TLC configurations that
model-check them, and proofs of their main invariants for the TLA+ proof system.
Every definition is translated from the code under `src/`; `PROJECT.json` names
the lines behind each one.

DuckDB, PDO core and Swoole are not part of the repository.  The modules describe
them only as far as the driver uses them: DuckDB as result and chunk objects
behind pointers and as the bindings kept in a prepared statement; PDO core as its
own fields of a statement and the order in which it calls the driver; Swoole as a
queue of tasks, a pool of threads and an event loop.

## 1. The system

A PHP script holds `PDO` objects (connections) and `PDOStatement` objects.  PDO
core calls the driver through two tables of functions.  The driver calls DuckDB's
C API.  Inside a Swoole coroutine the long DuckDB calls are handed to a pool of
worker threads while the coroutine yields, so other coroutines of the same PHP
thread run in the meantime, possibly on the same connection.

    PHP code --> PDO core --> duckdb_driver.c     connection handlers
                     |   \--> duckdb_statement.c  statement handlers
                     |              |
        overrides in |              v
        pdo_duckdb.c |        duckdb_swoole.cpp --> Swoole pool, event loop
                     v              |
             bound parameters       v
                                  DuckDB

| component | state it keeps | operations | what makes it correct |
|---|---|---|---|
| Statement cursor, `duckdb_statement.c` | `pdo_duckdb_stmt`: the result and whether there is one, the chunk at hand, the row in it, counters; PDO core's `column_count`, `columns`, `executed` | prepare, execute, fetch, read a column, close the cursor, destroy | every DuckDB object destroyed once; the cursor stays inside the result at hand; rows in order, each once, then the end or the error; an open stream never blocks the connection for good |
| Swoole dispatch, `duckdb_swoole.cpp` | an atomic busy flag for each connection | `swoole_run()` and the eight wrappers around it | one call at a time on a connection; the flag is always cleared, by whom took it; no task outlives the caller's locals; success means the call ran |
| Parameter binding, `pdo_duckdb.c` and `duckdb_stmt_param_hook()` | PDO core's `bound_params` and `bound_columns`, DuckDB's bindings | `bindValue`, `bindParam`, `bindColumn`, `execute`, the hook at EXEC_PRE | an execution uses what the caller bound for it and nothing older |
| Connection, `duckdb_driver.c` | `pdo_duckdb_db_handle`: database, connection, lock, error message, attributes | factory, closer, doer, begin/commit/rollback, in_transaction, errorInfo, attributes | each resource released once on every failure of the factory, and never while a call uses it; a transaction call answers TRUE exactly if it took effect; only results that were written are read |
| Coroutines sharing a connection | all of the above | every handler, split where it yields | a statement or connection is not changed under a handler that waits |
| Value conversion, `duckdb_val_from_vector()` | none | a DuckDB value to a PHP value | integers and decimals keep their value at every width and sign; a nested value is made of its own row's elements |
| SQL text, `zstr_prepare()`, quoter | none | rewrites placeholders, drops NUL bytes, quotes | fits the buffer; only placeholders change |
| Column metadata | none | describe, getColumnMeta | a table from type to type |
| C++ helpers, `duckdb_stubs.cpp` | none | what DuckDB's C API does not offer: whether a transaction is active, the text of a value | |
| Module lifecycle, `pdo_duckdb.c` | saved method handlers | MINIT, MSHUTDOWN | |
| Build, packaging, tests | none at run time | | |

**Interactions.**  PDO core reads `column_count`, which the statement handlers
set; it frees the described columns by that count.  The executer runs after the
hook has filled DuckDB's bindings; the override of `execute()` clears them
afterwards.  A streaming result keeps the whole connection busy, so statements of
one connection depend on each other.  The dispatch is entered from the
statement's and the connection's handlers while they hold pointers to their own
locals and to the statement.

**What is hard.**

* Ordering of handlers: PDO lets a program execute, fetch part of the rows, close,
  execute again with an error and drop the statement in any order; older PDO core
  executes again without closing the cursor.
* Failures half way: a parameter that cannot be bound, a query that fails after
  the old result is gone, a conversion error behind the last row of a stream, a
  pool that refuses a task.
* Interleaving: coroutines switch wherever a call yields; workers run in parallel
  with the PHP thread; waiting is polling, without a queue.
* Stale state: bindings kept by DuckDB, counters of an earlier result, bound
  columns that hold values of an earlier row, lazy rows read late.
* Numbers at the edge of 64 and 128 bits, buffers at their exact size.

`PROJECT.json` lists the hazards one by one, each at its line, with the properties
that cover it or the reason why none does yet.

## 2. The modules

| module | what it is | code |
|---|---|---|
| `RowCursor` | abstract specification: what a statement promises about rows | - |
| `Statement` | statement handlers over DuckDB's results and chunks; implements `RowCursor` | `duckdb_statement.c`, preparer and unbuffered attribute of `duckdb_driver.c` |
| `MCStatement` | instance for TLC | - |
| `StatementProofs` | invariants of `Statement`, and that it implements `RowCursor` | - |
| `SwooleDispatch` | `swoole_run()`, the flag, the pool, the event loop | `duckdb_swoole.cpp` |
| `MCDispatch` | instance for TLC | - |
| `DispatchProofs` | invariants of `SwooleDispatch` | - |
| `Binding` | overrides, PDO core's tables, hook, DuckDB's bindings | `pdo_duckdb.c`, `duckdb_stmt_param_hook()` |
| `MCBinding` | instance for TLC | - |
| `BindingProofs` | invariants of `Binding` | - |
| `Numbers` | integers and decimals as words of a fixed width | `duckdb_val_from_vector()`, lines 141-320 |
| `MCNumbers` | instance for TLC | - |
| `NumbersProofs` | invariants of `Numbers` | - |
| `SqlText` | the three loops that copy SQL text byte by byte | `zstr_prepare()`, `zstr_strip_zerobytes()`, `duckdb_handle_quoter()` |
| `MCSqlText` | instance for TLC | - |
| `SqlProofs` | invariants of `SqlText` | - |
| `CoroutineStatements` | the handlers of `Statement`, split where they yield, over `SwooleDispatch` | preparer, `duckdb_statement.c`, `duckdb_swoole.cpp` |
| `MCCoroutines` | instance for TLC | - |
| `CoroutineProofs` | invariants of `CoroutineStatements`, and that it implements `RowCursor` | - |
| `Transactions` | abstract specification: what a shared PDO object promises about transactions | - |
| `Connection` | factory, closer, exec and transaction handlers over `SwooleDispatch`; implements `Transactions` | `duckdb_driver.c`, the lock of `duckdb_swoole.cpp`, `duckdb_has_active_transaction()` |
| `MCConnection` | instance for TLC | - |
| `ConnectionProofs` | invariants of `Connection`, and that it implements `Transactions` | - |
| `NestedValues` | lists, arrays, structs, maps, unions and variants over DuckDB's vectors | `duckdb_val_from_vector()`, lines 321-432 |
| `MCNestedValues` | instance for TLC | `zval_to_map_key()` |
| `NestedProofs` | invariant of `NestedValues` | - |

Operators whose comment begins with `Defect:` describe plausible bugs of the code
and are used by no action; `PROJECT.json` says which definition each would replace
and which property then fails.

### Statement

`S[s]` is the C structure behind `stmt->driver_data`, field by field, with pointers
as members of the sets of addresses `Results` and `Chunks` or `Nil`.  `results` and
`chunks` are the objects DuckDB has allocated; an address is free when it maps to
`Nil`.  `pdo[s]` holds the fields of PDO core that the driver's correctness depends
on: `columns` is `Nil` or the number of columns that were described, `column_count`
is the number that will be freed.  `openStream` is DuckDB's open streaming result.
`reply[s]` is what the last call answered.

A query's content is its number of columns, the row number at which each of its
chunks ends, and whether a conversion error follows.  Row values are left out: row
*n* stands for its values, so a row that is lost, repeated or read at a wrong offset
shows as a wrong number.

| action | code |
|---|---|
| `Prepare` | `duckdb_handle_preparer()` after DuckDB accepted the text |
| `ExecuteRefused` | the hook fails, the executer is not called |
| `ExecuteFails`, `ExecuteSucceeds` | `duckdb_stmt_execute()`, with what PDO core does before and after |
| `FetchNothing` | the early return of `duckdb_stmt_fetch()` |
| `FetchInChunk`, `FetchNextChunk`, `FetchLast` | its three ways through the chunk logic |
| `CloseCursor` | `duckdb_stmt_cursor_closer()`, then PDO core |
| `Destroy` | `duckdb_stmt_dtor()` |
| `SetUnbuffered` | `duckdb_set_attribute()` |

A PHP thread that does not yield runs each of them to its end, so each is one step.
`ClosesFirst` chooses between PDO cores that close the cursor before they execute
again and those that do not.

`StatementProofs` and the runs treat an execution of another statement while a
stream is open as one that fails: DuckDB refuses it.

### SwooleDispatch

Each caller has its place in `swoole_run()` (`pc`), the connection of its call, the
local `state` of its wrapper and its task in the pool.  `thread` is the caller that
keeps the PHP thread, `Nil` when any coroutine may be resumed.  All code between two
yields is one action: nothing else runs on the PHP thread meanwhile, and a worker
only touches the state of its own caller.

| action | code |
|---|---|
| `Wait` | `test_and_set()` finds the flag set: `usleep` or spin |
| `LockAndQueue` | the flag is taken and `async()` yields |
| `LockAndRefused` | `async()` returns false |
| `LockAndRun` | no `async` symbol: `fn()` on the PHP thread, under the flag |
| `RunInline` | not in a coroutine: `fn()` without the flag |
| `InlineEnds` | `fn()` returns on the PHP thread |
| `WorkerTakes`, `WorkerEnds` | the pool |
| `Resume` | after `async()`: the flag is cleared, the wrapper returns |

`Runtimes` says which of the two weak symbols of Swoole were resolved.

### Binding

`bound` and `cols` are PDO core's tables, `duck` DuckDB's bindings.  A source is a
value or a PHP variable bound by reference; `vars` are the contents of the
variables, which the program assigns and a fetch writes to.  `asked` and `last` are
history: what the caller bound since the last execution, and what the last execution
used.  The hook goes over the parameters first, then over the bound columns; where it refuses one
(`Refused`), any selection of those it accepts may have come before (`PartlyBound`), and has to be
cleared.  PHP values are three sets: those DuckDB takes as they are, arrays that become
JSON, and arrays that JSON cannot encode; `Json(v)` is a value of its own, so that
encoding twice, or not at all, is visible.

### Numbers

`duckdb_val_from_vector()` keeps no state, so a step of the module is one call:
`col` is the column's content as DuckDB stores it, `zv` what PHP gets.  A signed or
unsigned integer, a HUGEINT of two words or a decimal stored in either way is a
record of words; `Number` is the number these words stand for.  `Half` is half the
range of a word, 2^63 in the code, and `Exact` the bound below which a double holds
every integer, 2^53.  The casts between `uint64_t` and `int64_t` (`ToWord`,
`ToLong`) and the negation `~w + 1` (`Negated`) wrap around as they do in C.

| action | code |
|---|---|
| `GetBigint` | the integers that always fit into a PHP int |
| `GetUbigint`, `GetHugeint`, `GetUhugeint` | int or string, by the bounds of the code |
| `GetDecimal` | the sign extension to two words, then float or string |

`duckdb_get_string()` prints the number or returns NULL; `duckdb_decimal_to_double()`,
DuckDB's own, is taken to return the number it is given.

### NestedValues

A vector is known by the rows it holds, and what DuckDB stores for them is said by
operators of its own: `Valid` the validity mask, `Offsets` the offsets and lengths of lists
and maps, `Tag` the tags of a union.  So are the child vectors: `Elements` one vector for the
elements of all lists, `Slots` one with `size` elements for each array whether it is NULL or not,
`Member`, `EntryMember` and `Tagged` one vector for each member of a struct, a map's entries or a union.
`ConvertedBy` is the driver's walk over types, vectors, row numbers and offsets, counted from 0 as
in the code, given the conversion of the component types; `Converted` ties the knot.  `GetCol`
reads any row of the column.  The reference that it is compared with, `Php`, never sees a vector.

The text of a map's key is a constant, `MapKey`, of which nothing is assumed: which entries collide
depends on it, which one stays does not.  `MCNestedValues` gives it the definition of
`zval_to_map_key()`.  `Types` is closed under the components of its types and `Depth` says how
deep each is nested; `Values`, `Converted` and `Php` are recursive functions over the types, so
that they can be reasoned about.

### SqlText

One step is one turn of a loop: `src` and `dst` are the two buffers, `i` the bytes read,
`alloc` the bytes allocated, `in_sq` and `in_dq` the flags of `zstr_prepare()`.  A byte is a
letter that may start a name, another byte, one of the two quotes, the colon, the dollar or
NUL.  `literal` is what the quoter returned last; the program may write it between two
fragments and prepare or execute the whole, which is how the three functions meet.  The
references `Rewritten` and `LiteralAt` read a text as its author means it and as SQL does.

| action | code |
|---|---|
| `PrepareStart`, `PrepareTurn`, `PrepareReturn` | `zstr_prepare()` |
| `StripStart`, `StripCopies`, `StripTurn`, `StripReturn` | `zstr_strip_zerobytes()` and its shortcut |
| `QuoteStart`, `QuoteTurn`, `QuoteReturn` | `duckdb_handle_quoter()` |

### CoroutineStatements

`Statement` says what a handler does if nothing comes between.  Here prepare, execute and
fetch are three steps each: what the handler does before its DuckDB call (`ExecuteEnters`:
the hook binds, the old result and chunk go), the call on a worker (`ExecuteRuns`), and what
follows (`ExecuteReturns`).  `call[c]` holds the locals that survive the yield, among them
the copy of `S->result` that the wrapper gets by value and the index of the chunk it asks for;
what the handler reads again afterwards it reads from `S[s]` as it is then.  `Sleeps`,
`Queues`, `IsRefused`, `Resumes` and `WorkerTakes` are the steps of `SwooleDispatch`.
Handlers that do not yield are the actions of `Statement` themselves.

`duck[s]` says whose parameter is bound in DuckDB, `cut` which statements had their last
fetch refused.  `Overlap` chooses whether a coroutine may use a statement while another one
is inside a handler of it.  The runs set it to FALSE and the theorems assume it: statements are
handed over between calls, and nothing is claimed of programs that share one at the same time.
The driver serializes calls of a connection, not handlers of a statement, and no document
promises more.  What happens there is easy to see by setting `Overlap` to TRUE: a second
execution overwrites the result of the first (`OneOwner` fails after twelve steps); a second
hook binds over the parameters of the execution that waits, and the one that returns first
clears them (hazards `src/duckdb_statement.c:531` and `src/pdo_duckdb.c:89`, which no property
covers).  What a worker does with a result that another handler destroyed is not described,
so such an instance says nothing beyond the first such step.

### Connection and Transactions

`dbh` is the life of the PDO object, `H` the pointers of its `driver_data` that are not
NULL, and `heap` counts for each thing the factory allocates how often it was created less how
often it was destroyed: the handle, the lock, the path, the config, the initial command, the
error message, the database, the connection.  `call[c]` is the handler that a caller is in,
with the factory's locals and whether its `duckdb_result` has been written.

| action | code |
|---|---|
| `Constructs` | `duckdb_handle_factory()` up to its first DuckDB call |
| `OpenReturns`, `ConnectReturns`, `InitReturns` | what follows each of its three calls: on to the next, done, or everything given back |
| `ExecEnters` | `duckdb_handle_doer()` |
| `TransactionEnters`, `NotLetThrough` | PDO core asks in_transaction and calls begin, commit or rollback, or throws |
| `QueryReturns` | the rest of these four handlers |
| `Frees`, `FreeReturns` | PDO core rolls back what is active, then `duckdb_handle_closer()` |
| `Queues`, `Sleeps`, `IsRefused`, `Resumes`, `GoesInline` | the calls of an object with a lock, through `SwooleDispatch` |
| `RunsDirectly` | the calls of an object without one |
| `Crashes` | a refused query: bytes of the stack are read as a result |

`InTransaction` is `duckdb_has_active_transaction()`, which looks at the connection without
the flag: while a worker runs a query it may find either answer.  `Transactions` promises
nonetheless that a call answers TRUE exactly if it took effect, once, between the question and
the answer, and that a call which is not let through has a visible reason: a transaction is (not)
active, or another call is in progress.  SQL text given to `exec()` may begin and end
transactions too.  Statements are left to `CoroutineStatements`; to a transaction they are as `exec()`.

## 3. What is checked

| run | instance | distinct states | what it shows |
|---|---|---|---|
| `statement` | 2 statements, 2 results, 2 chunks, 4 contents, both PDO cores | 40,938 | `Ownership`, `Coherence`, `StreamReachable`, `ColumnsFreed`; `RowsInOrder` (refinement of `RowCursor`); `FetchAllEnds` |
| `dispatch` | 3 coroutines and the main program, 3 connections, 2 workers, all 4 runtimes | 36,378 | `Exclusive`, `FlagHasOneHolder`, `NoDanglingTask`, `SuccessMeansRan`; `CallReturns` |
| `dispatch_main` | 1 coroutine and the main program, 1 connection | violated | `CallsSerialized`: finding 1 |
| `binding` | 2 parameters, 1 column, 1 variable, a value of each kind | 8,704 | `UsesWhatWasAsked` |
| `binding_columns` | 1 parameter, 1 column, 2 values | violated | `NoStaleBindings`: finding 2 |
| `numbers` | words of four bits, floats exact up to 4 | 1,632 | `NumbersKept`, `DecimalsRound` |
| `numbers_double` | the same | violated | `DoublesInRange`: finding 3 |
| `sql` | texts of up to 4 of 6 bytes, values of up to 2 of 5, 8 fragments on either side | 47,308 | `FitsBuffer`, `NoEarlyEnd`, `PlaceholdersOnly`, `QuotedKept` |
| `coroutines` | 2 coroutines, 2 statements, 2 results, 2 chunks, 3 contents, 2 workers | 306,750 | `NoLeftoverBindings`, `OneOwner`, `CoherentBetweenCalls`, `DoneUnlessRefused`; `RowsUnlessRefused` (refinement of `RowCursor`) |
| `coroutines_refused` | the same | violated | `DoneMeansAllFetched`: finding 4 |
| `connection` | 2 coroutines and the main program, 1 object, 2 workers | 33,370 | `ReleasedOnce`, `NoUseAfterRelease`, `ResultsWritten`; `TransactionsKept` (refinement of `Transactions`); `ConstructorReturns` |
| `nested` | 13 types, 2 rows, lists of up to 2 elements | 317,595 | `RowConverted` |

**Bounds.**  *Statement*: statements interact only through the connection's open
stream and through addresses, for which two are enough; a statement holds at most one
result and one chunk, so two of each leave an address free or taken by the other.
The contents have no columns, no rows, one chunk with an error behind it, and two
chunks of one and of two rows, so a fetch meets every chunk boundary, the end after a
full chunk and the end without any.  *Dispatch*: one holder and two that wait for it
are needed to see a flag cleared for a wrong caller; with two workers two calls can
run at once (a single worker would exclude them all by itself), and three connections
still make a task queue.  *Binding*: two parameters, one with the number of a
bound column and one without; an execution that binds only one of them meets what the
other one left.  *Numbers*: every word and every pair of words of four bits, so every
boundary with both of its neighbours; nothing in the code depends on the width but the
two constants.  *NestedValues*: an offset is wrong because of the rows before, for which
one row before is enough if it can be NULL, empty, or of one or two elements; each type
occurs directly and lists and arrays inside each other; scalars are a value and the
empty string, which the text of a key does not tell from NULL.  *SqlText*: every rule looks at a byte, its two neighbours and whether it is quoted, so four
bytes hold an opening quote, a closing one and a colon with a neighbour; the fragments end inside
and outside of quotes and touch the literal with every kind of byte.  *CoroutineStatements*: one
coroutine that waits and one that acts; symmetry over coroutines, statements, results and chunks
is sound, for neither the specification nor a property names one of them and no liveness is
checked; contents without columns, with an error behind a row, and with two chunks of two and
one row.  *Connection*: one that holds the flag, one that waits, one outside any
coroutine that does neither; an object is constructed again after it was freed, so what is
left behind shows.  `Spellings` is 1: with two keys that spell "timezone" differently
`ReleasedOnce` fails, because each allocates the initial command anew (hazard
`src/duckdb_driver.c:143`).  No action is cut off by
a counter: all state spaces are finite as they are, and the theorems below hold without these bounds.  `MCStatement` leaves
the deadlock check on, as all runs do.

**Fairness.**  `Statement`: weak fairness of `Fetch(s)`, a caller that loops over
fetch; `FetchAllEnds` says that the loop ends unless the statement is executed again
and again.  `SwooleDispatch`: weak fairness of the workers, of the end of a DuckDB
call, of resuming a finished task and of a waiting coroutine's next try; Swoole's
event loop serves its timers and completions, and a DuckDB call ends.  Nothing is
assumed about new calls, and nothing stronger than weak fairness about the flag.
Therefore `CallReturns` is conditional: a waiter polls the flag without a queue, and
while others go on calling they may take it each time before the waiter looks.  It
excludes a runtime with `async` and without `usleep`, where the waiter spins on the
very thread on which the holder must be resumed; both symbols come from one library,
so the code does not meet it in practice.

`Connection`: weak fairness of the workers and of each caller that is inside a handler.
`ConstructorReturns` needs no condition, unlike `CallReturns`: nobody else has the lock of an
object under construction, so its flag is never found set.

**What the properties are about.**

* `Ownership`: no result or chunk is leaked, shared, or held after it was destroyed,
  on any path, failing ones included.
* `Coherence`: column count, chunk, row offset and counters all belong to the result
  at hand.  A lazy row relies on it when it reads a column long after its fetch.
* `StreamReachable`: a stream that keeps the connection busy can still be drained or
  destroyed through a statement.
* `ColumnsFreed`: PDO core frees as many columns as were described.
* `RowsInOrder`: `Statement` implements `RowCursor`.
* `Exclusive`, `FlagHasOneHolder`: mutual exclusion of coroutines, and the flag's
  meaning on every path, the refusal included.
* `NoDanglingTask`: a task that writes through references into a wrapper's frame
  exists exactly while the wrapper waits for it.
* `SuccessMeansRan`: a wrapper does not report success of a call that never ran, and
  polling does not run it twice.
* `UsesWhatWasAsked`: an execution uses for each parameter what was bound since the
  previous one, its latest value if bound by reference.
* `NumbersKept`: an int or a string is the number of the column, and an integer becomes a
  string only if PHP has no int for it.
* `DecimalsRound`: a decimal becomes a float exactly if its unscaled value is in the range
  where floats hold every integer, but for -2^64.
* `FitsBuffer`, `NoEarlyEnd`: the loops stay inside `len + 1` and `2 * len + 3` bytes, and
  what they hand to DuckDB is one C string.
* `PlaceholdersOnly`: a dollar for the colon of each placeholder and nothing else, unless a NUL
  byte touches a colon: stripping and rewriting happen in one pass.
* `QuotedKept`: what `PDO::quote()` returned is read by SQL as the value that was quoted, wherever
  the program puts it.
* `NoLeftoverBindings`: parameters stay bound in DuckDB while an execution waits, and are gone when
  it returns, refused by the pool or not; a statement that is handed on carries none of them.
* `OneOwner`, `CoherentBetweenCalls`: between the yields of handlers of different statements no
  object is lost or held twice, and afterwards a statement is as coherent as if none had yielded.
* `DoneUnlessRefused`, `RowsUnlessRefused`: the end of the rows is answered at the end of the rows,
  unless the pool refused the fetch.
* `ReleasedOnce`, `NoUseAfterRelease`: every path through the factory gives back what it took, once,
  and not before the worker is done with it.
* `ResultsWritten`: a handler never reads a `duckdb_result` that DuckDB did not write, but for a call that
  the pool refused.  There the code does (`src/duckdb_driver.c:219`, `:290`, `:333`).
* `TransactionsKept`, `ConstructorReturns`: see above.
* `RowConverted`: the PHP value of a row is the value of this row, whatever its
  neighbours are.

## 4. What is proved

The theorems hold for every value of the constants that satisfies the named
assumptions, with any number of statements, rows, callers, workers or parameters.

* `StatementProofs`.  `Invariance`: `IInv == TypeOK /\ Ownership /\ Coherence /\
  StreamReachable /\ ColumnsFreed` is inductive; `TypeCorrect`, `OwnershipHolds`,
  `CoherenceHolds`, `StreamReachableHolds` and `ColumnsFreedHolds` follow.  None of the
  five is inductive alone: that a fetch keeps `Coherence` needs `Ownership` (no other
  statement holds the chunk that is replaced), that the type of `total_rows` and
  `chunk_size` is kept needs `Coherence` (a chunk has a size only inside its result).
  There is one lemma for each handler.
  `ImplementsRowCursor`: `Spec => RowsInOrder`.  `RInv` adds to `IInv`
  that a statement with a result has been executed as PDO core sees it, for otherwise
  the early return of fetch would answer the end while the abstract cursor is open.
  Each handler is mapped to an abstract step by a lemma of its own: a row inside a
  chunk and the first row of the next one both to `RowCursor!FetchRow`.
* `DispatchProofs`.  `DispatchInvariance`, and from it `DispatchTypeCorrect`,
  `MutualExclusion`, `FlagHasOneHolderHolds`, `NoDanglingTaskHolds`,
  `SuccessMeansRanHolds`.  Its `IInv` adds where a caller's task may be for each place it may
  be at, and that the queue holds each queued caller once.  `SerializedAmongCoroutines`
  proves `CallsSerialized` when every caller is a coroutine: finding 1 needs one that
  is not.
* `BindingProofs`.  `UsesWhatWasAskedHolds` and `BindingTypeCorrect`.  `BindingInv` says
  that between executions DuckDB has no binding at all and that PDO core's table agrees
  with what was asked; it is the first half that clearing after every execution,
  refused ones included, is for.
* `NumbersProofs`.  `NumbersTypeCorrect`, `NumbersKeptHolds` and `DecimalsRoundHolds`, for
  words of any size.  A call does not depend on the one before, so `NumbersInv`, their
  conjunction, is inductive at once; the work is in the arithmetic of two words, which
  lemmas state in a form free of products: the number of two words is the lower one if
  the upper one is 0, the lower one less 2^64 if it is -1, and out of range otherwise.

* `SqlProofs`, for texts of any length.  `SqlInvariance`, and from it `SqlTypeCorrect`,
  `FitsBufferHolds` and `NoEarlyEndHolds`.
  `FitsBuffer` is not inductive: the invariant bounds the bytes written by the bytes read, one for
  each (two, and the opening quote, in the quoter), so that what is left of the buffer covers
  what is left of the text.
  `TextInvariance` says what has been written after each turn: the flags of `zstr_prepare()` tell
  which quote the text without NUL bytes has left open as far as it was read, and the buffer holds
  that much of it with its placeholders rewritten (`Preparing`, `Stripping`).  `PlaceholdersOnlyHolds`
  is that invariant at the end of the text.  The flags and the recursive definition of `Inside` meet
  in `OpenStep`: a quote opens or closes a region exactly outside of regions of the other one.
  `LiteralInvariance` adds that the quoter has doubled the apostrophes of what it has read.  For
  `QuotedKeptHolds` four lemmas follow a literal through the text: dropping NUL bytes and quoting
  commute (`QuotedWithoutNul`), all of it but its quotes is inside (`LiteralInside`), so rewriting leaves
  it alone (`LiteralKept`), and reading undoes the doubling (`LiteralRead`).
  These lemmas are inductions over a text.  The library's induction theorems take operators and cannot
  be used; what holds for all numbers is stated as a set of numbers instead, and the
  well-foundedness of `<` (`WFMin`) puts every number into it (`NumbersInduction`, `TextsInduction`).  That the
  recursive functions exist, and are as their equations say, is proved as well (`Table`).

* `ConnectionProofs`.  `ConnectionInvariance`, and from it `ConnectionTypeCorrect`,
  `ReleasedOnceHolds`, `NoUseAfterReleaseHolds`, `ResultsWrittenHolds`, and `ImplementsTransactions`:
  `Spec => TransactionsKept`.  `ReleasedOnce` speaks of the ends of a life only; its `IInv` says of
  every state that each count is 1 exactly if a pointer of the handle or a local of a caller leads to
  the thing, and which pointers there are is told by the handler, and the state its call returned,
  of the one caller that constructs or frees the object (`Staged`, `HeapOK`).  For the refinement it
  also says that a result is written if the call ran and reads "ok" exactly if the wrapper returns
  success (`Resulted`).  What is known of `swoole_run()` is not proved again: the module instantiates
  `DispatchProofs`, whose invariant it keeps, because what the handlers add to its steps (a call
  without a lock, a new lock, a fresh state) keeps it too.  `ReleasedOnceHolds` assumes
  `Spellings <= 1`, for with two it is false.

* `CoroutineProofs`.  `CallsInvariance`, and from it `CallsTypeCorrect`, `NoLeftoverBindingsHolds`,
  `OneOwnerHolds`, `CoherentBetweenCallsHolds` and `DoneUnlessRefusedHolds`, and
  `CallsImplementRowCursor`: `CSpec => RowsUnlessRefused`.  All of them assume `~Overlap`: they say
  nothing of programs with two coroutines inside handlers of one statement, for which `OneOwner` is
  false (section 2).  None of the properties is inductive, because each speaks of what a handler finds when
  it goes on, and that depends on what it prepared before it yielded and on what DuckDB answered in
  between.  `CInv` therefore says for each handler that waits, by the stage of its DuckDB call
  (to come, refused, failed, succeeded), what its statement and its locals look like: an execution has no
  old result and no chunk left (`Executing`), a fetch has accounted for the exhausted chunk, and
  the chunk to come continues where that one ended (`Fetching`).  `Owned` extends ownership to the
  handlers' locals; `Alone` is what `~Overlap` gives and what lets every step of one coroutine leave
  the other calls alone; `Placed` ties a call to its place in `swoole_run()`.  A refused fetch
  answers the end too early, so `done` implies that all was fetched only outside of `cut`.  The
  invariant of the dispatch comes with an instance of `DispatchProofs`; the lemmas about contents,
  columns and the abstract cursor are those of `StatementProofs`.  For the refinement an
  execution closes the abstract cursor when it enters and opens it when it returns with success, and a
  fetch is one abstract step when it returns: until then the rows it has dropped and those it was
  handed are in its locals, and the abstract cursor does not move.

* `NestedProofs`, for types nested to any depth, columns and lists of any length and any
  text of keys.  `RowConvertedHolds`.  The column never changes, so `NestedInv` adds to
  `RowConverted` no more than that the column holds values of its type; the work is in
  `AllRight`, that each row of each column is converted to what stands for it.  It is an
  induction over the depth of types (`OneRight`), with one lemma for each kind of type.  For
  lists and maps `ListLaidOut` says that the elements of a row are where its entry points, and
  for arrays `ArrayLaidOut` that they begin at a multiple of the size: both follow from where a part
  of a flattened sequence begins (`FlatAt`).  For maps `EntriesAreLast` says that the loop over the
  entries leaves the last of those with the same key.  `ValuesEquation`, `PhpEquation` and
  `ConvertedEquation` prove that the three recursive functions are as their equations say,
  because a type's equation looks at its components only.

Assumptions: `ContentsAssumption` (chunks are not empty; a result without columns has
no rows), `NilAssumption` and `CallersAssumption` (the null pointer is no object),
`PdoAssumption`, `WorkersAssumption` (the pool has a thread), `RuntimesAssumption`,
`NumAssumption`, `ValuesAssumption` (the kinds of values are disjoint),
`WordAssumption` (floats are exact up to a bound inside a word), `AlphabetAssumption` and
`TextsAssumption` (texts are sequences of the bytes told apart), `SpellingsAssumption`,
`OverlapAssumption`, `CoroutinesAssumption` (the null pointer is neither a coroutine, a call nor the
connection; the pool has a thread), `NestedAssumption` (NULL is no scalar; there is a row) and
`TypesAssumption` (a type's components are types, and nested less deep).  The module of a
passing run extends each module that states one, so TLC evaluates them.

Only model-checked: `FetchAllEnds`, `CallReturns` and `ConstructorReturns`, for liveness under
fairness is out of the proof system's reach.

## 5. Findings

1. **A call from outside a coroutine ignores the flag** (`dispatch_main`).
   `swoole_run()` tests for a coroutine first and otherwise runs `fn()` at once
   (`src/duckdb_swoole.cpp:47`).  Code after `go(...)` that uses the same connection, as a
   yielded coroutine does, overlaps the call on the worker thread.  The comment above it
   says "The connection lock is held for the whole call", `src/php_pdo_duckdb.h:91`
   "DuckDB calls serialized through `lock` via Swoole's async thread pool".
2. **A bound column is bound as a parameter** (`binding_columns`).  PDO core calls the
   hook for bound columns too, and `duckdb_stmt_param_hook()` does not look at
   `param->is_param` (`src/duckdb_statement.c:792`).  The variable of `bindColumn(1, $v)`
   replaces parameter 1, or makes the execution fail if there is no parameter of that
   number.  The comment on the override of `execute()` (`src/pdo_duckdb.c:39`) promises
   that stale bindings do not leak across executions.
3. **A large negative decimal becomes a float** (`numbers_double`).  The test for a small
   magnitude negates only the lower word (`src/duckdb_statement.c:304`).  For the unscaled
   value -2^64 the lower word is 0, `~lower + 1` wraps to 0, and the value becomes a float
   that has not all of its digits, as `-1844674407.3709551616::DECIMAL(38,10)` does.  The
   tests expect strings beyond 2^53 for either sign
   (`src/tests/pdo_duckdb_number.phpt:240`).

4. **A refused fetch ends the rows** (`coroutines_refused`).  `swoole::coroutine::async()` may
   refuse a task; `swoole_run()` does not look at what it returns, and the wrapper returns the NULL
   that it began with (`src/duckdb_swoole.cpp:160`).  `duckdb_stmt_fetch()` takes it for the NULL behind the
   last chunk (`src/duckdb_statement.c:545`): it finds no error, sets `done` and answers that there are
   no more rows.  `src/php_pdo_duckdb.h:62` says of `done` "TRUE when all rows have been fetched".
   The program gets a part of its rows without an exception.

## 6. What is not modelled, and the plan

Done: every component that keeps state, and a theorem for every invariant and every refinement that
the runs check.  What could
still be proved is about programs the theorems exclude: which of the properties of
`CoroutineStatements` survive when coroutines use one statement at once.

Left out, and why:

* `errorInfo()`: `error_msg` and `error_code` are written together and read at once by PDO core; what is
  seen later depends on when PDO core clears its own field.
* The instance cache: it is DuckDB's, the driver creates it once and passes it on.
* The attributes other than unbuffered: `auto_commit` is stored and returned, and read by nothing.
* Two spellings of one placeholder (`a` and `$a`): parameters have one key each in `Binding`.
* Of the conversion of values the rounding of FLOAT and DOUBLE, text, JSON, BLOB, the types that DuckDB
  prints and the stringify attribute: they are library calls.
* Column metadata (a table without state), most C++ helpers (plain calls into DuckDB), module start and
  end (run once, in one thread), build files, container images and the vendored archive of DuckDB.
