------------------------------ MODULE Statement ------------------------------
(***************************************************************************)
(* The statements of one pdo_duckdb connection, used by one PHP thread:    *)
(* the handlers of duckdb_statement.c that execute, fetch, close and free, *)
(* over DuckDB's result and chunk objects, which the driver owns through   *)
(* pointers and must destroy itself.  A result is a sequence of data       *)
(* chunks; the driver walks it chunk by chunk and PDO core row by row.     *)
(*                                                                         *)
(* DuckDB and PDO core are not part of the repository.  They appear as     *)
(* the objects behind the pointers (results, chunks, openStream) and as    *)
(* PDO core's own fields of a statement (pdo), as the driver uses them.    *)
(***************************************************************************)
EXTENDS Integers, Sequences

CONSTANTS Stmts,           \* PDOStatement objects
          Results,         \* addresses of DuckDB results
          Chunks,          \* addresses of DuckDB data chunks
          Contents,        \* what a query can return, see ContentsAssumption
          Nil,             \* the null pointer
          ClosesFirst      \* whether PDO core closes the cursor before it
                           \* executes again: {FALSE} is PHP 8.3 and older,
                           \* {TRUE} is newer PDO, BOOLEAN covers both

(***************************************************************************)
(* The content of a result: its number of columns, bounds[k] = the number  *)
(* of rows in its first k chunks (no chunk is empty), and whether a        *)
(* conversion error follows the last chunk.  A statement without columns   *)
(* has no rows.                                                            *)
(***************************************************************************)
ASSUME ContentsAssumption ==
    \A c \in Contents :
        /\ c \in [cols : Nat, bounds : Seq(Nat), err : BOOLEAN]
        /\ \A k \in 1..Len(c.bounds) : c.bounds[k] > 0
        /\ \A j, k \in 1..Len(c.bounds) : j < k => c.bounds[j] < c.bounds[k]
        /\ c.cols = 0 => c.bounds = <<>> /\ ~c.err

ASSUME PdoAssumption == ClosesFirst \subseteq BOOLEAN

ChunkCount(c) == Len(c.bounds)                     \* duckdb_result_chunk_count
RowsBefore(c, k) == IF k = 0 THEN 0 ELSE c.bounds[k]
ChunkSize(c, k) == RowsBefore(c, k + 1) - RowsBefore(c, k)
RowCount(c) == RowsBefore(c, ChunkCount(c))

-----------------------------------------------------------------------------
(* The data structures *)

Result == [content : Contents, streaming : BOOLEAN, served : Nat, error : BOOLEAN]

Chunk == [of : Results, index : Nat]    \* chunk number index of result of

StmtRecord ==                             \* struct _pdo_duckdb_stmt
    [result : Results \cup {Nil}, chunk : Chunks \cup {Nil},
     chunk_idx : Nat, chunk_size : Nat, done : BOOLEAN,
     result_set : BOOLEAN, is_streaming : BOOLEAN,
     next_chunk_index : Nat, total_rows : Nat]

PdoRecord == [executed : BOOLEAN, column_count : Nat, columns : Nat \cup {Nil}]

Reply == [outcome : {"none", "row", "end", "error"}, row : Nat]

(* The null pointer is no object and no number. *)
ASSUME NilAssumption ==
    /\ Nil \notin Results /\ Nil \notin Chunks /\ Nil \notin Nat
    /\ Nil \notin Result /\ Nil \notin Chunk /\ Nil \notin StmtRecord

NoRow == [outcome |-> "none", row |-> 0]
Row(n) == [outcome |-> "row", row |-> n]
End == [outcome |-> "end", row |-> 0]
Error == [outcome |-> "error", row |-> 0]

NewPdo == [executed |-> FALSE, column_count |-> 0, columns |-> Nil]

-----------------------------------------------------------------------------
VARIABLES S,            \* driver_data of each statement, Nil when there is none
          pdo,          \* PDO core's fields of each statement
          results,      \* DuckDB's results by address, Nil: not allocated
          chunks,       \* DuckDB's data chunks by address
          openStream,   \* the streaming result the connection is busy with
          unbuffered,   \* PDO::DUCKDB_ATTR_UNBUFFERED of the connection
          reply         \* what the last call on each statement answered

vars == <<S, pdo, results, chunks, openStream, unbuffered, reply>>

TypeOK ==
    /\ S \in [Stmts -> StmtRecord \cup {Nil}]
    /\ pdo \in [Stmts -> PdoRecord]
    /\ results \in [Results -> Result \cup {Nil}]
    /\ chunks \in [Chunks -> Chunk \cup {Nil}]
    /\ openStream \in Results \cup {Nil}
    /\ unbuffered \in BOOLEAN
    /\ reply \in [Stmts -> Reply]

Init ==
    /\ S = [s \in Stmts |-> Nil]
    /\ pdo = [s \in Stmts |-> NewPdo]
    /\ results = [r \in Results |-> Nil]
    /\ chunks = [c \in Chunks |-> Nil]
    /\ openStream = Nil
    /\ unbuffered = FALSE
    /\ reply = [s \in Stmts |-> NoRow]

-----------------------------------------------------------------------------
(* Parts that several handlers share *)

(***************************************************************************)
(* The two ifs with which the executer, the cursor closer and the          *)
(* destructor free what the statement holds.  Destroying the result that   *)
(* the connection is streaming makes the connection usable again.          *)
(***************************************************************************)
DestroyResult(s) ==
    IF S[s].result_set THEN [results EXCEPT ![S[s].result] = Nil] ELSE results

DestroyChunk(s) ==
    IF S[s].chunk # Nil THEN [chunks EXCEPT ![S[s].chunk] = Nil] ELSE chunks

StreamAfterDestroy(s) ==
    IF S[s].result_set /\ S[s].result = openStream THEN Nil ELSE openStream

(* Defect: the flag outlives the pointer. *)
DropResultKeepsFlag(s) ==
    /\ S' = [S EXCEPT ![s].result = Nil, ![s].chunk = Nil]
    /\ results' = DestroyResult(s)
    /\ chunks' = DestroyChunk(s)
    /\ openStream' = StreamAfterDestroy(s)
    /\ reply' = [reply EXCEPT ![s] = NoRow]

(* Defect: the pointer is forgotten, the result not destroyed. *)
DropResultLeaks(s) ==
    /\ S' = [S EXCEPT ![s].result = Nil, ![s].result_set = FALSE, ![s].chunk = Nil]
    /\ chunks' = DestroyChunk(s)
    /\ reply' = [reply EXCEPT ![s] = NoRow]
    /\ UNCHANGED <<results, openStream>>

(* What the three of them leave behind when the statement lives on. *)
DropResult(s) ==
    /\ S' = [S EXCEPT ![s].result = Nil, ![s].result_set = FALSE, ![s].chunk = Nil]
    /\ results' = DestroyResult(s)
    /\ chunks' = DestroyChunk(s)
    /\ openStream' = StreamAfterDestroy(s)
    /\ reply' = [reply EXCEPT ![s] = NoRow]

(* Defect: the field of PDO core is written directly. *)
SetColumnCountDirectly(p, n) == [p EXCEPT !.column_count = n]

(* php_pdo_stmt_set_column_count(): keeps the described columns when the   *)
(* count does not change.                                                  *)
SetColumnCount(p, n) ==
    [p EXCEPT !.column_count = n,
              !.columns = IF n = p.column_count THEN p.columns ELSE Nil]

(* PDO core describes the columns when they are not described. *)
Describe(p) ==
    [p EXCEPT !.columns = IF p.columns = Nil THEN p.column_count ELSE p.columns]

(* The row that duckdb_stmt_get_col() reads at an offset of chunk k. *)
RowAt(k, offset) == RowsBefore(results[k.of].content, k.index) + offset + 1

-----------------------------------------------------------------------------
(* The handlers *)

(* duckdb_handle_preparer() on success; when it fails, no statement exists. *)
Prepare(s) ==
    /\ S[s] = Nil
    /\ S' = [S EXCEPT ![s] =
          [result |-> Nil, chunk |-> Nil, chunk_idx |-> 0, chunk_size |-> 0,
           done |-> FALSE, result_set |-> FALSE, is_streaming |-> FALSE,
           next_chunk_index |-> 0, total_rows |-> 0]]
    /\ UNCHANGED <<pdo, results, chunks, openStream, unbuffered, reply>>

(* PDO core's fields once a cursor has been closed, ... *)
PdoClosed(p) == [SetColumnCount(p, 0) EXCEPT !.executed = FALSE]

(* ... before execute() gets to the executer, ... *)
PdoBeforeExecute(s, first) ==
    IF first /\ pdo[s].executed THEN PdoClosed(pdo[s]) ELSE pdo[s]

(* ... and after an execution that returned n columns. *)
PdoAfterExecute(s, first, n) ==
    LET p == SetColumnCount(PdoBeforeExecute(s, first), n)
    IN  [(IF p.executed THEN p ELSE Describe(p)) EXCEPT !.executed = TRUE]

(***************************************************************************)
(* duckdb_stmt_param_hook() refuses a parameter: the executer is not       *)
(* called, and unless PDO core closed the cursor first, the rows of the    *)
(* previous execution are still there to fetch.                            *)
(***************************************************************************)
ExecuteRefused(s, first) ==
    /\ S[s] # Nil
    /\ IF first /\ pdo[s].executed
          THEN DropResult(s)
          ELSE UNCHANGED <<S, results, chunks, openStream, reply>>
    /\ pdo' = [pdo EXCEPT ![s] = PdoBeforeExecute(s, first)]
    /\ UNCHANGED unbuffered

(***************************************************************************)
(* duckdb_stmt_execute() when DuckDB reports an error: the old result and  *)
(* chunk are gone, and so is the result that carried the error.            *)
(***************************************************************************)
ExecuteFails(s, first) ==
    /\ S[s] # Nil
    /\ DropResult(s)
    /\ pdo' = [pdo EXCEPT ![s] = PdoBeforeExecute(s, first)]
    /\ UNCHANGED unbuffered

(***************************************************************************)
(* duckdb_stmt_execute() when DuckDB returns result r with content c.  A   *)
(* materialised run meets the conversion error while it executes, so only  *)
(* a streaming result carries one.  DuckDB starts no query while another   *)
(* streaming result is open on the connection.                             *)
(***************************************************************************)
ExecuteSucceeds(s, first, r, c, streaming) ==
    /\ S[s] # Nil
    /\ StreamAfterDestroy(s) = Nil
    /\ streaming => unbuffered /\ c.cols > 0
    /\ c.err => streaming
    /\ DestroyResult(s)[r] = Nil
    /\ results' = [DestroyResult(s) EXCEPT ![r] =
          [content |-> c, streaming |-> streaming, served |-> 0, error |-> FALSE]]
    /\ chunks' = DestroyChunk(s)
    /\ openStream' = IF streaming THEN r ELSE Nil
    /\ S' = [S EXCEPT ![s] =
          [result |-> r, chunk |-> Nil, chunk_idx |-> 0, chunk_size |-> 0,
           done |-> c.cols = 0, result_set |-> TRUE, is_streaming |-> streaming,
           next_chunk_index |-> 0, total_rows |-> 0]]
    /\ pdo' = [pdo EXCEPT ![s] = PdoAfterExecute(s, first, c.cols)]
    /\ reply' = [reply EXCEPT ![s] = NoRow]
    /\ UNCHANGED unbuffered

Execute(s) ==
    \E first \in ClosesFirst :
        \/ ExecuteRefused(s, first)
        \/ ExecuteFails(s, first)
        \/ \E r \in Results, c \in Contents, streaming \in BOOLEAN :
              ExecuteSucceeds(s, first, r, c, streaming)

(* The early return of duckdb_stmt_fetch(), and PDO core's own. *)
FetchNothing(s) ==
    /\ S[s] # Nil
    /\ ~pdo[s].executed \/ ~S[s].result_set \/ S[s].done
    /\ reply' = [reply EXCEPT ![s] = End]
    /\ UNCHANGED <<S, pdo, results, chunks, openStream, unbuffered>>

Fetchable(s) ==
    /\ S[s] # Nil
    /\ pdo[s].executed
    /\ S[s].result_set
    /\ ~S[s].done

(* Defect: off by one at the end of a chunk. *)
InChunkOrPast(s) == S[s].chunk # Nil /\ S[s].chunk_idx + 1 <= S[s].chunk_size

(* The next row is in the chunk at hand. *)
InChunk(s) == S[s].chunk # Nil /\ S[s].chunk_idx + 1 < S[s].chunk_size

FetchInChunk(s) ==
    /\ Fetchable(s)
    /\ InChunk(s)
    /\ S' = [S EXCEPT ![s].chunk_idx = S[s].chunk_idx + 1]
    /\ pdo' = [pdo EXCEPT ![s] = Describe(pdo[s])]
    /\ reply' = [reply EXCEPT ![s] =
          Row(RowAt(chunks[S[s].chunk], S[s].chunk_idx + 1))]
    /\ UNCHANGED <<results, chunks, openStream, unbuffered>>

(* Defect: the sign of the exhausted chunk. *)
RowsRemoved(s) ==
    S[s].total_rows - IF S[s].chunk # Nil THEN S[s].chunk_size ELSE 0

(* Defect: the exhausted chunk is not accounted for. *)
RowsUncounted(s) == S[s].total_rows

(* total_rows once the exhausted chunk has been accounted for. *)
RowsConsumed(s) ==
    S[s].total_rows + IF S[s].chunk # Nil THEN S[s].chunk_size ELSE 0

(* The chunk that DuckDB would hand out next; none is left at ChunkCount. *)
NextChunk(s) ==
    IF S[s].is_streaming THEN results[S[s].result].served ELSE S[s].next_chunk_index

(* The exhausted chunk is destroyed and the next one, at address k, loaded. *)
FetchNextChunk(s, k) ==
    LET r == S[s].result
        content == results[r].content
        index == NextChunk(s)
    IN  /\ Fetchable(s)
        /\ ~InChunk(s)
        /\ index < ChunkCount(content)
        /\ DestroyChunk(s)[k] = Nil
        /\ chunks' = [DestroyChunk(s) EXCEPT ![k] = [of |-> r, index |-> index]]
        /\ S' = [S EXCEPT ![s].chunk = k,
                          ![s].chunk_idx = 0,
                          ![s].chunk_size = ChunkSize(content, index),
                          ![s].total_rows = RowsConsumed(s),
                          ![s].next_chunk_index =
                              IF S[s].is_streaming THEN S[s].next_chunk_index
                                                   ELSE S[s].next_chunk_index + 1]
        /\ results' = [results EXCEPT ![r].served =
                              IF S[s].is_streaming THEN results[r].served + 1
                                                   ELSE results[r].served]
        /\ pdo' = [pdo EXCEPT ![s] = Describe(pdo[s])]
        /\ reply' = [reply EXCEPT ![s] = Row(RowAt([of |-> r, index |-> index], 0))]
        /\ UNCHANGED <<openStream, unbuffered>>

(* Defect: the end is not remembered. *)
FetchLastForgets(s) ==
    LET r == S[s].result IN
    /\ Fetchable(s)
    /\ ~InChunk(s)
    /\ NextChunk(s) >= ChunkCount(results[r].content)
    /\ chunks' = DestroyChunk(s)
    /\ S' = [S EXCEPT ![s].chunk = Nil,
                      ![s].chunk_idx = 0,
                      ![s].chunk_size = 0,
                      ![s].total_rows = RowsConsumed(s)]
    /\ results' = [results EXCEPT ![r].error = results[r].content.err]
    /\ openStream' = IF openStream = r THEN Nil ELSE openStream
    /\ reply' = [reply EXCEPT ![s] = IF results[r].content.err THEN Error ELSE End]
    /\ UNCHANGED <<pdo, unbuffered>>

(* No chunk is left: the end of the rows, or the error a stream met.  Either *)
(* way a stream is drained and the connection usable again.                  *)
FetchLast(s) ==
    LET r == S[s].result IN
    /\ Fetchable(s)
    /\ ~InChunk(s)
    /\ NextChunk(s) >= ChunkCount(results[r].content)
    /\ chunks' = DestroyChunk(s)
    /\ S' = [S EXCEPT ![s].chunk = Nil,
                      ![s].chunk_idx = 0,
                      ![s].chunk_size = 0,
                      ![s].total_rows = RowsConsumed(s),
                      ![s].done = TRUE]
    /\ results' = [results EXCEPT ![r].error = results[r].content.err]
    /\ openStream' = IF openStream = r THEN Nil ELSE openStream
    /\ reply' = [reply EXCEPT ![s] = IF results[r].content.err THEN Error ELSE End]
    /\ UNCHANGED <<pdo, unbuffered>>

Fetch(s) ==
    \/ FetchNothing(s)
    \/ FetchInChunk(s)
    \/ \E k \in Chunks : FetchNextChunk(s, k)
    \/ FetchLast(s)

(* PDOStatement::closeCursor(): duckdb_stmt_cursor_closer(), then PDO core. *)
CloseCursor(s) ==
    /\ S[s] # Nil
    /\ DropResult(s)
    /\ pdo' = [pdo EXCEPT ![s] = PdoClosed(pdo[s])]
    /\ UNCHANGED unbuffered

(* duckdb_stmt_dtor(), when PHP drops the statement object. *)
Destroy(s) ==
    /\ S[s] # Nil
    /\ chunks' = DestroyChunk(s)
    /\ results' = DestroyResult(s)
    /\ openStream' = StreamAfterDestroy(s)
    /\ S' = [S EXCEPT ![s] = Nil]
    /\ pdo' = [pdo EXCEPT ![s] = NewPdo]
    /\ reply' = [reply EXCEPT ![s] = NoRow]
    /\ UNCHANGED unbuffered

(* duckdb_set_attribute(PDO::DUCKDB_ATTR_UNBUFFERED), at any time. *)
SetUnbuffered ==
    /\ unbuffered' = ~unbuffered
    /\ UNCHANGED <<S, pdo, results, chunks, openStream, reply>>

StmtNext(s) ==
    Prepare(s) \/ Execute(s) \/ Fetch(s) \/ CloseCursor(s) \/ Destroy(s)

Next == SetUnbuffered \/ \E s \in Stmts : StmtNext(s)

Spec == Init /\ [][Next]_vars

(* A caller that loops over fetch(), as fetchAll() and foreach do. *)
FairSpec == Spec /\ \A s \in Stmts : WF_vars(Fetch(s))

-----------------------------------------------------------------------------
(* Properties *)

(***************************************************************************)
(* Every result and chunk that DuckDB handed out belongs to exactly one    *)
(* statement, and a statement never holds the address of a destroyed one:  *)
(* what the handlers create they destroy once, on every path through       *)
(* execute, fetch, close and free, the failing ones included.              *)
(***************************************************************************)
HoldsResult(s, r) == S[s] # Nil /\ S[s].result_set /\ S[s].result = r
HoldsChunk(s, k) == S[s] # Nil /\ S[s].chunk = k

Ownership ==
    /\ \A r \in Results : results[r] # Nil => \E s \in Stmts : HoldsResult(s, r)
    /\ \A k \in Chunks : chunks[k] # Nil => \E s \in Stmts : HoldsChunk(s, k)
    /\ \A s \in Stmts : S[s] # Nil =>
          /\ S[s].result_set <=> S[s].result # Nil
          /\ S[s].result # Nil => results[S[s].result] # Nil
          /\ S[s].chunk # Nil => chunks[S[s].chunk] # Nil
    /\ \A s, t \in Stmts : s # t =>
          /\ \A r \in Results : ~(HoldsResult(s, r) /\ HoldsResult(t, r))
          /\ \A k \in Chunks : ~(HoldsChunk(s, k) /\ HoldsChunk(t, k))

(***************************************************************************)
(* PDO core's column count, the bound in duckdb_stmt_get_col() and         *)
(* duckdb_stmt_get_col_meta(), is that of the result at hand.  The chunk   *)
(* at hand is one of this result, the last one taken from it; the row      *)
(* offset is inside it, and total_rows counts the rows before it.  A lazy  *)
(* row relies on this when it reads a column long after the fetch.         *)
(***************************************************************************)
ChunkAtHand(s) ==
    LET k == chunks[S[s].chunk]
        content == results[S[s].result].content
    IN  /\ S[s].result_set
        /\ k.of = S[s].result
        /\ NextChunk(s) = k.index + 1
        /\ k.index < ChunkCount(content)
        /\ S[s].chunk_size = ChunkSize(content, k.index)
        /\ S[s].chunk_idx < S[s].chunk_size
        /\ S[s].total_rows = RowsBefore(content, k.index)

ResultAtHand(s) ==
    LET result == results[S[s].result]
    IN  /\ S[s].is_streaming = result.streaming
        /\ pdo[s].column_count = result.content.cols
        /\ S[s].chunk = Nil /\ ~S[s].done =>      \* nothing fetched yet
              NextChunk(s) = 0 /\ S[s].total_rows = 0

Coherence ==
    \A s \in Stmts : S[s] # Nil =>
        /\ S[s].result_set => ResultAtHand(s)
        /\ S[s].chunk # Nil => ChunkAtHand(s)

(***************************************************************************)
(* A stream that keeps the connection busy ("connection has an open        *)
(* result; drain or destroy it") is always one that some statement can     *)
(* still drain or destroy: the connection is never stuck.                  *)
(***************************************************************************)
StreamReachable ==
    openStream # Nil =>
        \E s \in Stmts :
            /\ HoldsResult(s, openStream)
            /\ S[s].is_streaming
            /\ pdo[s].executed
            /\ ~S[s].done

(***************************************************************************)
(* PDO core frees the described columns by counting up to column_count:    *)
(* there are as many described columns as it will free.                    *)
(***************************************************************************)
ColumnsFreed == \A s \in Stmts : pdo[s].columns \in {Nil, pdo[s].column_count}

(***************************************************************************)
(* Each statement implements the abstract cursor: the rows of the latest   *)
(* successful execution in order, each once, then the end or the error.    *)
(***************************************************************************)
AbstractExecution(s) ==
    LET content == results[S[s].result].content
    IN  [rows |-> RowCount(content), err |-> content.err]

AbstractPosition(s) ==
    S[s].total_rows + IF S[s].chunk # Nil THEN S[s].chunk_idx + 1 ELSE 0

AbstractCursor(s) ==
    IF S[s] = Nil \/ ~S[s].result_set
      THEN [status |-> "closed"]
      ELSE [status |-> IF S[s].done THEN "ended" ELSE "open",
            exec |-> AbstractExecution(s),
            pos |-> AbstractPosition(s)]

Cursor == INSTANCE RowCursor WITH
    Executions <- {[rows |-> RowCount(c), err |-> c.err] : c \in Contents},
    cursor <- [s \in Stmts |-> AbstractCursor(s)]

RowsInOrder == Cursor!Spec

(***************************************************************************)
(* A caller that fetches until there is nothing left comes to an end,      *)
(* unless it keeps executing the statement again.                          *)
(***************************************************************************)
FetchAllEnds ==
    \A s \in Stmts :
        <>[][~Execute(s)]_vars => <>[](S[s] = Nil \/ ~Fetchable(s))
=============================================================================
