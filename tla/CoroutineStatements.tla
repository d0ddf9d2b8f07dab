------------------------- MODULE CoroutineStatements -------------------------
(***************************************************************************)
(* Coroutines of one PHP thread that work with the statements of one       *)
(* connection, in a process where Swoole was loaded first: module          *)
(* Statement with its long calls dispatched through module SwooleDispatch. *)
(* A handler that calls DuckDB is split where it yields:                   *)
(*                                                                         *)
(*   it is entered and runs up to the busy flag    ("entering")            *)
(*   it sleeps, or waits for a worker              ("waiting")             *)
(*   it is resumed, or refused, and runs to its end ("returning")          *)
(*                                                                         *)
(* What it read before it yielded is kept in its call; what it reads from  *)
(* the statement afterwards may have changed.  Handlers that do not yield  *)
(* are the actions of Statement as they are.                               *)
(***************************************************************************)
EXTENDS Statement, FiniteSets

CONSTANTS Coroutines,
          Overlap,      \* whether the program uses a statement while another
                        \* coroutine is inside a handler of it
          Workers       \* the size of Swoole's pool

ASSUME OverlapAssumption == Overlap \in BOOLEAN

Connection == "connection"

VARIABLES runtime, busy, pc, conn, state, ran, task, queue, thread,
          php,      \* the coroutine that has the PHP thread and has not yielded
          call,     \* per coroutine: the handler it is inside
          duck,     \* per statement: whose parameter is bound in DuckDB
          cut       \* history: statements whose last fetch the pool refused

stmtVars == <<S, pdo, results, chunks, openStream, unbuffered, reply>>
dispatchVars == <<runtime, busy, pc, conn, state, ran, task, queue, thread>>
allVars == <<stmtVars, dispatchVars, php, call, duck, cut>>

Dispatch == INSTANCE SwooleDispatch WITH
    Callers <- Coroutines,
    Conns <- {Connection},
    Runtimes <- {[usleep |-> TRUE, async |-> TRUE]}

(* The locals of a handler, and how far it is. *)
Call == [op : {"prepare", "execute", "fetch"}, stmt : Stmts,
         at : {"entering", "waiting", "returning"},
         unbuffered : BOOLEAN,              \* H->unbuffered as it was
         result : Results \cup {Nil},       \* the copy of S->result
         index : Nat,                       \* the chunk asked for
         chunk : Chunks \cup {Nil}]         \* the wrapper's local chunk

(* The null pointer is no coroutine, no call and not the connection. *)
ASSUME CoroutinesAssumption ==
    /\ Nil \notin Coroutines /\ Nil \notin Call /\ Nil # Connection
    /\ Workers \in Nat \ {0}

NewCall(op, s) ==
    [op |-> op, stmt |-> s, at |-> "entering", unbuffered |-> unbuffered,
     result |-> Nil, index |-> 0, chunk |-> Nil]

CTypeOK ==
    /\ TypeOK
    /\ Dispatch!TypeOK
    /\ php \in Coroutines \cup {Nil}
    /\ call \in [Coroutines -> Call \cup {Nil}]
    /\ duck \in [Stmts -> Coroutines \cup {Nil}]
    /\ cut \subseteq Stmts

CInit ==
    /\ Init
    /\ Dispatch!Init
    /\ php = Nil
    /\ call = [c \in Coroutines |-> Nil]
    /\ duck = [s \in Stmts |-> Nil]
    /\ cut = {}

-----------------------------------------------------------------------------
(* Control *)

(* c runs PHP code between two calls. *)
Free(c) == php = Nil /\ call[c] = Nil

(* c is inside a handler of statement s. *)
Inside(c, s) == call[c] # Nil /\ call[c].stmt = s

(* The program lets c call a handler of s: coroutines may hand a statement  *)
(* to each other between calls, and with Overlap use it at the same time.   *)
MayUse(c, s) ==
    /\ Free(c)
    /\ Overlap \/ \A d \in Coroutines : ~Inside(d, s)

(* The handler has come to the point where it calls DuckDB. *)
Enter(c, locals) ==
    /\ MayUse(c, locals.stmt)
    /\ call' = [call EXCEPT ![c] = locals]
    /\ php' = c
    /\ UNCHANGED dispatchVars

(* c is at the busy flag for the first time, or wakes up to look again. *)
AtFlag(c) ==
    \/ php = c /\ call[c].at = "entering"
    \/ php = Nil /\ call[c] # Nil /\ pc[c] = "asleep"

Proceed(c, place, next) ==
    /\ call' = [call EXCEPT ![c].at = place]
    /\ php' = next
    /\ UNCHANGED <<stmtVars, duck, cut>>

Sleeps(c) == AtFlag(c) /\ Dispatch!Wait(c, Connection) /\ Proceed(c, "waiting", Nil)

Queues(c) == AtFlag(c) /\ Dispatch!LockAndQueue(c, Connection) /\ Proceed(c, "waiting", Nil)

IsRefused(c) == AtFlag(c) /\ Dispatch!LockAndRefused(c, Connection) /\ Proceed(c, "returning", c)

Resumes(c) == php = Nil /\ Dispatch!Resume(c) /\ Proceed(c, "returning", c)

WorkerTakes == Dispatch!WorkerTakes /\ UNCHANGED <<stmtVars, php, call, duck, cut>>

(* A worker runs the DuckDB call of c. *)
Runs(c, op) ==
    /\ call[c] # Nil /\ call[c].op = op
    /\ Dispatch!WorkerEnds(c)
    /\ UNCHANGED <<pdo, unbuffered, reply, php, duck, cut>>

(* The handler is resumed behind its call, and returns. *)
Returning(c, op) == php = c /\ call[c].op = op /\ call[c].at = "returning"

Return(c) ==
    /\ call' = [call EXCEPT ![c] = Nil]
    /\ php' = Nil
    /\ UNCHANGED dispatchVars

(* A handler that does not yield. *)
AtOnce(c, s) ==
    /\ MayUse(c, s)
    /\ UNCHANGED <<dispatchVars, php, call>>

-----------------------------------------------------------------------------
(* duckdb_handle_preparer(): the statement is not visible until it returns. *)

PrepareEnters(c, s) ==
    /\ S[s] = Nil
    /\ \A d \in Coroutines : ~Inside(d, s)
    /\ Enter(c, NewCall("prepare", s))
    /\ UNCHANGED <<stmtVars, duck, cut>>

PrepareRuns(c) == Runs(c, "prepare") /\ UNCHANGED <<S, results, chunks, openStream, call>>

PrepareReturns(c) ==
    /\ Returning(c, "prepare")
    /\ IF state[c] = "DuckDBSuccess" THEN Prepare(call[c].stmt) ELSE UNCHANGED stmtVars
    /\ Return(c)
    /\ UNCHANGED <<duck, cut>>

-----------------------------------------------------------------------------
(* PDOStatement::execute(): the override, PDO core, the hook, the executer *)

(* Defect: the bindings are only cleared if there is a result. *)
UnbindsResult(s) ==
    duck' = IF S'[s].result_set THEN [duck EXCEPT ![s] = Nil] ELSE duck

(* The override clears the bindings, whatever came of the execution. *)
Unbinds(s) == duck' = [duck EXCEPT ![s] = Nil]

(* The hook refuses a parameter. *)
ExecuteIsRefused(c, s) ==
    /\ AtOnce(c, s)
    /\ \E first \in ClosesFirst : ExecuteRefused(s, first)
    /\ Unbinds(s)
    /\ UNCHANGED cut

(* Defect: the old result is left to be overwritten. *)
ExecuteEntersKeepsResult(c, s) ==
    /\ S[s] # Nil
    /\ Enter(c, NewCall("execute", s))
    /\ chunks' = DestroyChunk(s)
    /\ S' = [S EXCEPT ![s].chunk = Nil]
    /\ reply' = [reply EXCEPT ![s] = NoRow]
    /\ pdo' = [pdo EXCEPT ![s] = PdoBeforeExecute(s, TRUE)]
    /\ duck' = [duck EXCEPT ![s] = c]
    /\ cut' = cut \ {s}
    /\ UNCHANGED <<results, openStream, unbuffered>>

(* The hook binds, the executer drops the result and the chunk it had. *)
ExecuteEnters(c, s) ==
    /\ S[s] # Nil
    /\ Enter(c, NewCall("execute", s))
    /\ DropResult(s)
    /\ \E first \in ClosesFirst : pdo' = [pdo EXCEPT ![s] = PdoBeforeExecute(s, first)]
    /\ duck' = [duck EXCEPT ![s] = c]
    /\ cut' = cut \ {s}
    /\ UNCHANGED unbuffered

(* DuckDB writes the result to S->result, over what is there.  A result    *)
(* that only carries an error message is not followed further.             *)
ExecuteRuns(c) ==
    LET s == call[c].stmt IN
    /\ Runs(c, "execute")
    /\ UNCHANGED <<chunks, call>>
    /\ \/ /\ state'[c] = "DuckDBError"
          /\ S' = [S EXCEPT ![s].result = Nil]
          /\ UNCHANGED <<results, openStream>>
       \/ \E r \in Results, content \in Contents, streaming \in BOOLEAN :
             /\ state'[c] = "DuckDBSuccess"
             /\ openStream = Nil
             /\ streaming => call[c].unbuffered /\ content.cols > 0
             /\ content.err => streaming
             /\ results[r] = Nil
             /\ results' = [results EXCEPT ![r] =
                   [content |-> content, streaming |-> streaming, served |-> 0, error |-> FALSE]]
             /\ openStream' = IF streaming THEN r ELSE Nil
             /\ S' = [S EXCEPT ![s].result = r]

(* Defect: the attribute is read after the yield, not the result asked. *)
IsStreamingByAttribute(r) == unbuffered

(* What duckdb_column_count() and duckdb_result_is_streaming() say. *)
ColumnsOf(r) == IF r = Nil THEN 0 ELSE results[r].content.cols
IsStreaming(r) == r # Nil /\ results[r].streaming

(* The executer returns, PDO core and the override after it. *)
ExecuteReturns(c) ==
    LET s == call[c].stmt
        r == S[s].result
    IN  /\ Returning(c, "execute")
        /\ \/ /\ state[c] = "DuckDBError"
              /\ S' = [S EXCEPT ![s].result = Nil]
              /\ results' = IF r = Nil THEN results ELSE [results EXCEPT ![r] = Nil]
              /\ openStream' = IF r = openStream THEN Nil ELSE openStream
              /\ UNCHANGED pdo
           \/ /\ state[c] = "DuckDBSuccess"
              /\ S' = [S EXCEPT ![s] =
                    [result |-> r, chunk |-> Nil, chunk_idx |-> 0, chunk_size |-> 0,
                     done |-> ColumnsOf(r) = 0, result_set |-> TRUE,
                     is_streaming |-> IsStreaming(r),
                     next_chunk_index |-> 0, total_rows |-> 0]]
              /\ pdo' = [pdo EXCEPT ![s] = PdoAfterExecute(s, FALSE, ColumnsOf(r))]
              /\ UNCHANGED <<results, openStream>>
        /\ Unbinds(s)
        /\ Return(c)
        /\ UNCHANGED <<chunks, unbuffered, reply, cut>>

-----------------------------------------------------------------------------
(* duckdb_stmt_fetch() *)

(* The answers it gives without a call that yields. *)
FetchAtOnce(c, s) ==
    /\ AtOnce(c, s)
    /\ \/ FetchNothing(s)
       \/ FetchInChunk(s)
       \/ FetchLast(s) /\ ~S[s].is_streaming
    /\ UNCHANGED <<duck, cut>>

(* Defect: the index is passed after it has been incremented. *)
FetchEntersSkips(c, s) ==
    /\ Fetchable(s)
    /\ ~InChunk(s)
    /\ S[s].is_streaming \/ NextChunk(s) < ChunkCount(results[S[s].result].content)
    /\ Enter(c, [NewCall("fetch", s) EXCEPT
          !.result = S[s].result, !.index = S[s].next_chunk_index + 1])
    /\ chunks' = DestroyChunk(s)
    /\ S' = [S EXCEPT ![s].chunk = Nil,
                      ![s].chunk_idx = S[s].chunk_idx + 1,
                      ![s].total_rows = RowsConsumed(s),
                      ![s].next_chunk_index = S[s].next_chunk_index + 1]
    /\ UNCHANGED <<pdo, results, openStream, unbuffered, reply, duck, cut>>

(* The exhausted chunk is destroyed; the result goes to the call by value. *)
FetchEnters(c, s) ==
    /\ Fetchable(s)
    /\ ~InChunk(s)
    /\ S[s].is_streaming \/ NextChunk(s) < ChunkCount(results[S[s].result].content)
    /\ Enter(c, [NewCall("fetch", s) EXCEPT
          !.result = S[s].result, !.index = S[s].next_chunk_index])
    /\ chunks' = DestroyChunk(s)
    /\ S' = [S EXCEPT ![s].chunk = Nil,
                      ![s].chunk_idx = S[s].chunk_idx + 1,
                      ![s].total_rows = RowsConsumed(s),
                      ![s].next_chunk_index =
                          IF S[s].is_streaming THEN S[s].next_chunk_index
                                               ELSE S[s].next_chunk_index + 1]
    /\ UNCHANGED <<pdo, results, openStream, unbuffered, reply, duck, cut>>

(* DuckDB hands out the next chunk of a stream, or chunk number index.  On  *)
(* a destroyed result nothing is said of what it does.                      *)
FetchRuns(c) ==
    LET r == call[c].result
        index == IF results[r].streaming THEN results[r].served ELSE call[c].index
        left == index < ChunkCount(results[r].content)
    IN  /\ Runs(c, "fetch")
        /\ results[r] # Nil
        /\ state'[c] = IF left THEN "DuckDBSuccess" ELSE "DuckDBError"
        /\ UNCHANGED S
        /\ \/ /\ left
              /\ \E k \in Chunks :
                    /\ chunks[k] = Nil
                    /\ chunks' = [chunks EXCEPT ![k] = [of |-> r, index |-> index]]
                    /\ call' = [call EXCEPT ![c].chunk = k]
              /\ results' = [results EXCEPT ![r].served =
                    IF results[r].streaming THEN index + 1 ELSE results[r].served]
              /\ UNCHANGED openStream
           \/ /\ ~left
              /\ results' = [results EXCEPT ![r].error = results[r].content.err]
              /\ openStream' = IF openStream = r THEN Nil ELSE openStream
              /\ UNCHANGED <<chunks, call>>

FetchReturns(c) ==
    LET s == call[c].stmt
        k == call[c].chunk
        r == S[s].result
    IN  /\ Returning(c, "fetch")
        /\ \/ /\ k # Nil
              /\ S' = [S EXCEPT ![s].chunk = k,
                                ![s].chunk_idx = 0,
                                ![s].chunk_size = ChunkSize(results[chunks[k].of].content,
                                                            chunks[k].index)]
              /\ pdo' = [pdo EXCEPT ![s] = Describe(pdo[s])]
              /\ reply' = [reply EXCEPT ![s] = Row(RowAt(chunks[k], 0))]
              /\ UNCHANGED cut
           \/ /\ k = Nil
              /\ S' = [S EXCEPT ![s].chunk = Nil,
                                ![s].chunk_idx = 0,
                                ![s].chunk_size = 0,
                                ![s].done = TRUE]
              /\ reply' = [reply EXCEPT ![s] =
                    IF r # Nil /\ results[r].error THEN Error ELSE End]
              /\ cut' = IF ran[c] = 0 THEN cut \cup {s} ELSE cut
              /\ UNCHANGED pdo
        /\ Return(c)
        /\ UNCHANGED <<results, chunks, openStream, unbuffered, duck>>

-----------------------------------------------------------------------------
(* PDOStatement::closeCursor() *)
Closes(c, s) == AtOnce(c, s) /\ CloseCursor(s) /\ cut' = cut \ {s} /\ UNCHANGED duck

(* The last reference to the statement goes; a call in progress has one. *)
Drops(c, s) ==
    /\ AtOnce(c, s)
    /\ \A d \in Coroutines : ~Inside(d, s)
    /\ Destroy(s)
    /\ duck' = [duck EXCEPT ![s] = Nil]
    /\ cut' = cut \ {s}

SetsUnbuffered(c) ==
    /\ Free(c)
    /\ SetUnbuffered
    /\ UNCHANGED <<dispatchVars, php, call, duck, cut>>

CNext ==
    \/ \E c \in Coroutines, s \in Stmts :
          \/ PrepareEnters(c, s) \/ ExecuteEnters(c, s) \/ FetchEnters(c, s)
          \/ ExecuteIsRefused(c, s) \/ FetchAtOnce(c, s) \/ Closes(c, s) \/ Drops(c, s)
    \/ \E c \in Coroutines :
          \/ Sleeps(c) \/ Queues(c) \/ IsRefused(c) \/ Resumes(c)
          \/ PrepareRuns(c) \/ ExecuteRuns(c) \/ FetchRuns(c)
          \/ PrepareReturns(c) \/ ExecuteReturns(c) \/ FetchReturns(c)
          \/ SetsUnbuffered(c)
    \/ WorkerTakes

CSpec == CInit /\ [][CNext]_allVars

-----------------------------------------------------------------------------
(* Properties *)

(***************************************************************************)
(* A parameter that is bound in DuckDB belongs to an execution that has    *)
(* not returned.  It stays bound while the execution waits for the flag    *)
(* and for a worker; when the pool refuses the call, or DuckDB fails, the  *)
(* coroutine that the statement is handed to next must not meet it (the    *)
(* comment above the override of execute(): "always clear DuckDB           *)
(* bindings").                                                             *)
(***************************************************************************)
NoLeftoverBindings ==
    \A s \in Stmts : duck[s] # Nil =>
        Inside(duck[s], s) /\ call[duck[s]].op = "execute"

(***************************************************************************)
(* Nothing that DuckDB hands out is lost or held twice while handlers      *)
(* wait: a result belongs to the statement that will destroy it or to the  *)
(* execution that is about to return it, a chunk to a statement or to the  *)
(* fetch that is about to return it, and nobody holds a destroyed one.     *)
(***************************************************************************)
NotYetRun(c) == call[c].at \in {"entering", "waiting"} /\ task[c] # "done"

ResultOwner(o, r) ==
    \/ o \in Stmts /\ S[o] # Nil /\ S[o].result_set /\ S[o].result = r
    \/ /\ o \in Coroutines /\ call[o] # Nil /\ call[o].op = "execute"
       /\ ran[o] = 1 /\ ~NotYetRun(o)
       /\ S[call[o].stmt].result = r

ChunkOwner(o, k) ==
    \/ o \in Stmts /\ S[o] # Nil /\ S[o].chunk = k
    \/ o \in Coroutines /\ call[o] # Nil /\ call[o].chunk = k

OneOwner ==
    /\ \A r \in Results :
          Cardinality({o \in Stmts \cup Coroutines : ResultOwner(o, r)})
             = IF results[r] = Nil THEN 0 ELSE 1
    /\ \A k \in Chunks :
          Cardinality({o \in Stmts \cup Coroutines : ChunkOwner(o, k)})
             = IF chunks[k] = Nil THEN 0 ELSE 1

(***************************************************************************)
(* Between calls a statement is as module Statement says: column count,    *)
(* chunk, offset and counters belong to the result at hand, whatever other *)
(* coroutines did to the connection while a call of this one waited.  A    *)
(* statement whose fetch was refused has no chunk and is exempt.           *)
(***************************************************************************)
CoherentBetweenCalls ==
    \A s \in Stmts :
        S[s] # Nil /\ s \notin cut /\ (\A c \in Coroutines : ~Inside(c, s)) =>
            /\ S[s].result_set => ResultAtHand(s)
            /\ S[s].chunk # Nil => ChunkAtHand(s)

(***************************************************************************)
(* "TRUE when all rows have been fetched" (php_pdo_duckdb.h, on done): a   *)
(* statement that has answered the end has handed out every row of its     *)
(* result, and its stream does not keep the connection busy.               *)
(***************************************************************************)
AllFetched(s) ==
    /\ AbstractPosition(s) = RowCount(results[S[s].result].content)
    /\ openStream # S[s].result

DoneMeansAllFetched ==
    \A s \in Stmts :
        S[s] # Nil /\ S[s].result_set /\ S[s].done => AllFetched(s)

(***************************************************************************)
(* The same, but for a fetch that the pool refused: that one answers the   *)
(* end with rows left and the stream open.                                 *)
(***************************************************************************)
DoneUnlessRefused ==
    \A s \in Stmts \ cut :
        S[s] # Nil /\ S[s].result_set /\ S[s].done => AllFetched(s)

(***************************************************************************)
(* Coroutines with statements of their own: each still implements the      *)
(* abstract cursor of RowCursor, whatever the others do while it waits.    *)
(* The exception is a fetch that the pool refuses, which ends the rows.    *)
(***************************************************************************)
FetchRefused(c) ==
    Returning(c, "fetch") /\ ran[c] = 0 /\ FetchReturns(c)

RowsUnlessRefused ==
    /\ Cursor!Init
    /\ [][Cursor!Next \/ \E c \in Coroutines : FetchRefused(c)]_(Cursor!vars)
=============================================================================
