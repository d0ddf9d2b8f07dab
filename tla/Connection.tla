----------------------------- MODULE Connection ------------------------------
(***************************************************************************)
(* The life of a PDO object: the factory of duckdb_driver.c opens a        *)
(* database, connects and runs the initial command, and gives back what it *)
(* holds where one of them fails; coroutines that share the object execute *)
(* SQL text and begin and end transactions; the closer releases it.  Every *)
(* DuckDB call of it goes through module SwooleDispatch if the connection  *)
(* has a thread_lock, and runs at once on the PHP thread if it has none.   *)
(*                                                                         *)
(* PHP and PDO core are external: the object is freed with its last        *)
(* reference, a call in progress has one, and so has a statement; a free   *)
(* object that is inside a transaction is rolled back first; before        *)
(* beginTransaction(), commit() and rollBack() PDO core asks in_transaction.*)
(***************************************************************************)
EXTENDS Integers, Sequences, FiniteSets

CONSTANTS Callers,       \* PHP code that uses the object
          Coroutines,    \* the callers that run inside a coroutine of Swoole
          Spellings,     \* how many keys of the options can spell "timezone"
          Workers,       \* the size of Swoole's pool
          Nil

ASSUME SpellingsAssumption == Spellings \in Nat

ASSUME CallersAssumption == Coroutines \subseteq Callers

ASSUME WorkersAssumption == Workers \in Nat \ {0}

VARIABLES runtime, busy, pc, conn, state, ran, task, queue, thread,
          loaded,    \* Swoole was loaded before the driver
          dbh,       \* the PDO object
          H,         \* which pointers of dbh->driver_data are not NULL, or Nil
          heap,      \* per thing: how often created minus how often destroyed
          active,    \* DuckDB: the connection is inside a transaction
          php,       \* the caller that has the PHP thread and has not yielded
          call,      \* per caller: the locals of the handler it is inside
          answer     \* the last answer of a handler, and to whom

dispatchVars == <<runtime, busy, pc, conn, state, ran, task, queue, thread>>
objectVars == <<dbh, H, heap, active>>
vars == <<dispatchVars, loaded, objectVars, php, call, answer>>

Dispatch == INSTANCE SwooleDispatch WITH
    Conns <- {"connection"},
    Runtimes <- {[usleep |-> TRUE, async |-> TRUE]}

Things == {"H", "thread_lock", "dbname", "config", "init_command", "err", "db", "conn"}

(* NULL, an empty string, or SQL text *)
Commands == {Nil, "empty", "text"}

Call == [op : {"open", "connect", "init", "exec", "begin", "commit", "rollBack", "free"},
         at : {"entering", "waiting", "returning", "crashed"},
         init_command : Commands,
         init_zval : Commands,                     \* the option, not yet appended
         result : {"unwritten", "ok", "error"},
         refused : BOOLEAN]                        \* history: by the pool

(* The null pointer is no object. *)
ASSUME NilAssumption ==
    /\ Nil \notin Callers
    /\ Nil \notin Call
    /\ Nil \notin [thread_lock : BOOLEAN, db : BOOLEAN, conn : BOOLEAN]
    /\ Nil \notin {"connection", "empty", "text"}

NewCall(op) == [op |-> op, at |-> "entering", init_command |-> Nil,
                init_zval |-> Nil, result |-> "unwritten", refused |-> FALSE]

TypeOK ==
    /\ Dispatch!TypeOK
    /\ loaded \in BOOLEAN
    /\ dbh \in {"none", "constructing", "open", "freeing"}
    /\ H \in [thread_lock : BOOLEAN, db : BOOLEAN, conn : BOOLEAN] \cup {Nil}
    /\ heap \in [Things -> Int]
    /\ active \in BOOLEAN
    /\ php \in Callers \cup {Nil}
    /\ call \in [Callers -> Call \cup {Nil}]
    /\ answer \in Callers \X BOOLEAN \cup {<<>>}

Init ==
    /\ Dispatch!Init
    /\ loaded \in BOOLEAN
    /\ dbh = "none"
    /\ H = Nil
    /\ heap = [t \in Things |-> 0]
    /\ active = FALSE
    /\ php = Nil
    /\ call = [c \in Callers |-> Nil]
    /\ answer = <<>>

-----------------------------------------------------------------------------
(* Control: a handler is entered, calls DuckDB, and returns *)

(* c runs PHP code between two calls. *)
Ready(c) == php = Nil /\ call[c] = Nil /\ (c \in Coroutines => loaded)

Begin(c, locals) ==
    /\ Ready(c)
    /\ call' = [call EXCEPT ![c] = locals]
    /\ php' = c
    /\ UNCHANGED answer

(* The handler of c has come to its DuckDB call ... *)
AtCall(c) == php = c /\ call[c].at = "entering"

(* ... or wakes up to look at the flag again. *)
AtFlag(c) ==
    /\ H # Nil /\ H.thread_lock
    /\ AtCall(c) \/ (php = Nil /\ call[c] # Nil /\ pc[c] = "asleep")

Proceed(c, place, next) ==
    /\ call' = [call EXCEPT ![c].at = place]
    /\ php' = next
    /\ UNCHANGED <<loaded, objectVars, answer>>

(* Defect: a call that finds the flag set returns instead of waiting. *)
SleepsNot(c) ==
    /\ AtFlag(c)
    /\ c \in Coroutines /\ busy["connection"]
    /\ UNCHANGED dispatchVars
    /\ Proceed(c, "returning", c)

Sleeps(c) == AtFlag(c) /\ Dispatch!Wait(c, "connection") /\ Proceed(c, "waiting", Nil)

Queues(c) == AtFlag(c) /\ Dispatch!LockAndQueue(c, "connection") /\ Proceed(c, "waiting", Nil)

(* The wrapper returns the DuckDBError it began with. *)
IsRefused(c) ==
    /\ AtFlag(c)
    /\ Dispatch!LockAndRefused(c, "connection")
    /\ call' = [call EXCEPT ![c].at = "returning", ![c].refused = TRUE]
    /\ php' = c
    /\ UNCHANGED <<loaded, objectVars, answer>>

Resumes(c) == php = Nil /\ Dispatch!Resume(c) /\ Proceed(c, "returning", c)

WorkerTakes ==
    /\ Dispatch!WorkerTakes
    /\ UNCHANGED <<loaded, objectVars, php, call, answer>>

(* Outside a coroutine the call runs on the PHP thread, flag or not. *)
GoesInline(c) == AtFlag(c) /\ Dispatch!RunInline(c, "connection") /\ Proceed(c, "waiting", c)

-----------------------------------------------------------------------------
(* What DuckDB does *)

Change(created, destroyed) ==
    [t \in Things |-> heap[t] + (IF t \in created THEN 1 ELSE 0)
                              - (IF t \in destroyed THEN 1 ELSE 0)]

Succeeds(c) == state'[c] = "DuckDBSuccess"

(* duckdb_get_or_create_from_cache() *)
OpenRuns(c, place) ==
    /\ call[c].op = "open"
    /\ call' = [call EXCEPT ![c].at = place]
    /\ \/ /\ Succeeds(c)
          /\ heap' = Change({"db"}, {})
          /\ H' = [H EXCEPT !.db = TRUE]
       \/ /\ ~Succeeds(c)
          /\ \E err \in SUBSET {"err"} : heap' = Change(err, {})
          /\ UNCHANGED H
    /\ UNCHANGED active

(* duckdb_connect() *)
ConnectRuns(c, place) ==
    /\ call[c].op = "connect"
    /\ call' = [call EXCEPT ![c].at = place]
    /\ heap' = Change(IF Succeeds(c) THEN {"conn"} ELSE {}, {})
    /\ H' = [H EXCEPT !.conn = Succeeds(c)]
    /\ UNCHANGED active

(* duckdb_query() of a statement that begins or ends a transaction, or of  *)
(* SQL text: the result is written whatever comes of it.  A COMMIT or      *)
(* ROLLBACK that fails may have ended the transaction.                     *)
QueryRuns(c, place) ==
    LET op == call[c].op IN
    /\ op \notin {"open", "connect"}
    /\ call' = [call EXCEPT ![c].at = place,
                            ![c].result = IF Succeeds(c) THEN "ok" ELSE "error"]
    /\ \/ op \in {"init", "exec"} /\ active' \in BOOLEAN
       \/ op = "begin" /\ Succeeds(c) /\ ~active /\ active' = TRUE
       \/ op \in {"commit", "rollBack", "free"} /\ Succeeds(c) /\ active /\ active' = FALSE
       \/ op = "begin" /\ ~Succeeds(c) /\ UNCHANGED active
       \/ op \in {"commit", "rollBack", "free"} /\ ~Succeeds(c) /\ active' \in {active, FALSE}
    /\ UNCHANGED <<heap, H>>

Runs(c, place) ==
    /\ OpenRuns(c, place) \/ ConnectRuns(c, place) \/ QueryRuns(c, place)
    /\ UNCHANGED <<loaded, dbh, php, answer>>

RunsOnWorker(c) == Dispatch!WorkerEnds(c) /\ Runs(c, "waiting")

RunsInline(c) == Dispatch!InlineEnds(c) /\ Runs(c, "returning")

(* Without a lock: neither Swoole nor its flag have a part in it. *)
RunsDirectly(c) ==
    /\ AtCall(c)
    /\ ~H.thread_lock
    /\ Dispatch!FnEnds(c)
    /\ UNCHANGED <<runtime, busy, pc, conn, task, queue, thread>>
    /\ Runs(c, "returning")

-----------------------------------------------------------------------------
(* The ways a handler goes on *)

(* The wrapper has returned, and its locals are gone. *)
Returning(c, op) ==
    /\ php = c /\ call[c].op = op /\ call[c].at = "returning"
    /\ state' = [state EXCEPT ![c] = "DuckDBError"]
    /\ ran' = [ran EXCEPT ![c] = 0]
    /\ UNCHANGED <<runtime, busy, pc, conn, task, queue, thread, loaded>>

(* It comes to its next DuckDB call ... *)
GoesOn(c, op, command) ==
    /\ call' = [call EXCEPT ![c] = [NewCall(op) EXCEPT !.init_zval = call[c].init_zval,
                                                       !.init_command = command]]
    /\ UNCHANGED <<php, dbh, answer>>

(* ... or returns. *)
Return(c, true) ==
    /\ call' = [call EXCEPT ![c] = Nil]
    /\ php' = Nil
    /\ answer' = <<c, true>>

Success(c) == state[c] = "DuckDBSuccess"

(* The error is read from the result, and the result destroyed.  Where the *)
(* pool refused the call both find bytes of the stack that nobody wrote:   *)
(* that may look like an empty result, or be the end of the process.       *)
Crashes(c) ==
    /\ php = c /\ call[c].at = "returning"
    /\ call[c].op \notin {"open", "connect"}
    /\ call[c].result = "unwritten"
    /\ call' = [call EXCEPT ![c].at = "crashed"]
    /\ UNCHANGED <<dispatchVars, loaded, objectVars, php, answer>>

TheLock == IF H.thread_lock THEN {"thread_lock"} ELSE {}
TheCommand(c) == IF call[c].init_command = Nil THEN {} ELSE {"init_command"}

(* dbh->driver_data is NULL again; what happens to the object next finds nothing. *)
GivenBack(released) ==
    /\ heap' = Change({}, released)
    /\ H' = Nil
    /\ dbh' = "none"

(* duckdb_handle_closer(); disconnecting ends a transaction. *)
Closer(released) ==
    /\ GivenBack({"H"} \cup TheLock
                 \cup (IF H.conn THEN {"conn"} ELSE {})
                 \cup (IF H.db THEN {"db"} ELSE {}) \cup released)
    /\ active' = FALSE

-----------------------------------------------------------------------------
(* duckdb_handle_factory() *)

(* Defect: the flag of a new lock is not cleared. *)
LockNewUncleared(lock) ==
    IF lock THEN busy' \in [{"connection"} -> BOOLEAN] ELSE UNCHANGED busy

(* pdo_duckdb_thread_lock_new(); without memory or Swoole there is no lock. *)
LockNew(lock) ==
    IF lock THEN busy' = [k \in {"connection"} |-> FALSE] ELSE UNCHANGED busy

(* Each key that spells "timezone" allocates init_command anew; persistent  *)
(* connections are refused before anything is allocated.                   *)
Constructs(c) ==
    /\ dbh = "none"
    /\ \E timezones \in 0 .. Spellings, init \in Commands, lock \in BOOLEAN :
          /\ lock => loaded
          /\ LockNew(lock)
          /\ H' = [thread_lock |-> lock, db |-> FALSE, conn |-> FALSE]
          /\ heap' = [Change({"H", "dbname", "config"}
                             \cup (IF lock THEN {"thread_lock"} ELSE {}), {})
                      EXCEPT !["init_command"] = @ + timezones]
          /\ Begin(c, [NewCall("open") EXCEPT
                !.init_command = IF timezones = 0 THEN Nil ELSE "text",
                !.init_zval = init])
    /\ dbh' = "constructing"
    /\ UNCHANGED <<runtime, pc, conn, state, ran, task, queue, thread, loaded, active>>

(* The database is open, or all is given back. *)
OpenReturns(c) ==
    /\ Returning(c, "open")
    /\ \/ /\ Success(c)
          /\ heap' = Change({}, {"config", "dbname"})
          /\ GoesOn(c, "connect", call[c].init_command)
          /\ UNCHANGED H
       \/ /\ ~Success(c)
          /\ GivenBack({"config", "dbname", "H"} \cup TheLock \cup TheCommand(c)
                       \cup {t \in {"err"} : heap[t] > 0})
          /\ Return(c, FALSE)
    /\ UNCHANGED active

(* The option DUCKDB_ATTR_INIT_COMMAND is appended to the time zone's command. *)
WholeCommand(c) ==
    IF call[c].init_command = "text" THEN "text" ELSE call[c].init_zval

(* Defect: the database stays open if it cannot be connected to. *)
ConnectFailsOpen(c) == GivenBack({"H"} \cup TheLock \cup TheCommand(c))

ConnectFails(c) == GivenBack({"db", "H"} \cup TheLock \cup TheCommand(c))

(* Defect: the string that the option was appended to is freed too soon. *)
AppendOptionFrees(c) == Change({}, TheCommand(c))

AppendOption(c) == Change({"init_command"} \ TheCommand(c), {})

ConnectReturns(c) ==
    /\ Returning(c, "connect")
    /\ \/ /\ ~Success(c)
          /\ ConnectFails(c)
          /\ Return(c, FALSE)
       \/ /\ Success(c)
          /\ WholeCommand(c) = "text"
          /\ heap' = AppendOption(c)
          /\ GoesOn(c, "init", "text")
          /\ UNCHANGED H
       \/ /\ Success(c)
          /\ WholeCommand(c) # "text"
          /\ heap' = Change({}, TheCommand(c))
          /\ dbh' = "open"
          /\ Return(c, TRUE)
          /\ UNCHANGED H
    /\ UNCHANGED active

(* The initial command has run; dbh->methods is assigned, or all is given back. *)
InitReturns(c) ==
    /\ Returning(c, "init")
    /\ Return(c, Success(c))
    /\ \/ /\ Success(c)
          /\ heap' = Change({}, {"init_command"})
          /\ dbh' = "open"
          /\ UNCHANGED <<H, active>>
       \/ /\ ~Success(c)
          /\ Closer({"init_command"})

-----------------------------------------------------------------------------
(* The methods of an open connection *)

(* duckdb_has_active_transaction() is not behind the flag: while a worker   *)
(* runs a query it reads what the worker is writing.                       *)
InTransaction ==
    IF \E d \in Callers : task[d] = "running" THEN BOOLEAN ELSE {active}

Enters(c, op) ==
    /\ dbh = "open"
    /\ Begin(c, NewCall(op))
    /\ UNCHANGED <<dispatchVars, loaded, objectVars>>

(* PDO core throws "There is already an active transaction", or the like. *)
NotLetThrough(c, op) ==
    /\ dbh = "open"
    /\ Ready(c)
    /\ (op = "begin") \in InTransaction
    /\ answer' = <<c, FALSE>>
    /\ UNCHANGED <<dispatchVars, loaded, objectVars, php, call>>

TransactionEnters(c, op) == (op # "begin") \in InTransaction /\ Enters(c, op)

ExecEnters(c) == Enters(c, "exec")

(* The doer, begin, commit and rollback: what the caller is told is the     *)
(* state that the wrapper returned.                                        *)
QueryReturns(c, op) ==
    /\ Returning(c, op)
    /\ Return(c, Success(c))
    /\ UNCHANGED objectVars

(* The last reference to the object goes. *)
Frees(c) ==
    /\ dbh = "open"
    /\ \A d \in Callers : call[d] = Nil
    /\ UNCHANGED <<dispatchVars, loaded>>
    /\ \/ /\ active
          /\ Begin(c, NewCall("free"))
          /\ dbh' = "freeing"
          /\ UNCHANGED <<H, heap, active>>
       \/ /\ ~active
          /\ Ready(c)
          /\ Closer({})
          /\ UNCHANGED <<php, call, answer>>

FreeReturns(c) ==
    /\ Returning(c, "free")
    /\ Closer({})
    /\ Return(c, Success(c))

-----------------------------------------------------------------------------
Transactional == {"begin", "commit", "rollBack"}

Continues(c) ==
    \/ Sleeps(c) \/ Queues(c) \/ IsRefused(c) \/ GoesInline(c) \/ Resumes(c)
    \/ RunsOnWorker(c) \/ RunsInline(c) \/ RunsDirectly(c)
    \/ Crashes(c)
    \/ OpenReturns(c) \/ ConnectReturns(c) \/ InitReturns(c) \/ FreeReturns(c)
    \/ \E op \in Transactional \cup {"exec"} : QueryReturns(c, op)

(* Nothing happens on the PHP thread any more. *)
Gone == \E c \in Callers : php = c /\ call[c].at = "crashed" /\ UNCHANGED vars

Next ==
    \/ \E c \in Callers :
          \/ Constructs(c) \/ ExecEnters(c) \/ Frees(c)
          \/ \E op \in Transactional : NotLetThrough(c, op) \/ TransactionEnters(c, op)
          \/ Continues(c)
    \/ WorkerTakes
    \/ Gone

Spec == Init /\ [][Next]_vars

(* Workers work, and who is inside a handler goes on. *)
FairSpec ==
    /\ Spec
    /\ WF_vars(WorkerTakes)
    /\ \A c \in Callers : WF_vars(Continues(c))

-----------------------------------------------------------------------------
(* Properties *)

(***************************************************************************)
(* Opening, connecting or the initial command may fail, be refused by the  *)
(* pool, or succeed, with or without a lock: what the factory allocates is *)
(* destroyed once on every path, and an open object holds its handle,      *)
(* database, connection and lock and nothing else.                         *)
(***************************************************************************)
ReleasedOnce ==
    /\ \A t \in Things : heap[t] \in {0, 1}
    /\ dbh = "none" => \A t \in Things : heap[t] = 0
    /\ dbh = "open" =>
          {t \in Things : heap[t] = 1} = {"H", "db", "conn"} \cup TheLock

(***************************************************************************)
(* While a call waits for the flag, for a worker or for its answer, what   *)
(* it uses is still there: the lock that is polled and cleared, and the    *)
(* strings, config, database and connection that DuckDB is given.          *)
(***************************************************************************)
NeededBy(op) ==
    CASE op = "open" -> {"H", "config", "dbname"}
      [] op = "connect" -> {"H", "db"}
      [] op = "init" -> {"H", "db", "conn", "init_command"}
      [] OTHER -> {"H", "db", "conn"}

NoUseAfterRelease ==
    \A c \in Callers :
        /\ pc[c] # "out" => heap["thread_lock"] > 0
        /\ pc[c] # "out" \/ AtCall(c) =>
              \A t \in NeededBy(call[c].op) : heap[t] > 0

(***************************************************************************)
(* A handler reads and destroys the result of its query, whatever state it *)
(* was returned.  It only ever meets one that DuckDB has written, and so   *)
(* ends the process only where the pool refused the call.                  *)
(***************************************************************************)
ResultsWritten ==
    \A c \in Callers :
        call[c] # Nil /\ call[c].at \in {"returning", "crashed"} =>
            \/ call[c].op \in {"open", "connect"}
            \/ call[c].result # "unwritten"
            \/ call[c].refused

(***************************************************************************)
(* Coroutines that share the object see it as module Transactions says,    *)
(* although in_transaction is asked before the flag is taken and reads a   *)
(* connection that a worker may be using: of two that were both told there *)
(* is no transaction only one begins one, and no answer is made up where   *)
(* the pool refuses a call.                                                *)
(***************************************************************************)
Asked(c) ==
    IF call[c] = Nil THEN "none"
    ELSE IF call[c].op \in Transactional THEN call[c].op ELSE "text"

Took(c) ==
    IF call[c] = Nil \/ call[c].result = "unwritten" THEN "no"
    ELSE IF call[c].result = "ok" THEN "yes" ELSE "failed"

Shared == INSTANCE Transactions WITH
    asked <- [c \in Callers |-> Asked(c)],
    took <- [c \in Callers |-> Took(c)]

TransactionsKept == Shared!Spec

(***************************************************************************)
(* new PDO() and the destructor come to an end, without any assumption     *)
(* about what others do: nobody shares the lock of an object under         *)
(* construction, its flag is clear, and a refused call is not retried.     *)
(* (A refused query may end the process instead.)                          *)
(***************************************************************************)
ConstructorReturns ==
    dbh \in {"constructing", "freeing"} ~>
        dbh \in {"open", "none"} \/ \E c \in Callers : call[c] # Nil /\ call[c].at = "crashed"
=============================================================================
