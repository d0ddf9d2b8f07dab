--------------------------- MODULE SwooleDispatch ---------------------------
(***************************************************************************)
(* swoole_run() of duckdb_swoole.cpp: how a long DuckDB call leaves the    *)
(* PHP thread.  Coroutines share one PHP thread and switch only where they *)
(* yield, so what a coroutine does between two yields is one action.  A    *)
(* coroutine takes the busy flag of the connection, or polls it; it hands  *)
(* the call to Swoole's pool of worker threads and yields; a worker runs   *)
(* the call in parallel with the PHP thread; the coroutine is resumed,     *)
(* clears the flag and returns.                                            *)
(*                                                                         *)
(* Swoole is not part of the repository: its pool is a FIFO queue served   *)
(* by a fixed number of workers, and its event loop resumes any coroutine  *)
(* whose sleep or task is over.                                            *)
(***************************************************************************)
EXTENDS Naturals, Sequences, FiniteSets

CONSTANTS Callers,       \* PHP code that calls into DuckDB
          Coroutines,    \* the callers that run inside a coroutine
          Conns,         \* the connections of this PHP thread
          Workers,       \* the size of Swoole's pool
          Runtimes,      \* which weak symbols of Swoole were resolved
          Nil

ASSUME CallersAssumption ==
    Coroutines \subseteq Callers /\ Nil \notin Callers /\ Nil \notin Conns

ASSUME WorkersAssumption == Workers \in Nat \ {0}

ASSUME RuntimesAssumption == Runtimes \subseteq [usleep : BOOLEAN, async : BOOLEAN]

VARIABLES runtime,    \* the symbols found, fixed when the extension is loaded
          busy,       \* per connection: the std::atomic_flag thread_lock
          pc,         \* per caller: where it is in swoole_run()
          conn,       \* per caller: the connection of its call
          state,      \* per caller: the duckdb_state that fn assigns
          ran,        \* per caller: how often fn ran in its last call
          task,       \* per caller: its task in the pool
          queue,      \* the tasks that no worker has taken yet
          thread      \* the caller that keeps the PHP thread, or Nil

vars == <<runtime, busy, pc, conn, state, ran, task, queue, thread>>

Places == {"out", "asleep", "spinning", "yielded", "inline"}
TaskStates == {"none", "queued", "running", "done"}
States == {"DuckDBSuccess", "DuckDBError"}

TypeOK ==
    /\ runtime \in Runtimes
    /\ busy \in [Conns -> BOOLEAN]
    /\ pc \in [Callers -> Places]
    /\ conn \in [Callers -> Conns \cup {Nil}]
    /\ state \in [Callers -> States]
    /\ ran \in [Callers -> Nat]
    /\ task \in [Callers -> TaskStates]
    /\ queue \in Seq(Callers)
    /\ thread \in Callers \cup {Nil}

(* pdo_duckdb_thread_lock_new() clears the flag of a new connection. *)
Init ==
    /\ runtime \in Runtimes
    /\ busy = [k \in Conns |-> FALSE]
    /\ pc = [c \in Callers |-> "out"]
    /\ conn = [c \in Callers |-> Nil]
    /\ state = [c \in Callers |-> "DuckDBError"]
    /\ ran = [c \in Callers |-> 0]
    /\ task = [c \in Callers |-> "none"]
    /\ queue = <<>>
    /\ thread = Nil

-----------------------------------------------------------------------------
(* The loop over test_and_set() *)

(* c comes to the loop with a new call on connection k ... *)
Calls(c, k) == thread = Nil /\ pc[c] = "out"

(* ... or comes back to it after a wait. *)
Retries(c, k) ==
    /\ conn[c] = k
    /\ \/ pc[c] = "asleep" /\ thread = Nil
       \/ pc[c] = "spinning" /\ thread = c

AtLock(c, k) == c \in Coroutines /\ (Calls(c, k) \/ Retries(c, k))

(* Defect: the wrapper leaves the state uninitialised. *)
FreshUninitialised(c) ==
    /\ state' = [state EXCEPT ![c] = "garbage"]
    /\ ran' = [ran EXCEPT ![c] = 0]

(* Defect: the wrapper assumes success. *)
FreshSuccess(c) ==
    /\ state' = [state EXCEPT ![c] = "DuckDBSuccess"]
    /\ ran' = [ran EXCEPT ![c] = 0]

(* The wrappers initialise the state that they return, for fn to assign. *)
Fresh(c) ==
    /\ state' = [state EXCEPT ![c] = "DuckDBError"]
    /\ ran' = [ran EXCEPT ![c] = 0]

(* The caller stays in swoole_run(), at a place where others may run ... *)
Yield(c, k, place) ==
    /\ pc' = [pc EXCEPT ![c] = place]
    /\ conn' = [conn EXCEPT ![c] = k]
    /\ thread' = Nil

(* ... or keeps the PHP thread ... *)
Keep(c, k, place) ==
    /\ pc' = [pc EXCEPT ![c] = place]
    /\ conn' = [conn EXCEPT ![c] = k]
    /\ thread' = c

(* ... or returns. *)
Leave(c) ==
    /\ pc' = [pc EXCEPT ![c] = "out"]
    /\ conn' = [conn EXCEPT ![c] = Nil]
    /\ thread' = Nil

(* The connection is in use: sleep, or without usleep spin on the thread. *)
Wait(c, k) ==
    /\ AtLock(c, k)
    /\ busy[k]
    /\ Fresh(c)
    /\ IF runtime.usleep THEN Yield(c, k, "asleep") ELSE Keep(c, k, "spinning")
    /\ UNCHANGED <<runtime, busy, task, queue>>

(* Defect: the flag is set without testing it. *)
LockAlways(c, k) ==
    /\ AtLock(c, k)
    /\ runtime.async
    /\ Fresh(c)
    /\ Yield(c, k, "yielded")
    /\ busy' = [busy EXCEPT ![k] = TRUE]
    /\ task' = [task EXCEPT ![c] = "queued"]
    /\ queue' = Append(queue, c)
    /\ UNCHANGED runtime

(* The flag is taken; async() queues the call and yields. *)
LockAndQueue(c, k) ==
    /\ AtLock(c, k)
    /\ ~busy[k]
    /\ runtime.async
    /\ Fresh(c)
    /\ Yield(c, k, "yielded")
    /\ busy' = [busy EXCEPT ![k] = TRUE]
    /\ task' = [task EXCEPT ![c] = "queued"]
    /\ queue' = Append(queue, c)
    /\ UNCHANGED runtime

(* Defect: a refusal returns without clearing the flag. *)
LockAndRefusedKeepsFlag(c, k) ==
    /\ AtLock(c, k)
    /\ ~busy[k]
    /\ runtime.async
    /\ Fresh(c)
    /\ Leave(c)
    /\ busy' = [busy EXCEPT ![k] = TRUE]
    /\ UNCHANGED <<runtime, task, queue>>

(* async() returns false: fn never runs, and its initial state is returned. *)
LockAndRefused(c, k) ==
    /\ AtLock(c, k)
    /\ ~busy[k]
    /\ runtime.async
    /\ Fresh(c)
    /\ Leave(c)
    /\ UNCHANGED <<runtime, busy, task, queue>>

(* Without the async symbol fn runs on the PHP thread, under the flag. *)
LockAndRun(c, k) ==
    /\ AtLock(c, k)
    /\ ~busy[k]
    /\ ~runtime.async
    /\ Fresh(c)
    /\ Keep(c, k, "inline")
    /\ busy' = [busy EXCEPT ![k] = TRUE]
    /\ UNCHANGED <<runtime, task, queue>>

(* Outside a coroutine fn runs on the PHP thread and the flag is ignored. *)
RunInline(c, k) ==
    /\ c \notin Coroutines
    /\ Calls(c, k)
    /\ Fresh(c)
    /\ Keep(c, k, "inline")
    /\ UNCHANGED <<runtime, busy, task, queue>>

-----------------------------------------------------------------------------
(* Running fn, and what follows *)

(* fn assigns the state; DuckDB decides which. *)
FnEnds(c) ==
    /\ \E outcome \in States : state' = [state EXCEPT ![c] = outcome]
    /\ ran' = [ran EXCEPT ![c] = ran[c] + 1]

InlineEnds(c) ==
    /\ pc[c] = "inline"
    /\ FnEnds(c)
    /\ Leave(c)
    /\ busy' = IF c \in Coroutines THEN [busy EXCEPT ![conn[c]] = FALSE] ELSE busy
    /\ UNCHANGED <<runtime, task, queue>>

(* A free worker thread takes the first task of the queue ... *)
WorkerTakes ==
    /\ queue # <<>>
    /\ Cardinality({c \in Callers : task[c] = "running"}) < Workers
    /\ task' = [task EXCEPT ![Head(queue)] = "running"]
    /\ queue' = Tail(queue)
    /\ UNCHANGED <<runtime, busy, pc, conn, state, ran, thread>>

(* ... runs it, and tells the event loop. *)
WorkerEnds(c) ==
    /\ task[c] = "running"
    /\ FnEnds(c)
    /\ task' = [task EXCEPT ![c] = "done"]
    /\ UNCHANGED <<runtime, busy, pc, conn, queue, thread>>

(* Defect: the coroutine does not wait for its task. *)
ResumeEarly(c) ==
    /\ thread = Nil
    /\ pc[c] = "yielded"
    /\ busy' = [busy EXCEPT ![conn[c]] = FALSE]
    /\ Leave(c)
    /\ UNCHANGED <<runtime, state, ran, task, queue>>

(* Defect: the flag is not cleared after async(). *)
ResumeKeepsFlag(c) ==
    /\ thread = Nil
    /\ pc[c] = "yielded"
    /\ task[c] = "done"
    /\ task' = [task EXCEPT ![c] = "none"]
    /\ Leave(c)
    /\ UNCHANGED <<runtime, busy, state, ran, queue>>

(* The event loop resumes the coroutine; it clears the flag and returns. *)
Resume(c) ==
    /\ thread = Nil
    /\ pc[c] = "yielded"
    /\ task[c] = "done"
    /\ task' = [task EXCEPT ![c] = "none"]
    /\ busy' = [busy EXCEPT ![conn[c]] = FALSE]
    /\ Leave(c)
    /\ UNCHANGED <<runtime, state, ran, queue>>

-----------------------------------------------------------------------------
Try(c, k) ==
    \/ Wait(c, k)
    \/ LockAndQueue(c, k)
    \/ LockAndRefused(c, k)
    \/ LockAndRun(c, k)

Next ==
    \/ \E c \in Callers, k \in Conns : Try(c, k) \/ RunInline(c, k)
    \/ \E c \in Callers : InlineEnds(c) \/ WorkerEnds(c) \/ Resume(c)
    \/ WorkerTakes

Spec == Init /\ [][Next]_vars

(* A coroutine that is in the loop tries again. *)
TryAgain(c) == \E k \in Conns : Retries(c, k) /\ Try(c, k)

(* DuckDB calls end, workers work, the event loop serves timers and tasks. *)
FairSpec ==
    /\ Spec
    /\ WF_vars(WorkerTakes)
    /\ \A c \in Callers :
          /\ WF_vars(InlineEnds(c))
          /\ WF_vars(WorkerEnds(c))
          /\ WF_vars(Resume(c))
          /\ WF_vars(TryAgain(c))

-----------------------------------------------------------------------------
(* Properties *)

(* fn is running for c. *)
InCall(c) == pc[c] = "inline" \/ task[c] = "running"

(* c has taken the flag of connection k and has not cleared it. *)
Holds(c, k) == c \in Coroutines /\ conn[c] = k /\ pc[c] \in {"yielded", "inline"}

(***************************************************************************)
(* Two coroutines never have a DuckDB call in progress on one connection.  *)
(***************************************************************************)
Exclusive ==
    \A c, d \in Coroutines :
        InCall(c) /\ InCall(d) /\ conn[c] = conn[d] => c = d

(***************************************************************************)
(* The flag of a connection is set exactly while one coroutine is between  *)
(* taking and clearing it: no path through swoole_run(), the refusal of    *)
(* async() included, leaves it set or clears another's.                    *)
(***************************************************************************)
FlagHasOneHolder ==
    /\ \A k \in Conns : busy[k] <=> \E c \in Coroutines : Holds(c, k)
    /\ \A c, d \in Coroutines, k \in Conns : Holds(c, k) /\ Holds(d, k) => c = d

(***************************************************************************)
(* A task in the pool captures locals of its caller by reference (state,   *)
(* and through out_result the statement): the caller is still inside       *)
(* swoole_run() until the task is over.                                    *)
(***************************************************************************)
NoDanglingTask == \A c \in Callers : task[c] # "none" <=> pc[c] = "yielded"

(***************************************************************************)
(* A wrapper that returns success has run its call, and no call runs twice *)
(* however often the caller polled the flag.                               *)
(***************************************************************************)
SuccessMeansRan ==
    \A c \in Callers :
        /\ ran[c] <= 1
        /\ state[c] = "DuckDBSuccess" => ran[c] = 1

(***************************************************************************)
(* A call returns, once the others stop making new calls: while they go on *)
(* the polled flag promises nothing, it has no queue.  A runtime that      *)
(* resolved async without usleep is excluded: there the caller spins on    *)
(* the PHP thread that the holder needs to be resumed on.                  *)
(***************************************************************************)
NewCall(c) == pc[c] = "out" /\ pc'[c] # "out"

CallReturns ==
    (runtime.usleep \/ ~runtime.async) =>
        \A c \in Callers :
            <>[][\A d \in Callers \ {c} : ~NewCall(d)]_vars
                => (pc[c] # "out" ~> pc[c] = "out")

(***************************************************************************)
(* "DuckDB calls serialized through `lock`" (php_pdo_duckdb.h), "The       *)
(* connection lock is held for the whole call" (above swoole_run()): two   *)
(* calls on one connection never overlap, whoever makes them.              *)
(***************************************************************************)
CallsSerialized ==
    \A c, d \in Callers :
        InCall(c) /\ InCall(d) /\ conn[c] = conn[d] => c = d
=============================================================================
