--------------------------- MODULE ConnectionProofs ---------------------------
(***************************************************************************)
(* Proofs about module Connection, for any number of coroutines and other  *)
(* callers, any size of the pool and any number of spellings.  What is     *)
(* proved of SwooleDispatch is used by way of its instance P.              *)
(***************************************************************************)
EXTENDS Connection, TLAPS

P == INSTANCE DispatchProofs WITH
    Conns <- {"connection"},
    Runtimes <- {[usleep |-> TRUE, async |-> TRUE]}

-----------------------------------------------------------------------------
(* The inductive invariant *)

(* A handler waits while it is inside swoole_run(), which it enters only    *)
(* with a lock; and its call has not run before.                           *)
Placed(c) ==
    /\ php = c => call[c] # Nil
    /\ call[c] = Nil => pc[c] = "out" /\ ran[c] = 0 /\ state[c] = "DuckDBError"
    /\ call[c] # Nil =>
          /\ call[c].at = "waiting" <=> pc[c] # "out"
          /\ call[c].at = "entering" => ran[c] = 0 /\ state[c] = "DuckDBError"
          /\ pc[c] # "out" => H.thread_lock

(* Whoever constructs or frees the object has it alone, and what exists of *)
(* it is told by how far the caller has come.                              *)
Staged(c) ==
    call[c] # Nil =>
        /\ dbh # "none"
        /\ dbh = "constructing" <=> call[c].op \in {"open", "connect", "init"}
        /\ dbh = "freeing" <=> call[c].op = "free"
        /\ dbh # "open" => \A d \in Callers : d # c => call[d] = Nil
        /\ call[c].op = "open" => (H.db <=> Success(c)) /\ ~H.conn
        /\ call[c].op = "connect" => H.db /\ (H.conn <=> Success(c))
        /\ call[c].op \notin {"open", "connect"} => H.db /\ H.conn
        /\ call[c].op = "init" => call[c].init_command = "text"
        /\ dbh # "constructing" => call[c].init_command = Nil

(* The result is as the state says, once the call has run. *)
Resulted(c) ==
    call[c] # Nil =>
        /\ call[c].result = "ok" <=> call[c].op \notin {"open", "connect"} /\ Success(c)
        /\ ran[c] = 0 => call[c].result = "unwritten"
        /\ call[c].at \in {"returning", "crashed"} \/ task[c] = "done" =>
              \/ call[c].op \in {"open", "connect"}
              \/ call[c].result # "unwritten"
              \/ call[c].refused

ObjectOK ==
    /\ dbh = "none" <=> H = Nil
    /\ dbh = "open" => H.db /\ H.conn

Opening == \E c \in Callers : call[c] # Nil /\ call[c].op = "open"

OpenFailed ==
    \E c \in Callers :
        call[c] # Nil /\ call[c].op = "open" /\ ran[c] = 1 /\ ~Success(c)

Commanded == \E c \in Callers : call[c] # Nil /\ call[c].init_command # Nil

Times(b) == IF b THEN 1 ELSE 0

(* What exists is what a pointer, or a caller's local, leads to.  Several  *)
(* spellings of "timezone" leave initial commands behind, nothing else.    *)
HeapOK ==
    /\ heap["H"] = Times(H # Nil)
    /\ heap["thread_lock"] = Times(H # Nil /\ H.thread_lock)
    /\ heap["db"] = Times(H # Nil /\ H.db)
    /\ heap["conn"] = Times(H # Nil /\ H.conn)
    /\ heap["dbname"] = Times(Opening)
    /\ heap["config"] = Times(Opening)
    /\ heap["err"] \in {0, 1} /\ (heap["err"] = 1 => OpenFailed)
    /\ heap["init_command"] >= Times(Commanded)
    /\ Spellings <= 1 => heap["init_command"] = Times(Commanded)

IInv ==
    /\ TypeOK
    /\ P!IInv
    /\ \A c \in Callers : Placed(c) /\ Staged(c) /\ Resulted(c)
    /\ ObjectOK
    /\ HeapOK

-----------------------------------------------------------------------------
(* What SwooleDispatch contributes *)

LEMMA DispatchAssumptions ==
    /\ Coroutines \subseteq Callers
    /\ Nil \notin Callers
    /\ Nil \notin {"connection"}
    /\ Workers \in Nat \ {0}
    /\ {[usleep |-> TRUE, async |-> TRUE]} \subseteq [usleep : BOOLEAN, async : BOOLEAN]
  BY CallersAssumption, WorkersAssumption, NilAssumption

LEMMA DispatchInit == Dispatch!Init => P!IInv
  <1>1. Dispatch!Init => P!Init
    BY DEF Dispatch!Init, P!Init
  <1>2. P!Init => P!IInv
    BY P!InitIInv, DispatchAssumptions DEF P!InitIInv
  <1>3. QED
    BY <1>1, <1>2

(* Its invariant survives its own steps and the steps beside it. *)
LEMMA DispatchNext ==
    ASSUME P!IInv, P!Next \/ UNCHANGED dispatchVars
    PROVE  P!IInv'
  <1>1. P!Next \/ UNCHANGED P!vars
    BY DEF dispatchVars, P!vars
  <1>2. P!IInv /\ (P!Next \/ UNCHANGED P!vars) => P!IInv'
    BY P!NextKeeps, DispatchAssumptions DEF P!NextKeeps
  <1>3. QED
    BY <1>1, <1>2

LEMMA DispatchStep ==
    ASSUME P!IInv, NEW c \in Callers,
           \/ Dispatch!Wait(c, "connection")
           \/ Dispatch!LockAndQueue(c, "connection")
           \/ Dispatch!LockAndRefused(c, "connection")
           \/ Dispatch!RunInline(c, "connection")
           \/ Dispatch!InlineEnds(c)
           \/ Dispatch!WorkerEnds(c)
           \/ Dispatch!Resume(c)
           \/ Dispatch!WorkerTakes
    PROVE  P!IInv'
  <1> USE DEF Dispatch!AtLock, P!AtLock, Dispatch!Calls, P!Calls,
              Dispatch!Retries, P!Retries, Dispatch!Fresh, P!Fresh,
              Dispatch!Yield, P!Yield, Dispatch!Keep, P!Keep,
              Dispatch!Leave, P!Leave, Dispatch!FnEnds, P!FnEnds,
              Dispatch!States, P!States
  <1>1. CASE Dispatch!Wait(c, "connection")
    <2>1. P!Wait(c, "connection")
      BY <1>1 DEF Dispatch!Wait, P!Wait
    <2>2. QED
      BY <2>1, DispatchNext DEF P!Next, P!Try
  <1>2. CASE Dispatch!LockAndQueue(c, "connection")
    <2>1. P!LockAndQueue(c, "connection")
      BY <1>2 DEF Dispatch!LockAndQueue, P!LockAndQueue
    <2>2. QED
      BY <2>1, DispatchNext DEF P!Next, P!Try
  <1>3. CASE Dispatch!LockAndRefused(c, "connection")
    <2>1. P!LockAndRefused(c, "connection")
      BY <1>3 DEF Dispatch!LockAndRefused, P!LockAndRefused
    <2>2. QED
      BY <2>1, DispatchNext DEF P!Next, P!Try
  <1>4. CASE Dispatch!RunInline(c, "connection")
    <2>1. P!RunInline(c, "connection")
      BY <1>4 DEF Dispatch!RunInline, P!RunInline
    <2>2. QED
      BY <2>1, DispatchNext DEF P!Next
  <1>5. CASE Dispatch!InlineEnds(c)
    <2>1. P!InlineEnds(c)
      BY <1>5 DEF Dispatch!InlineEnds, P!InlineEnds
    <2>2. QED
      BY <2>1, DispatchNext DEF P!Next
  <1>6. CASE Dispatch!WorkerEnds(c)
    <2>1. P!WorkerEnds(c)
      BY <1>6 DEF Dispatch!WorkerEnds, P!WorkerEnds
    <2>2. QED
      BY <2>1, DispatchNext DEF P!Next
  <1>7. CASE Dispatch!Resume(c)
    <2>1. P!Resume(c)
      BY <1>7 DEF Dispatch!Resume, P!Resume
    <2>2. QED
      BY <2>1, DispatchNext DEF P!Next
  <1>8. CASE Dispatch!WorkerTakes
    <2>1. P!WorkerTakes
      BY <1>8 DEF Dispatch!WorkerTakes, P!WorkerTakes,
                    Dispatch!Cardinality, P!Cardinality
    <2>2. QED
      BY <2>1, DispatchNext DEF P!Next
  <1>9. QED
    BY <1>1, <1>2, <1>3, <1>4, <1>5, <1>6, <1>7, <1>8

(* What the handlers need to know of swoole_run(). *)
Running ==
    /\ Dispatch!TypeOK
    /\ \A c \in Callers :
          /\ pc[c] \in {"out", "asleep", "spinning", "yielded", "inline"}
          /\ state[c] \in {"DuckDBSuccess", "DuckDBError"}
          /\ task[c] # "none" <=> pc[c] = "yielded"
          /\ pc[c] \in {"asleep", "spinning", "inline"} \/ task[c] \in {"queued", "running"} =>
                ran[c] = 0 /\ state[c] = "DuckDBError"
          /\ ran[c] \in {0, 1}
          /\ Success(c) => ran[c] = 1

LEMMA DispatchRunning == P!IInv => Running
  <1> SUFFICES ASSUME P!IInv PROVE Running
    OBVIOUS
  <1>1. Dispatch!TypeOK
    BY DEF P!IInv, P!TypeOK, P!Places, P!TaskStates, P!States, Dispatch!TypeOK,
           Dispatch!Places, Dispatch!TaskStates, Dispatch!States
  <1>2. ASSUME NEW c \in Callers
        PROVE  /\ pc[c] \in P!Places
               /\ state[c] \in P!States
               /\ ran[c] \in Nat /\ ran[c] <= 1
               /\ state[c] = "DuckDBSuccess" => ran[c] = 1
    BY DEF P!IInv, P!TypeOK, P!SuccessMeansRan
  <1>3. ASSUME NEW c \in Callers
        PROVE  /\ task[c] # "none" <=> pc[c] = "yielded"
               /\ pc[c] \in {"asleep", "spinning", "inline"} \/ task[c] \in {"queued", "running"} =>
                     ran[c] = 0 /\ state[c] = "DuckDBError"
    BY DEF P!IInv, P!NoDanglingTask, P!NotYetRan
  <1>4. QED
    BY <1>1, <1>2, <1>3 DEF Running, P!Places, P!States, Success

LEMMA DispatchRunningNext == P!IInv' => Running'
  BY DispatchRunning, PTL

(* A handler that returns leaves its state as the next one initialises it. *)
LEMMA DispatchFresh ==
    ASSUME P!IInv, NEW c \in Callers, pc[c] = "out",
           state' = [state EXCEPT ![c] = "DuckDBError"],
           ran' = [ran EXCEPT ![c] = 0],
           UNCHANGED <<runtime, busy, pc, conn, task, queue, thread>>
    PROVE  P!IInv'
  <1>1. P!TypeOK'
    BY DEF P!IInv, P!TypeOK, P!States
  <1>2. P!Located' /\ P!QueueOK' /\ P!NoDanglingTask'
    BY DEF P!IInv, P!Located, P!QueueOK, P!NoDanglingTask
  <1>3. P!FlagHasOneHolder'
    BY DEF P!IInv, P!FlagHasOneHolder, P!Holds
  <1>4. P!NotYetRan'
    BY DEF P!IInv, P!TypeOK, P!NotYetRan
  <1>5. P!SuccessMeansRan'
    BY DEF P!IInv, P!TypeOK, P!SuccessMeansRan
  <1>6. QED
    BY <1>1, <1>2, <1>3, <1>4, <1>5 DEF P!IInv

(* Nor does a call that runs beside swoole_run() disturb it. *)
LEMMA DispatchDirect ==
    ASSUME P!IInv, NEW c \in Callers, pc[c] = "out", ran[c] = 0,
           Dispatch!FnEnds(c),
           UNCHANGED <<runtime, busy, pc, conn, task, queue, thread>>
    PROVE  P!IInv'
  <1> USE DEF Dispatch!FnEnds, Dispatch!States
  <1>1. P!TypeOK'
    BY DEF P!IInv, P!TypeOK, P!States
  <1>2. P!Located' /\ P!QueueOK' /\ P!NoDanglingTask'
    BY DEF P!IInv, P!Located, P!QueueOK, P!NoDanglingTask
  <1>3. P!FlagHasOneHolder'
    BY DEF P!IInv, P!FlagHasOneHolder, P!Holds
  <1>4. task[c] = "none"
    BY DEF P!IInv, P!NoDanglingTask
  <1>5. P!NotYetRan'
    BY <1>4 DEF P!IInv, P!TypeOK, P!NotYetRan
  <1>6. P!SuccessMeansRan'
    BY DEF P!IInv, P!TypeOK, P!SuccessMeansRan
  <1>7. QED
    BY <1>1, <1>2, <1>3, <1>5, <1>6 DEF P!IInv

(* A lock is made while nobody calls. *)
LEMMA DispatchLockNew ==
    ASSUME P!IInv, NEW lock \in BOOLEAN, LockNew(lock),
           \A c \in Callers : pc[c] = "out",
           UNCHANGED <<runtime, pc, conn, state, ran, task, queue, thread>>
    PROVE  P!IInv'
  <1>1. P!TypeOK'
    BY DEF P!IInv, P!TypeOK, LockNew
  <1>2. P!Located' /\ P!QueueOK' /\ P!NoDanglingTask' /\ P!NotYetRan' /\ P!SuccessMeansRan'
    BY DEF P!IInv, P!Located, P!QueueOK, P!NoDanglingTask, P!NotYetRan, P!SuccessMeansRan
  <1>3. P!FlagHasOneHolder'
    BY CallersAssumption DEF P!IInv, P!FlagHasOneHolder, P!Holds, LockNew
  <1>4. QED
    BY <1>1, <1>2, <1>3 DEF P!IInv

-----------------------------------------------------------------------------
(* Steps inside swoole_run() *)

LEMMA CallFacts ==
    ASSUME TypeOK, NEW c \in Callers, call[c] # Nil
    PROVE  call[c] \in Call
  BY DEF TypeOK

(* The caller goes from one place to another, and nothing else changes     *)
(* that a handler reads: its call has not run yet, or has run before.      *)
LEMMA MoveKeeps ==
    ASSUME IInv, P!IInv', NEW c \in Callers, NEW x \in Call,
           call[c] # Nil,
           call' = [call EXCEPT ![c] = x],
           x.op = call[c].op,
           x.init_command = call[c].init_command,
           x.result = call[c].result,
           x.at # "entering",
           x.at = "waiting" <=> pc'[c] # "out",
           pc'[c] # "out" => H.thread_lock,
           x.at \in {"returning", "crashed"} \/ task'[c] = "done" =>
               x.op \in {"open", "connect"} \/ x.result # "unwritten" \/ x.refused,
           \A d \in Callers : d # c => pc'[d] = pc[d] /\ task'[d] = task[d],
           php' \in {php, c, Nil},
           UNCHANGED <<state, ran, loaded, objectVars, answer>>
    PROVE  IInv'
  <1> USE DEF objectVars
  <1>1. Running /\ Running'
    BY DispatchRunning, DispatchRunningNext DEF IInv
  <1>2. /\ call'[c] = x /\ x # Nil
        /\ \A d \in Callers : d # c => call'[d] = call[d]
    BY NilAssumption DEF IInv, TypeOK
  <1>3. TypeOK'
    BY <1>1 DEF IInv, TypeOK, Running
  <1>4. \A d \in Callers : Placed(d)'
    BY <1>2, NilAssumption DEF IInv, Placed
  <1>5. \A d \in Callers : Staged(d)'
    BY <1>2 DEF IInv, Staged, Success
  <1>6. \A d \in Callers : Resulted(d)'
    BY <1>2 DEF IInv, Resulted, Success
  <1>7. HeapOK'
    <2>1. /\ Opening' <=> Opening
          /\ OpenFailed' <=> OpenFailed
          /\ Commanded' <=> Commanded
      BY <1>2 DEF Opening, OpenFailed, Commanded, Success
    <2>2. QED
      BY <2>1 DEF IInv, HeapOK, Times
  <1>8. ObjectOK'
    BY DEF IInv, ObjectOK
  <1>9. QED
    BY <1>3, <1>4, <1>5, <1>6, <1>7, <1>8 DEF IInv

(* Whoever comes to the flag has a call that has not run. *)
LEMMA AtFlagFacts ==
    ASSUME IInv, NEW c \in Callers, AtFlag(c)
    PROVE  /\ call[c] # Nil /\ call[c] \in Call
           /\ H.thread_lock
           /\ pc[c] \in {"out", "asleep"}
           /\ task[c] = "none"
           /\ ran[c] = 0 /\ state[c] = "DuckDBError"
           /\ call[c].result = "unwritten"
  <1>1. Running
    BY DispatchRunning DEF IInv
  <1>2. call[c] # Nil /\ H.thread_lock
    BY DEF AtFlag, AtCall, IInv, Placed
  <1>3. \/ call[c].at = "entering" /\ pc[c] = "out"
        \/ pc[c] = "asleep"
    BY <1>2 DEF AtFlag, AtCall, IInv, Placed
  <1>4. ran[c] = 0 /\ state[c] = "DuckDBError"
    BY <1>1, <1>2, <1>3 DEF IInv, Placed, Running
  <1>5. QED
    BY <1>1, <1>2, <1>3, <1>4, CallFacts DEF IInv, Running, Resulted

LEMMA WaitsKeep ==
    ASSUME IInv, NEW c \in Callers, Sleeps(c) \/ Queues(c) \/ GoesInline(c)
    PROVE  IInv'
  <1>1. AtFlag(c)
    BY DEF Sleeps, Queues, GoesInline
  <1>2. P!IInv'
    BY DispatchStep DEF IInv, Sleeps, Queues, GoesInline
  <1>3. Running
    BY DispatchRunning DEF IInv
  <1>4. /\ pc'[c] # "out"
        /\ task'[c] # "done"
        /\ \A d \in Callers : d # c => pc'[d] = pc[d] /\ task'[d] = task[d]
        /\ UNCHANGED <<state, ran>>
    <2> USE <1>1, <1>3, AtFlagFacts
        DEF Running, Dispatch!TypeOK, Dispatch!Fresh, Dispatch!Yield, Dispatch!Keep
    <2>1. CASE Sleeps(c)
      <3>1. runtime.usleep
        BY DEF Dispatch!TypeOK
      <3>2. QED
        BY <2>1, <3>1 DEF Sleeps, Dispatch!Wait
    <2>2. CASE Queues(c)
      BY <2>2 DEF Queues, Dispatch!LockAndQueue
    <2>3. CASE GoesInline(c)
      BY <2>3 DEF GoesInline, Dispatch!RunInline
    <2>4. QED
      BY <2>1, <2>2, <2>3
  <1>5. /\ call' = [call EXCEPT ![c].at = "waiting"]
        /\ php' \in {c, Nil}
        /\ UNCHANGED <<loaded, objectVars, answer>>
    BY DEF Sleeps, Queues, GoesInline, Proceed
  <1> DEFINE x == [call[c] EXCEPT !.at = "waiting"]
  <1>6. /\ x \in Call
        /\ x.op = call[c].op
        /\ x.init_command = call[c].init_command
        /\ x.result = call[c].result
        /\ x.at = "waiting"
    BY <1>1, AtFlagFacts DEF Call
  <1>7. call' = [call EXCEPT ![c] = x]
    BY <1>5
  <1> HIDE DEF x
  <1>8. QED
    BY <1>1, <1>2, <1>4, <1>5, <1>6, <1>7, AtFlagFacts, MoveKeeps

LEMMA IsRefusedKeeps ==
    ASSUME IInv, NEW c \in Callers, IsRefused(c)
    PROVE  IInv'
  <1>1. AtFlag(c) /\ Dispatch!LockAndRefused(c, "connection")
    BY DEF IsRefused
  <1>2. P!IInv'
    BY <1>1, DispatchStep DEF IInv
  <1>3. Running
    BY DispatchRunning DEF IInv
  <1>4. /\ pc'[c] = "out"
        /\ task'[c] # "done"
        /\ \A d \in Callers : d # c => pc'[d] = pc[d] /\ task'[d] = task[d]
        /\ UNCHANGED <<state, ran>>
    BY <1>1, <1>3, AtFlagFacts
       DEF Running, Dispatch!TypeOK, Dispatch!LockAndRefused, Dispatch!Fresh, Dispatch!Leave
  <1> DEFINE x == [call[c] EXCEPT !.at = "returning", !.refused = TRUE]
  <1>5. /\ x \in Call
        /\ x.op = call[c].op
        /\ x.init_command = call[c].init_command
        /\ x.result = call[c].result
        /\ x.at = "returning"
        /\ x.refused
    <2>1. call[c] \in Call
      BY <1>1, AtFlagFacts
    <2>2. /\ x.op = call[c].op
          /\ x.init_command = call[c].init_command
          /\ x.result = call[c].result
          /\ x.at = "returning"
      BY <2>1 DEF Call
    <2>3. x.refused = TRUE
      BY <2>1 DEF Call
    <2>4. x \in Call
      BY <2>1 DEF Call
    <2>5. QED
      BY <2>2, <2>3, <2>4
  <1>6. /\ call' = [call EXCEPT ![c] = x]
        /\ php' = c
        /\ UNCHANGED <<loaded, objectVars, answer>>
    BY DEF IsRefused
  <1> HIDE DEF x
  <1>7. QED
    BY <1>1, <1>2, <1>4, <1>5, <1>6, AtFlagFacts, MoveKeeps

LEMMA ResumesKeep ==
    ASSUME IInv, NEW c \in Callers, Resumes(c)
    PROVE  IInv'
  <1>1. Dispatch!Resume(c)
    BY DEF Resumes
  <1>2. P!IInv'
    BY <1>1, DispatchStep DEF IInv
  <1>3. Running
    BY DispatchRunning DEF IInv
  <1>4. /\ pc[c] = "yielded"
        /\ task[c] = "done"
        /\ pc'[c] = "out"
        /\ \A d \in Callers : d # c => pc'[d] = pc[d] /\ task'[d] = task[d]
        /\ UNCHANGED <<state, ran>>
    BY <1>1, <1>3 DEF Running, Dispatch!TypeOK, Dispatch!Resume, Dispatch!Leave
  <1>5. call[c] # Nil /\ call[c] \in Call
    BY <1>4, CallFacts DEF IInv, Placed
  <1> DEFINE x == [call[c] EXCEPT !.at = "returning"]
  <1>6. /\ x \in Call
        /\ x.op = call[c].op
        /\ x.init_command = call[c].init_command
        /\ x.result = call[c].result
        /\ x.at = "returning"
        /\ x.refused = call[c].refused
    BY <1>5 DEF Call
  <1>7. /\ call' = [call EXCEPT ![c] = x]
        /\ php' = c
        /\ UNCHANGED <<loaded, objectVars, answer>>
    BY DEF Resumes, Proceed
  <1> HIDE DEF x
  <1>8. x.op \in {"open", "connect"} \/ x.result # "unwritten" \/ x.refused
    BY <1>4, <1>5, <1>6 DEF IInv, Resulted
  <1>9. QED
    BY <1>2, <1>4, <1>5, <1>6, <1>7, <1>8, MoveKeeps

LEMMA CrashesKeep ==
    ASSUME IInv, NEW c \in Callers, Crashes(c)
    PROVE  IInv'
  <1>1. P!IInv'
    BY DispatchNext DEF IInv, Crashes
  <1>2. /\ call[c] # Nil /\ call[c] \in Call
        /\ call[c].at = "returning"
        /\ pc[c] = "out"
        /\ UNCHANGED <<dispatchVars, loaded, objectVars, php, answer>>
    BY CallFacts DEF Crashes, IInv, Placed
  <1> DEFINE x == [call[c] EXCEPT !.at = "crashed"]
  <1>3. /\ x \in Call
        /\ x.op = call[c].op
        /\ x.init_command = call[c].init_command
        /\ x.result = call[c].result
        /\ x.at = "crashed"
        /\ x.refused = call[c].refused
    BY <1>2 DEF Call
  <1>4. call' = [call EXCEPT ![c] = x]
    BY DEF Crashes
  <1> HIDE DEF x
  <1>5. x.op \in {"open", "connect"} \/ x.result # "unwritten" \/ x.refused
    BY <1>2, <1>3 DEF IInv, Resulted
  <1>6. QED
    BY <1>1, <1>2, <1>3, <1>4, <1>5, MoveKeeps DEF dispatchVars

-----------------------------------------------------------------------------
(* DuckDB's part *)

LEMMA ChangeFacts ==
    ASSUME TypeOK, NEW created, NEW destroyed
    PROVE  /\ Change(created, destroyed) \in [Things -> Int]
           /\ \A t \in Things :
                 Change(created, destroyed)[t] =
                     heap[t] + Times(t \in created) - Times(t \in destroyed)
           /\ \A t \in Things : heap[t] \in Int
  BY DEF TypeOK, Change, Times

(* The call of c has run, and c is at the place where it is told so. *)
HasRun(c, place) ==
    /\ call[c] # Nil /\ call[c] \in Call
    /\ H # Nil
    /\ place \in {"waiting", "returning"}
    /\ ran[c] = 0 /\ ~Success(c) /\ call[c].result = "unwritten"
    /\ ran'[c] = 1
    /\ place = "waiting" <=> pc'[c] # "out"
    /\ pc'[c] # "out" => H.thread_lock
    /\ \A d \in Callers : d # c =>
          pc'[d] = pc[d] /\ task'[d] = task[d] /\ state'[d] = state[d] /\ ran'[d] = ran[d]
    /\ UNCHANGED <<loaded, dbh, php, answer>>

LEMMA RunsHasRun ==
    ASSUME IInv, NEW c \in Callers,
           RunsOnWorker(c) \/ RunsInline(c) \/ RunsDirectly(c)
    PROVE  /\ P!IInv'
           /\ \E place \in {"waiting", "returning"} : HasRun(c, place) /\ Runs(c, place)
  <1>1. Running
    BY DispatchRunning DEF IInv
  <1> USE <1>1 DEF HasRun, Runs, Dispatch!FnEnds
  <1>2. ASSUME call[c] # Nil
        PROVE  call[c] \in Call /\ H # Nil
    BY <1>2, CallFacts DEF IInv, ObjectOK, Staged
  <1>3. CASE RunsOnWorker(c)
    <2>1. task[c] = "running" /\ pc[c] = "yielded"
      BY <1>3 DEF RunsOnWorker, Dispatch!WorkerEnds, Running
    <2>2. call[c] # Nil /\ H.thread_lock /\ ran[c] = 0 /\ ~Success(c)
      BY <2>1 DEF IInv, Placed, Running, Success
    <2>3. P!IInv'
      BY <1>3, DispatchStep DEF IInv, RunsOnWorker
    <2>4. call[c].result = "unwritten"
      BY <2>2 DEF IInv, Resulted
    <2>5. HasRun(c, "waiting")
      BY <1>2, <1>3, <2>1, <2>2, <2>4
         DEF RunsOnWorker, Dispatch!WorkerEnds, Running, Dispatch!TypeOK
    <2>6. QED
      BY <1>3, <2>3, <2>5 DEF RunsOnWorker
  <1>4. CASE RunsInline(c)
    <2>1. pc[c] = "inline"
      BY <1>4 DEF RunsInline, Dispatch!InlineEnds
    <2>2. call[c] # Nil /\ H.thread_lock /\ ran[c] = 0 /\ ~Success(c)
      BY <2>1 DEF IInv, Placed, Running, Success
    <2>3. P!IInv'
      BY <1>4, DispatchStep DEF IInv, RunsInline
    <2>4. call[c].result = "unwritten"
      BY <2>2 DEF IInv, Resulted
    <2>5. HasRun(c, "returning")
      BY <1>2, <1>4, <2>1, <2>2, <2>4
         DEF RunsInline, Dispatch!InlineEnds, Dispatch!Leave, Running, Dispatch!TypeOK
    <2>6. QED
      BY <1>4, <2>3, <2>5 DEF RunsInline
  <1>5. CASE RunsDirectly(c)
    <2>1. call[c] # Nil /\ pc[c] = "out" /\ ran[c] = 0 /\ ~Success(c)
      BY <1>5 DEF RunsDirectly, AtCall, IInv, Placed, Success
    <2>2. P!IInv'
      BY <1>5, <2>1, DispatchDirect DEF IInv, RunsDirectly
    <2>3. call[c].result = "unwritten"
      BY <2>1 DEF IInv, Resulted
    <2>4. HasRun(c, "returning")
      BY <1>2, <1>5, <2>1, <2>3 DEF RunsDirectly, Running, Dispatch!TypeOK
    <2>5. QED
      BY <1>5, <2>2, <2>4 DEF RunsDirectly
  <1>6. QED
    BY <1>3, <1>4, <1>5

(* What becomes of the caller's own call. *)
LEMMA CallAfterRun ==
    ASSUME IInv, NEW c \in Callers, NEW place, HasRun(c, place),
           NEW r \in {"unwritten", "ok", "error"},
           call' = [call EXCEPT ![c] = [call[c] EXCEPT !.at = place, !.result = r]]
    PROVE  /\ call'[c] # Nil /\ call'[c] \in Call
           /\ call'[c].at = place
           /\ call'[c].op = call[c].op
           /\ call'[c].init_command = call[c].init_command
           /\ call'[c].result = r
           /\ \A d \in Callers : d # c => call'[d] = call[d]
           /\ call' \in [Callers -> Call \cup {Nil}]
  <1> DEFINE x == [call[c] EXCEPT !.at = place, !.result = r]
  <1>1. x \in Call
    BY DEF HasRun, Call
  <1>2. /\ x.at = place
        /\ x.op = call[c].op
        /\ x.init_command = call[c].init_command
        /\ x.result = r
    BY DEF HasRun, Call
  <1>3. call' = [call EXCEPT ![c] = x]
    OBVIOUS
  <1> HIDE DEF x
  <1>4. x # Nil
    BY <1>1, NilAssumption
  <1>5. QED
    BY <1>1, <1>2, <1>3, <1>4 DEF IInv, TypeOK

(* The part of the invariant that does not depend on what ran. *)
LEMMA RunKeepsPlaces ==
    ASSUME IInv, P!IInv', NEW c \in Callers, NEW place, HasRun(c, place),
           call'[c] # Nil,
           call'[c].at = place,
           \A d \in Callers : d # c => call'[d] = call[d],
           H' # Nil,
           H'.thread_lock <=> H.thread_lock
    PROVE  \A d \in Callers : Placed(d)'
  BY DEF IInv, Placed, HasRun

LEMMA OpenRunsKeep ==
    ASSUME IInv, P!IInv', NEW c \in Callers, NEW place,
           HasRun(c, place), OpenRuns(c, place)
    PROVE  IInv'
  <1>1. Running /\ Running'
    BY DispatchRunning, DispatchRunningNext DEF IInv
  <1>2. /\ call'[c] # Nil /\ call'[c] \in Call
        /\ call'[c].at = place
        /\ call'[c].op = "open"
        /\ call'[c].init_command = call[c].init_command
        /\ call'[c].result = "unwritten"
        /\ \A d \in Callers : d # c => call'[d] = call[d]
        /\ call' \in [Callers -> Call \cup {Nil}]
    <2>1. [call[c] EXCEPT !.at = place] =
             [call[c] EXCEPT !.at = place, !.result = "unwritten"]
      BY DEF HasRun, Call
    <2>2. call' = [call EXCEPT ![c] = [call[c] EXCEPT !.at = place, !.result = "unwritten"]]
      BY <2>1 DEF OpenRuns
    <2>3. call[c].op = "open"
      BY DEF OpenRuns
    <2>4. QED
      BY <2>2, <2>3, CallAfterRun
  <1>3. /\ dbh = "constructing" /\ dbh' = dbh
        /\ \A d \in Callers : d # c => call[d] = Nil /\ call'[d] = Nil
        /\ ~H.db /\ ~H.conn
        /\ ~OpenFailed
    BY <1>2 DEF IInv, Staged, HasRun, OpenRuns, OpenFailed
  <1>4. /\ H' \in [thread_lock : BOOLEAN, db : BOOLEAN, conn : BOOLEAN]
        /\ H'.thread_lock <=> H.thread_lock
        /\ H'.db <=> Success(c)'
        /\ ~H'.conn
    BY <1>3 DEF OpenRuns, HasRun, IInv, TypeOK, Succeeds, Success
  <1>5. PICK err \in SUBSET {"err"} :
           heap' = Change(IF Success(c)' THEN {"db"} ELSE err, {})
    BY DEF OpenRuns, Succeeds, Success
  <1>6. /\ heap' \in [Things -> Int]
        /\ \A t \in Things : heap[t] \in Int
        /\ \A t \in Things :
              heap'[t] = heap[t] + Times(t \in IF Success(c)' THEN {"db"} ELSE err)
    <2> DEFINE created == IF Success(c)' THEN {"db"} ELSE err
    <2>1. /\ Change(created, {}) \in [Things -> Int]
          /\ \A t \in Things :
                Change(created, {})[t] = heap[t] + Times(t \in created) - Times(t \in {})
          /\ \A t \in Things : heap[t] \in Int
      BY ChangeFacts DEF IInv
    <2> HIDE DEF created
    <2>2. heap' = Change(created, {})
      BY <1>5 DEF created
    <2>3. QED
      BY <2>1, <2>2 DEF Times, created
  <1>7. TypeOK'
    BY <1>1, <1>2, <1>4, <1>6 DEF IInv, TypeOK, Running, HasRun, OpenRuns
  <1>8. \A d \in Callers : Placed(d)'
    BY <1>2, <1>4, NilAssumption, RunKeepsPlaces DEF HasRun
  <1>9. \A d \in Callers : Staged(d)'
    BY <1>2, <1>3, <1>4 DEF IInv, Staged
  <1>10. \A d \in Callers : Resulted(d)'
    BY <1>2, <1>3 DEF Resulted, HasRun
  <1>11. ObjectOK'
    BY <1>3, <1>4, NilAssumption DEF ObjectOK
  <1>12. HeapOK'
    <2>1. /\ Opening /\ Opening'
          /\ Commanded' <=> Commanded
          /\ OpenFailed' <=> ~Success(c)'
      BY <1>2, <1>3 DEF Opening, Commanded, OpenFailed, HasRun, OpenRuns
    <2>2. H # Nil /\ H' # Nil
      BY <1>4, NilAssumption DEF HasRun
    <2>3. heap["err"] = 0 /\ heap["db"] = 0
      BY <1>3 DEF IInv, HeapOK, Times
    <2>4. /\ \A t \in Things \ {"db", "err"} : heap'[t] = heap[t]
          /\ heap'["db"] = Times(Success(c)')
          /\ heap'["err"] = Times(~Success(c)' /\ "err" \in err)
      BY <1>6, <2>3 DEF Things, Times
    <2>5. QED
      BY <1>3, <1>4, <2>1, <2>2, <2>4 DEF IInv, HeapOK, Times, Things
  <1>13. QED
    BY <1>7, <1>8, <1>9, <1>10, <1>11, <1>12 DEF IInv

LEMMA ConnectRunsKeep ==
    ASSUME IInv, P!IInv', NEW c \in Callers, NEW place,
           HasRun(c, place), ConnectRuns(c, place)
    PROVE  IInv'
  <1>1. Running /\ Running'
    BY DispatchRunning, DispatchRunningNext DEF IInv
  <1>2. /\ call'[c] # Nil /\ call'[c] \in Call
        /\ call'[c].at = place
        /\ call'[c].op = "connect"
        /\ call'[c].init_command = call[c].init_command
        /\ call'[c].result = "unwritten"
        /\ \A d \in Callers : d # c => call'[d] = call[d]
        /\ call' \in [Callers -> Call \cup {Nil}]
    <2>1. [call[c] EXCEPT !.at = place] =
             [call[c] EXCEPT !.at = place, !.result = "unwritten"]
      BY DEF HasRun, Call
    <2>2. call' = [call EXCEPT ![c] = [call[c] EXCEPT !.at = place, !.result = "unwritten"]]
      BY <2>1 DEF ConnectRuns
    <2>3. call[c].op = "connect"
      BY DEF ConnectRuns
    <2>4. QED
      BY <2>2, <2>3, CallAfterRun
  <1>3. /\ dbh = "constructing" /\ dbh' = dbh
        /\ \A d \in Callers : d # c => call[d] = Nil /\ call'[d] = Nil
        /\ H.db /\ ~H.conn
    BY <1>2 DEF IInv, Staged, HasRun, ConnectRuns
  <1>4. /\ H' \in [thread_lock : BOOLEAN, db : BOOLEAN, conn : BOOLEAN]
        /\ H'.thread_lock <=> H.thread_lock
        /\ H'.db
        /\ H'.conn <=> Success(c)'
    BY <1>3 DEF ConnectRuns, HasRun, IInv, TypeOK, Succeeds, Success
  <1>5. /\ heap' \in [Things -> Int]
        /\ \A t \in Things : heap[t] \in Int
        /\ \A t \in Things : heap'[t] = heap[t] + Times(t = "conn" /\ Success(c)')
    <2> DEFINE created == IF Success(c)' THEN {"conn"} ELSE {}
    <2>1. /\ Change(created, {}) \in [Things -> Int]
          /\ \A t \in Things :
                Change(created, {})[t] = heap[t] + Times(t \in created) - Times(t \in {})
          /\ \A t \in Things : heap[t] \in Int
      BY ChangeFacts DEF IInv
    <2> HIDE DEF created
    <2>2. heap' = Change(created, {})
      BY DEF created, ConnectRuns, Succeeds, Success
    <2>3. QED
      BY <2>1, <2>2 DEF Times, created
  <1>6. TypeOK'
    BY <1>1, <1>2, <1>4, <1>5 DEF IInv, TypeOK, Running, HasRun, ConnectRuns
  <1>7. \A d \in Callers : Placed(d)'
    BY <1>2, <1>4, NilAssumption, RunKeepsPlaces DEF HasRun
  <1>8. \A d \in Callers : Staged(d)'
    BY <1>2, <1>3, <1>4 DEF IInv, Staged
  <1>9. \A d \in Callers : Resulted(d)'
    BY <1>2, <1>3 DEF Resulted, HasRun
  <1>10. ObjectOK'
    BY <1>3, <1>4, NilAssumption DEF ObjectOK
  <1>11. HeapOK'
    <2>1. /\ ~Opening /\ ~Opening'
          /\ Commanded' <=> Commanded
          /\ ~OpenFailed /\ ~OpenFailed'
      BY <1>2, <1>3 DEF Opening, Commanded, OpenFailed, HasRun, ConnectRuns
    <2>2. H # Nil /\ H' # Nil
      BY <1>4, NilAssumption DEF HasRun
    <2>3. heap["conn"] = 0
      BY <1>3 DEF IInv, HeapOK, Times
    <2>4. /\ \A t \in Things \ {"conn"} : heap'[t] = heap[t]
          /\ heap'["conn"] = Times(Success(c)')
      BY <1>5, <2>3 DEF Things, Times
    <2>5. QED
      BY <1>3, <1>4, <2>1, <2>2, <2>4 DEF IInv, HeapOK, Times, Things
  <1>12. QED
    BY <1>6, <1>7, <1>8, <1>9, <1>10, <1>11 DEF IInv

LEMMA QueryRunsKeep ==
    ASSUME IInv, P!IInv', NEW c \in Callers, NEW place,
           HasRun(c, place), QueryRuns(c, place)
    PROVE  IInv'
  <1> DEFINE r == IF Success(c)' THEN "ok" ELSE "error"
  <1>1. Running /\ Running'
    BY DispatchRunning, DispatchRunningNext DEF IInv
  <1>2. /\ call[c].op \notin {"open", "connect"}
        /\ active' \in BOOLEAN
        /\ UNCHANGED <<heap, H>>
    BY DEF QueryRuns, IInv, TypeOK
  <1>3. /\ call'[c] # Nil /\ call'[c] \in Call
        /\ call'[c].at = place
        /\ call'[c].op = call[c].op
        /\ call'[c].init_command = call[c].init_command
        /\ call'[c].result = r
        /\ \A d \in Callers : d # c => call'[d] = call[d]
        /\ call' \in [Callers -> Call \cup {Nil}]
    <2>1. call' = [call EXCEPT ![c] = [call[c] EXCEPT !.at = place, !.result = r]]
      BY DEF QueryRuns, Succeeds, Success
    <2>2. r \in {"unwritten", "ok", "error"}
      OBVIOUS
    <2> HIDE DEF r
    <2>3. QED
      BY <2>1, <2>2, CallAfterRun
  <1>4. TypeOK'
    BY <1>1, <1>2, <1>3 DEF IInv, TypeOK, Running, HasRun
  <1>5. \A d \in Callers : Placed(d)'
    BY <1>2, <1>3, RunKeepsPlaces DEF HasRun
  <1>6. \A d \in Callers : Staged(d)'
    BY <1>2, <1>3 DEF IInv, Staged, Success, HasRun
  <1>7. \A d \in Callers : Resulted(d)'
    BY <1>2, <1>3 DEF IInv, Resulted, Success, HasRun
  <1>8. ObjectOK'
    BY <1>2 DEF IInv, ObjectOK, HasRun
  <1>9. HeapOK'
    <2>1. /\ Opening' <=> Opening
          /\ OpenFailed' <=> OpenFailed
          /\ Commanded' <=> Commanded
      BY <1>2, <1>3 DEF Opening, OpenFailed, Commanded, HasRun, Success
    <2>2. QED
      BY <1>2, <2>1 DEF IInv, HeapOK, Times
  <1>10. QED
    BY <1>4, <1>5, <1>6, <1>7, <1>8, <1>9 DEF IInv

LEMMA RunsKeep ==
    ASSUME IInv, NEW c \in Callers,
           RunsOnWorker(c) \/ RunsInline(c) \/ RunsDirectly(c)
    PROVE  IInv'
  BY RunsHasRun, OpenRunsKeep, ConnectRunsKeep, QueryRunsKeep DEF Runs

-----------------------------------------------------------------------------
(* Steps that no handler takes part in, and the first step of a handler *)

LEMMA WorkerTakesKeeps ==
    ASSUME IInv, NEW c \in Callers, WorkerTakes
    PROVE  IInv'
  <1>1. P!IInv'
    BY DispatchStep DEF IInv, WorkerTakes
  <1>2. Running /\ Running'
    BY <1>1, DispatchRunning, DispatchRunningNext DEF IInv
  <1>3. /\ \A d \in Callers : task'[d] = "done" => task[d] = "done"
        /\ UNCHANGED <<pc, state, ran, loaded, objectVars, php, call, answer>>
    BY <1>2 DEF WorkerTakes, Dispatch!WorkerTakes, Running, Dispatch!TypeOK
  <1> USE DEF objectVars
  <1>4. TypeOK'
    BY <1>2, <1>3 DEF IInv, TypeOK, Running
  <1>5. ASSUME NEW d \in Callers PROVE Placed(d)' /\ Staged(d)' /\ Resulted(d)'
    BY <1>3 DEF IInv, Placed, Staged, Resulted, Success
  <1>6. ObjectOK' /\ HeapOK'
    BY <1>3 DEF IInv, ObjectOK, HeapOK, Opening, OpenFailed, Commanded, Success
  <1>7. QED
    BY <1>1, <1>4, <1>5, <1>6 DEF IInv

LEMMA NotLetThroughKeeps ==
    ASSUME IInv, NEW c \in Callers, NEW op, NotLetThrough(c, op)
    PROVE  IInv'
  <1> USE DEF NotLetThrough, objectVars, dispatchVars
  <1>1. P!IInv'
    BY DispatchNext DEF IInv
  <1>2. Running /\ Running'
    BY <1>1, DispatchRunning, DispatchRunningNext DEF IInv
  <1>3. TypeOK'
    BY <1>2 DEF IInv, TypeOK, Running
  <1>4. ASSUME NEW d \in Callers PROVE Placed(d)' /\ Staged(d)' /\ Resulted(d)'
    BY DEF IInv, Placed, Staged, Resulted, Success
  <1>5. ObjectOK' /\ HeapOK'
    BY DEF IInv, ObjectOK, HeapOK, Opening, OpenFailed, Commanded, Success
  <1>6. QED
    BY <1>1, <1>3, <1>4, <1>5 DEF IInv

LEMMA NewCallFacts ==
    ASSUME NEW op \in {"open", "connect", "init", "exec", "begin", "commit", "rollBack", "free"}
    PROVE  /\ NewCall(op) \in Call /\ NewCall(op) # Nil
           /\ NewCall(op).op = op
           /\ NewCall(op).at = "entering"
           /\ NewCall(op).init_command = Nil
           /\ NewCall(op).result = "unwritten"
  <1>1. NewCall(op) \in Call
    BY DEF NewCall, Call, Commands
  <1>2. QED
    BY <1>1, NilAssumption DEF NewCall

LEMMA ExceptFacts ==
    ASSUME NEW n \in Call, NEW command \in Commands, NEW zval \in Commands
    PROVE  /\ [n EXCEPT !.init_command = command, !.init_zval = zval] \in Call
           /\ [n EXCEPT !.init_zval = zval, !.init_command = command] \in Call
  BY DEF Call

(* A handler of an open object begins. *)
LEMMA EntersKeeps ==
    ASSUME IInv, NEW c \in Callers,
           NEW op \in {"exec", "begin", "commit", "rollBack", "free"},
           dbh = "open", Begin(c, NewCall(op)),
           dbh' = IF op = "free" THEN "freeing" ELSE "open",
           op = "free" => \A d \in Callers : call[d] = Nil,
           UNCHANGED <<dispatchVars, loaded, H, heap, active>>
    PROVE  IInv'
  <1> USE DEF dispatchVars
  <1>1. P!IInv'
    BY DispatchNext DEF IInv
  <1>2. Running /\ Running'
    BY <1>1, DispatchRunning, DispatchRunningNext DEF IInv
  <1>3. /\ call[c] = Nil
        /\ call'[c] # Nil /\ call'[c] \in Call
        /\ call'[c].op = op
        /\ call'[c].at = "entering"
        /\ call'[c].init_command = Nil
        /\ call'[c].result = "unwritten"
        /\ \A d \in Callers : d # c => call'[d] = call[d]
        /\ call' \in [Callers -> Call \cup {Nil}]
        /\ php' = c
        /\ answer' = answer
    <2>1. NewCall(op) \in Call /\ NewCall(op) # Nil
      BY NewCallFacts
    <2>2. /\ call[c] = Nil
          /\ call' = [call EXCEPT ![c] = NewCall(op)]
          /\ php' = c
          /\ answer' = answer
      BY DEF Begin, Ready
    <2> HIDE DEF NewCall
    <2>3. call'[c] = NewCall(op)
      BY <2>2 DEF IInv, TypeOK
    <2>4. QED
      BY <2>1, <2>2, <2>3, NewCallFacts DEF IInv, TypeOK
  <1>4. pc[c] = "out" /\ task[c] = "none" /\ ran[c] = 0 /\ ~Success(c) /\ state[c] = "DuckDBError"
    BY <1>2, <1>3 DEF IInv, Placed, Running, Success
  <1>5. TypeOK'
    BY <1>2, <1>3 DEF IInv, TypeOK, Running
  <1>6. \A d \in Callers : Placed(d)'
    BY <1>3, <1>4 DEF IInv, Placed
  <1>7. \A d \in Callers : Staged(d)'
    BY <1>3 DEF IInv, Staged, Success, ObjectOK
  <1>8. \A d \in Callers : Resulted(d)'
    BY <1>3, <1>4 DEF IInv, Resulted, Success
  <1>9. ObjectOK'
    BY DEF IInv, ObjectOK
  <1>10. HeapOK'
    <2>1. /\ Opening' <=> Opening
          /\ OpenFailed' <=> OpenFailed
          /\ Commanded' <=> Commanded
      BY <1>3 DEF Opening, OpenFailed, Commanded, Success
    <2>2. QED
      BY <2>1 DEF IInv, HeapOK, Times
  <1>11. QED
    BY <1>1, <1>5, <1>6, <1>7, <1>8, <1>9, <1>10 DEF IInv

LEMMA QueryEntersKeep ==
    ASSUME IInv, NEW c \in Callers, NEW op \in {"exec", "begin", "commit", "rollBack"},
           Enters(c, op)
    PROVE  IInv'
  BY EntersKeeps DEF Enters, objectVars

-----------------------------------------------------------------------------
(* The last step of a handler *)

LEMMA ReturnFacts ==
    ASSUME IInv, NEW c \in Callers, NEW op, Returning(c, op)
    PROVE  /\ P!IInv' /\ Running /\ Running'
           /\ call[c] # Nil /\ call[c] \in Call /\ H # Nil
           /\ call[c].op = op /\ call[c].at = "returning"
           /\ pc[c] = "out" /\ task[c] = "none"
           /\ ran'[c] = 0 /\ state'[c] = "DuckDBError"
           /\ \A d \in Callers : d # c => ran'[d] = ran[d] /\ state'[d] = state[d]
           /\ UNCHANGED <<pc, task, loaded>>
  <1>1. Running
    BY DispatchRunning DEF IInv
  <1>2. call[c] # Nil /\ call[c] \in Call
    BY CallFacts DEF IInv, Placed, Returning
  <1>3. H # Nil
    BY <1>2 DEF IInv, Staged, ObjectOK
  <1>4. pc[c] = "out" /\ task[c] = "none"
    BY <1>1, <1>2 DEF IInv, Placed, Returning, Running
  <1>5. P!IInv'
    BY <1>4, DispatchFresh DEF IInv, Returning
  <1>6. QED
    BY <1>1, <1>2, <1>3, <1>4, <1>5, DispatchRunningNext
       DEF Returning, Running, Dispatch!TypeOK

(* The caller is out of its handler. *)
LEMMA ReturnCall ==
    ASSUME IInv, NEW c \in Callers, NEW b \in BOOLEAN, Return(c, b)
    PROVE  /\ call'[c] = Nil
           /\ \A d \in Callers : d # c => call'[d] = call[d]
           /\ call' \in [Callers -> Call \cup {Nil}]
           /\ php' = Nil
           /\ answer' \in Callers \X BOOLEAN
  BY DEF Return, IInv, TypeOK

(* Nothing is left, if all that was there is released. *)
LEMMA NothingLeft ==
    ASSUME IInv, P!IInv',
           \A d \in Callers :
              call'[d] = Nil /\ pc'[d] = "out" /\ ran'[d] = 0 /\ state'[d] = "DuckDBError",
           call' \in [Callers -> Call \cup {Nil}],
           php' = Nil, answer' \in Callers \X BOOLEAN \cup {<<>>},
           active' \in BOOLEAN, loaded' = loaded,
           NEW released \in SUBSET Things, GivenBack(released),
           \A t \in Things \ {"init_command"} : heap[t] = Times(t \in released),
           "init_command" \in released <=> Commanded
    PROVE  IInv'
  <1>1. Running'
    BY DispatchRunningNext
  <1>2. dbh' = "none" /\ H' = Nil
    BY DEF GivenBack
  <1>3. /\ heap' \in [Things -> Int]
        /\ \A t \in Things : heap[t] \in Int
        /\ \A t \in Things : heap'[t] = heap[t] - Times(t \in released)
    <2>1. /\ Change({}, released) \in [Things -> Int]
          /\ \A t \in Things :
                Change({}, released)[t] = heap[t] + Times(t \in {}) - Times(t \in released)
          /\ \A t \in Things : heap[t] \in Int
      BY ChangeFacts DEF IInv
    <2>2. QED
      BY <2>1 DEF Times, GivenBack
  <1>4. TypeOK'
    BY <1>1, <1>2, <1>3 DEF IInv, TypeOK, Running
  <1>5. \A d \in Callers : Placed(d)' /\ Staged(d)' /\ Resulted(d)'
    BY NilAssumption DEF Placed, Staged, Resulted
  <1>6. ObjectOK'
    BY <1>2 DEF ObjectOK
  <1>7. HeapOK'
    <2>1. ~Opening' /\ ~OpenFailed' /\ ~Commanded'
      BY DEF Opening, OpenFailed, Commanded
    <2>2. \A t \in Things \ {"init_command"} : heap'[t] = 0
      BY <1>3 DEF Times
    <2>3. /\ heap'["init_command"] >= 0
          /\ Spellings <= 1 => heap'["init_command"] = 0
      BY <1>3 DEF IInv, HeapOK, Times, Things
    <2>4. QED
      BY <1>2, <2>1, <2>2, <2>3 DEF HeapOK, Times, Things
  <1>8. QED
    BY <1>4, <1>5, <1>6, <1>7 DEF IInv

(* What exists, by the pointers of an object that is there. *)
LEMMA HeapOfObject ==
    ASSUME IInv, H # Nil
    PROVE  /\ heap["H"] = 1
           /\ heap["thread_lock"] = Times("thread_lock" \in TheLock)
           /\ heap["db"] = Times(H.db)
           /\ heap["conn"] = Times(H.conn)
           /\ heap["dbname"] = Times(Opening)
           /\ heap["config"] = Times(Opening)
           /\ heap["err"] = Times(heap["err"] > 0)
           /\ ~OpenFailed => heap["err"] = 0
  BY DEF IInv, HeapOK, Times, TheLock

LEMMA FreesKeep ==
    ASSUME IInv, NEW c \in Callers, Frees(c)
    PROVE  IInv'
  <1>1. CASE active
    BY <1>1, EntersKeeps DEF Frees, dispatchVars
  <1>2. CASE ~active
    <2>1. /\ dbh = "open"
          /\ \A d \in Callers : call[d] = Nil
          /\ UNCHANGED <<dispatchVars, loaded, php, call, answer>>
          /\ Closer({})
          /\ php = Nil
      BY <1>2 DEF Frees, Ready
    <2>2. P!IInv'
      BY <2>1, DispatchNext DEF IInv
    <2>3. H # Nil /\ H.db /\ H.conn /\ ~Opening /\ ~OpenFailed /\ ~Commanded
      BY <2>1 DEF IInv, ObjectOK, Opening, OpenFailed, Commanded
    <2> DEFINE released == {"H"} \cup TheLock \cup {"conn"} \cup {"db"}
    <2>4. released \in SUBSET Things /\ GivenBack(released) /\ active' = FALSE
      BY <2>1, <2>3 DEF Closer, Things, TheLock
    <2>5. /\ \A t \in Things \ {"init_command"} : heap[t] = Times(t \in released)
          /\ "init_command" \notin released
      BY <2>3, HeapOfObject DEF Things, TheLock, Times
    <2>6. \A d \in Callers :
             call'[d] = Nil /\ pc'[d] = "out" /\ ran'[d] = 0 /\ state'[d] = "DuckDBError"
      BY <2>1 DEF IInv, Placed, dispatchVars
    <2>7. /\ call' \in [Callers -> Call \cup {Nil}]
          /\ php' = Nil /\ answer' \in Callers \X BOOLEAN \cup {<<>>}
      BY <2>1 DEF IInv, TypeOK
    <2> HIDE DEF released
    <2>8. QED
      BY <2>1, <2>2, <2>3, <2>4, <2>5, <2>6, <2>7, NothingLeft
  <1>3. QED
    BY <1>1, <1>2

LEMMA QueryReturnsKeep ==
    ASSUME IInv, NEW c \in Callers, NEW op \in {"exec", "begin", "commit", "rollBack"},
           QueryReturns(c, op)
    PROVE  IInv'
  <1>1. Returning(c, op) /\ Return(c, Success(c)) /\ UNCHANGED objectVars
    BY DEF QueryReturns
  <1>2. Success(c) \in BOOLEAN
    BY DEF Success
  <1> USE DEF objectVars
  <1>3. TypeOK'
    BY <1>1, <1>2, ReturnFacts, ReturnCall DEF IInv, TypeOK, Running
  <1>4. \A d \in Callers : Placed(d)'
    BY <1>1, <1>2, ReturnFacts, ReturnCall, NilAssumption DEF IInv, Placed
  <1>5. \A d \in Callers : Staged(d)' /\ Resulted(d)'
    <2>1. ASSUME NEW d \in Callers, d # c
          PROVE  Staged(d)' /\ Resulted(d)'
      <3>1. call'[c] = Nil /\ \A e \in Callers : e # c => call'[e] = call[e]
        BY <1>1, <1>2, ReturnCall
      <3>2. /\ state'[d] = state[d] /\ ran'[d] = ran[d] /\ task'[d] = task[d]
            /\ H' = H /\ dbh' = dbh
        BY <1>1, <2>1, ReturnFacts
      <3>3. QED
        BY <2>1, <3>1, <3>2 DEF IInv, Staged, Resulted, Success
    <2>2. Staged(c)' /\ Resulted(c)'
      BY <1>1, <1>2, ReturnCall DEF Staged, Resulted
    <2>3. QED
      BY <2>1, <2>2
  <1>6. ObjectOK'
    BY <1>1 DEF IInv, ObjectOK
  <1>7. HeapOK'
    <2>1. call[c].op = op /\ call[c].init_command = Nil
      BY <1>1, ReturnFacts DEF IInv, Staged
    <2>2. /\ Opening' <=> Opening
          /\ OpenFailed' <=> OpenFailed
          /\ Commanded' <=> Commanded
      <3>1. call'[c] = Nil /\ \A d \in Callers : d # c => call'[d] = call[d]
        BY <1>1, <1>2, ReturnCall
      <3>2. \A d \in Callers : d # c => ran'[d] = ran[d] /\ state'[d] = state[d]
        BY <1>1, ReturnFacts
      <3>3. QED
        BY <2>1, <3>1, <3>2 DEF Opening, OpenFailed, Commanded, Success
    <2>3. QED
      BY <1>1, <2>2 DEF IInv, HeapOK, Times
  <1>8. QED
    BY <1>1, <1>3, <1>4, <1>5, <1>6, <1>7, ReturnFacts DEF IInv

LEMMA FreeReturnsKeep ==
    ASSUME IInv, NEW c \in Callers, FreeReturns(c)
    PROVE  IInv'
  <1>1. Returning(c, "free") /\ Return(c, Success(c)) /\ Closer({})
    BY DEF FreeReturns
  <1>2. Success(c) \in BOOLEAN
    BY DEF Success
  <1>3. /\ \A d \in Callers : d # c => call[d] = Nil
        /\ H.db /\ H.conn /\ H # Nil
        /\ call[c].op = "free" /\ call[c].init_command = Nil
    BY <1>1, ReturnFacts DEF IInv, Staged
  <1>4. ~Opening /\ ~OpenFailed /\ ~Commanded
    BY <1>3 DEF Opening, OpenFailed, Commanded
  <1> DEFINE released == {"H"} \cup TheLock \cup {"conn"} \cup {"db"}
  <1>5. released \in SUBSET Things /\ GivenBack(released) /\ active' = FALSE
    BY <1>1, <1>3 DEF Closer, Things, TheLock
  <1>6. /\ \A t \in Things \ {"init_command"} : heap[t] = Times(t \in released)
        /\ "init_command" \notin released
    BY <1>3, <1>4, HeapOfObject DEF Things, TheLock, Times
  <1>7. \A d \in Callers :
           call'[d] = Nil /\ pc'[d] = "out" /\ ran'[d] = 0 /\ state'[d] = "DuckDBError"
    BY <1>1, <1>2, <1>3, ReturnFacts, ReturnCall DEF IInv, Placed
  <1> HIDE DEF released
  <1>8. QED
    BY <1>1, <1>2, <1>4, <1>5, <1>6, <1>7, ReturnFacts, ReturnCall, NothingLeft

-----------------------------------------------------------------------------
(* The factory *)

LEMMA ConstructsKeep ==
    ASSUME IInv, NEW c \in Callers, Constructs(c)
    PROVE  IInv'
  <1>1. PICK timezones \in 0 .. Spellings, init \in Commands, lock \in BOOLEAN :
          /\ lock => loaded
          /\ LockNew(lock)
          /\ H' = [thread_lock |-> lock, db |-> FALSE, conn |-> FALSE]
          /\ heap' = [Change({"H", "dbname", "config"}
                             \cup (IF lock THEN {"thread_lock"} ELSE {}), {})
                      EXCEPT !["init_command"] = @ + timezones]
          /\ Begin(c, [NewCall("open") EXCEPT
                !.init_command = IF timezones = 0 THEN Nil ELSE "text",
                !.init_zval = init])
    BY DEF Constructs
  <1>2. /\ dbh = "none" /\ H = Nil /\ dbh' = "constructing"
        /\ \A d \in Callers : call[d] = Nil
        /\ UNCHANGED <<runtime, pc, conn, state, ran, task, queue, thread, loaded, active>>
    BY DEF Constructs, IInv, Staged, ObjectOK
  <1>3. Running
    BY DispatchRunning DEF IInv
  <1>4. \A d \in Callers :
           pc[d] = "out" /\ task[d] = "none" /\ ran[d] = 0 /\ state[d] = "DuckDBError"
    BY <1>2, <1>3 DEF IInv, Placed, Running
  <1>5. P!IInv'
    BY <1>1, <1>2, <1>4, DispatchLockNew DEF IInv
  <1>6. Running'
    BY <1>5, DispatchRunningNext
  <1> DEFINE x == [NewCall("open") EXCEPT
                      !.init_command = IF timezones = 0 THEN Nil ELSE "text",
                      !.init_zval = init]
  <1>7. /\ x \in Call /\ x # Nil
        /\ x.op = "open" /\ x.at = "entering" /\ x.result = "unwritten"
        /\ x.init_command # Nil <=> timezones # 0
    <2> DEFINE command == IF timezones = 0 THEN Nil ELSE "text"
    <2>1. x \in Call
      <3>1. command \in Commands
        BY DEF Commands
      <3> HIDE DEF command
      <3>2. [NewCall("open") EXCEPT !.init_command = command, !.init_zval = init] \in Call
        BY <3>1, ExceptFacts, NewCallFacts
      <3>3. QED
        BY <3>2 DEF command
    <2>2. /\ x.op = "open" /\ x.at = "entering" /\ x.result = "unwritten"
          /\ x.init_command # Nil <=> timezones # 0
      BY NewCallFacts, NilAssumption DEF Call
    <2>3. QED
      BY <2>1, <2>2, NilAssumption
  <1>8. call' = [call EXCEPT ![c] = x] /\ php' = c /\ answer' = answer
    BY <1>1 DEF Begin
  <1> HIDE DEF x
  <1>9. /\ call'[c] = x
        /\ \A d \in Callers : d # c => call'[d] = Nil
        /\ call' \in [Callers -> Call \cup {Nil}]
    BY <1>2, <1>7, <1>8 DEF IInv, TypeOK
  <1>10. /\ H' \in [thread_lock : BOOLEAN, db : BOOLEAN, conn : BOOLEAN]
         /\ H' # Nil
         /\ (H'.thread_lock <=> lock) /\ ~H'.db /\ ~H'.conn
    <2>1. H' = [thread_lock |-> lock, db |-> FALSE, conn |-> FALSE]
      BY <1>1
    <2>2. H' \in [thread_lock : BOOLEAN, db : BOOLEAN, conn : BOOLEAN]
      BY <2>1
    <2>3. (H'.thread_lock <=> lock) /\ ~H'.db /\ ~H'.conn
      BY <2>1
    <2>4. QED
      BY <2>2, <2>3, NilAssumption
  <1>11. /\ heap' \in [Things -> Int]
         /\ heap["init_command"] \in Int /\ timezones \in Nat
         /\ heap'["init_command"] = heap["init_command"] + timezones
         /\ \A t \in Things \ {"init_command"} :
               heap'[t] = heap[t] + Times(\/ t \in {"H", "dbname", "config"}
                                          \/ t = "thread_lock" /\ lock)
    <2> DEFINE created == {"H", "dbname", "config"}
                          \cup (IF lock THEN {"thread_lock"} ELSE {})
    <2>1. /\ Change(created, {}) \in [Things -> Int]
          /\ \A t \in Things :
                Change(created, {})[t] = heap[t] + Times(t \in created) - Times(t \in {})
          /\ \A t \in Things : heap[t] \in Int
      BY ChangeFacts DEF IInv
    <2>2. heap' = [Change(created, {}) EXCEPT !["init_command"] = @ + timezones]
      BY <1>1
    <2>3. /\ "init_command" \notin created
          /\ \A t \in Things : t \in created <=> \/ t \in {"H", "dbname", "config"}
                                                 \/ t = "thread_lock" /\ lock
      BY DEF Things
    <2>4. timezones \in Nat
      BY SpellingsAssumption
    <2> HIDE DEF created
    <2>5. /\ \A t \in Things \ {"init_command"} : heap'[t] = heap[t] + Times(t \in created)
          /\ heap'["init_command"] = heap["init_command"] + timezones
          /\ heap' \in [Things -> Int]
      BY <2>1, <2>2, <2>3, <2>4 DEF Times, Things
    <2>6. QED
      BY <2>1, <2>3, <2>4, <2>5 DEF Things, Times
  <1>12. TypeOK'
    BY <1>2, <1>6, <1>8, <1>9, <1>10, <1>11 DEF IInv, TypeOK, Running
  <1>13. \A d \in Callers : Placed(d)' /\ Resulted(d)'
    BY <1>2, <1>4, <1>7, <1>8, <1>9 DEF Placed, Resulted, Success
  <1>14. \A d \in Callers : Staged(d)'
    BY <1>2, <1>4, <1>7, <1>9, <1>10 DEF Staged, Success
  <1>15. ObjectOK'
    BY <1>2, <1>10 DEF ObjectOK
  <1>16. HeapOK'
    <2>1. /\ Opening' /\ ~Opening
          /\ ~OpenFailed
          /\ ~Commanded
          /\ Commanded' <=> timezones # 0
      BY <1>2, <1>7, <1>9 DEF Opening, OpenFailed, Commanded
    <2>2. /\ \A t \in Things \ {"init_command"} : heap[t] = 0
          /\ heap["init_command"] >= 0
          /\ Spellings <= 1 => heap["init_command"] = 0
      BY <1>2, <2>1 DEF IInv, HeapOK, Times, Things
    <2>3. Spellings <= 1 => timezones \in {0, 1}
      BY SpellingsAssumption
    <2>4. QED
      BY <1>10, <1>11, <2>1, <2>2, <2>3 DEF HeapOK, Times, Things
  <1>17. QED
    BY <1>5, <1>12, <1>13, <1>14, <1>15, <1>16 DEF IInv

(* One of its calls has succeeded, and the next one begins. *)
LEMMA GoesOnKeeps ==
    ASSUME IInv, NEW c \in Callers, NEW prev \in {"open", "connect"}, Returning(c, prev),
           NEW op \in {"connect", "init"}, NEW command \in Commands, GoesOn(c, op, command),
           H.db, op = "connect" => ~H.conn, op = "init" => H.conn /\ command = "text",
           UNCHANGED <<H, active>>,
           heap' \in [Things -> Int],
           \A t \in Things \ {"dbname", "config", "init_command"} : heap'[t] = heap[t],
           heap["err"] = 0, heap'["dbname"] = 0, heap'["config"] = 0,
           heap'["init_command"] >= Times(command # Nil),
           Spellings <= 1 => heap'["init_command"] = Times(command # Nil)
    PROVE  IInv'
  <1>1. /\ call[c] # Nil /\ call[c] \in Call /\ H # Nil
        /\ call[c].op = prev
      BY ReturnFacts
  <1>2. /\ dbh = "constructing" /\ dbh' = dbh
        /\ \A d \in Callers : d # c => call[d] = Nil
    BY <1>1 DEF IInv, Staged, GoesOn
  <1> DEFINE x == [NewCall(op) EXCEPT !.init_zval = call[c].init_zval,
                                      !.init_command = command]
  <1>3. /\ x \in Call /\ x # Nil
        /\ x.op = op /\ x.at = "entering" /\ x.result = "unwritten"
        /\ x.init_command = command
    <2>1. x \in Call
      <3>1. call[c].init_zval \in Commands
        BY <1>1 DEF Call
      <3>2. QED
        BY <3>1, ExceptFacts, NewCallFacts
    <2>2. /\ x.op = op /\ x.at = "entering" /\ x.result = "unwritten"
          /\ x.init_command = command
      BY NewCallFacts DEF Call
    <2>3. QED
      BY <2>1, <2>2, NilAssumption
  <1>4. call' = [call EXCEPT ![c] = x] /\ UNCHANGED <<php, answer>>
    BY DEF GoesOn
  <1> HIDE DEF x
  <1>5. /\ call'[c] = x
        /\ \A d \in Callers : d # c => call'[d] = Nil
        /\ call' \in [Callers -> Call \cup {Nil}]
    BY <1>2, <1>3, <1>4 DEF IInv, TypeOK
  <1>6. TypeOK'
    BY <1>2, <1>4, <1>5, ReturnFacts DEF IInv, TypeOK, Running
  <1>7. \A d \in Callers : Placed(d)'
    BY <1>1, <1>2, <1>3, <1>4, <1>5, ReturnFacts DEF IInv, Placed
  <1>8. Staged(c)' /\ Resulted(c)'
    BY <1>2, <1>3, <1>5, ReturnFacts DEF Staged, Resulted, Success
  <1>9. \A d \in Callers : Staged(d)' /\ Resulted(d)'
    BY <1>5, <1>8 DEF Staged, Resulted
  <1>10. ObjectOK'
    BY <1>1, <1>2 DEF ObjectOK
  <1>11. HeapOK'
    <2>1. ~Opening' /\ (Commanded' <=> command # Nil)
      BY <1>3, <1>5 DEF Opening, Commanded
    <2>2. QED
      BY <2>1 DEF IInv, HeapOK, Times, Things
  <1>12. QED
    BY <1>6, <1>7, <1>9, <1>10, <1>11, ReturnFacts DEF IInv

(* The last of its calls has succeeded, and the object is open. *)
LEMMA OpensKeeps ==
    ASSUME IInv, NEW c \in Callers, NEW prev \in {"connect", "init"}, Returning(c, prev),
           Return(c, TRUE), H.db, H.conn, dbh' = "open",
           UNCHANGED <<H, active>>,
           heap' = Change({}, TheCommand(c))
    PROVE  IInv'
  <1>1. /\ call[c] # Nil /\ H # Nil /\ call[c].op = prev
      BY ReturnFacts
  <1>2. /\ dbh = "constructing"
        /\ \A d \in Callers : d # c => call[d] = Nil
    BY <1>1 DEF IInv, Staged
  <1>3. /\ \A d \in Callers : call'[d] = Nil
        /\ call' \in [Callers -> Call \cup {Nil}]
        /\ php' = Nil
        /\ answer' \in Callers \X BOOLEAN
    BY <1>2, ReturnCall
  <1>4. /\ heap' \in [Things -> Int]
        /\ \A t \in Things : heap[t] \in Int
        /\ \A t \in Things : heap'[t] = heap[t] - Times(t \in TheCommand(c))
    <2>1. /\ Change({}, TheCommand(c)) \in [Things -> Int]
          /\ \A t \in Things :
                Change({}, TheCommand(c))[t] =
                    heap[t] + Times(t \in {}) - Times(t \in TheCommand(c))
          /\ \A t \in Things : heap[t] \in Int
      BY ChangeFacts DEF IInv
    <2>2. QED
      BY <2>1 DEF Times
  <1>5. TypeOK'
    BY <1>3, <1>4, ReturnFacts DEF IInv, TypeOK, Running
  <1>6. \A d \in Callers : Placed(d)'
    BY <1>1, <1>2, <1>3, ReturnFacts, NilAssumption DEF IInv, Placed
  <1>7. \A d \in Callers : Staged(d)' /\ Resulted(d)'
    BY <1>3 DEF Staged, Resulted
  <1>8. ObjectOK'
    BY <1>1 DEF ObjectOK
  <1>9. HeapOK'
    <2>1. ~Opening /\ ~Opening' /\ ~OpenFailed /\ ~OpenFailed' /\ ~Commanded'
          /\ (Commanded <=> call[c].init_command # Nil)
      BY <1>1, <1>2, <1>3 DEF Opening, OpenFailed, Commanded
    <2>2. \A t \in Things : t \in TheCommand(c) <=> t = "init_command" /\ Commanded
      BY <2>1 DEF TheCommand
    <2>3. QED
      BY <1>4, <2>1, <2>2 DEF IInv, HeapOK, Times, Things
  <1>10. QED
    BY <1>5, <1>6, <1>7, <1>8, <1>9, ReturnFacts DEF IInv

(* One of its calls has failed, and all is given back. *)
LEMMA FactoryFails ==
    ASSUME IInv, NEW c \in Callers, NEW prev \in {"open", "connect", "init"},
           Returning(c, prev), Return(c, FALSE),
           active' \in BOOLEAN,
           NEW released \in SUBSET Things, GivenBack(released),
           \A t \in Things \ {"init_command"} : heap[t] = Times(t \in released),
           "init_command" \in released <=> call[c].init_command # Nil
    PROVE  IInv'
  <1>1. call[c] # Nil /\ call[c].op = prev
    BY ReturnFacts
  <1>2. \A d \in Callers : d # c => call[d] = Nil
    BY <1>1 DEF IInv, Staged
  <1>3. Commanded <=> call[c].init_command # Nil
    BY <1>1, <1>2 DEF Commanded
  <1>4. /\ \A d \in Callers : call'[d] = Nil
        /\ call' \in [Callers -> Call \cup {Nil}]
        /\ php' = Nil
        /\ answer' \in Callers \X BOOLEAN
    BY <1>2, ReturnCall
  <1>5. \A d \in Callers :
           pc'[d] = "out" /\ ran'[d] = 0 /\ state'[d] = "DuckDBError"
    BY <1>2, ReturnFacts DEF IInv, Placed
  <1>6. QED
    BY <1>3, <1>4, <1>5, ReturnFacts, NothingLeft

LEMMA OpenReturnsKeep ==
    ASSUME IInv, NEW c \in Callers, OpenReturns(c)
    PROVE  IInv'
  <1>1. Returning(c, "open")
    BY DEF OpenReturns
  <1>2. /\ call[c] # Nil /\ call[c] \in Call /\ H # Nil
        /\ call[c].op = "open"
    BY <1>1, ReturnFacts
  <1>3. /\ H.db <=> Success(c)
        /\ ~H.conn
        /\ \A d \in Callers : d # c => call[d] = Nil
    BY <1>2 DEF IInv, Staged
  <1>4. Opening /\ (Commanded <=> call[c].init_command # Nil)
        /\ (OpenFailed => ~Success(c))
    BY <1>2, <1>3 DEF Opening, Commanded, OpenFailed
  <1>5. CASE /\ Success(c)
             /\ heap' = Change({}, {"config", "dbname"})
             /\ GoesOn(c, "connect", call[c].init_command)
             /\ UNCHANGED <<H, active>>
    <2>1. /\ heap' \in [Things -> Int]
          /\ \A t \in Things : heap[t] \in Int
          /\ \A t \in Things : heap'[t] = heap[t] - Times(t \in {"config", "dbname"})
      <3>1. /\ Change({}, {"config", "dbname"}) \in [Things -> Int]
            /\ \A t \in Things :
                  Change({}, {"config", "dbname"})[t] =
                      heap[t] + Times(t \in {}) - Times(t \in {"config", "dbname"})
            /\ \A t \in Things : heap[t] \in Int
        BY ChangeFacts DEF IInv
      <3>2. QED
        BY <1>5, <3>1 DEF Times
    <2>2. /\ \A t \in Things \ {"dbname", "config", "init_command"} : heap'[t] = heap[t]
          /\ heap["err"] = 0 /\ heap'["dbname"] = 0 /\ heap'["config"] = 0
          /\ heap'["init_command"] = heap["init_command"]
      BY <1>2, <1>4, <1>5, <2>1, HeapOfObject DEF Things, Times
    <2>3. /\ heap'["init_command"] >= Times(call[c].init_command # Nil)
          /\ Spellings <= 1 => heap'["init_command"] = Times(call[c].init_command # Nil)
      BY <1>4, <2>2 DEF IInv, HeapOK, Times
    <2>4. call[c].init_command \in Commands
      BY <1>2 DEF Call
    <2>5. QED
      BY <1>1, <1>3, <1>5, <2>1, <2>2, <2>3, <2>4, GoesOnKeeps
  <1>6. CASE /\ ~Success(c)
             /\ GivenBack({"config", "dbname", "H"} \cup TheLock \cup TheCommand(c)
                          \cup {t \in {"err"} : heap[t] > 0})
             /\ Return(c, FALSE)
             /\ UNCHANGED active
    <2> DEFINE released == {"config", "dbname", "H"} \cup TheLock \cup TheCommand(c)
                           \cup {t \in {"err"} : heap[t] > 0}
    <2>1. released \in SUBSET Things
      BY DEF Things, TheLock, TheCommand
    <2>2. \A t \in Things \ {"init_command"} : heap[t] = Times(t \in released)
      BY <1>2, <1>3, <1>4, <1>6, HeapOfObject DEF Things, Times, TheLock, TheCommand
    <2>3. "init_command" \in released <=> call[c].init_command # Nil
      BY DEF TheLock, TheCommand
    <2>4. active' \in BOOLEAN /\ GivenBack(released)
      BY <1>6 DEF IInv, TypeOK
    <2> HIDE DEF released
    <2>5. QED
      BY <1>1, <1>6, <2>1, <2>2, <2>3, <2>4, FactoryFails
  <1>7. QED
    BY <1>5, <1>6 DEF OpenReturns

LEMMA ConnectReturnsKeep ==
    ASSUME IInv, NEW c \in Callers, ConnectReturns(c)
    PROVE  IInv'
  <1>1. Returning(c, "connect")
    BY DEF ConnectReturns
  <1>2. /\ call[c] # Nil /\ call[c] \in Call /\ H # Nil
        /\ call[c].op = "connect"
    BY <1>1, ReturnFacts
  <1>3. /\ H.db
        /\ H.conn <=> Success(c)
        /\ \A d \in Callers : d # c => call[d] = Nil
    BY <1>2 DEF IInv, Staged
  <1>4. ~Opening /\ ~OpenFailed /\ (Commanded <=> call[c].init_command # Nil)
    BY <1>2, <1>3 DEF Opening, Commanded, OpenFailed
  <1>5. CASE /\ ~Success(c)
             /\ ConnectFails(c)
             /\ Return(c, FALSE)
             /\ UNCHANGED active
    <2> DEFINE released == {"db", "H"} \cup TheLock \cup TheCommand(c)
    <2>1. released \in SUBSET Things
      BY DEF Things, TheLock, TheCommand
    <2>2. \A t \in Things \ {"init_command"} : heap[t] = Times(t \in released)
      BY <1>2, <1>3, <1>4, <1>5, HeapOfObject DEF Things, Times, TheLock, TheCommand
    <2>3. "init_command" \in released <=> call[c].init_command # Nil
      BY DEF TheLock, TheCommand
    <2>4. active' \in BOOLEAN /\ GivenBack(released)
      BY <1>5 DEF IInv, TypeOK, ConnectFails
    <2> HIDE DEF released
    <2>5. QED
      BY <1>1, <1>5, <2>1, <2>2, <2>3, <2>4, FactoryFails
  <1>6. CASE /\ Success(c)
             /\ heap' = AppendOption(c)
             /\ GoesOn(c, "init", "text")
             /\ UNCHANGED <<H, active>>
    <2> DEFINE created == {"init_command"} \ TheCommand(c)
    <2>1. /\ heap' \in [Things -> Int]
          /\ \A t \in Things : heap[t] \in Int
          /\ \A t \in Things : heap'[t] = heap[t] + Times(t \in created)
      <3>1. /\ Change(created, {}) \in [Things -> Int]
            /\ \A t \in Things :
                  Change(created, {})[t] = heap[t] + Times(t \in created) - Times(t \in {})
            /\ \A t \in Things : heap[t] \in Int
        BY ChangeFacts DEF IInv
      <3>2. heap' = Change(created, {})
        BY <1>6 DEF AppendOption
      <3> HIDE DEF created
      <3>3. QED
        BY <3>1, <3>2 DEF Times
    <2>2. \A t \in Things : t \in created <=> t = "init_command" /\ ~Commanded
      BY <1>4 DEF TheCommand
    <2> HIDE DEF created
    <2>3. /\ \A t \in Things \ {"dbname", "config", "init_command"} : heap'[t] = heap[t]
          /\ heap["err"] = 0 /\ heap'["dbname"] = 0 /\ heap'["config"] = 0
          /\ heap'["init_command"] = heap["init_command"] + Times(~Commanded)
      BY <1>2, <1>4, <2>1, <2>2, HeapOfObject DEF Things, Times
    <2>4. "text" # Nil
      BY NilAssumption
    <2>5. /\ heap'["init_command"] >= Times("text" # Nil)
          /\ Spellings <= 1 => heap'["init_command"] = Times("text" # Nil)
      BY <2>1, <2>3, <2>4 DEF IInv, HeapOK, Times, Things
    <2>6. "text" \in Commands
      BY DEF Commands
    <2>7. QED
      BY <1>1, <1>3, <1>6, <2>1, <2>3, <2>5, <2>6, GoesOnKeeps
  <1>7. CASE /\ Success(c)
             /\ heap' = Change({}, TheCommand(c))
             /\ dbh' = "open"
             /\ Return(c, TRUE)
             /\ UNCHANGED <<H, active>>
    BY <1>1, <1>3, <1>7, OpensKeeps
  <1>8. QED
    BY <1>5, <1>6, <1>7 DEF ConnectReturns

LEMMA InitReturnsKeep ==
    ASSUME IInv, NEW c \in Callers, InitReturns(c)
    PROVE  IInv'
  <1>1. Returning(c, "init")
    BY DEF InitReturns
  <1>2. /\ call[c] # Nil /\ call[c] \in Call /\ H # Nil
        /\ call[c].op = "init"
    BY <1>1, ReturnFacts
  <1>3. /\ H.db /\ H.conn
        /\ call[c].init_command = "text" /\ "text" # Nil
        /\ \A d \in Callers : d # c => call[d] = Nil
    BY <1>2, NilAssumption DEF IInv, Staged
  <1>4. ~Opening /\ ~OpenFailed
    BY <1>2, <1>3 DEF Opening, OpenFailed
  <1>5. CASE Success(c)
    <2>1. Success(c) = TRUE
      BY <1>5 DEF Success
    <2>2. /\ Return(c, TRUE)
          /\ heap' = Change({}, {"init_command"})
          /\ dbh' = "open"
          /\ UNCHANGED <<H, active>>
      BY <1>5, <2>1 DEF InitReturns
    <2>3. TheCommand(c) = {"init_command"}
      BY <1>3 DEF TheCommand
    <2>4. QED
      BY <1>1, <1>3, <2>2, <2>3, OpensKeeps
  <1>6. CASE ~Success(c)
    <2>1. Success(c) = FALSE
      BY <1>6 DEF Success
    <2>2. Return(c, FALSE) /\ Closer({"init_command"})
      BY <1>6, <2>1 DEF InitReturns
    <2> DEFINE released == {"H"} \cup TheLock \cup {"conn"} \cup {"db"} \cup {"init_command"}
    <2>3. released \in SUBSET Things /\ GivenBack(released) /\ active' = FALSE
      BY <1>3, <2>2 DEF Closer, Things, TheLock
    <2>4. /\ \A t \in Things \ {"init_command"} : heap[t] = Times(t \in released)
          /\ "init_command" \in released
      BY <1>2, <1>3, <1>4, HeapOfObject DEF Things, Times, TheLock
    <2> HIDE DEF released
    <2>5. QED
      BY <1>1, <1>3, <2>2, <2>3, <2>4, FactoryFails
  <1>7. QED
    BY <1>5, <1>6

-----------------------------------------------------------------------------
(* The theorems *)

LEMMA InitIInv == Init => IInv
  <1> SUFFICES ASSUME Init PROVE IInv
    OBVIOUS
  <1> USE DEF Init
  <1>1. P!IInv
    BY DispatchInit
  <1>2. Running
    BY <1>1, DispatchRunning
  <1>3. TypeOK
    <2>1. Dispatch!TypeOK
      BY <1>2 DEF Running
    <2>2. heap \in [Things -> Int] /\ call \in [Callers -> Call \cup {Nil}]
      OBVIOUS
    <2>3. QED
      BY <2>1, <2>2 DEF TypeOK
  <1>4. \A c \in Callers : Placed(c)
    BY NilAssumption DEF Placed, Dispatch!Init
  <1>5. \A c \in Callers : Staged(c) /\ Resulted(c)
    BY DEF Staged, Resulted
  <1>6. ObjectOK
    BY DEF ObjectOK
  <1>7. HeapOK
    BY DEF HeapOK, Opening, OpenFailed, Commanded, Times, Things
  <1>8. QED
    BY <1>1, <1>3, <1>4, <1>5, <1>6, <1>7 DEF IInv

LEMMA ContinuesKeep ==
    ASSUME IInv, NEW c \in Callers, Continues(c)
    PROVE  IInv'
  <1>1. CASE \/ Sleeps(c) \/ Queues(c) \/ IsRefused(c) \/ GoesInline(c) \/ Resumes(c)
             \/ Crashes(c)
    BY <1>1, WaitsKeep, IsRefusedKeeps, ResumesKeep, CrashesKeep
  <1>2. CASE RunsOnWorker(c) \/ RunsInline(c) \/ RunsDirectly(c)
    BY <1>2, RunsKeep
  <1>3. CASE OpenReturns(c) \/ ConnectReturns(c) \/ InitReturns(c) \/ FreeReturns(c)
    BY <1>3, OpenReturnsKeep, ConnectReturnsKeep, InitReturnsKeep, FreeReturnsKeep
  <1>4. CASE \E op \in Transactional \cup {"exec"} : QueryReturns(c, op)
    BY <1>4, QueryReturnsKeep DEF Transactional
  <1>5. QED
    BY <1>1, <1>2, <1>3, <1>4 DEF Continues

LEMMA NextKeeps == IInv /\ [Next]_vars => IInv'
  <1> SUFFICES ASSUME IInv, [Next]_vars PROVE IInv'
    OBVIOUS
  <1>1. ASSUME NEW c \in Callers,
               \/ Constructs(c) \/ ExecEnters(c) \/ Frees(c)
               \/ \E op \in Transactional : NotLetThrough(c, op) \/ TransactionEnters(c, op)
               \/ Continues(c)
        PROVE  IInv'
    <2>1. CASE Constructs(c)
      BY <2>1, ConstructsKeep
    <2>2. CASE ExecEnters(c)
      BY <2>2, QueryEntersKeep DEF ExecEnters
    <2>3. CASE Frees(c)
      BY <2>3, FreesKeep
    <2>4. CASE \E op \in Transactional : NotLetThrough(c, op)
      BY <2>4, NotLetThroughKeeps
    <2>5. CASE \E op \in Transactional : TransactionEnters(c, op)
      BY <2>5, QueryEntersKeep DEF TransactionEnters, Transactional
    <2>6. CASE Continues(c)
      BY <2>6, ContinuesKeep
    <2>7. QED
      BY <1>1, <2>1, <2>2, <2>3, <2>4, <2>5, <2>6
  <1>2. CASE UNCHANGED vars
    <2> USE <1>2 DEF vars, dispatchVars, objectVars
    <2>1. P!IInv'
      BY DispatchNext DEF IInv
    <2>2. Running'
      BY <2>1, DispatchRunningNext
    <2>3. TypeOK'
      BY <2>2 DEF IInv, TypeOK, Running
    <2>4. ASSUME NEW d \in Callers PROVE Placed(d)' /\ Staged(d)' /\ Resulted(d)'
      BY DEF IInv, Placed, Staged, Resulted, Success
    <2>5. ObjectOK' /\ HeapOK'
      BY DEF IInv, ObjectOK, HeapOK, Opening, OpenFailed, Commanded, Success
    <2>6. QED
      BY <2>1, <2>3, <2>4, <2>5 DEF IInv
  <1>3. CASE WorkerTakes
    <2>1. PICK c \in Callers : TRUE
      <3>1. queue # <<>> /\ queue \in Seq(Callers)
        BY <1>3, DispatchRunning
           DEF WorkerTakes, Dispatch!WorkerTakes, IInv, Running, Dispatch!TypeOK
      <3>2. Head(queue) \in Callers
        BY <3>1
      <3>3. QED
        BY <3>2
    <2>2. QED
      BY <1>3, <2>1, WorkerTakesKeeps
  <1>4. CASE Gone
    BY <1>2, <1>4 DEF Gone
  <1>5. QED
    BY <1>1, <1>2, <1>3, <1>4 DEF Next

(***************************************************************************)
(* Whoever shares the object, and whatever fails: every state of a         *)
(* connection satisfies the inductive invariant.                           *)
(***************************************************************************)
THEOREM ConnectionInvariance == Spec => []IInv
  <1>1. QED
    BY InitIInv, NextKeeps, PTL DEF Spec

(* The handle, the counts of what exists and the callers' locals keep       *)
(* their types.                                                            *)
THEOREM ConnectionTypeCorrect == Spec => []TypeOK
  <1>1. IInv => TypeOK
    BY DEF IInv
  <1>2. QED
    BY <1>1, ConnectionInvariance, PTL

(* The factory and the closer give back what was taken, once, as long as   *)
(* no two keys of the options spell "timezone" (duckdb_driver.c:143).      *)
THEOREM ReleasedOnceHolds ==
    ASSUME Spellings <= 1
    PROVE  Spec => []ReleasedOnce
  <1>1. IInv => ReleasedOnce
    <2> SUFFICES ASSUME IInv PROVE ReleasedOnce
      OBVIOUS
    <2>1. \A t \in Things : heap[t] \in {0, 1}
      BY DEF IInv, HeapOK, Times, Things
    <2>2. ASSUME dbh = "none" PROVE \A t \in Things : heap[t] = 0
      <3>1. H = Nil /\ ~Opening /\ ~OpenFailed /\ ~Commanded
        BY <2>2 DEF IInv, ObjectOK, Staged, Opening, OpenFailed, Commanded
      <3>2. QED
        BY <3>1, <2>1 DEF IInv, HeapOK, Times, Things
    <2>3. ASSUME dbh = "open"
          PROVE  {t \in Things : heap[t] = 1} = {"H", "db", "conn"} \cup TheLock
      <3>1. /\ H # Nil /\ H.db /\ H.conn
            /\ ~Opening /\ ~OpenFailed /\ ~Commanded
        BY <2>3 DEF IInv, ObjectOK, Staged, Opening, OpenFailed, Commanded
      <3>2. /\ heap["H"] = 1 /\ heap["db"] = 1 /\ heap["conn"] = 1
            /\ heap["dbname"] = 0 /\ heap["config"] = 0 /\ heap["err"] = 0
            /\ heap["init_command"] = 0
            /\ heap["thread_lock"] = Times(H.thread_lock)
        BY <3>1, HeapOfObject DEF IInv, HeapOK, Times
      <3>3. QED
        BY <3>2 DEF Things, TheLock, Times
    <2>4. QED
      BY <2>1, <2>2, <2>3 DEF ReleasedOnce
  <1>2. QED
    BY <1>1, ConnectionInvariance, PTL

(* While swoole_run() or a worker uses the lock, the strings, the database *)
(* or the connection, none of them is released.                            *)
THEOREM NoUseAfterReleaseHolds == Spec => []NoUseAfterRelease
  <1>1. IInv => NoUseAfterRelease
    <2> SUFFICES ASSUME IInv, NEW c \in Callers, pc[c] # "out" \/ AtCall(c)
                 PROVE  /\ pc[c] # "out" => heap["thread_lock"] > 0
                        /\ \A t \in NeededBy(call[c].op) : heap[t] > 0
      BY DEF NoUseAfterRelease
    <2>1. call[c] # Nil /\ call[c] \in Call
      BY CallFacts DEF AtCall, IInv, Placed
    <2>2. H # Nil
      BY <2>1 DEF IInv, Staged, ObjectOK
    <2>3. pc[c] # "out" => heap["thread_lock"] > 0
      BY <2>1, <2>2 DEF IInv, Placed, HeapOK, Times
    <2>4. heap["H"] > 0
      BY <2>2, HeapOfObject
    <2>5. CASE call[c].op = "open"
      <3>1. Opening
        BY <2>1, <2>5 DEF Opening
      <3>2. QED
        BY <2>2, <2>3, <2>4, <2>5, <3>1, HeapOfObject DEF NeededBy, Times
    <2>6. CASE call[c].op = "connect"
      <3>1. H.db
        BY <2>1, <2>6 DEF IInv, Staged
      <3>2. QED
        BY <2>2, <2>3, <2>4, <2>6, <3>1, HeapOfObject DEF NeededBy, Times
    <2>7. CASE call[c].op \notin {"open", "connect"}
      <3>1. H.db /\ H.conn /\ (call[c].op = "init" => Commanded)
        BY <2>1, <2>7, NilAssumption DEF IInv, Staged, Commanded
      <3>2. heap["db"] > 0 /\ heap["conn"] > 0
            /\ (call[c].op = "init" => heap["init_command"] > 0)
        <4>1. heap["init_command"] \in Int
          BY DEF IInv, TypeOK, Things
        <4>2. QED
          BY <2>2, <3>1, <4>1, HeapOfObject DEF IInv, HeapOK, Times
      <3>3. QED
        BY <2>3, <2>4, <2>7, <3>2 DEF NeededBy
    <2>8. QED
      BY <2>5, <2>6, <2>7
  <1>2. QED
    BY <1>1, ConnectionInvariance, PTL

(* A handler that reads its result reads what DuckDB wrote, but where the  *)
(* pool refused the call.                                                  *)
THEOREM ResultsWrittenHolds == Spec => []ResultsWritten
  <1>1. IInv => ResultsWritten
    BY DEF IInv, Resulted, ResultsWritten
  <1>2. QED
    BY <1>1, ConnectionInvariance, PTL

-----------------------------------------------------------------------------
(* Connection implements Transactions *)

Askeds == [c \in Callers |-> Asked(c)]
Tooks == [c \in Callers |-> Took(c)]

(* What the others asked for does not change while c acts. *)
LEMMA SharedCall ==
    ASSUME NEW c \in Callers, \A d \in Callers : d # c => call'[d] = call[d]
    PROVE  /\ Askeds' = [Askeds EXCEPT ![c] = Asked(c)']
           /\ Tooks' = [Tooks EXCEPT ![c] = Took(c)']
           /\ Askeds[c] = Asked(c) /\ Tooks[c] = Took(c)
           /\ Asked(c)' = Asked(c) => Askeds' = Askeds
           /\ Took(c)' = Took(c) => Tooks' = Tooks
  BY DEF Askeds, Tooks, Asked, Took

(* A place, and a refusal, are no concern of Transactions. *)
LEMMA SharedMove ==
    ASSUME NEW c \in Callers, NEW x, call[c] # Nil, x # Nil,
           call' [c] = x, \A d \in Callers : d # c => call'[d] = call[d],
           x.op = call[c].op, x.result = call[c].result,
           UNCHANGED <<active, answer>>
    PROVE  UNCHANGED Shared!vars
  <1>1. Asked(c)' = Asked(c) /\ Took(c)' = Took(c)
    BY DEF Asked, Took
  <1>2. Askeds' = Askeds /\ Tooks' = Tooks
    BY <1>1, SharedCall
  <1>3. QED
    BY <1>2 DEF Shared!vars, Askeds, Tooks

LEMMA SharedWaits ==
    ASSUME IInv, NEW c \in Callers,
           \/ Sleeps(c) \/ Queues(c) \/ GoesInline(c) \/ IsRefused(c)
           \/ Resumes(c) \/ Crashes(c)
    PROVE  UNCHANGED Shared!vars
  <1>1. call[c] # Nil /\ call[c] \in Call
    <2>1. CASE Sleeps(c) \/ Queues(c) \/ GoesInline(c) \/ IsRefused(c)
      BY <2>1, AtFlagFacts DEF Sleeps, Queues, GoesInline, IsRefused
    <2>2. CASE Resumes(c)
      BY <2>2, CallFacts DEF Resumes, Dispatch!Resume, IInv, Placed
    <2>3. CASE Crashes(c)
      BY <2>3, CallFacts DEF Crashes, IInv, Placed
    <2>4. QED
      BY <2>1, <2>2, <2>3
  <1>2. UNCHANGED <<active, answer>>
    BY DEF Sleeps, Queues, GoesInline, IsRefused, Resumes, Crashes, Proceed, objectVars
  <1>3. ASSUME NEW place \in {"waiting", "returning", "crashed"},
               NEW x, x = [call[c] EXCEPT !.at = place], call' = [call EXCEPT ![c] = x]
        PROVE  UNCHANGED Shared!vars
    <2>1. x \in Call /\ x.op = call[c].op /\ x.result = call[c].result
      BY <1>1, <1>3 DEF Call
    <2>2. call'[c] = x /\ \A d \in Callers : d # c => call'[d] = call[d]
      BY <1>3 DEF IInv, TypeOK
    <2>3. QED
      BY <1>1, <1>2, <2>1, <2>2, NilAssumption, SharedMove
  <1>4. CASE Sleeps(c) \/ Queues(c) \/ GoesInline(c) \/ Resumes(c) \/ Crashes(c)
    BY <1>3, <1>4 DEF Sleeps, Queues, GoesInline, Resumes, Crashes, Proceed
  <1>5. CASE IsRefused(c)
    <2> DEFINE x == [call[c] EXCEPT !.at = "returning", !.refused = TRUE]
    <2>1. x \in Call
      BY <1>1 DEF Call
    <2>2. x.op = call[c].op /\ x.result = call[c].result
      BY <1>1 DEF Call
    <2>3. call' = [call EXCEPT ![c] = x]
      BY <1>5 DEF IsRefused
    <2> HIDE DEF x
    <2>4. call'[c] = x /\ \A d \in Callers : d # c => call'[d] = call[d]
      BY <2>3 DEF IInv, TypeOK
    <2>5. QED
      BY <1>1, <1>2, <2>1, <2>2, <2>4, NilAssumption, SharedMove
  <1>6. QED
    BY <1>4, <1>5

(* SQL text, the constructor and the destructor may do what they like. *)
LEMMA SharedText ==
    ASSUME IInv, NEW c \in Callers, call[c] # Nil, call[c].op \notin Transactional,
           \A d \in Callers : d # c => call'[d] = call[d],
           \/ call'[c] = Nil
           \/ call'[c] # Nil /\ call'[c].op \notin Transactional,
           active' \in BOOLEAN,
           answer' \in {answer, <<c, TRUE>>, <<c, FALSE>>}
    PROVE  Shared!Next
  <1>1. /\ Askeds' = [Askeds EXCEPT ![c] = Asked(c)']
        /\ Tooks' = [Tooks EXCEPT ![c] = Took(c)']
        /\ Askeds[c] = Asked(c)
        /\ Asked(c)' = Asked(c) => Askeds' = Askeds
    BY SharedCall
  <1>2. /\ Asked(c) = "text"
        /\ Asked(c)' \in {"text", "none"}
        /\ Took(c)' \in {"no", "yes", "failed"}
    BY DEF Asked, Took
  <1>3. /\ Askeds[c] = "text"
        /\ Askeds' \in {Askeds, [Askeds EXCEPT ![c] = "none"]}
        /\ Tooks' \in {[Tooks EXCEPT ![c] = a] : a \in {"no", "yes", "failed"}}
    BY <1>1, <1>2
  <1>4. Shared!TextRuns(c)
    BY <1>3 DEF Shared!TextRuns, Askeds, Tooks
  <1>5. QED
    BY <1>4 DEF Shared!Next

LEMMA SharedRuns ==
    ASSUME IInv, NEW c \in Callers,
           RunsOnWorker(c) \/ RunsInline(c) \/ RunsDirectly(c)
    PROVE  Shared!Next
  <1>1. PICK place \in {"waiting", "returning"} : HasRun(c, place) /\ Runs(c, place)
    BY RunsHasRun
  <1>2. call[c] # Nil /\ call[c] \in Call /\ active \in BOOLEAN /\ answer' = answer
    BY <1>1 DEF HasRun, IInv, TypeOK
  <1>3. CASE OpenRuns(c, place) \/ ConnectRuns(c, place)
    <2>1. /\ call' = [call EXCEPT ![c] = [call[c] EXCEPT !.at = place, !.result = "unwritten"]]
          /\ call[c].op \in {"open", "connect"}
          /\ active' = active
      <3>1. [call[c] EXCEPT !.at = place] =
               [call[c] EXCEPT !.at = place, !.result = "unwritten"]
        BY <1>1 DEF HasRun, Call
      <3>2. QED
        BY <1>3, <3>1 DEF OpenRuns, ConnectRuns
    <2>2. /\ call'[c] # Nil /\ call'[c].op = call[c].op
          /\ \A d \in Callers : d # c => call'[d] = call[d]
      BY <1>1, <2>1, CallAfterRun
    <2>3. QED
      BY <1>2, <2>1, <2>2, SharedText DEF Transactional
  <1>4. CASE QueryRuns(c, place)
    <2> DEFINE r == IF Success(c)' THEN "ok" ELSE "error"
    <2>1. call' = [call EXCEPT ![c] = [call[c] EXCEPT !.at = place, !.result = r]]
      BY <1>4 DEF QueryRuns, Succeeds, Success
    <2>2. /\ call'[c] # Nil /\ call'[c].op = call[c].op /\ call'[c].result = r
          /\ \A d \in Callers : d # c => call'[d] = call[d]
      <3>1. r \in {"unwritten", "ok", "error"}
        OBVIOUS
      <3> HIDE DEF r
      <3>2. QED
        BY <1>1, <2>1, <3>1, CallAfterRun
    <2>3. active' \in BOOLEAN
      BY <1>2, <1>4 DEF QueryRuns
    <2>4. CASE call[c].op \notin Transactional
      BY <1>2, <2>2, <2>3, <2>4, SharedText
    <2>5. CASE call[c].op \in Transactional
      <3>1. /\ Asked(c) = call[c].op /\ Asked(c)' = Asked(c)
            /\ Took(c) = "no"
            /\ Took(c)' = IF Success(c)' THEN "yes" ELSE "failed"
        BY <1>1, <1>2, <2>2, <2>5 DEF Asked, Took, HasRun
      <3>2. /\ Askeds' = Askeds
            /\ Tooks' = [Tooks EXCEPT ![c] = Took(c)']
            /\ Askeds[c] = call[c].op /\ Tooks[c] = "no"
        BY <2>2, <3>1, SharedCall
      <3>3. CASE Success(c)'
        <4>1. (active <=> call[c].op # "begin") /\ active' = ~active
          BY <1>2, <1>4, <2>5, <3>3 DEF QueryRuns, Succeeds, Success, Transactional
        <4>2. Shared!TakesEffect(c)
          BY <1>2, <2>5, <3>1, <3>2, <3>3, <4>1
             DEF Shared!TakesEffect, Shared!TransactionCalls, Transactional, Askeds, Tooks
        <4>3. QED
          BY <4>2 DEF Shared!Next
      <3>4. CASE ~Success(c)'
        <4>1. active' \in {active, active /\ call[c].op = "begin"}
          BY <1>2, <1>4, <2>5, <3>4 DEF QueryRuns, Succeeds, Success, Transactional
        <4>2. Shared!Fails(c)
          BY <1>2, <2>5, <3>1, <3>2, <3>4, <4>1
             DEF Shared!Fails, Shared!TransactionCalls, Transactional, Askeds, Tooks
        <4>3. QED
          BY <4>2 DEF Shared!Next
      <3>5. QED
        BY <3>3, <3>4
    <2>6. QED
      BY <2>4, <2>5
  <1>5. QED
    BY <1>1, <1>3, <1>4 DEF Runs

LEMMA SharedReturns ==
    ASSUME IInv, NEW c \in Callers,
           \/ OpenReturns(c) \/ ConnectReturns(c) \/ InitReturns(c) \/ FreeReturns(c)
           \/ \E op \in Transactional \cup {"exec"} : QueryReturns(c, op)
    PROVE  Shared!Next
  <1>1. PICK op \in {"open", "connect", "init", "free", "exec"} \cup Transactional :
          /\ Returning(c, op)
          /\ op \in Transactional => QueryReturns(c, op)
    <2>1. CASE \/ OpenReturns(c) \/ ConnectReturns(c) \/ InitReturns(c) \/ FreeReturns(c)
      <3>1. \E op \in {"open", "connect", "init", "free"} : Returning(c, op)
        BY <2>1 DEF OpenReturns, ConnectReturns, InitReturns, FreeReturns
      <3>2. QED
        BY <3>1 DEF Transactional
    <2>2. CASE \E op \in Transactional \cup {"exec"} : QueryReturns(c, op)
      BY <2>2 DEF QueryReturns
    <2>3. QED
      BY <2>1, <2>2
  <1>2. call[c] # Nil /\ call[c] \in Call /\ call[c].op = op
    BY <1>1, ReturnFacts
  <1>3. active' \in BOOLEAN
    BY DEF OpenReturns, ConnectReturns, InitReturns, FreeReturns, QueryReturns,
           Closer, objectVars, IInv, TypeOK
  <1>4. CASE op \in Transactional
    <2>1. QueryReturns(c, op)
      BY <1>1, <1>4
    <2>2. /\ call'[c] = Nil
          /\ \A d \in Callers : d # c => call'[d] = call[d]
          /\ answer' = <<c, Success(c)>>
          /\ active' = active
      BY <2>1 DEF QueryReturns, Return, objectVars, IInv, TypeOK
    <2>3. Asked(c) = op /\ Asked(c)' = "none" /\ Took(c)' = "no"
      BY <1>2, <1>4, <2>2 DEF Asked, Took
    <2>4. Success(c) <=> Took(c) = "yes"
      BY <1>2, <1>4 DEF Took, IInv, Resulted, Call, Transactional
    <2>5. Success(c) = (Took(c) = "yes")
      BY <2>4 DEF Success
    <2>6. /\ Askeds' = [Askeds EXCEPT ![c] = "none"]
          /\ Tooks' = [Tooks EXCEPT ![c] = "no"]
          /\ Askeds[c] = op
          /\ answer' = <<c, Tooks[c] = "yes">>
      BY <2>2, <2>3, <2>5, SharedCall
    <2>7. Shared!Answers(c)
      BY <1>4, <2>2, <2>6
         DEF Shared!Answers, Shared!TransactionCalls, Transactional, Askeds, Tooks
    <2>8. QED
      BY <2>7 DEF Shared!Next
  <1>5. CASE op \notin Transactional
    <2>1. \/ OpenReturns(c) \/ ConnectReturns(c) \/ InitReturns(c) \/ FreeReturns(c)
          \/ QueryReturns(c, "exec")
      BY <1>2, <1>5 DEF QueryReturns, Returning
    <2>2. ASSUME NEW b \in BOOLEAN, Return(c, b)
          PROVE  Shared!Next
      <3>1. /\ call'[c] = Nil
            /\ \A d \in Callers : d # c => call'[d] = call[d]
        BY <2>2, ReturnCall
      <3>2. answer' \in {<<c, TRUE>>, <<c, FALSE>>}
        BY <2>2 DEF Return
      <3>3. QED
        BY <1>2, <1>3, <1>5, <3>1, <3>2, SharedText
    <2>3. ASSUME NEW next \in {"connect", "init"}, NEW command \in Commands,
                 GoesOn(c, next, command)
          PROVE  Shared!Next
      <3> DEFINE x == [NewCall(next) EXCEPT !.init_zval = call[c].init_zval,
                                            !.init_command = command]
      <3>1. x.op = next /\ x # Nil
        <4>1. call[c].init_zval \in Commands
          BY <1>2 DEF Call
        <4>2. x \in Call
          BY <4>1, ExceptFacts, NewCallFacts
        <4>3. x.op = next
          BY NewCallFacts DEF Call
        <4>4. QED
          BY <4>2, <4>3, NilAssumption
      <3>2. /\ call'[c] = x
            /\ \A d \in Callers : d # c => call'[d] = call[d]
            /\ answer' = answer
        BY <2>3 DEF GoesOn, IInv, TypeOK
      <3> HIDE DEF x
      <3>3. QED
        BY <1>2, <1>3, <1>5, <3>1, <3>2, SharedText DEF Transactional
    <2>4. TRUE \in BOOLEAN /\ FALSE \in BOOLEAN /\ Success(c) \in BOOLEAN
      BY DEF Success
    <2>5. call[c].init_command \in Commands /\ "text" \in Commands
      BY <1>2 DEF Call, Commands
    <2>6. CASE OpenReturns(c)
      BY <2>2, <2>3, <2>4, <2>5, <2>6 DEF OpenReturns
    <2>7. CASE ConnectReturns(c)
      BY <2>2, <2>3, <2>4, <2>5, <2>7 DEF ConnectReturns
    <2>8. CASE InitReturns(c) \/ FreeReturns(c) \/ QueryReturns(c, "exec")
      BY <2>2, <2>4, <2>8 DEF InitReturns, FreeReturns, QueryReturns
    <2>9. QED
      BY <2>1, <2>6, <2>7, <2>8
  <1>6. QED
    BY <1>4, <1>5

(* A handler begins: somebody asks for something. *)
LEMMA SharedAsks ==
    ASSUME IInv, NEW c \in Callers, NEW x, x # Nil,
           call[c] = Nil, call' = [call EXCEPT ![c] = x],
           x.result = "unwritten",
           UNCHANGED <<active, answer>>
    PROVE  Shared!Next
  <1>1. call'[c] = x /\ \A d \in Callers : d # c => call'[d] = call[d]
    BY DEF IInv, TypeOK
  <1>2. /\ Asked(c) = "none" /\ Took(c) = "no" /\ Took(c)' = "no"
        /\ Asked(c)' \in Transactional \cup {"text"}
    BY <1>1 DEF Asked, Took
  <1>3. /\ Askeds[c] = "none"
        /\ \E op \in Transactional \cup {"text"} : Askeds' = [Askeds EXCEPT ![c] = op]
        /\ Tooks' = Tooks
    BY <1>1, <1>2, SharedCall
  <1>4. Shared!Asks(c)
    BY <1>3 DEF Shared!Asks, Shared!Idle, Shared!TransactionCalls, Transactional,
                Askeds, Tooks
  <1>5. QED
    BY <1>4 DEF Shared!Next

LEMMA SharedEnters ==
    ASSUME IInv, NEW c \in Callers,
           NEW op \in {"exec", "begin", "commit", "rollBack", "free"},
           Begin(c, NewCall(op)), active' = active
    PROVE  Shared!Next
  <1>1. NewCall(op) # Nil /\ NewCall(op).result = "unwritten"
    BY NewCallFacts
  <1>2. call[c] = Nil /\ call' = [call EXCEPT ![c] = NewCall(op)] /\ answer' = answer
    BY DEF Begin, Ready
  <1>3. QED
    BY <1>1, <1>2, SharedAsks

LEMMA SharedConstructs ==
    ASSUME IInv, NEW c \in Callers, Constructs(c)
    PROVE  Shared!Next
  <1>1. PICK command \in Commands, init \in Commands :
          Begin(c, [NewCall("open") EXCEPT !.init_command = command, !.init_zval = init])
    BY DEF Constructs, Commands
  <1> DEFINE x == [NewCall("open") EXCEPT !.init_command = command, !.init_zval = init]
  <1>2. x \in Call
    BY ExceptFacts, NewCallFacts
  <1>3. x.result = "unwritten"
    BY NewCallFacts DEF Call
  <1>4. call[c] = Nil /\ call' = [call EXCEPT ![c] = x] /\ answer' = answer /\ active' = active
    BY <1>1 DEF Begin, Ready, Constructs
  <1> HIDE DEF x
  <1>5. QED
    BY <1>2, <1>3, <1>4, NilAssumption, SharedAsks

(* PDO core throws, because of what it saw or of what a worker is writing. *)
LEMMA SharedNotLetThrough ==
    ASSUME IInv, NEW c \in Callers, NEW op \in Transactional, NotLetThrough(c, op)
    PROVE  Shared!Next
  <1>1. Running
    BY DispatchRunning DEF IInv
  <1>2. /\ call[c] = Nil /\ (op = "begin") \in InTransaction
        /\ answer' = <<c, FALSE>>
        /\ UNCHANGED <<active, call>>
    BY DEF NotLetThrough, Ready, objectVars
  <1>3. Askeds' = Askeds /\ Tooks' = Tooks
    BY <1>2 DEF Askeds, Tooks, Asked, Took
  <1>4. Askeds[c] = "none"
    BY <1>2 DEF Askeds, Asked
  <1>5. \/ active <=> op = "begin"
        \/ \E d \in Callers \ {c} : Askeds[d] # "none"
    <2>1. CASE \E d \in Callers : task[d] = "running"
      <3>1. PICK d \in Callers : task[d] = "running"
        BY <2>1
      <3>2. call[d] # Nil
        BY <1>1, <3>1 DEF Running, IInv, Placed
      <3>3. Askeds[d] # "none" /\ d # c
        BY <1>2, <3>2 DEF Askeds, Asked, Transactional
      <3>4. QED
        BY <3>3
    <2>2. CASE ~ \E d \in Callers : task[d] = "running"
      <3>1. InTransaction = {active}
        BY <2>2 DEF InTransaction
      <3>2. (op = "begin") = active
        BY <1>2, <3>1
      <3>3. QED
        BY <3>2
    <2>3. QED
      BY <2>1, <2>2
  <1>6. op \in Shared!TransactionCalls
    BY DEF Transactional, Shared!TransactionCalls
  <1>7. Shared!NotLetThrough(c)
    BY <1>2, <1>3, <1>4, <1>5, <1>6
       DEF Shared!NotLetThrough, Shared!Idle, Askeds, Tooks
  <1>8. QED
    BY <1>7 DEF Shared!Next

LEMMA SharedFrees ==
    ASSUME IInv, NEW c \in Callers, Frees(c)
    PROVE  Shared!Next
  <1>1. CASE active
    BY <1>1, SharedEnters DEF Frees
  <1>2. CASE ~active
    <2>1. /\ \A d \in Callers : call[d] = Nil
          /\ active' = FALSE
          /\ UNCHANGED <<call, answer>>
      BY <1>2 DEF Frees, Closer
    <2>2. Askeds' = Askeds /\ Tooks' = Tooks /\ \A d \in Callers : Askeds[d] = "none"
      BY <2>1 DEF Askeds, Tooks, Asked, Took
    <2>3. Shared!Ends
      BY <2>1, <2>2 DEF Shared!Ends, Shared!Idle, Askeds, Tooks
    <2>4. QED
      BY <2>3 DEF Shared!Next
  <1>3. QED
    BY <1>1, <1>2

LEMMA SharedUnchanged ==
    ASSUME UNCHANGED <<active, call, answer>>
    PROVE  UNCHANGED Shared!vars
  BY DEF Shared!vars, Asked, Took

LEMMA StepImplements == IInv /\ [Next]_vars => [Shared!Next]_(Shared!vars)
  <1> SUFFICES ASSUME IInv, [Next]_vars PROVE Shared!Next \/ UNCHANGED Shared!vars
    OBVIOUS
  <1>1. ASSUME NEW c \in Callers, Continues(c)
        PROVE  Shared!Next \/ UNCHANGED Shared!vars
    <2>1. CASE \/ Sleeps(c) \/ Queues(c) \/ IsRefused(c) \/ GoesInline(c) \/ Resumes(c)
               \/ Crashes(c)
      BY <2>1, SharedWaits
    <2>2. CASE RunsOnWorker(c) \/ RunsInline(c) \/ RunsDirectly(c)
      BY <2>2, SharedRuns
    <2>3. CASE \/ OpenReturns(c) \/ ConnectReturns(c) \/ InitReturns(c) \/ FreeReturns(c)
               \/ \E op \in Transactional \cup {"exec"} : QueryReturns(c, op)
      BY <2>3, SharedReturns
    <2>4. QED
      BY <1>1, <2>1, <2>2, <2>3 DEF Continues
  <1>2. ASSUME NEW c \in Callers,
               \/ Constructs(c) \/ ExecEnters(c) \/ Frees(c)
               \/ \E op \in Transactional : NotLetThrough(c, op) \/ TransactionEnters(c, op)
        PROVE  Shared!Next
    <2>1. CASE Constructs(c)
      BY <2>1, SharedConstructs
    <2>2. CASE ExecEnters(c) \/ \E op \in Transactional : TransactionEnters(c, op)
      BY <2>2, SharedEnters
         DEF ExecEnters, TransactionEnters, Enters, Transactional, objectVars
    <2>3. CASE Frees(c)
      BY <2>3, SharedFrees
    <2>4. CASE \E op \in Transactional : NotLetThrough(c, op)
      BY <2>4, SharedNotLetThrough
    <2>5. QED
      BY <1>2, <2>1, <2>2, <2>3, <2>4
  <1>3. CASE WorkerTakes \/ Gone \/ UNCHANGED vars
    BY <1>3, SharedUnchanged DEF WorkerTakes, Gone, vars, objectVars
  <1>4. QED
    BY <1>1, <1>2, <1>3 DEF Next

LEMMA InitImplements == Init => Shared!Init
  BY DEF Init, Shared!Init, Asked, Took

(***************************************************************************)
(* However the callers of a shared object interleave, and although         *)
(* in_transaction is asked outside the flag, a transaction call answers    *)
(* TRUE exactly if it took effect, once.                                   *)
(***************************************************************************)
THEOREM ImplementsTransactions == Spec => TransactionsKept
  <1>1. QED
    BY InitImplements, StepImplements, ConnectionInvariance, PTL
       DEF Spec, TransactionsKept, Shared!Spec
=============================================================================
