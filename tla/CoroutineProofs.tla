--------------------------- MODULE CoroutineProofs ---------------------------
(***************************************************************************)
(* Proofs about module CoroutineStatements, for any number of coroutines   *)
(* and statements, any size of the pool and any results a query can        *)
(* return, in programs that do not enter a statement while another         *)
(* coroutine is inside one of its handlers.  What is proved of             *)
(* SwooleDispatch is used by way of its instance P; the lemmas about       *)
(* contents, columns and the abstract cursor are those of StatementProofs. *)
(***************************************************************************)
EXTENDS CoroutineStatements, StatementProofs, FiniteSetTheorems

P == INSTANCE DispatchProofs WITH
    Callers <- Coroutines,
    Conns <- {Connection},
    Runtimes <- {[usleep |-> TRUE, async |-> TRUE]}

-----------------------------------------------------------------------------
(* The inductive invariant *)

(* What the statement can know of a call: it is still to come, the pool     *)
(* refused it, or DuckDB answered.                                         *)
Stage(c) ==
    IF NotYetRun(c) THEN "coming"
    ELSE IF ran[c] = 0 THEN "refused"
    ELSE IF state[c] = "DuckDBSuccess" THEN "succeeded" ELSE "failed"

(* A handler waits exactly while it is inside swoole_run(). *)
Placed(c) ==
    /\ php = c => call[c] # Nil
    /\ call[c] = Nil => pc[c] = "out"
    /\ call[c] # Nil => (call[c].at = "waiting" <=> pc[c] # "out")
    /\ task[c] = "done" => ran[c] = 1

Alone ==
    \A s \in Stmts : \A c, d \in Coroutines : Inside(c, s) /\ Inside(d, s) => c = d

(* A result or a chunk is there for a statement: it is in its record, or in *)
(* the locals of the handler that runs on it.                              *)
ResultFor(s, r) == S[s] # Nil /\ S[s].result = r

ChunkFor(s, k) ==
    \/ S[s] # Nil /\ S[s].chunk = k
    \/ \E c \in Coroutines : Inside(c, s) /\ call[c].chunk = k

Owned ==
    /\ \A r \in Results : results[r] # Nil <=> \E s \in Stmts : ResultFor(s, r)
    /\ \A k \in Chunks : chunks[k] # Nil <=> \E s \in Stmts : ChunkFor(s, k)
    /\ \A s, t \in Stmts : s # t =>
          /\ \A r \in Results : ~(ResultFor(s, r) /\ ResultFor(t, r))
          /\ \A k \in Chunks : ~(ChunkFor(s, k) /\ ChunkFor(t, k))

StreamOK ==
    openStream # Nil => results[openStream] # Nil /\ results[openStream].streaming

Quiet(s) == \A c \in Coroutines : ~Inside(c, s)

(* A statement, whether or not a handler of it waits.  "done" and the chunk *)
(* exclude each other; a quiet statement owns what it points to.           *)
StatementOK(s) ==
    /\ s \in cut => S[s] # Nil /\ S[s].done
    /\ S[s] # Nil =>
          /\ S[s].result_set =>
                /\ S[s].result # Nil /\ pdo[s].executed
                /\ S[s].is_streaming = results[S[s].result].streaming
                /\ pdo[s].column_count = results[S[s].result].content.cols
          /\ S[s].chunk # Nil => ~S[s].done /\ ChunkAtHand(s)
          /\ s \notin cut /\ S[s].result_set /\ S[s].done => AllFetched(s)
          /\ Quiet(s) =>
                /\ S[s].result # Nil => S[s].result_set
                /\ S[s].result_set /\ S[s].chunk = Nil /\ ~S[s].done =>
                      NextChunk(s) = 0 /\ S[s].total_rows = 0

(* A preparation: there is no statement yet. *)
Preparing(c) == S[call[c].stmt] = Nil /\ call[c].chunk = Nil

(* An execution: what the statement had is gone, and the new result is     *)
(* written to the record as soon as DuckDB succeeds.                       *)
Executing(c) ==
    LET s == call[c].stmt IN
    /\ S[s] # Nil /\ s \notin cut
    /\ ~S[s].result_set /\ S[s].chunk = Nil
    /\ call[c].chunk = Nil
    /\ duck[s] = c
    /\ reply[s] = NoRow
    /\ S[s].result # Nil <=> Stage(c) = "succeeded"
    /\ Stage(c) = "succeeded" =>
          LET result == results[S[s].result]
          IN  result.served = 0 /\ (result.streaming => result.content.cols > 0)

(* A fetch: the exhausted chunk is gone and accounted for, the next one is *)
(* still to be handed out, in the call's locals, or does not exist.        *)
Fetching(c) ==
    LET s == call[c].stmt
        r == call[c].result
        content == results[r].content
        next == IF results[r].streaming THEN results[r].served ELSE call[c].index
        k == chunks[call[c].chunk]
    IN  /\ S[s] # Nil
        /\ S[s].result_set /\ ~S[s].done
        /\ S[s].result = r /\ S[s].chunk = Nil
        /\ call[c].chunk # Nil <=> Stage(c) = "succeeded"
        /\ Stage(c) = "coming" =>
              /\ next <= ChunkCount(content)
              /\ S[s].total_rows = RowsBefore(content, next)
              /\ ~results[r].streaming =>
                    next < ChunkCount(content) /\ S[s].next_chunk_index = next + 1
        /\ Stage(c) = "succeeded" =>
              /\ k.of = r
              /\ k.index < ChunkCount(content)
              /\ NextChunk(s) = k.index + 1
              /\ S[s].total_rows = RowsBefore(content, k.index)
        /\ Stage(c) = "failed" =>
              /\ S[s].total_rows = RowCount(content)
              /\ results[r].error = content.err
              /\ openStream # r

CallOK(c) ==
    call[c] # Nil =>
        /\ call[c].op = "prepare" => Preparing(c)
        /\ call[c].op = "execute" => Executing(c)
        /\ call[c].op = "fetch" => Fetching(c)

CInv ==
    /\ CTypeOK
    /\ P!IInv
    /\ ColumnsFreed
    /\ \A c \in Coroutines : Placed(c) /\ CallOK(c)
    /\ Alone
    /\ Owned
    /\ StreamOK
    /\ \A s \in Stmts : StatementOK(s)

-----------------------------------------------------------------------------
(* What SwooleDispatch contributes *)

LEMMA DispatchAssumptions ==
    /\ Coroutines \subseteq Coroutines
    /\ Nil \notin Coroutines
    /\ Nil \notin {Connection}
    /\ Workers \in Nat \ {0}
    /\ {[usleep |-> TRUE, async |-> TRUE]} \subseteq [usleep : BOOLEAN, async : BOOLEAN]
  BY CoroutinesAssumption

LEMMA DispatchInit == Dispatch!Init => P!IInv
  <1>1. Dispatch!Init => P!Init
    BY DEF Dispatch!Init, P!Init
  <1>2. P!Init => P!IInv
    BY P!InitIInv, DispatchAssumptions DEF P!InitIInv
  <1>3. QED
    BY <1>1, <1>2

(* Its invariant survives its own steps and the steps beside it. *)
LEMMA DispatchNext ==
    ASSUME P!IInv, P!Next \/ UNCHANGED dispatchVars
    PROVE  P!IInv'
  <1>1. P!Next \/ UNCHANGED P!vars
    BY DEF dispatchVars, P!vars
  <1>2. P!IInv /\ (P!Next \/ UNCHANGED P!vars) => P!IInv'
    BY P!NextKeeps, DispatchAssumptions DEF P!NextKeeps
  <1>3. QED
    BY <1>1, <1>2

LEMMA DispatchStep ==
    ASSUME P!IInv, NEW c \in Coroutines,
           \/ Dispatch!Wait(c, Connection)
           \/ Dispatch!LockAndQueue(c, Connection)
           \/ Dispatch!LockAndRefused(c, Connection)
           \/ Dispatch!WorkerEnds(c)
           \/ Dispatch!Resume(c)
    PROVE  P!IInv'
  <1> USE DEF Dispatch!AtLock, P!AtLock, Dispatch!Calls, P!Calls,
              Dispatch!Retries, P!Retries, Dispatch!Fresh, P!Fresh,
              Dispatch!Yield, P!Yield, Dispatch!Keep, P!Keep,
              Dispatch!Leave, P!Leave, Dispatch!FnEnds, P!FnEnds,
              Dispatch!States, P!States
  <1>1. CASE Dispatch!Wait(c, Connection)
    <2>1. P!Wait(c, Connection)
      BY <1>1 DEF Dispatch!Wait, P!Wait
    <2>2. QED
      BY <2>1, DispatchNext DEF P!Next, P!Try
  <1>2. CASE Dispatch!LockAndQueue(c, Connection)
    <2>1. P!LockAndQueue(c, Connection)
      BY <1>2 DEF Dispatch!LockAndQueue, P!LockAndQueue
    <2>2. QED
      BY <2>1, DispatchNext DEF P!Next, P!Try
  <1>3. CASE Dispatch!LockAndRefused(c, Connection)
    <2>1. P!LockAndRefused(c, Connection)
      BY <1>3 DEF Dispatch!LockAndRefused, P!LockAndRefused
    <2>2. QED
      BY <2>1, DispatchNext DEF P!Next, P!Try
  <1>4. CASE Dispatch!WorkerEnds(c)
    <2>1. P!WorkerEnds(c)
      BY <1>4 DEF Dispatch!WorkerEnds, P!WorkerEnds
    <2>2. QED
      BY <2>1, DispatchNext DEF P!Next
  <1>5. CASE Dispatch!Resume(c)
    <2>1. P!Resume(c)
      BY <1>5 DEF Dispatch!Resume, P!Resume
    <2>2. QED
      BY <2>1, DispatchNext DEF P!Next
  <1>6. QED
    BY <1>1, <1>2, <1>3, <1>4, <1>5

LEMMA DispatchTakes ==
    ASSUME P!IInv, Dispatch!WorkerTakes
    PROVE  P!IInv'
  <1>1. P!WorkerTakes
    BY DEF Dispatch!WorkerTakes, P!WorkerTakes, Dispatch!Cardinality, P!Cardinality
  <1>2. QED
    BY <1>1, DispatchNext DEF P!Next

(* What the handlers need to know of swoole_run(). *)
Running ==
    /\ Dispatch!TypeOK
    /\ \A c \in Coroutines :
          /\ pc[c] \in {"out", "asleep", "spinning", "yielded", "inline"}
          /\ state[c] \in {"DuckDBSuccess", "DuckDBError"}
          /\ task[c] # "none" <=> pc[c] = "yielded"
          /\ task[c] \in {"queued", "running"} => ran[c] = 0
          /\ ran[c] \in {0, 1}
          /\ state[c] = "DuckDBSuccess" => ran[c] = 1
    /\ queue # <<>> => Head(queue) \in Coroutines /\ task[Head(queue)] = "queued"

LEMMA DispatchRunning == P!IInv => Running
  <1> SUFFICES ASSUME P!IInv PROVE Running
    OBVIOUS
  <1>1. Dispatch!TypeOK
    BY DEF P!IInv, P!TypeOK, P!Places, P!TaskStates, P!States, Dispatch!TypeOK,
           Dispatch!Places, Dispatch!TaskStates, Dispatch!States
  <1>2. ASSUME NEW c \in Coroutines
        PROVE  /\ pc[c] \in P!Places
               /\ state[c] \in P!States
               /\ ran[c] \in Nat /\ ran[c] <= 1
               /\ state[c] = "DuckDBSuccess" => ran[c] = 1
    BY DEF P!IInv, P!TypeOK, P!SuccessMeansRan
  <1>3. ASSUME NEW c \in Coroutines
        PROVE  /\ task[c] # "none" <=> pc[c] = "yielded"
               /\ task[c] \in {"queued", "running"} => ran[c] = 0
    BY DEF P!IInv, P!NoDanglingTask, P!NotYetRan
  <1>4. ASSUME queue # <<>>
        PROVE  Head(queue) \in Coroutines /\ task[Head(queue)] = "queued"
    <2>1. queue \in Seq(Coroutines)
      BY DEF P!IInv, P!TypeOK
    <2>2. 1 \in 1..Len(queue) /\ Head(queue) = queue[1] /\ Head(queue) \in Coroutines
      BY <1>4, <2>1
    <2>3. QED
      BY <2>2 DEF P!IInv, P!QueueOK
  <1>5. QED
    BY <1>1, <1>2, <1>3, <1>4 DEF Running, P!Places, P!States

LEMMA DispatchRunningNext == P!IInv' => Running'
  BY DispatchRunning, PTL

-----------------------------------------------------------------------------
(* Where the calls are *)

LEMMA CallFacts ==
    ASSUME CTypeOK, NEW c \in Coroutines, call[c] # Nil
    PROVE  /\ call[c] \in Call
           /\ call[c].op \in {"prepare", "execute", "fetch"}
           /\ call[c].stmt \in Stmts
           /\ call[c].at \in {"entering", "waiting", "returning"}
           /\ call[c].result \in Results \cup {Nil}
           /\ call[c].index \in Nat
           /\ call[c].chunk \in Chunks \cup {Nil}
  <1>1. call[c] \in Call
    BY DEF CTypeOK
  <1>2. QED
    BY <1>1 DEF Call

(* A step of swoole_run() for c, told without its variables: the places of *)
(* the others and their stages are what they were.                         *)
Elsewhere(c) ==
    \A d \in Coroutines : d # c =>
        /\ call'[d] = call[d]
        /\ Placed(d)'
        /\ Stage(d)' = Stage(d)

(* The locals of a handler that stay while it moves on. *)
Moved(c, place) ==
    /\ call[c] # Nil
    /\ call' = [call EXCEPT ![c].at = place]
    /\ place \in {"entering", "waiting", "returning"}
    /\ Placed(c)'
    /\ Elsewhere(c)

LEMMA MovedFacts ==
    ASSUME CTypeOK, NEW c \in Coroutines, NEW place, call[c] # Nil,
           place \in {"entering", "waiting", "returning"},
           call' = [call EXCEPT ![c].at = place]
    PROVE  /\ call' \in [Coroutines -> Call \cup {Nil}]
           /\ call'[c] \in Call /\ call'[c] # Nil
           /\ call'[c].at = place
           /\ call'[c].op = call[c].op
           /\ call'[c].stmt = call[c].stmt
           /\ call'[c].result = call[c].result
           /\ call'[c].index = call[c].index
           /\ call'[c].chunk = call[c].chunk
           /\ \A d \in Coroutines : d # c => call'[d] = call[d]
  <1> DEFINE x == [call[c] EXCEPT !.at = place]
  <1>1. /\ x \in Call
        /\ x.at = place
        /\ x.op = call[c].op
        /\ x.stmt = call[c].stmt
        /\ x.result = call[c].result
        /\ x.index = call[c].index
        /\ x.chunk = call[c].chunk
    BY CallFacts DEF Call
  <1>2. call' = [call EXCEPT ![c] = x]
    OBVIOUS
  <1> HIDE DEF x
  <1>3. x # Nil
    BY <1>1, CoroutinesAssumption
  <1>4. call'[c] = x /\ \A d \in Coroutines : d # c => call'[d] = call[d]
    BY <1>2 DEF CTypeOK
  <1>5. call' \in [Coroutines -> Call \cup {Nil}]
    BY <1>1, <1>2 DEF CTypeOK
  <1>6. QED
    BY <1>1, <1>3, <1>4, <1>5

(* Whoever comes to the flag has a call that is still to come. *)
LEMMA AtFlagFacts ==
    ASSUME CInv, NEW c \in Coroutines, AtFlag(c)
    PROVE  /\ call[c] # Nil
           /\ pc[c] \in {"out", "asleep"}
           /\ task[c] = "none"
           /\ Stage(c) = "coming"
  <1>1. Running
    BY DispatchRunning DEF CInv
  <1>2. call[c] # Nil
    BY DEF AtFlag, CInv, Placed
  <1>3. \/ call[c].at = "entering" /\ pc[c] = "out"
        \/ call[c].at = "waiting" /\ pc[c] = "asleep"
    BY <1>1, <1>2 DEF AtFlag, CInv, Placed, Running
  <1>4. task[c] = "none"
    BY <1>1, <1>3 DEF Running
  <1>5. Stage(c) = "coming"
    BY <1>3, <1>4 DEF Stage, NotYetRun
  <1>6. QED
    BY <1>2, <1>3, <1>4, <1>5

LEMMA WaitsMove ==
    ASSUME CInv, NEW c \in Coroutines, Sleeps(c) \/ Queues(c)
    PROVE  Moved(c, "waiting") /\ Stage(c)' = Stage(c) /\ P!IInv'
  <1>1. AtFlag(c)
    BY DEF Sleeps, Queues
  <1>2. P!IInv'
    BY DispatchStep DEF CInv, Sleeps, Queues
  <1>3. Running /\ CTypeOK
    BY DispatchRunning DEF CInv
  <1>4. /\ pc'[c] # "out"
        /\ task'[c] # "done"
        /\ \A d \in Coroutines : d # c =>
              /\ pc'[d] = pc[d] /\ task'[d] = task[d]
              /\ ran'[d] = ran[d] /\ state'[d] = state[d]
    <2> USE <1>1, <1>3, AtFlagFacts
        DEF Running, Dispatch!TypeOK, Dispatch!Fresh, Dispatch!Yield
    <2>1. CASE Sleeps(c)
      <3>1. runtime.usleep
        BY DEF Dispatch!TypeOK
      <3>2. QED
        BY <2>1, <3>1 DEF Sleeps, Dispatch!Wait
    <2>2. CASE Queues(c)
      BY <2>2 DEF Queues, Dispatch!LockAndQueue
    <2>3. QED
      BY <2>1, <2>2
  <1>5. call' = [call EXCEPT ![c].at = "waiting"] /\ php' = Nil
    BY DEF Sleeps, Queues, Proceed
  <1>6. /\ call[c] # Nil /\ Stage(c) = "coming"
    BY <1>1, AtFlagFacts
  <1>7. /\ call'[c] # Nil /\ call'[c].at = "waiting"
        /\ \A d \in Coroutines : d # c => call'[d] = call[d]
    BY <1>3, <1>5, <1>6, MovedFacts
  <1>8. Elsewhere(c)
    BY <1>4, <1>5, <1>7, CoroutinesAssumption
       DEF Elsewhere, Placed, Stage, NotYetRun, CInv
  <1>9. Placed(c)' /\ Stage(c)' = "coming"
    BY <1>4, <1>5, <1>7, CoroutinesAssumption DEF Placed, Stage, NotYetRun
  <1>10. QED
    BY <1>2, <1>5, <1>6, <1>8, <1>9 DEF Moved

LEMMA RefusalMoves ==
    ASSUME CInv, NEW c \in Coroutines, IsRefused(c)
    PROVE  /\ Moved(c, "returning")
           /\ Stage(c) = "coming" /\ Stage(c)' = "refused"
           /\ P!IInv'
  <1>1. AtFlag(c) /\ Dispatch!LockAndRefused(c, Connection)
    BY DEF IsRefused
  <1>2. P!IInv'
    BY <1>1, DispatchStep DEF CInv
  <1>3. Running /\ CTypeOK
    BY DispatchRunning DEF CInv
  <1>4. /\ pc'[c] = "out"
        /\ task'[c] # "done"
        /\ ran'[c] = 0
        /\ \A d \in Coroutines : d # c =>
              /\ pc'[d] = pc[d] /\ task'[d] = task[d]
              /\ ran'[d] = ran[d] /\ state'[d] = state[d]
    BY <1>1, <1>3, AtFlagFacts
       DEF Running, Dispatch!TypeOK, Dispatch!LockAndRefused, Dispatch!Fresh, Dispatch!Leave
  <1>5. call' = [call EXCEPT ![c].at = "returning"] /\ php' = c
    BY DEF IsRefused, Proceed
  <1>6. call[c] # Nil /\ Stage(c) = "coming"
    BY <1>1, AtFlagFacts
  <1>7. /\ call'[c] # Nil /\ call'[c].at = "returning"
        /\ \A d \in Coroutines : d # c => call'[d] = call[d]
    BY <1>3, <1>5, <1>6, MovedFacts
  <1>8. Elsewhere(c)
    BY <1>4, <1>5, <1>7 DEF Elsewhere, Placed, Stage, NotYetRun, CInv
  <1>9. Placed(c)' /\ Stage(c)' = "refused"
    BY <1>4, <1>5, <1>7 DEF Placed, Stage, NotYetRun
  <1>10. QED
    BY <1>2, <1>5, <1>6, <1>8, <1>9 DEF Moved

LEMMA ResumptionMoves ==
    ASSUME CInv, NEW c \in Coroutines, Resumes(c)
    PROVE  Moved(c, "returning") /\ Stage(c)' = Stage(c) /\ P!IInv'
  <1>1. Dispatch!Resume(c)
    BY DEF Resumes
  <1>2. P!IInv'
    BY <1>1, DispatchStep DEF CInv
  <1>3. Running /\ CTypeOK
    BY DispatchRunning DEF CInv
  <1>4. /\ pc[c] = "yielded" /\ task[c] = "done"
        /\ pc'[c] = "out" /\ task'[c] # "done"
        /\ ran'[c] = ran[c] /\ state'[c] = state[c]
        /\ \A d \in Coroutines : d # c =>
              /\ pc'[d] = pc[d] /\ task'[d] = task[d]
              /\ ran'[d] = ran[d] /\ state'[d] = state[d]
    BY <1>1, <1>3 DEF Running, Dispatch!TypeOK, Dispatch!Resume, Dispatch!Leave
  <1>5. call' = [call EXCEPT ![c].at = "returning"] /\ php' = c
    BY DEF Resumes, Proceed
  <1>6. call[c] # Nil
    BY <1>4 DEF CInv, Placed
  <1>7. /\ call'[c] # Nil /\ call'[c].at = "returning"
        /\ \A d \in Coroutines : d # c => call'[d] = call[d]
    BY <1>3, <1>5, <1>6, MovedFacts
  <1>8. Elsewhere(c)
    BY <1>4, <1>5, <1>7 DEF Elsewhere, Placed, Stage, NotYetRun, CInv
  <1>9. Placed(c)' /\ Stage(c)' = Stage(c)
    BY <1>4, <1>5, <1>7 DEF Placed, Stage, NotYetRun
  <1>10. QED
    BY <1>2, <1>5, <1>6, <1>8, <1>9 DEF Moved

LEMMA TakingMoves ==
    ASSUME CInv, WorkerTakes
    PROVE  /\ \A d \in Coroutines : Placed(d)' /\ Stage(d)' = Stage(d)
           /\ P!IInv'
  <1>1. Dispatch!WorkerTakes /\ UNCHANGED <<php, call>>
    BY DEF WorkerTakes
  <1>2. P!IInv'
    BY <1>1, DispatchTakes DEF CInv
  <1>3. Running
    BY DispatchRunning DEF CInv
  <1>4. Head(queue) \in Coroutines /\ task[Head(queue)] = "queued"
    BY <1>1, <1>3 DEF Running, Dispatch!WorkerTakes
  <1>5. /\ \A d \in Coroutines : task'[d] = "done" <=> task[d] = "done"
        /\ UNCHANGED <<pc, ran, state>>
    BY <1>1, <1>3, <1>4 DEF Running, Dispatch!TypeOK, Dispatch!WorkerTakes
  <1>6. \A d \in Coroutines : Placed(d)' /\ Stage(d)' = Stage(d)
    BY <1>1, <1>5 DEF CInv, Placed, Stage, NotYetRun
  <1>7. QED
    BY <1>2, <1>6

(* A worker runs the call of c: it has not run before. *)
LEMMA RunMoves ==
    ASSUME CInv, NEW c \in Coroutines, call[c] # Nil,
           Dispatch!WorkerEnds(c),
           call'[c] # Nil, call'[c].at = call[c].at,
           \A d \in Coroutines : d # c => call'[d] = call[d],
           php' = php
    PROVE  /\ Stage(c) = "coming"
           /\ Stage(c)' = IF state'[c] = "DuckDBSuccess" THEN "succeeded" ELSE "failed"
           /\ state'[c] \in {"DuckDBSuccess", "DuckDBError"}
           /\ Placed(c)' /\ Elsewhere(c) /\ P!IInv'
  <1>1. P!IInv'
    BY DispatchStep DEF CInv
  <1>2. Running /\ Running'
    BY <1>1, DispatchRunning, DispatchRunningNext DEF CInv
  <1>3. /\ pc[c] = "yielded" /\ task[c] = "running" /\ ran[c] = 0
        /\ pc'[c] = "yielded" /\ task'[c] = "done" /\ ran'[c] = 1
        /\ \A d \in Coroutines : d # c =>
              /\ pc'[d] = pc[d] /\ task'[d] = task[d]
              /\ ran'[d] = ran[d] /\ state'[d] = state[d]
    BY <1>2 DEF Running, Dispatch!TypeOK, Dispatch!WorkerEnds, Dispatch!FnEnds
  <1>4. call[c].at = "waiting"
    BY <1>3 DEF CInv, Placed
  <1>5. Stage(c) = "coming"
    BY <1>3, <1>4 DEF Stage, NotYetRun
  <1>6. Stage(c)' = IF state'[c] = "DuckDBSuccess" THEN "succeeded" ELSE "failed"
    BY <1>3 DEF Stage, NotYetRun
  <1>7. Placed(c)'
    BY <1>3, <1>4 DEF Placed
  <1>8. Elsewhere(c)
    BY <1>3 DEF Elsewhere, Placed, Stage, NotYetRun, CInv
  <1>9. QED
    BY <1>1, <1>2, <1>5, <1>6, <1>7, <1>8 DEF Running

(* c enters a handler. *)
LEMMA EnterMoves ==
    ASSUME CInv, NEW c \in Coroutines, NEW x \in Call, Enter(c, x), x.at = "entering"
    PROVE  /\ call[c] = Nil
           /\ call'[c] = x /\ x # Nil
           /\ call' \in [Coroutines -> Call \cup {Nil}]
           /\ php' \in Coroutines \cup {Nil}
           /\ Stage(c)' = "coming"
           /\ Placed(c)' /\ Elsewhere(c) /\ P!IInv'
  <1>1. /\ call' = [call EXCEPT ![c] = x] /\ php' = c
        /\ php = Nil /\ call[c] = Nil
        /\ UNCHANGED dispatchVars
    BY DEF Enter, MayUse, Free
  <1>2. x # Nil
    BY CoroutinesAssumption
  <1>3. /\ call'[c] = x
        /\ \A d \in Coroutines : d # c => call'[d] = call[d]
        /\ call' \in [Coroutines -> Call \cup {Nil}]
    BY <1>1 DEF CInv, CTypeOK
  <1>4. P!IInv'
    BY <1>1, DispatchNext DEF CInv
  <1>5. Running
    BY DispatchRunning DEF CInv
  <1>6. pc[c] = "out" /\ task[c] = "none"
    BY <1>1, <1>5 DEF CInv, Placed, Running
  <1>7. Stage(c)' = "coming" /\ Placed(c)'
    BY <1>1, <1>2, <1>3, <1>6 DEF Stage, NotYetRun, Placed, dispatchVars
  <1>8. Elsewhere(c)
    BY <1>1, <1>3 DEF Elsewhere, Stage, NotYetRun, Placed, dispatchVars, CInv
  <1>9. QED
    BY <1>1, <1>2, <1>3, <1>4, <1>7, <1>8

(* The handler that c is inside returns. *)
LEMMA ReturnMoves ==
    ASSUME CInv, NEW c \in Coroutines, NEW op, Returning(c, op), Return(c)
    PROVE  /\ call[c] # Nil
           /\ call'[c] = Nil
           /\ call' \in [Coroutines -> Call \cup {Nil}]
           /\ php' = Nil
           /\ Stage(c) \in {"refused", "failed", "succeeded"}
           /\ Stage(c) = "refused" <=> ran[c] = 0
           /\ Stage(c) = "succeeded" <=> state[c] = "DuckDBSuccess"
           /\ Placed(c)' /\ Elsewhere(c) /\ P!IInv'
  <1>1. /\ call' = [call EXCEPT ![c] = Nil] /\ php' = Nil
        /\ php = c /\ call[c].at = "returning"
        /\ UNCHANGED dispatchVars
    BY DEF Returning, Return
  <1>2. call[c] # Nil /\ pc[c] = "out"
    BY <1>1 DEF CInv, Placed
  <1>3. /\ call'[c] = Nil
        /\ \A d \in Coroutines : d # c => call'[d] = call[d]
        /\ call' \in [Coroutines -> Call \cup {Nil}]
    BY <1>1 DEF CInv, CTypeOK
  <1>4. P!IInv'
    BY <1>1, DispatchNext DEF CInv
  <1>5. /\ Stage(c) \in {"refused", "failed", "succeeded"}
        /\ Stage(c) = "refused" <=> ran[c] = 0
        /\ Stage(c) = "succeeded" <=> state[c] = "DuckDBSuccess"
    <2>1. Running
      BY DispatchRunning DEF CInv
    <2>2. QED
      BY <1>1, <2>1 DEF Running, Stage, NotYetRun
  <1>6. Placed(c)'
    BY <1>1, <1>2, <1>3, CoroutinesAssumption DEF Placed, dispatchVars, CInv
  <1>7. Elsewhere(c)
    BY <1>1, <1>3, CoroutinesAssumption DEF Elsewhere, Stage, NotYetRun, Placed, dispatchVars, CInv
  <1>8. QED
    BY <1>1, <1>2, <1>3, <1>4, <1>5, <1>6, <1>7

(* A handler that does not yield. *)
LEMMA AtOnceMoves ==
    ASSUME CInv, UNCHANGED <<dispatchVars, php, call>>
    PROVE  /\ \A d \in Coroutines : Placed(d)' /\ Stage(d)' = Stage(d)
           /\ P!IInv'
  <1>1. P!IInv'
    BY DispatchNext DEF CInv
  <1>2. \A d \in Coroutines : Placed(d)' /\ Stage(d)' = Stage(d)
    BY DEF Placed, Stage, NotYetRun, dispatchVars, CInv
  <1>3. QED
    BY <1>1, <1>2

-----------------------------------------------------------------------------
(* What a step of one statement leaves of the others *)

(***************************************************************************)
(* A step that only moves calls on: DuckDB, the statements and the locals  *)
(* of the handlers are what they were, at most a call has been refused.    *)
(***************************************************************************)
SameLocals(d) ==
    /\ call'[d] = Nil <=> call[d] = Nil
    /\ call[d] # Nil =>
          /\ call'[d].op = call[d].op
          /\ call'[d].stmt = call[d].stmt
          /\ call'[d].result = call[d].result
          /\ call'[d].index = call[d].index
          /\ call'[d].chunk = call[d].chunk
          /\ Stage(d)' = Stage(d) \/ (Stage(d) = "coming" /\ Stage(d)' = "refused")

LEMMA LocalsKeep ==
    ASSUME CInv, CTypeOK', P!IInv',
           UNCHANGED <<S, pdo, results, chunks, openStream, cut>>,
           \A d \in Coroutines : Placed(d)' /\ SameLocals(d),
           \A d \in Coroutines : call[d] # Nil =>
               /\ reply'[call[d].stmt] = reply[call[d].stmt]
               /\ duck'[call[d].stmt] = duck[call[d].stmt]
    PROVE  CInv'
  <1>1. \A d \in Coroutines, s \in Stmts : Inside(d, s)' <=> Inside(d, s)
    BY DEF Inside, SameLocals
  <1>2. /\ \A s \in Stmts, r \in Results : ResultFor(s, r)' <=> ResultFor(s, r)
        /\ \A s \in Stmts, k \in Chunks : ChunkFor(s, k)' <=> ChunkFor(s, k)
    BY <1>1 DEF ResultFor, ChunkFor, SameLocals, Inside
  <1>3. Owned'
    BY <1>2 DEF CInv, Owned
  <1>4. Alone'
    BY <1>1 DEF CInv, Alone
  <1>5. StreamOK' /\ ColumnsFreed'
    BY DEF CInv, StreamOK, ColumnsFreed
  <1>6. ASSUME NEW s \in Stmts PROVE StatementOK(s)'
    <2>1. Quiet(s)' <=> Quiet(s)
      BY <1>1 DEF Quiet
    <2>2. StatementOK(s)
      BY DEF CInv
    <2>3. QED
      BY <2>1, <2>2
         DEF StatementOK, ChunkAtHand, AllFetched, AbstractPosition, NextChunk
  <1>7. ASSUME NEW d \in Coroutines PROVE CallOK(d)'
    <2> SUFFICES ASSUME call[d] # Nil PROVE CallOK(d)'
      BY DEF SameLocals, CallOK
    <2>1. /\ call'[d].op = call[d].op
          /\ call'[d].stmt = call[d].stmt
          /\ call'[d].result = call[d].result
          /\ call'[d].index = call[d].index
          /\ call'[d].chunk = call[d].chunk
          /\ Stage(d)' = Stage(d) \/ (Stage(d) = "coming" /\ Stage(d)' = "refused")
      BY DEF SameLocals
    <2>2. CallOK(d)
      BY DEF CInv
    <2>3. Preparing(d) => Preparing(d)'
      BY <2>1 DEF Preparing
    <2>4. Executing(d) => Executing(d)'
      BY <2>1 DEF Executing
    <2>5. Fetching(d) => Fetching(d)'
      BY <2>1 DEF Fetching, NextChunk
    <2>6. QED
      BY <2>1, <2>2, <2>3, <2>4, <2>5 DEF CallOK
  <1>8. QED
    BY <1>3, <1>4, <1>5, <1>6, <1>7 DEF CInv

(***************************************************************************)
(* A step of statement s, or of the coroutine inside it, does not touch    *)
(* the other statements, nor the handlers that run on them.                *)
(***************************************************************************)
CallsElsewhere(s) ==
    \A t \in Stmts, d \in Coroutines : t # s =>
        /\ Inside(d, t)' <=> Inside(d, t)
        /\ Inside(d, t) => call'[d] = call[d] /\ Stage(d)' = Stage(d)

OnlyStatement(s) ==
    /\ \A t \in Stmts : t # s =>
          /\ S'[t] = S[t] /\ pdo'[t] = pdo[t] /\ reply'[t] = reply[t]
          /\ duck'[t] = duck[t]
          /\ t \in cut' <=> t \in cut
    /\ CallsElsewhere(s)

(* What it allocates is for s, and so is what it destroys. *)
Accounted(s) ==
    /\ \A r \in Results :
          /\ ~ResultFor(s, r) /\ ~ResultFor(s, r)' => results'[r] = results[r]
          /\ ResultFor(s, r)' => results'[r] # Nil /\ (ResultFor(s, r) \/ results[r] = Nil)
          /\ ResultFor(s, r) /\ ~ResultFor(s, r)' => results'[r] = Nil
    /\ \A k \in Chunks :
          /\ ~ChunkFor(s, k) /\ ~ChunkFor(s, k)' => chunks'[k] = chunks[k]
          /\ ChunkFor(s, k)' => chunks'[k] # Nil /\ (ChunkFor(s, k) \/ chunks[k] = Nil)
          /\ ChunkFor(s, k) /\ ~ChunkFor(s, k)' => chunks'[k] = Nil

LEMMA OwnedKeeps ==
    ASSUME Owned, NEW s \in Stmts, OnlyStatement(s), Accounted(s)
    PROVE  /\ Owned'
           /\ \A t \in Stmts, r \in Results :
                 t # s /\ ResultFor(t, r) => results'[r] = results[r]
           /\ \A t \in Stmts, k \in Chunks :
                 t # s /\ ChunkFor(t, k) => chunks'[k] = chunks[k]
  <1>1. \A t \in Stmts : t # s =>
          /\ \A r \in Results : ResultFor(t, r)' <=> ResultFor(t, r)
          /\ \A k \in Chunks : ChunkFor(t, k)' <=> ChunkFor(t, k)
    BY DEF OnlyStatement, CallsElsewhere, ResultFor, ChunkFor
  <1>2. ASSUME NEW t \in Stmts, t # s, NEW r \in Results, ResultFor(t, r)
        PROVE  ~ResultFor(s, r) /\ ~ResultFor(s, r)' /\ results'[r] = results[r]
    BY <1>2 DEF Owned, Accounted
  <1>3. ASSUME NEW t \in Stmts, t # s, NEW k \in Chunks, ChunkFor(t, k)
        PROVE  ~ChunkFor(s, k) /\ ~ChunkFor(s, k)' /\ chunks'[k] = chunks[k]
    BY <1>3 DEF Owned, Accounted
  <1>4. ASSUME NEW r \in Results
        PROVE  results'[r] # Nil <=> \E t \in Stmts : ResultFor(t, r)'
    BY <1>1, <1>2 DEF Owned, Accounted
  <1>5. ASSUME NEW k \in Chunks
        PROVE  chunks'[k] # Nil <=> \E t \in Stmts : ChunkFor(t, k)'
    BY <1>1, <1>3 DEF Owned, Accounted
  <1>6. ASSUME NEW t \in Stmts, NEW u \in Stmts, t # u
        PROVE  /\ \A r \in Results : ~(ResultFor(t, r)' /\ ResultFor(u, r)')
               /\ \A k \in Chunks : ~(ChunkFor(t, k)' /\ ChunkFor(u, k)')
    BY <1>1, <1>2, <1>3, <1>6 DEF Owned
  <1>7. QED
    BY <1>2, <1>3, <1>4, <1>5, <1>6 DEF Owned

LEMMA StepKeeps ==
    ASSUME CInv, NEW s \in Stmts,
           CTypeOK', P!IInv', ColumnsFreed', StreamOK',
           \A d \in Coroutines : Placed(d)',
           OnlyStatement(s), Accounted(s),
           openStream' \in {openStream, Nil} \/ ResultFor(s, openStream)',
           \A c, d \in Coroutines : Inside(c, s)' /\ Inside(d, s)' => c = d,
           StatementOK(s)',
           \A c \in Coroutines : Inside(c, s)' => CallOK(c)'
    PROVE  CInv'
  <1>1. /\ Owned'
        /\ \A t \in Stmts, r \in Results :
              t # s /\ ResultFor(t, r) => results'[r] = results[r]
        /\ \A t \in Stmts, k \in Chunks :
              t # s /\ ChunkFor(t, k) => chunks'[k] = chunks[k]
    BY OwnedKeeps DEF CInv
  <1>2. Alone'
    <2> SUFFICES ASSUME NEW t \in Stmts, NEW c \in Coroutines, NEW d \in Coroutines,
                        Inside(c, t)', Inside(d, t)'
                 PROVE  c = d
      BY DEF Alone
    <2>1. CASE t = s
      BY <2>1
    <2>2. CASE t # s
      BY <2>2 DEF OnlyStatement, CallsElsewhere, CInv, Alone
    <2>3. QED
      BY <2>1, <2>2
  <1>3. ASSUME NEW t \in Stmts, t # s, S[t] # Nil
        PROVE  /\ S'[t] = S[t] /\ S[t] \in StmtRecord
               /\ S[t].result # Nil =>
                     /\ results'[S[t].result] = results[S[t].result]
                     /\ openStream # S[t].result => openStream' # S[t].result
               /\ S[t].chunk # Nil => chunks'[S[t].chunk] = chunks[S[t].chunk]
    <2>1. S'[t] = S[t] /\ S[t] \in StmtRecord
      BY <1>3 DEF OnlyStatement, CallsElsewhere, CInv, CTypeOK, TypeOK
    <2>2. ASSUME S[t].result # Nil
          PROVE  /\ results'[S[t].result] = results[S[t].result]
                 /\ openStream # S[t].result => openStream' # S[t].result
      <3>1. S[t].result \in Results /\ ResultFor(t, S[t].result)
        BY <1>3, <2>1, <2>2 DEF StmtRecord, ResultFor
      <3>2. results'[S[t].result] = results[S[t].result]
        BY <1>1, <1>3, <3>1
      <3>3. ResultFor(t, S[t].result)'
        BY <1>3, <2>1 DEF ResultFor
      <3>4. ~ResultFor(s, S[t].result)'
        BY <1>1, <1>3, <2>1, <3>1, <3>3 DEF Owned, ResultFor
      <3>5. openStream' = S[t].result => ~ResultFor(s, openStream)'
        BY <2>1, <3>4 DEF ResultFor
      <3>6. QED
        BY <2>2, <3>2, <3>5
    <2>3. ASSUME S[t].chunk # Nil
          PROVE  chunks'[S[t].chunk] = chunks[S[t].chunk]
      <3>1. S[t].chunk \in Chunks /\ ChunkFor(t, S[t].chunk)
        BY <1>3, <2>1, <2>3 DEF StmtRecord, ChunkFor
      <3>2. QED
        BY <1>1, <1>3, <3>1
    <2>4. QED
      BY <2>1, <2>2, <2>3
  <1>4. ASSUME NEW t \in Stmts PROVE StatementOK(t)'
    <2>1. CASE t = s
      BY <2>1
    <2>2. CASE t # s
      <3>1. /\ S'[t] = S[t] /\ pdo'[t] = pdo[t]
            /\ t \in cut' <=> t \in cut
            /\ Quiet(t)' <=> Quiet(t)
        BY <2>2 DEF OnlyStatement, CallsElsewhere, Quiet
      <3>2. StatementOK(t)
        BY DEF CInv
      <3>3. CASE S[t] = Nil
        BY <3>1, <3>2, <3>3 DEF StatementOK
      <3>4. CASE S[t] # Nil
        <4>1. /\ S[t].result # Nil =>
                    /\ results'[S[t].result] = results[S[t].result]
                    /\ openStream # S[t].result => openStream' # S[t].result
              /\ S[t].chunk # Nil => chunks'[S[t].chunk] = chunks[S[t].chunk]
          BY <1>3, <2>2, <3>4
        <4>2. S[t].result_set => S[t].result # Nil /\ NextChunk(t)' = NextChunk(t)
          BY <3>1, <3>2, <3>4, <4>1 DEF StatementOK, NextChunk
        <4>3. S[t].result_set /\ AllFetched(t) => AllFetched(t)'
          BY <3>1, <4>1, <4>2 DEF AllFetched, AbstractPosition
        <4>4. S[t].chunk # Nil /\ ChunkAtHand(t) => ChunkAtHand(t)'
          BY <3>1, <4>1, <4>2 DEF ChunkAtHand
        <4>5. QED
          BY <3>1, <3>2, <3>4, <4>1, <4>2, <4>3, <4>4 DEF StatementOK
      <3>5. QED
        BY <3>3, <3>4
    <2>3. QED
      BY <2>1, <2>2
  <1>5. ASSUME NEW d \in Coroutines PROVE CallOK(d)'
    <2> SUFFICES ASSUME NEW t \in Stmts, Inside(d, t)', t # s PROVE CallOK(d)'
      BY DEF CallOK, CTypeOK, Call, Inside
    <2>2. Inside(d, t) /\ call'[d] = call[d] /\ Stage(d)' = Stage(d)
      BY DEF OnlyStatement, CallsElsewhere
    <2>3. call[d] # Nil /\ call[d].stmt = t /\ call[d] \in Call
      BY <2>2 DEF Inside, CInv, CTypeOK
    <2>4. /\ S'[t] = S[t] /\ duck'[t] = duck[t] /\ reply'[t] = reply[t]
          /\ t \in cut' <=> t \in cut
      BY DEF OnlyStatement, CallsElsewhere
    <2>5. CallOK(d)
      BY DEF CInv
    <2>6. /\ S[t] # Nil /\ S[t].result # Nil =>
                /\ results'[S[t].result] = results[S[t].result]
                /\ openStream # S[t].result => openStream' # S[t].result
          /\ call[d].chunk # Nil => chunks'[call[d].chunk] = chunks[call[d].chunk]
      <3>1. ASSUME call[d].chunk # Nil
            PROVE  chunks'[call[d].chunk] = chunks[call[d].chunk]
        <4>1. call[d].chunk \in Chunks /\ ChunkFor(t, call[d].chunk)
          BY <2>2, <2>3, <3>1 DEF Call, ChunkFor
        <4>2. QED
          BY <1>1, <4>1
      <3>2. QED
        BY <1>3, <3>1
    <2>7. Preparing(d) => Preparing(d)'
      BY <2>2, <2>3, <2>4 DEF Preparing
    <2>8. Executing(d) => Executing(d)'
      BY <2>2, <2>3, <2>4, <2>6 DEF Executing
    <2>9. Fetching(d) => Fetching(d)'
      <3>1. SUFFICES ASSUME Fetching(d) PROVE Fetching(d)'
        OBVIOUS
      <3>2. /\ S[t] # Nil /\ S[t].result_set /\ S[t].result = call[d].result
        BY <2>3, <3>1 DEF Fetching
      <3>3. S[t].result # Nil
        BY <3>2 DEF CInv, StatementOK
      <3>4. NextChunk(t)' = NextChunk(t)
        BY <2>4, <2>6, <3>2, <3>3 DEF NextChunk
      <3>5. QED
        BY <2>2, <2>3, <2>4, <2>6, <3>1, <3>2, <3>3, <3>4 DEF Fetching
    <2>10. QED
      BY <2>2, <2>5, <2>7, <2>8, <2>9 DEF CallOK
  <1>6. QED
    BY <1>1, <1>2, <1>4, <1>5 DEF CInv

-----------------------------------------------------------------------------
(* Steps that move a call on *)

(* Types, once swoole_run() has made its step. *)
LEMMA TypesKeep ==
    ASSUME P!IInv', TypeOK',
           php' \in Coroutines \cup {Nil},
           call' \in [Coroutines -> Call \cup {Nil}],
           duck' \in [Stmts -> Coroutines \cup {Nil}],
           cut' \subseteq Stmts
    PROVE  CTypeOK'
  BY DispatchRunningNext DEF CTypeOK, Running

LEMMA MovedKeeps ==
    ASSUME CInv, P!IInv', NEW c \in Coroutines, NEW place, Moved(c, place),
           Stage(c)' = Stage(c) \/ (Stage(c) = "coming" /\ Stage(c)' = "refused"),
           php' \in Coroutines \cup {Nil},
           UNCHANGED <<stmtVars, duck, cut>>
    PROVE  CInv'
  <1>1. /\ call' \in [Coroutines -> Call \cup {Nil}]
        /\ call'[c] # Nil /\ call[c] # Nil
        /\ call'[c].op = call[c].op
        /\ call'[c].stmt = call[c].stmt
        /\ call'[c].result = call[c].result
        /\ call'[c].index = call[c].index
        /\ call'[c].chunk = call[c].chunk
    <2>1. /\ CTypeOK /\ call[c] # Nil
          /\ place \in {"entering", "waiting", "returning"}
          /\ call' = [call EXCEPT ![c].at = place]
      BY DEF Moved, CInv
    <2>2. call'[c] # Nil
      BY <2>1, MovedFacts
    <2>3. QED
      BY <2>1, <2>2, MovedFacts
  <1>2. SameLocals(c)
    BY <1>1 DEF SameLocals
  <1>3. \A d \in Coroutines : Placed(d)' /\ SameLocals(d)
    BY <1>2 DEF Moved, Elsewhere, SameLocals
  <1>4. TypeOK'
    BY DEF CInv, CTypeOK, TypeOK, stmtVars
  <1>5. CTypeOK'
    BY <1>1, <1>4, TypesKeep DEF CInv, CTypeOK
  <1>6. QED
    BY <1>3, <1>5, LocalsKeep DEF stmtVars

LEMMA WaitsKeep ==
    ASSUME CInv, NEW c \in Coroutines, Sleeps(c) \/ Queues(c)
    PROVE  CInv'
  <1>1. Moved(c, "waiting") /\ Stage(c)' = Stage(c) /\ P!IInv'
    BY WaitsMove
  <1>2. php' = Nil /\ UNCHANGED <<stmtVars, duck, cut>>
    BY DEF Sleeps, Queues, Proceed
  <1>3. QED
    BY <1>1, <1>2, MovedKeeps

LEMMA RefusalKeeps ==
    ASSUME CInv, NEW c \in Coroutines, IsRefused(c)
    PROVE  CInv'
  <1>1. /\ Moved(c, "returning") /\ P!IInv'
        /\ Stage(c) = "coming" /\ Stage(c)' = "refused"
    BY RefusalMoves
  <1>2. php' = c /\ UNCHANGED <<stmtVars, duck, cut>>
    BY DEF IsRefused, Proceed
  <1>3. QED
    BY <1>1, <1>2, MovedKeeps

LEMMA ResumptionKeeps ==
    ASSUME CInv, NEW c \in Coroutines, Resumes(c)
    PROVE  CInv'
  <1>1. Moved(c, "returning") /\ Stage(c)' = Stage(c) /\ P!IInv'
    BY ResumptionMoves
  <1>2. php' = c /\ UNCHANGED <<stmtVars, duck, cut>>
    BY DEF Resumes, Proceed
  <1>3. QED
    BY <1>1, <1>2, MovedKeeps

LEMMA TakingKeeps ==
    ASSUME CInv, WorkerTakes
    PROVE  CInv'
  <1>1. UNCHANGED <<stmtVars, php, call, duck, cut>>
    BY DEF WorkerTakes
  <1>2. P!IInv' /\ \A d \in Coroutines : Placed(d)' /\ Stage(d)' = Stage(d)
    BY TakingMoves
  <1>3. TypeOK'
    BY <1>1 DEF CInv, CTypeOK, TypeOK, stmtVars
  <1>4. CTypeOK'
    BY <1>1, <1>2, <1>3, TypesKeep DEF CInv, CTypeOK
  <1>5. QED
    BY <1>1, <1>2, <1>4, LocalsKeep DEF SameLocals, stmtVars

(* Only the answer to a statement that no handler is inside, its bindings, *)
(* or the attribute, which no handler reads again once it is entered.      *)
LEMMA ReplyKeepsCalls ==
    ASSUME CInv, UNCHANGED <<dispatchVars, php, call, cut>>,
           UNCHANGED <<S, pdo, results, chunks, openStream>>,
           unbuffered' \in BOOLEAN, reply' \in [Stmts -> Reply],
           duck' \in [Stmts -> Coroutines \cup {Nil}],
           \A d \in Coroutines : call[d] # Nil =>
               /\ reply'[call[d].stmt] = reply[call[d].stmt]
               /\ duck'[call[d].stmt] = duck[call[d].stmt]
    PROVE  CInv'
  <1>1. P!IInv' /\ \A d \in Coroutines : Placed(d)' /\ Stage(d)' = Stage(d)
    BY AtOnceMoves
  <1>2. TypeOK'
    BY DEF CInv, CTypeOK, TypeOK
  <1>3. CTypeOK'
    BY <1>1, <1>2, TypesKeep DEF CInv, CTypeOK
  <1>4. QED
    BY <1>1, <1>3, LocalsKeep DEF SameLocals

LEMMA SetsUnbufferedKeeps ==
    ASSUME CInv, NEW c \in Coroutines, SetsUnbuffered(c)
    PROVE  CInv'
  BY ReplyKeepsCalls DEF SetsUnbuffered, SetUnbuffered, CInv, CTypeOK, TypeOK

LEMMA FetchNothingKeepsCalls ==
    ASSUME CInv, NEW c \in Coroutines, NEW s \in Stmts,
           AtOnce(c, s), Quiet(s), FetchNothing(s), UNCHANGED <<duck, cut>>
    PROVE  CInv'
  <1>1. reply' \in [Stmts -> Reply]
    BY DEF FetchNothing, CInv, CTypeOK, TypeOK, Reply, End
  <1>2. \A d \in Coroutines :
            call[d] # Nil => reply'[call[d].stmt] = reply[call[d].stmt]
    BY DEF FetchNothing, CInv, CTypeOK, TypeOK, Quiet, Inside
  <1>3. QED
    BY <1>1, <1>2, ReplyKeepsCalls DEF AtOnce, FetchNothing, CInv, CTypeOK, TypeOK

-----------------------------------------------------------------------------
(* Handlers that free what a statement holds *)

(* The calls, as a step of c inside statement s leaves them. *)
LEMMA CallsOfOne ==
    ASSUME NEW c \in Coroutines, NEW s \in Stmts, Elsewhere(c),
           call[c] # Nil => call[c].stmt = s,
           call'[c] # Nil => call'[c].stmt = s
    PROVE  CallsElsewhere(s)
  BY DEF CallsElsewhere, Elsewhere, Inside

LEMMA CallsOfNone ==
    ASSUME NEW s \in Stmts, call' = call,
           \A d \in Coroutines : Stage(d)' = Stage(d)
    PROVE  CallsElsewhere(s)
  BY DEF CallsElsewhere, Inside

(* What a quiet statement points to, it owns, and nobody else. *)
LEMMA QuietFacts ==
    ASSUME CInv, NEW s \in Stmts, Quiet(s), S[s] # Nil
    PROVE  /\ S[s] \in StmtRecord
           /\ S[s].result_set <=> S[s].result # Nil
           /\ S[s].result \in Results \cup {Nil}
           /\ S[s].chunk \in Chunks \cup {Nil}
           /\ \A r \in Results : ResultFor(s, r) <=> S[s].result = r
           /\ \A k \in Chunks : ChunkFor(s, k) <=> S[s].chunk = k
           /\ S[s].result # Nil => results[S[s].result] \in Result
           /\ S[s].chunk # Nil => chunks[S[s].chunk] \in Chunk
           /\ pdo[s] \in PdoRecord /\ ColumnsOK(pdo[s])
  <1>1. S[s] \in StmtRecord
    BY DEF CInv, CTypeOK, TypeOK
  <1>2. /\ S[s].result \in Results \cup {Nil}
        /\ S[s].chunk \in Chunks \cup {Nil}
    BY <1>1 DEF StmtRecord
  <1>3. S[s].result_set <=> S[s].result # Nil
    BY DEF CInv, StatementOK
  <1>4. /\ \A r \in Results : ResultFor(s, r) <=> S[s].result = r
        /\ \A k \in Chunks : ChunkFor(s, k) <=> S[s].chunk = k
    BY DEF ResultFor, ChunkFor, Quiet
  <1>5. /\ S[s].result # Nil => results[S[s].result] \in Result
        /\ S[s].chunk # Nil => chunks[S[s].chunk] \in Chunk
    BY <1>2, <1>4 DEF CInv, Owned, CTypeOK, TypeOK
  <1>6. pdo[s] \in PdoRecord /\ ColumnsOK(pdo[s])
    BY DEF CInv, CTypeOK, TypeOK, ColumnsFreed, ColumnsOK
  <1>7. QED
    BY <1>1, <1>2, <1>3, <1>4, <1>5, <1>6

(* The three parts that free, and what is there afterwards. *)
LEMMA FreeFacts ==
    ASSUME CInv, NEW s \in Stmts, Quiet(s), S[s] # Nil,
           results' = DestroyResult(s),
           chunks' = DestroyChunk(s),
           openStream' = StreamAfterDestroy(s),
           \A r \in Results : ~ResultFor(s, r)',
           \A k \in Chunks : ~ChunkFor(s, k)'
    PROVE  /\ results' \in [Results -> Result \cup {Nil}]
           /\ chunks' \in [Chunks -> Chunk \cup {Nil}]
           /\ openStream' \in Results \cup {Nil}
           /\ openStream' \in {openStream, Nil}
           /\ Accounted(s)
           /\ StreamOK'
  <1>1. /\ results \in [Results -> Result \cup {Nil}]
        /\ chunks \in [Chunks -> Chunk \cup {Nil}]
        /\ openStream \in Results \cup {Nil}
    BY DEF CInv, CTypeOK, TypeOK
  <1>2. /\ results' \in [Results -> Result \cup {Nil}]
        /\ \A r \in Results :
              results'[r] = IF ResultFor(s, r) THEN Nil ELSE results[r]
    BY <1>1, QuietFacts, NilAssumption DEF DestroyResult
  <1>3. /\ chunks' \in [Chunks -> Chunk \cup {Nil}]
        /\ \A k \in Chunks : chunks'[k] = IF ChunkFor(s, k) THEN Nil ELSE chunks[k]
    BY <1>1, QuietFacts, NilAssumption DEF DestroyChunk
  <1>4. /\ openStream' \in Results \cup {Nil}
        /\ openStream' \in {openStream, Nil}
        /\ openStream' # Nil => ~ResultFor(s, openStream')
    BY <1>1, QuietFacts DEF StreamAfterDestroy
  <1>5. StreamOK'
    BY <1>2, <1>4 DEF StreamOK, CInv
  <1>6. Accounted(s)
    BY <1>2, <1>3 DEF Accounted
  <1>7. QED
    BY <1>2, <1>3, <1>4, <1>5, <1>6

(***************************************************************************)
(* A handler that frees what quiet statement s holds keeps the invariant,  *)
(* whatever it leaves in the record x and in PDO core's fields p, and      *)
(* whoever is inside the statement afterwards.                             *)
(***************************************************************************)
LEMMA FreeKeeps ==
    ASSUME CInv, NEW s \in Stmts, Quiet(s), S[s] # Nil,
           results' = DestroyResult(s),
           chunks' = DestroyChunk(s),
           openStream' = StreamAfterDestroy(s),
           NEW x \in StmtRecord \cup {Nil}, S' = [S EXCEPT ![s] = x],
           x # Nil => x.result = Nil /\ ~x.result_set /\ x.chunk = Nil,
           NEW p \in PdoRecord, ColumnsOK(p), pdo' = [pdo EXCEPT ![s] = p],
           reply' = [reply EXCEPT ![s] = NoRow],
           UNCHANGED unbuffered,
           duck' \in [Stmts -> Coroutines \cup {Nil}],
           \A t \in Stmts : t # s => duck'[t] = duck[t],
           cut' \in {cut, cut \ {s}},
           s \in cut' => x # Nil /\ x.done,
           P!IInv', \A d \in Coroutines : Placed(d)',
           php' \in Coroutines \cup {Nil},
           call' \in [Coroutines -> Call \cup {Nil}],
           CallsElsewhere(s),
           \A c, d \in Coroutines : Inside(c, s)' /\ Inside(d, s)' => c = d,
           \A c \in Coroutines : Inside(c, s)' => call'[c].chunk = Nil /\ CallOK(c)'
    PROVE  CInv'
  <1>1. TypeOK /\ cut \subseteq Stmts
    BY DEF CInv, CTypeOK
  <1>2. /\ S'[s] = x /\ pdo'[s] = p
        /\ \A t \in Stmts : t # s =>
              S'[t] = S[t] /\ pdo'[t] = pdo[t] /\ reply'[t] = reply[t]
    BY <1>1 DEF TypeOK
  <1>3. /\ \A r \in Results : ~ResultFor(s, r)'
        /\ \A k \in Chunks : ~ChunkFor(s, k)'
    BY <1>2, NilAssumption DEF ResultFor, ChunkFor
  <1>4. /\ results' \in [Results -> Result \cup {Nil}]
        /\ chunks' \in [Chunks -> Chunk \cup {Nil}]
        /\ openStream' \in Results \cup {Nil}
        /\ openStream' \in {openStream, Nil}
        /\ Accounted(s)
        /\ StreamOK'
    BY <1>3, FreeFacts
  <1>5. TypeOK'
    <2>1. NoRow \in Reply
      BY DEF NoRow, Reply
    <2>2. QED
      BY <1>1, <1>4, <2>1 DEF TypeOK
  <1>6. CTypeOK'
    BY <1>1, <1>5, TypesKeep
  <1>7. ColumnsFreed'
    BY <1>2 DEF CInv, ColumnsFreed, ColumnsOK
  <1>8. OnlyStatement(s)
    BY <1>2 DEF OnlyStatement
  <1>9. StatementOK(s)'
    BY <1>2 DEF StatementOK
  <1>10. QED
    BY <1>4, <1>6, <1>7, <1>8, <1>9, StepKeeps

(* PDO core's fields stay countable through every handler that frees. *)
LEMMA PdoFacts ==
    ASSUME CInv, NEW s \in Stmts, NEW first \in BOOLEAN
    PROVE  /\ pdo[s] \in PdoRecord /\ ColumnsOK(pdo[s])
           /\ PdoClosed(pdo[s]) \in PdoRecord /\ ColumnsOK(PdoClosed(pdo[s]))
           /\ PdoBeforeExecute(s, first) \in PdoRecord
           /\ ColumnsOK(PdoBeforeExecute(s, first))
           /\ NewPdo \in PdoRecord /\ ColumnsOK(NewPdo)
  <1>1. pdo[s] \in PdoRecord /\ ColumnsOK(pdo[s])
    BY DEF CInv, CTypeOK, TypeOK, ColumnsFreed, ColumnsOK
  <1>2. PdoClosed(pdo[s]) \in PdoRecord /\ ColumnsOK(PdoClosed(pdo[s]))
    BY <1>1, ColumnFacts
  <1>3. NewPdo \in PdoRecord /\ ColumnsOK(NewPdo)
    BY DEF NewPdo, PdoRecord, ColumnsOK
  <1>4. QED
    BY <1>1, <1>2, <1>3 DEF PdoBeforeExecute

(* What DropResult writes to the record. *)
LEMMA DroppedRecord ==
    ASSUME NEW y \in StmtRecord
    PROVE  LET x == [y EXCEPT !.result = Nil, !.result_set = FALSE, !.chunk = Nil]
           IN  /\ x \in StmtRecord /\ x # Nil
               /\ x.result = Nil /\ ~x.result_set /\ x.chunk = Nil
               /\ x.done = y.done
  <1> DEFINE x == [y EXCEPT !.result = Nil, !.result_set = FALSE, !.chunk = Nil]
  <1>1. x \in StmtRecord
    BY DEF StmtRecord
  <1>2. x.result = Nil /\ ~x.result_set /\ x.chunk = Nil
    BY DEF StmtRecord
  <1>3. x.done = y.done
    BY DEF StmtRecord
  <1>4. QED
    BY <1>1, <1>2, <1>3, NilAssumption

(* A quiet statement that is freed at once stays quiet. *)
LEMMA FreeAtOnceKeeps ==
    ASSUME CInv, NEW c \in Coroutines, NEW s \in Stmts, AtOnce(c, s), Quiet(s), S[s] # Nil,
           results' = DestroyResult(s),
           chunks' = DestroyChunk(s),
           openStream' = StreamAfterDestroy(s),
           NEW x \in StmtRecord \cup {Nil}, S' = [S EXCEPT ![s] = x],
           x # Nil => x.result = Nil /\ ~x.result_set /\ x.chunk = Nil,
           NEW p \in PdoRecord, ColumnsOK(p), pdo' = [pdo EXCEPT ![s] = p],
           reply' = [reply EXCEPT ![s] = NoRow],
           UNCHANGED unbuffered,
           duck' \in {duck, [duck EXCEPT ![s] = Nil]},
           cut' \in {cut, cut \ {s}},
           s \in cut' => x # Nil /\ x.done
    PROVE  CInv'
  <1>1. UNCHANGED <<dispatchVars, php, call>>
    BY DEF AtOnce
  <1>2. P!IInv' /\ \A d \in Coroutines : Placed(d)' /\ Stage(d)' = Stage(d)
    BY <1>1, AtOnceMoves
  <1>3. CallsElsewhere(s)
    BY <1>1, <1>2, CallsOfNone
  <1>4. \A d \in Coroutines : ~Inside(d, s)'
    BY <1>1 DEF Quiet, Inside
  <1>5. /\ duck' \in [Stmts -> Coroutines \cup {Nil}]
        /\ \A t \in Stmts : t # s => duck'[t] = duck[t]
    BY DEF CInv, CTypeOK
  <1>6. /\ php' \in Coroutines \cup {Nil}
        /\ call' \in [Coroutines -> Call \cup {Nil}]
    BY <1>1 DEF CInv, CTypeOK
  <1>7. QED
    BY <1>2, <1>3, <1>4, <1>5, <1>6, FreeKeeps

LEMMA DropAtOnceKeeps ==
    ASSUME CInv, NEW c \in Coroutines, NEW s \in Stmts, AtOnce(c, s), Quiet(s), S[s] # Nil,
           DropResult(s), UNCHANGED unbuffered,
           NEW p \in PdoRecord, ColumnsOK(p), pdo' = [pdo EXCEPT ![s] = p],
           duck' \in {duck, [duck EXCEPT ![s] = Nil]},
           cut' \in {cut, cut \ {s}}
    PROVE  CInv'
  <1> DEFINE x == [S[s] EXCEPT !.result = Nil, !.result_set = FALSE, !.chunk = Nil]
  <1>1. S[s] \in StmtRecord
    BY QuietFacts
  <1>2. /\ x \in StmtRecord /\ x # Nil
        /\ x.result = Nil /\ ~x.result_set /\ x.chunk = Nil
        /\ x.done = S[s].done
    BY <1>1, DroppedRecord
  <1>3. /\ S' = [S EXCEPT ![s] = x]
        /\ results' = DestroyResult(s)
        /\ chunks' = DestroyChunk(s)
        /\ openStream' = StreamAfterDestroy(s)
        /\ reply' = [reply EXCEPT ![s] = NoRow]
    BY DEF DropResult
  <1> HIDE DEF x
  <1>4. s \in cut' => x.done
    BY <1>2 DEF CInv, StatementOK
  <1>5. QED
    BY <1>2, <1>3, <1>4, FreeAtOnceKeeps

LEMMA ClosesKeep ==
    ASSUME CInv, NEW c \in Coroutines, NEW s \in Stmts, Quiet(s), Closes(c, s)
    PROVE  CInv'
  <1>1. PdoClosed(pdo[s]) \in PdoRecord /\ ColumnsOK(PdoClosed(pdo[s]))
    BY PdoFacts
  <1>2. QED
    BY <1>1, DropAtOnceKeeps DEF Closes, CloseCursor

LEMMA DropsKeep ==
    ASSUME CInv, NEW c \in Coroutines, NEW s \in Stmts, Quiet(s), Drops(c, s)
    PROVE  CInv'
  <1>1. NewPdo \in PdoRecord /\ ColumnsOK(NewPdo)
    BY PdoFacts
  <1>2. QED
    BY <1>1, FreeAtOnceKeeps DEF Drops, Destroy

LEMMA ExecuteIsRefusedKeeps ==
    ASSUME CInv, NEW c \in Coroutines, NEW s \in Stmts, Quiet(s), ExecuteIsRefused(c, s)
    PROVE  CInv'
  <1>1. PICK first \in ClosesFirst : ExecuteRefused(s, first)
    BY DEF ExecuteIsRefused
  <1>2. /\ AtOnce(c, s) /\ duck' = [duck EXCEPT ![s] = Nil] /\ cut' = cut
    BY DEF ExecuteIsRefused, Unbinds
  <1>3. /\ PdoBeforeExecute(s, first) \in PdoRecord
        /\ ColumnsOK(PdoBeforeExecute(s, first))
    BY PdoFacts, PdoAssumption
  <1>4. CASE first /\ pdo[s].executed
    BY <1>1, <1>2, <1>3, <1>4, DropAtOnceKeeps DEF ExecuteRefused
  <1>5. CASE ~(first /\ pdo[s].executed)
    <2>1. UNCHANGED <<S, pdo, results, chunks, openStream, unbuffered, reply>>
      BY <1>1, <1>5 DEF ExecuteRefused, PdoBeforeExecute, CInv, CTypeOK, TypeOK
    <2>2. /\ duck' \in [Stmts -> Coroutines \cup {Nil}]
          /\ \A d \in Coroutines :
                call[d] # Nil => duck'[call[d].stmt] = duck[call[d].stmt]
      BY <1>2 DEF CInv, CTypeOK, Quiet, Inside
    <2>3. QED
      BY <1>2, <2>1, <2>2, ReplyKeepsCalls DEF AtOnce, CInv, CTypeOK, TypeOK
  <1>6. QED
    BY <1>4, <1>5

-----------------------------------------------------------------------------
(* Preparations and executions *)

LEMMA NewCallFacts ==
    ASSUME CTypeOK, NEW op \in {"prepare", "execute", "fetch"}, NEW s \in Stmts
    PROVE  LET x == NewCall(op, s)
           IN  /\ x \in Call
               /\ x.op = op /\ x.stmt = s
               /\ x.at = "entering" /\ x.chunk = Nil
  BY DEF NewCall, Call, CTypeOK, TypeOK

(* A statement that c enters has no other handler inside it. *)
LEMMA EnteredAlone ==
    ASSUME NEW c \in Coroutines, NEW s \in Stmts, Quiet(s), Elsewhere(c)
    PROVE  \A d \in Coroutines : Inside(d, s)' => d = c
  BY DEF Quiet, Elsewhere, Inside

LEMMA ExecuteEntersKeeps ==
    ASSUME CInv, NEW c \in Coroutines, NEW s \in Stmts, Quiet(s), ExecuteEnters(c, s)
    PROVE  CInv'
  <1> DEFINE x == NewCall("execute", s)
             y == [S[s] EXCEPT !.result = Nil, !.result_set = FALSE, !.chunk = Nil]
  <1>1. /\ x \in Call /\ x.op = "execute" /\ x.stmt = s
        /\ x.at = "entering" /\ x.chunk = Nil
    BY NewCallFacts DEF CInv
  <1>2. PICK first \in ClosesFirst : pdo' = [pdo EXCEPT ![s] = PdoBeforeExecute(s, first)]
    BY DEF ExecuteEnters
  <1>3. /\ S[s] # Nil /\ Enter(c, x) /\ UNCHANGED unbuffered
        /\ S' = [S EXCEPT ![s] = y]
        /\ results' = DestroyResult(s)
        /\ chunks' = DestroyChunk(s)
        /\ openStream' = StreamAfterDestroy(s)
        /\ reply' = [reply EXCEPT ![s] = NoRow]
        /\ duck' = [duck EXCEPT ![s] = c]
        /\ cut' = cut \ {s}
    BY DEF ExecuteEnters, DropResult
  <1> HIDE DEF x
  <1>4. /\ call[c] = Nil /\ call'[c] = x /\ x # Nil
        /\ call' \in [Coroutines -> Call \cup {Nil}]
        /\ php' \in Coroutines \cup {Nil}
        /\ Stage(c)' = "coming"
        /\ Placed(c)' /\ Elsewhere(c) /\ P!IInv'
    BY <1>1, <1>3, EnterMoves
  <1>5. CallsElsewhere(s) /\ \A d \in Coroutines : Inside(d, s)' => d = c
    BY <1>1, <1>4, CallsOfOne, EnteredAlone
  <1>6. /\ y \in StmtRecord /\ y # Nil
        /\ y.result = Nil /\ ~y.result_set /\ y.chunk = Nil
    BY <1>3, QuietFacts, DroppedRecord
  <1> HIDE DEF y
  <1>7. /\ PdoBeforeExecute(s, first) \in PdoRecord
        /\ ColumnsOK(PdoBeforeExecute(s, first))
    BY PdoFacts, PdoAssumption
  <1>8. /\ S'[s] = y /\ duck'[s] = c /\ reply'[s] = NoRow
        /\ duck' \in [Stmts -> Coroutines \cup {Nil}]
        /\ \A t \in Stmts : t # s => duck'[t] = duck[t]
    BY <1>3 DEF CInv, CTypeOK, TypeOK
  <1>9. CallOK(c)'
    BY <1>1, <1>3, <1>4, <1>6, <1>8 DEF CallOK, Executing
  <1>10. \A d \in Coroutines : Inside(d, s)' => call'[d].chunk = Nil /\ CallOK(d)'
    BY <1>1, <1>4, <1>5, <1>9
  <1>11. \A d \in Coroutines : Placed(d)'
    BY <1>4 DEF Elsewhere
  <1>12. /\ cut' \in {cut, cut \ {s}}
         /\ s \in cut' => y # Nil /\ y.done
         /\ \A d, e \in Coroutines : Inside(d, s)' /\ Inside(e, s)' => d = e
    BY <1>3, <1>5
  <1>13. QED
    BY <1>2, <1>3, <1>4, <1>5, <1>6, <1>7, <1>8, <1>10, <1>11, <1>12, FreeKeeps

(* The handler that is inside a statement is the only one. *)
LEMMA InsideFacts ==
    ASSUME CInv, NEW c \in Coroutines, call[c] # Nil
    PROVE  /\ call[c].stmt \in Stmts
           /\ \A d \in Coroutines : Inside(d, call[c].stmt) <=> d = c
           /\ CallOK(c)
  <1>1. call[c].stmt \in Stmts
    BY CallFacts DEF CInv
  <1>2. QED
    BY <1>1 DEF CInv, Alone, Inside

(* A step that leaves DuckDB's objects and the statements as they are, and *)
(* moves only the preparation that c is inside.                            *)
LEMMA PreparingKeeps ==
    ASSUME CInv, NEW c \in Coroutines, NEW s \in Stmts, S[s] = Nil,
           UNCHANGED <<stmtVars, duck, cut>>,
           P!IInv', Placed(c)', Elsewhere(c),
           php' \in Coroutines \cup {Nil},
           call' \in [Coroutines -> Call \cup {Nil}],
           call[c] # Nil => call[c].stmt = s /\ call[c].chunk = Nil,
           call'[c] # Nil =>
               call'[c].stmt = s /\ call'[c].op = "prepare" /\ call'[c].chunk = Nil,
           \A d \in Coroutines : d # c => ~Inside(d, s)
    PROVE  CInv'
  <1> USE DEF stmtVars
  <1>1. TypeOK'
    BY DEF CInv, CTypeOK, TypeOK
  <1>2. CTypeOK'
    BY <1>1, TypesKeep DEF CInv, CTypeOK
  <1>3. ColumnsFreed' /\ StreamOK'
    BY DEF CInv, ColumnsFreed, StreamOK
  <1>4. CallsElsewhere(s)
    BY CallsOfOne
  <1>5. OnlyStatement(s)
    BY <1>4 DEF OnlyStatement
  <1>6. \A d \in Coroutines : Inside(d, s)' => d = c
    BY DEF Elsewhere, Inside
  <1>7. /\ \A r \in Results : ~ResultFor(s, r) /\ ~ResultFor(s, r)'
        /\ \A k \in Chunks : ~ChunkFor(s, k) /\ ~ChunkFor(s, k)'
    BY <1>6, NilAssumption DEF ResultFor, ChunkFor, Inside
  <1>8. Accounted(s)
    BY <1>7 DEF Accounted
  <1>9. StatementOK(s)'
    BY DEF CInv, StatementOK
  <1>10. CallOK(c)'
    BY DEF CallOK, Preparing
  <1>11. QED
    <2>1. \A d \in Coroutines : Placed(d)'
      BY DEF Elsewhere
    <2>2. /\ \A d, e \in Coroutines : Inside(d, s)' /\ Inside(e, s)' => d = e
          /\ \A d \in Coroutines : Inside(d, s)' => CallOK(d)'
      BY <1>6, <1>10
    <2>3. QED
      BY <1>2, <1>3, <1>5, <1>8, <1>9, <2>1, <2>2, StepKeeps DEF CInv

LEMMA PrepareEntersKeeps ==
    ASSUME CInv, NEW c \in Coroutines, NEW s \in Stmts, PrepareEnters(c, s)
    PROVE  CInv'
  <1> DEFINE x == NewCall("prepare", s)
  <1>1. /\ x \in Call /\ x.op = "prepare" /\ x.stmt = s
        /\ x.at = "entering" /\ x.chunk = Nil
    BY NewCallFacts DEF CInv
  <1>2. /\ S[s] = Nil /\ Enter(c, x) /\ Quiet(s)
        /\ UNCHANGED <<stmtVars, duck, cut>>
    BY DEF PrepareEnters, Quiet
  <1> HIDE DEF x
  <1>3. /\ call[c] = Nil /\ call'[c] = x
        /\ call' \in [Coroutines -> Call \cup {Nil}]
        /\ php' \in Coroutines \cup {Nil}
        /\ Placed(c)' /\ Elsewhere(c) /\ P!IInv'
    BY <1>1, <1>2, EnterMoves
  <1>4. QED
    BY <1>1, <1>2, <1>3, PreparingKeeps DEF Quiet

LEMMA PrepareRunsKeeps ==
    ASSUME CInv, NEW c \in Coroutines, PrepareRuns(c)
    PROVE  CInv'
  <1>1. /\ call[c] # Nil /\ call[c].op = "prepare" /\ Dispatch!WorkerEnds(c)
        /\ UNCHANGED <<stmtVars, php, call, duck, cut>>
    BY DEF PrepareRuns, Runs, stmtVars
  <1>2. Placed(c)' /\ Elsewhere(c) /\ P!IInv'
    BY <1>1, RunMoves
  <1>3. /\ call[c].stmt \in Stmts
        /\ \A d \in Coroutines : Inside(d, call[c].stmt) <=> d = c
        /\ Preparing(c)
    BY <1>1, InsideFacts DEF CallOK
  <1>4. /\ call' \in [Coroutines -> Call \cup {Nil}]
        /\ php' \in Coroutines \cup {Nil}
    BY <1>1 DEF CInv, CTypeOK
  <1>5. QED
    BY <1>1, <1>2, <1>3, <1>4, PreparingKeeps DEF Preparing

(* The statement appears when the handler returns. *)
LEMMA PrepareReturnsKeeps ==
    ASSUME CInv, NEW c \in Coroutines, PrepareReturns(c)
    PROVE  CInv'
  <1> PICK s \in Stmts : s = call[c].stmt
    BY InsideFacts, ReturnMoves DEF PrepareReturns
  <1>1. Returning(c, "prepare") /\ Return(c) /\ UNCHANGED <<duck, cut>>
    BY DEF PrepareReturns
  <1>2. /\ call[c] # Nil /\ call'[c] = Nil
        /\ call' \in [Coroutines -> Call \cup {Nil}]
        /\ php' \in Coroutines \cup {Nil}
        /\ Placed(c)' /\ Elsewhere(c) /\ P!IInv'
    BY <1>1, ReturnMoves
  <1>3. /\ s \in Stmts
        /\ \A d \in Coroutines : Inside(d, s) <=> d = c
        /\ S[s] = Nil /\ call[c].chunk = Nil
    BY <1>1, <1>2, InsideFacts DEF CallOK, Preparing, Returning
  <1>4. CASE state[c] # "DuckDBSuccess"
    <2>1. UNCHANGED stmtVars
      BY <1>4 DEF PrepareReturns
    <2>2. QED
      BY <1>1, <1>2, <1>3, <2>1, PreparingKeeps
  <1>5. CASE state[c] = "DuckDBSuccess"
    <2>1. Prepare(s)
      BY <1>5 DEF PrepareReturns
    <2>2. /\ S' \in [Stmts -> StmtRecord \cup {Nil}]
          /\ S'[s] \in StmtRecord
          /\ S'[s].result = Nil /\ S'[s].chunk = Nil /\ ~S'[s].result_set
          /\ \A t \in Stmts : t # s => S'[t] = S[t]
          /\ UNCHANGED <<pdo, results, chunks, openStream, unbuffered, reply>>
      BY <1>3, <2>1 DEF Prepare, CInv, CTypeOK, TypeOK, StmtRecord
    <2>3. TypeOK'
      BY <2>2 DEF CInv, CTypeOK, TypeOK
    <2>4. CTypeOK'
      BY <1>1, <1>2, <2>3, TypesKeep DEF CInv, CTypeOK
    <2>5. ColumnsFreed' /\ StreamOK'
      BY <2>2 DEF CInv, ColumnsFreed, StreamOK
    <2>6. CallsElsewhere(s) /\ \A d \in Coroutines : ~Inside(d, s)'
      <3>1. CallsElsewhere(s)
        BY <1>2, <1>3, CallsOfOne
      <3>2. QED
        BY <1>2, <1>3, <3>1 DEF Elsewhere, Inside
    <2>7. OnlyStatement(s)
      BY <1>1, <2>2, <2>6 DEF OnlyStatement
    <2>8. /\ \A r \in Results : ~ResultFor(s, r) /\ ~ResultFor(s, r)'
          /\ \A k \in Chunks : ~ChunkFor(s, k) /\ ~ChunkFor(s, k)'
      BY <1>3, <2>2, <2>6, NilAssumption DEF ResultFor, ChunkFor
    <2>9. Accounted(s)
      BY <2>2, <2>8 DEF Accounted
    <2>10. s \notin cut'
      BY <1>1, <1>3 DEF CInv, StatementOK
    <2>11. StatementOK(s)'
      BY <2>2, <2>10 DEF StatementOK
    <2>12. \A d \in Coroutines : Placed(d)'
      BY <1>2 DEF Elsewhere
    <2>13. openStream' \in {openStream, Nil}
      BY <2>2
    <2>14. QED
      BY <1>2, <1>3, <2>4, <2>5, <2>6, <2>7, <2>9, <2>11, <2>12, <2>13, StepKeeps
  <1>6. QED
    BY <1>4, <1>5

(***************************************************************************)
(* The execution that c is inside goes on: what it writes to the statement *)
(* is the result, and nothing but a result comes or goes.                  *)
(***************************************************************************)
LEMMA ExecutingKeeps ==
    ASSUME CInv, NEW c \in Coroutines, NEW s \in Stmts,
           call[c] # Nil, call[c].stmt = s, call[c].op = "execute",
           UNCHANGED <<pdo, chunks, unbuffered, reply, php, call, duck, cut>>,
           P!IInv', Placed(c)', Elsewhere(c),
           NEW r \in Results \cup {Nil}, S' = [S EXCEPT ![s].result = r],
           results' \in [Results -> Result \cup {Nil}],
           \A q \in Results : q # r => results'[q] = results[q],
           r # Nil => results[r] = Nil /\ results'[r] # Nil,
           S[s].result = Nil,
           openStream' \in {openStream, Nil, r},
           StreamOK',
           Executing(c)'
    PROVE  CInv'
  <1>1. /\ \A d \in Coroutines : Inside(d, s) <=> d = c
        /\ Executing(c)
    BY InsideFacts DEF CallOK
  <1>2. S[s] \in StmtRecord /\ S[s].chunk = Nil /\ call[c].chunk = Nil
    BY <1>1 DEF CInv, CTypeOK, TypeOK, Executing
  <1>3. /\ S' \in [Stmts -> StmtRecord \cup {Nil}]
        /\ S'[s] \in StmtRecord /\ S'[s] # Nil
        /\ S'[s].result = r /\ S'[s].chunk = Nil /\ ~S'[s].result_set
        /\ \A t \in Stmts : t # s => S'[t] = S[t]
    BY <1>1, <1>2, NilAssumption DEF CInv, CTypeOK, TypeOK, StmtRecord, Executing
  <1>4. TypeOK'
    BY <1>3 DEF CInv, CTypeOK, TypeOK
  <1>5. CTypeOK'
    BY <1>4, TypesKeep DEF CInv, CTypeOK
  <1>6. ColumnsFreed'
    BY DEF CInv, ColumnsFreed
  <1>7. CallsElsewhere(s) /\ \A d \in Coroutines : Inside(d, s)' <=> d = c
    <2>1. CallsElsewhere(s)
      BY CallsOfOne
    <2>2. QED
      BY <1>1, <2>1 DEF Inside
  <1>8. OnlyStatement(s)
    BY <1>3, <1>7 DEF OnlyStatement
  <1>9. /\ \A q \in Results : ~ResultFor(s, q) /\ (ResultFor(s, q)' <=> q = r)
        /\ \A k \in Chunks : ~ChunkFor(s, k) /\ ~ChunkFor(s, k)'
    <2>1. \A q \in Results : ~ResultFor(s, q) /\ (ResultFor(s, q)' <=> q = r)
      BY <1>3, NilAssumption DEF ResultFor
    <2>2. ASSUME NEW k \in Chunks PROVE ~ChunkFor(s, k) /\ ~ChunkFor(s, k)'
      <3>1. k # Nil
        BY NilAssumption
      <3>2. QED
        BY <1>1, <1>2, <1>3, <1>7, <3>1 DEF ChunkFor
    <2>3. QED
      BY <2>1, <2>2
  <1>10. Accounted(s)
    BY <1>9, NilAssumption DEF Accounted
  <1>11. StatementOK(s)'
    <2>1. s \notin cut'
      BY <1>1 DEF Executing
    <2>2. ~Quiet(s)'
      BY <1>7 DEF Quiet
    <2>3. QED
      BY <1>3, <2>1, <2>2 DEF StatementOK
  <1>12. openStream' \in {openStream, Nil} \/ ResultFor(s, openStream)'
    BY <1>3 DEF ResultFor
  <1>13. /\ \A d \in Coroutines : Placed(d)'
         /\ \A d, e \in Coroutines : Inside(d, s)' /\ Inside(e, s)' => d = e
         /\ \A d \in Coroutines : Inside(d, s)' => CallOK(d)'
    BY <1>7 DEF Elsewhere, CallOK
  <1>14. QED
    BY <1>5, <1>6, <1>8, <1>10, <1>11, <1>12, <1>13, StepKeeps

LEMMA ExecuteRunsKeeps ==
    ASSUME CInv, NEW c \in Coroutines, ExecuteRuns(c)
    PROVE  CInv'
  <1>1. /\ call[c] # Nil /\ call[c].op = "execute" /\ Dispatch!WorkerEnds(c)
        /\ UNCHANGED <<pdo, chunks, unbuffered, reply, php, call, duck, cut>>
    BY DEF ExecuteRuns, Runs
  <1>2. /\ Stage(c) = "coming"
        /\ Stage(c)' = IF state'[c] = "DuckDBSuccess" THEN "succeeded" ELSE "failed"
        /\ Placed(c)' /\ Elsewhere(c) /\ P!IInv'
    BY <1>1, RunMoves
  <1>3. PICK s \in Stmts : s = call[c].stmt
    BY <1>1, InsideFacts
  <1>4. /\ Executing(c) /\ S[s] # Nil /\ S[s] \in StmtRecord /\ S[s].result = Nil
        /\ s \notin cut /\ duck[s] = c /\ reply[s] = NoRow
        /\ ~S[s].result_set /\ S[s].chunk = Nil /\ call[c].chunk = Nil
    <2>1. Executing(c)
      BY <1>1, InsideFacts DEF CallOK
    <2>2. S[s] # Nil /\ S[s].result = Nil /\ s \notin cut
      BY <1>2, <1>3, <2>1 DEF Executing
    <2>3. /\ duck[s] = c /\ reply[s] = NoRow
          /\ ~S[s].result_set /\ S[s].chunk = Nil /\ call[c].chunk = Nil
      BY <1>3, <2>1 DEF Executing
    <2>4. S[s] \in StmtRecord
      BY <2>2 DEF CInv, CTypeOK, TypeOK
    <2>5. QED
      BY <2>1, <2>2, <2>3, <2>4
  <1>5. ASSUME NEW r \in Results \cup {Nil}, S' = [S EXCEPT ![s].result = r]
        PROVE  /\ S'[s] # Nil /\ S'[s].result = r
               /\ ~S'[s].result_set /\ S'[s].chunk = Nil
    BY <1>4, <1>5, NilAssumption DEF CInv, CTypeOK, TypeOK, StmtRecord
  <1>6. CASE /\ state'[c] = "DuckDBError"
             /\ S' = [S EXCEPT ![s].result = Nil]
             /\ UNCHANGED <<results, openStream>>
    <2>1. Executing(c)'
      BY <1>1, <1>2, <1>3, <1>4, <1>5, <1>6 DEF Executing
    <2>2. StreamOK'
      BY <1>6 DEF CInv, StreamOK
    <2>3. results' \in [Results -> Result \cup {Nil}]
      BY <1>6 DEF CInv, CTypeOK, TypeOK
    <2>4. QED
      BY <1>1, <1>2, <1>3, <1>4, <1>6, <2>1, <2>2, <2>3, ExecutingKeeps
  <1>7. ASSUME NEW r \in Results, NEW content \in Contents, NEW streaming \in BOOLEAN,
               state'[c] = "DuckDBSuccess",
               streaming => content.cols > 0,
               results[r] = Nil,
               results' = [results EXCEPT ![r] =
                   [content |-> content, streaming |-> streaming, served |-> 0, error |-> FALSE]],
               openStream' = IF streaming THEN r ELSE Nil,
               S' = [S EXCEPT ![s].result = r]
        PROVE  CInv'
    <2> DEFINE new == [content |-> content, streaming |-> streaming,
                       served |-> 0, error |-> FALSE]
    <2>1. new \in Result /\ new # Nil
      <3>1. new \in Result
        BY DEF Result
      <3>2. QED
        BY <3>1, NilAssumption
    <2>2. /\ results' \in [Results -> Result \cup {Nil}]
          /\ results'[r] = new
          /\ \A q \in Results : q # r => results'[q] = results[q]
      BY <1>7, <2>1 DEF CInv, CTypeOK, TypeOK
    <2>3. StreamOK'
      BY <1>7, <2>1, <2>2 DEF StreamOK
    <2>4. S'[s].result = r /\ r # Nil
      BY <1>5, <1>7, NilAssumption
    <2>5. Executing(c)'
      <3>1. /\ results'[S'[s].result].served = 0
            /\ results'[S'[s].result].streaming =>
                   results'[S'[s].result].content.cols > 0
        BY <1>7, <2>2, <2>4
      <3>2. S'[s] # Nil /\ ~S'[s].result_set /\ S'[s].chunk = Nil
        BY <1>5, <1>7
      <3>3. Stage(c)' = "succeeded" /\ UNCHANGED <<call, duck, cut, reply>>
        BY <1>1, <1>2, <1>7
      <3> HIDE DEF new
      <3>4. QED
        BY <1>3, <1>4, <2>4, <3>1, <3>2, <3>3 DEF Executing
    <2>6. openStream' \in {openStream, Nil, r}
      BY <1>7
    <2> HIDE DEF new
    <2>7. /\ results[r] = Nil /\ results'[r] # Nil
          /\ S' = [S EXCEPT ![s].result = r]
      BY <1>7, <2>1, <2>2
    <2>8. call[c] # Nil /\ call[c].stmt = s /\ call[c].op = "execute"
      BY <1>1, <1>3
    <2>9. UNCHANGED <<pdo, chunks, unbuffered, reply, php, call, duck, cut>>
      BY <1>1
    <2>10. /\ P!IInv' /\ Placed(c)' /\ Elsewhere(c)
           /\ S[s].result = Nil /\ r \in Results \cup {Nil}
      BY <1>2, <1>4
    <2>11. QED
      BY <2>2, <2>3, <2>5, <2>6, <2>7, <2>8, <2>9, <2>10, ExecutingKeeps
  <1>8. QED
    BY <1>3, <1>6, <1>7 DEF ExecuteRuns

(***************************************************************************)
(* The handler that c is inside returns: what was in its locals is now in  *)
(* the record of its statement, which is quiet again.                      *)
(***************************************************************************)
LEMMA ReturnKeeps ==
    ASSUME CInv, NEW c \in Coroutines, NEW s \in Stmts, Inside(c, s),
           call'[c] = Nil, php' \in Coroutines \cup {Nil},
           call' \in [Coroutines -> Call \cup {Nil}],
           Placed(c)', Elsewhere(c), P!IInv',
           TypeOK', ColumnsFreed', UNCHANGED <<results, chunks, openStream>>,
           duck' \in [Stmts -> Coroutines \cup {Nil}], cut' \subseteq Stmts,
           \A t \in Stmts : t # s =>
               /\ S'[t] = S[t] /\ pdo'[t] = pdo[t] /\ reply'[t] = reply[t]
               /\ duck'[t] = duck[t]
               /\ t \in cut' <=> t \in cut,
           S[s] # Nil, S'[s] # Nil, S'[s].result = S[s].result,
           \A k \in Chunks : S'[s].chunk = k <=> (S[s].chunk = k \/ call[c].chunk = k),
           StatementOK(s)'
    PROVE  CInv'
  <1>1. CTypeOK'
    BY TypesKeep
  <1>2. StreamOK'
    BY DEF CInv, StreamOK
  <1>3. /\ \A d \in Coroutines : Inside(d, s) <=> d = c
        /\ \A d \in Coroutines : ~Inside(d, s)'
        /\ CallsElsewhere(s)
    <2>1. \A d \in Coroutines : Inside(d, s) <=> d = c
      BY InsideFacts DEF Inside
    <2>2. CallsElsewhere(s)
      BY CallsOfOne DEF Inside
    <2>3. QED
      BY <2>1, <2>2 DEF Elsewhere, Inside
  <1>4. OnlyStatement(s)
    BY <1>3 DEF OnlyStatement
  <1>5. \A r \in Results : ResultFor(s, r)' <=> ResultFor(s, r)
    BY DEF ResultFor
  <1>6. \A k \in Chunks : ChunkFor(s, k)' <=> ChunkFor(s, k)
    BY <1>3 DEF ChunkFor
  <1>7. Accounted(s)
    BY <1>5, <1>6 DEF Accounted, CInv, Owned
  <1>8. /\ \A d \in Coroutines : Placed(d)'
        /\ openStream' \in {openStream, Nil}
    BY DEF Elsewhere
  <1>9. QED
    BY <1>1, <1>2, <1>3, <1>4, <1>7, <1>8, StepKeeps

(* PDO core's fields after an execution that DuckDB carried out. *)
LEMMA PdoAfterFacts ==
    ASSUME CInv, NEW s \in Stmts, NEW n \in Nat
    PROVE  LET p == PdoAfterExecute(s, FALSE, n)
           IN  p \in PdoRecord /\ ColumnsOK(p) /\ p.executed /\ p.column_count = n
  <1> DEFINE q == SetColumnCount(PdoBeforeExecute(s, FALSE), n)
             d == IF q.executed THEN q ELSE Describe(q)
             p == PdoAfterExecute(s, FALSE, n)
  <1>1. PdoBeforeExecute(s, FALSE) \in PdoRecord /\ ColumnsOK(PdoBeforeExecute(s, FALSE))
    BY PdoFacts
  <1>2. q \in PdoRecord /\ ColumnsOK(q) /\ q.column_count = n
    BY <1>1, ColumnFacts
  <1> HIDE DEF q
  <1>3. d \in PdoRecord /\ ColumnsOK(d) /\ d.column_count = n
    BY <1>2, ColumnFacts
  <1>4. p = [d EXCEPT !.executed = TRUE]
    BY DEF PdoAfterExecute, q
  <1> HIDE DEF d, p
  <1>5. p \in PdoRecord /\ p.column_count = d.column_count /\ p.columns = d.columns
    BY <1>3, <1>4 DEF PdoRecord
  <1>6. p.executed
    BY <1>3, <1>4 DEF PdoRecord
  <1>7. QED
    BY <1>3, <1>5, <1>6 DEF ColumnsOK, p

LEMMA ExecuteReturnsKeeps ==
    ASSUME CInv, NEW c \in Coroutines, ExecuteReturns(c)
    PROVE  CInv'
  <1>1. /\ Returning(c, "execute") /\ Return(c)
        /\ UNCHANGED <<chunks, unbuffered, reply, cut>>
    BY DEF ExecuteReturns
  <1>2. /\ call[c] # Nil /\ call'[c] = Nil /\ call[c].op = "execute"
        /\ call' \in [Coroutines -> Call \cup {Nil}]
        /\ php' \in Coroutines \cup {Nil}
        /\ Stage(c) = "succeeded" <=> state[c] = "DuckDBSuccess"
        /\ Placed(c)' /\ Elsewhere(c) /\ P!IInv'
    BY <1>1, ReturnMoves DEF Returning
  <1>3. PICK s \in Stmts : s = call[c].stmt
    BY <1>2, InsideFacts
  <1>4. /\ \A d \in Coroutines : Inside(d, s) <=> d = c
        /\ Executing(c)
    BY <1>2, <1>3, InsideFacts DEF CallOK
  <1>5. PICK r : r = S[s].result
    OBVIOUS
  <1>6. /\ S[s] # Nil /\ S[s] \in StmtRecord /\ r \in Results \cup {Nil}
        /\ s \notin cut /\ ~S[s].result_set
        /\ S[s].chunk = Nil /\ call[c].chunk = Nil
        /\ r # Nil <=> state[c] = "DuckDBSuccess"
        /\ Inside(c, s)
    BY <1>2, <1>3, <1>4, <1>5 DEF Executing, CInv, CTypeOK, TypeOK, StmtRecord
  <1>7. /\ duck' \in [Stmts -> Coroutines \cup {Nil}]
        /\ \A t \in Stmts : t # s => duck'[t] = duck[t]
        /\ cut' \subseteq Stmts
    BY <1>1, <1>3 DEF ExecuteReturns, Unbinds, CInv, CTypeOK
  <1>8. ASSUME NEW x \in StmtRecord, S' = [S EXCEPT ![s] = x],
               x.result = r, x.chunk = Nil,
               x.result_set => r # Nil /\ x.is_streaming = results[r].streaming,
               x.result_set <=> r # Nil,
               x.result_set => x.total_rows = 0 /\ x.next_chunk_index = 0,
               x.result_set => results[r].served = 0,
               x.result_set => (x.done <=> results[r].content.cols = 0),
               UNCHANGED <<results, openStream>>,
               NEW p \in PdoRecord, ColumnsOK(p), pdo' = [pdo EXCEPT ![s] = p],
               x.result_set => p.executed /\ p.column_count = results[r].content.cols,
               x.result_set /\ x.done => openStream # r
        PROVE  CInv'
    <2>1. /\ S' \in [Stmts -> StmtRecord \cup {Nil}]
          /\ S'[s] = x /\ x # Nil
          /\ pdo' \in [Stmts -> PdoRecord] /\ pdo'[s] = p
          /\ \A t \in Stmts : t # s => S'[t] = S[t] /\ pdo'[t] = pdo[t]
      BY <1>8, NilAssumption DEF CInv, CTypeOK, TypeOK
    <2>2. TypeOK'
      BY <1>1, <1>8, <2>1 DEF CInv, CTypeOK, TypeOK
    <2>3. ColumnsFreed'
      BY <1>8, <2>1 DEF CInv, ColumnsFreed, ColumnsOK
    <2>4. \A k \in Chunks : S'[s].chunk = k <=> (S[s].chunk = k \/ call[c].chunk = k)
      BY <1>6, <1>8, <2>1
    <2>5. x.result_set => NextChunk(s)' = 0
      BY <1>8, <2>1 DEF NextChunk
    <2>6. x.result_set /\ x.done => AllFetched(s)'
      <3>1. SUFFICES ASSUME x.result_set, x.done PROVE AllFetched(s)'
        OBVIOUS
      <3>2. results[r] \in Result /\ results[r].content \in Contents
        <4>1. r \in Results /\ ResultFor(s, r)
          BY <1>5, <1>6, <1>8, <3>1 DEF ResultFor
        <4>2. results[r] \in Result
          BY <4>1 DEF CInv, Owned, CTypeOK, TypeOK
        <4>3. QED
          BY <4>2 DEF Result
      <3>3. results[r].content.bounds = <<>>
        BY <1>8, <3>1, <3>2, ContentsAssumption
      <3>4. RowCount(results[r].content) = 0
        BY <3>3 DEF RowCount, ChunkCount, RowsBefore
      <3>5. AbstractPosition(s)' = 0
        BY <1>8, <2>1, <3>1 DEF AbstractPosition
      <3>6. QED
        BY <1>8, <2>1, <3>1, <3>4, <3>5 DEF AllFetched
    <2>7. StatementOK(s)'
      <3>1. s \notin cut'
        BY <1>1, <1>6
      <3>2. QED
        BY <1>8, <2>1, <2>5, <2>6, <3>1 DEF StatementOK
    <2>8. QED
      BY <1>1, <1>2, <1>5, <1>6, <1>7, <1>8, <2>1, <2>2, <2>3, <2>4, <2>7, ReturnKeeps
  <1>9. CASE state[c] = "DuckDBError"
    <2> DEFINE x == [S[s] EXCEPT !.result = Nil]
    <2>1. r = Nil
      BY <1>6, <1>9
    <2>2. /\ x \in StmtRecord /\ x.result = r /\ x.chunk = Nil /\ ~x.result_set
      BY <1>6, <2>1 DEF StmtRecord
    <2>3. /\ S' = [S EXCEPT ![s] = x]
          /\ UNCHANGED <<results, openStream, pdo>>
      BY <1>3, <1>5, <1>9, <2>1 DEF ExecuteReturns
    <2>4. /\ pdo[s] \in PdoRecord /\ ColumnsOK(pdo[s])
          /\ pdo' = [pdo EXCEPT ![s] = pdo[s]]
      BY <2>3, PdoFacts DEF CInv, CTypeOK, TypeOK
    <2> HIDE DEF x
    <2>5. QED
      BY <1>8, <2>1, <2>2, <2>3, <2>4
  <1>10. CASE state[c] = "DuckDBSuccess"
    <2> DEFINE x == [result |-> r, chunk |-> Nil, chunk_idx |-> 0, chunk_size |-> 0,
                     done |-> ColumnsOf(r) = 0, result_set |-> TRUE,
                     is_streaming |-> IsStreaming(r),
                     next_chunk_index |-> 0, total_rows |-> 0]
               p == PdoAfterExecute(s, FALSE, ColumnsOf(r))
    <2>1. r # Nil /\ r \in Results
      BY <1>6, <1>10
    <2>2. results[r] \in Result /\ results[r].content \in Contents
      <3>1. ResultFor(s, r)
        BY <1>5, <1>6 DEF ResultFor
      <3>2. results[r] \in Result
        BY <2>1, <3>1 DEF CInv, Owned, CTypeOK, TypeOK
      <3>3. QED
        BY <3>2 DEF Result
    <2>3. /\ ColumnsOf(r) = results[r].content.cols /\ ColumnsOf(r) \in Nat
          /\ IsStreaming(r) = results[r].streaming /\ IsStreaming(r) \in BOOLEAN
      <3>1. ColumnsOf(r) = results[r].content.cols /\ ColumnsOf(r) \in Nat
        BY <2>1, <2>2, ContentFacts DEF ColumnsOf
      <3>2. results[r].streaming \in BOOLEAN
        BY <2>2 DEF Result
      <3>3. QED
        BY <2>1, <3>1, <3>2 DEF IsStreaming
    <2>4. x \in StmtRecord
      BY <2>1, <2>3 DEF StmtRecord
    <2>5. p \in PdoRecord /\ ColumnsOK(p) /\ p.executed /\ p.column_count = ColumnsOf(r)
      BY <2>3, PdoAfterFacts
    <2>6. /\ S' = [S EXCEPT ![s] = x]
          /\ pdo' = [pdo EXCEPT ![s] = p]
          /\ UNCHANGED <<results, openStream>>
      BY <1>3, <1>5, <1>10 DEF ExecuteReturns
    <2>7. /\ results[r].served = 0
          /\ results[r].streaming => results[r].content.cols > 0
      BY <1>2, <1>3, <1>4, <1>5, <1>10 DEF Executing
    <2>8. results[r].content.cols = 0 => openStream # r
      BY <2>1, <2>7 DEF CInv, StreamOK
    <2>9. /\ x.result = r /\ x.chunk = Nil /\ x.result_set
          /\ x.is_streaming = results[r].streaming
          /\ x.total_rows = 0 /\ x.next_chunk_index = 0
          /\ x.done <=> results[r].content.cols = 0
      BY <2>3
    <2> HIDE DEF x, p
    <2>10. QED
      BY <1>8, <2>1, <2>3, <2>4, <2>5, <2>6, <2>7, <2>8, <2>9
  <1>11. QED
    BY <1>9, <1>10 DEF ExecuteReturns

-----------------------------------------------------------------------------
(* Fetches *)

(* An open, quiet statement: its result is there, and when the chunk at    *)
(* hand is exhausted, RowsConsumed counts the rows before the next one.    *)
LEMMA OpenFacts ==
    ASSUME CInv, NEW s \in Stmts, Quiet(s), Fetchable(s)
    PROVE  LET r == S[s].result
           IN  /\ S[s] \in StmtRecord /\ r \in Results
               /\ results[r] \in Result /\ results[r].content \in Contents
               /\ S[s].is_streaming = results[r].streaming
               /\ NextChunk(s) \in Nat
               /\ NextChunk(s) <= ChunkCount(results[r].content)
               /\ S[s].chunk # Nil => ChunkAtHand(s) /\ chunks[S[s].chunk] \in Chunk
               /\ ~InChunk(s) =>
                     /\ RowsConsumed(s) \in Nat
                     /\ RowsConsumed(s) = RowsBefore(results[r].content, NextChunk(s))
  <1> DEFINE r == S[s].result
             content == results[r].content
             k == chunks[S[s].chunk]
  <1>1. /\ S[s] \in StmtRecord /\ r \in Results
        /\ results[r] \in Result
        /\ S[s].chunk # Nil => ChunkAtHand(s) /\ k \in Chunk
        /\ StatementOK(s)
    BY QuietFacts DEF Fetchable, CInv, StatementOK
  <1>2. content \in Contents
    BY <1>1 DEF Result
  <1>3. S[s].is_streaming = results[r].streaming /\ NextChunk(s) \in Nat
    BY <1>1 DEF Fetchable, StatementOK, NextChunk, StmtRecord, Result
  <1>4. ChunkCount(content) \in Nat
    BY <1>2, ContentFacts
  <1>5. CASE S[s].chunk = Nil
    <2>1. NextChunk(s) = 0 /\ S[s].total_rows = 0
      BY <1>1, <1>5 DEF StatementOK, Fetchable
    <2>2. RowsConsumed(s) = 0 /\ RowsBefore(content, NextChunk(s)) = 0
      BY <1>5, <2>1 DEF RowsConsumed, RowsBefore
    <2>3. QED
      BY <1>1, <1>2, <1>3, <1>4, <1>5, <2>1, <2>2
  <1>6. CASE S[s].chunk # Nil
    <2>1. /\ k.index \in Nat /\ NextChunk(s) = k.index + 1
          /\ k.index < ChunkCount(content)
          /\ S[s].chunk_size = ChunkSize(content, k.index)
          /\ S[s].total_rows = RowsBefore(content, k.index)
      BY <1>1, <1>6 DEF ChunkAtHand, Chunk
    <2>2. /\ RowsBefore(content, k.index + 1)
                = RowsBefore(content, k.index) + ChunkSize(content, k.index)
          /\ RowsBefore(content, k.index + 1) \in Nat
      BY <1>2, <2>1, ContentFacts, RowBounds
    <2>3. RowsConsumed(s) = RowsBefore(content, NextChunk(s)) /\ RowsConsumed(s) \in Nat
      BY <1>6, <2>1, <2>2 DEF RowsConsumed
    <2>4. NextChunk(s) <= ChunkCount(content)
      BY <1>4, <2>1
    <2>5. QED
      BY <1>1, <1>2, <1>3, <2>3, <2>4
  <1>7. QED
    BY <1>5, <1>6

LEMMA FetchInChunkKeepsCalls ==
    ASSUME CInv, NEW c \in Coroutines, NEW s \in Stmts,
           AtOnce(c, s), Quiet(s), FetchInChunk(s), UNCHANGED <<duck, cut>>
    PROVE  CInv'
  <1>1. UNCHANGED <<dispatchVars, php, call>>
    BY DEF AtOnce
  <1>2. P!IInv' /\ \A d \in Coroutines : Placed(d)' /\ Stage(d)' = Stage(d)
    BY <1>1, AtOnceMoves
  <1> DEFINE x == [S[s] EXCEPT !.chunk_idx = S[s].chunk_idx + 1]
             k == chunks[S[s].chunk]
  <1>3. /\ Fetchable(s) /\ InChunk(s)
        /\ S' = [S EXCEPT ![s] = x]
        /\ pdo' = [pdo EXCEPT ![s] = Describe(pdo[s])]
        /\ reply' = [reply EXCEPT ![s] = Row(RowAt(k, S[s].chunk_idx + 1))]
        /\ UNCHANGED <<results, chunks, openStream, unbuffered>>
    BY DEF FetchInChunk
  <1>4. /\ S[s] \in StmtRecord /\ S[s].result \in Results
        /\ results[S[s].result].content \in Contents
        /\ ChunkAtHand(s) /\ k \in Chunk
        /\ S[s].chunk # Nil /\ S[s].chunk_idx + 1 < S[s].chunk_size
        /\ ~S[s].done /\ S[s].result_set /\ pdo[s].executed
    BY <1>3, OpenFacts DEF InChunk, Fetchable
  <1>5. /\ x \in StmtRecord /\ x # Nil /\ x.chunk_idx = S[s].chunk_idx + 1
        /\ x.result = S[s].result /\ x.chunk = S[s].chunk
        /\ x.chunk_size = S[s].chunk_size /\ x.done = S[s].done
        /\ x.result_set = S[s].result_set /\ x.is_streaming = S[s].is_streaming
        /\ x.next_chunk_index = S[s].next_chunk_index /\ x.total_rows = S[s].total_rows
    <2>1. x \in StmtRecord
      BY <1>4 DEF StmtRecord
    <2>2. QED
      BY <1>4, <2>1, NilAssumption DEF StmtRecord
  <1> HIDE DEF x
  <1>6. pdo[s] \in PdoRecord /\ ColumnsOK(pdo[s])
    BY PdoFacts
  <1>7. /\ Describe(pdo[s]) \in PdoRecord /\ ColumnsOK(Describe(pdo[s]))
        /\ Describe(pdo[s]).column_count = pdo[s].column_count
        /\ Describe(pdo[s]).executed = pdo[s].executed
    BY <1>6, ColumnFacts
  <1>8. Row(RowAt(k, S[s].chunk_idx + 1)) \in Reply
    <2>1. /\ k.index \in Nat /\ k.index < ChunkCount(results[k.of].content)
          /\ k.of = S[s].result
      BY <1>4 DEF ChunkAtHand, Chunk
    <2>2. RowsBefore(results[k.of].content, k.index) \in Nat
      BY <1>4, <2>1, RowBounds
    <2>3. QED
      BY <1>4, <2>2 DEF RowAt, Row, Reply, StmtRecord
  <1>9. /\ S'[s] = x /\ pdo'[s] = Describe(pdo[s])
        /\ \A t \in Stmts : t # s =>
              S'[t] = S[t] /\ pdo'[t] = pdo[t] /\ reply'[t] = reply[t]
    BY <1>3 DEF CInv, CTypeOK, TypeOK
  <1>10. TypeOK'
    BY <1>3, <1>5, <1>7, <1>8 DEF CInv, CTypeOK, TypeOK
  <1>11. CTypeOK'
    BY <1>1, <1>2, <1>10, TypesKeep DEF CInv, CTypeOK
  <1>12. ColumnsFreed' /\ StreamOK'
    BY <1>3, <1>7, <1>9 DEF CInv, ColumnsFreed, ColumnsOK, StreamOK
  <1>13. OnlyStatement(s)
    BY <1>1, <1>2, <1>9, CallsOfNone DEF OnlyStatement
  <1>14. /\ \A d \in Coroutines : ~Inside(d, s)'
         /\ \A q \in Results : ResultFor(s, q)' <=> ResultFor(s, q)
         /\ \A j \in Chunks : ChunkFor(s, j)' <=> ChunkFor(s, j)
    BY <1>1, <1>4, <1>5, <1>9, NilAssumption DEF Quiet, Inside, ResultFor, ChunkFor
  <1>15. Accounted(s)
    BY <1>3, <1>14 DEF Accounted, CInv, Owned
  <1>16. StatementOK(s)'
    <2>1. S[s] # Nil /\ S[s].result # Nil /\ StatementOK(s)
      BY <1>4, NilAssumption DEF CInv
    <2>2. NextChunk(s)' = NextChunk(s)
      BY <1>3, <1>5, <1>9 DEF NextChunk
    <2>3. ChunkAtHand(s)'
      <3>1. /\ S'[s].chunk_idx = S[s].chunk_idx + 1
            /\ S'[s].result = S[s].result /\ S'[s].chunk = S[s].chunk
            /\ S'[s].chunk_size = S[s].chunk_size
            /\ S'[s].result_set = S[s].result_set
            /\ S'[s].total_rows = S[s].total_rows
            /\ results' = results /\ chunks' = chunks
        BY <1>3, <1>5, <1>9
      <3> HIDE DEF k
      <3>2. QED
        BY <1>4, <2>2, <3>1 DEF ChunkAtHand
    <2>4. s \notin cut'
      BY <1>4, <2>1 DEF StatementOK
    <2>5. QED
      <3>1. /\ S'[s].result = S[s].result /\ S'[s].chunk = S[s].chunk
            /\ S'[s].is_streaming = S[s].is_streaming
            /\ pdo'[s].column_count = pdo[s].column_count
            /\ results' = results
        BY <1>3, <1>5, <1>7, <1>9
      <3>2. /\ S'[s].result # Nil
            /\ S'[s].is_streaming = results'[S'[s].result].streaming
            /\ pdo'[s].column_count = results'[S'[s].result].content.cols
        BY <1>4, <2>1, <3>1 DEF StatementOK
      <3>3. /\ ~S'[s].done /\ S'[s].result_set /\ S'[s].chunk # Nil
            /\ pdo'[s].executed
        BY <1>4, <1>5, <1>7, <1>9
      <3>4. QED
        BY <2>3, <2>4, <3>2, <3>3 DEF StatementOK
  <1>17. QED
    BY <1>2, <1>3, <1>11, <1>12, <1>13, <1>14, <1>15, <1>16, StepKeeps

(* Whether c enters the statement or not: the exhausted chunk of a quiet   *)
(* one is destroyed, what it handed out is counted, and its result stays.  *)
LEMMA SpentFacts ==
    ASSUME CInv, NEW s \in Stmts, Quiet(s), Fetchable(s),
           NEW x \in StmtRecord, S' = [S EXCEPT ![s] = x],
           x.result = S[s].result, x.chunk = Nil,
           \A r \in Results : results'[r] # Nil <=> results[r] # Nil,
           \A r \in Results : r # S[s].result => results'[r] = results[r],
           chunks' = DestroyChunk(s),
           \A k \in Chunks : ~ChunkFor(s, k)'
    PROVE  /\ S'[s] = x /\ x # Nil
           /\ \A t \in Stmts : t # s => S'[t] = S[t]
           /\ S' \in [Stmts -> StmtRecord \cup {Nil}]
           /\ chunks' \in [Chunks -> Chunk \cup {Nil}]
           /\ Accounted(s)
  <1>1. /\ S'[s] = x /\ x # Nil
        /\ \A t \in Stmts : t # s => S'[t] = S[t]
        /\ S' \in [Stmts -> StmtRecord \cup {Nil}]
    BY NilAssumption DEF CInv, CTypeOK, TypeOK
  <1>2. /\ chunks' \in [Chunks -> Chunk \cup {Nil}]
        /\ \A k \in Chunks : chunks'[k] = IF ChunkFor(s, k) THEN Nil ELSE chunks[k]
    BY QuietFacts, NilAssumption DEF DestroyChunk, CInv, CTypeOK, TypeOK, Fetchable
  <1>3. \A r \in Results :
            /\ ResultFor(s, r)' <=> ResultFor(s, r)
            /\ ResultFor(s, r) => results[r] # Nil
            /\ ~ResultFor(s, r) => results'[r] = results[r]
    BY <1>1 DEF ResultFor, Fetchable, CInv, Owned
  <1>4. Accounted(s)
    BY <1>2, <1>3 DEF Accounted
  <1>5. QED
    BY <1>1, <1>2, <1>4

(* A materialised result knows that no chunk is left. *)
LEMMA FetchLastAtOnceKeeps ==
    ASSUME CInv, NEW c \in Coroutines, NEW s \in Stmts,
           AtOnce(c, s), Quiet(s), FetchLast(s), ~S[s].is_streaming, UNCHANGED <<duck, cut>>
    PROVE  CInv'
  <1>1. UNCHANGED <<dispatchVars, php, call>>
    BY DEF AtOnce
  <1>2. P!IInv' /\ \A d \in Coroutines : Placed(d)' /\ Stage(d)' = Stage(d)
    BY <1>1, AtOnceMoves
  <1>3. PICK r \in Results : r = S[s].result
    BY OpenFacts DEF FetchLast
  <1> DEFINE content == results[r].content
             x == [S[s] EXCEPT !.chunk = Nil, !.chunk_idx = 0, !.chunk_size = 0,
                               !.total_rows = RowsConsumed(s), !.done = TRUE]
             y == [results[r] EXCEPT !.error = content.err]
  <1>4. /\ Fetchable(s) /\ ~InChunk(s)
        /\ NextChunk(s) >= ChunkCount(content)
        /\ chunks' = DestroyChunk(s)
        /\ S' = [S EXCEPT ![s] = x]
        /\ results' = [results EXCEPT ![r] = y]
        /\ openStream' = IF openStream = r THEN Nil ELSE openStream
        /\ reply' = [reply EXCEPT ![s] = IF content.err THEN Error ELSE End]
        /\ UNCHANGED <<pdo, unbuffered>>
    BY <1>3 DEF FetchLast
  <1>5. /\ S[s] \in StmtRecord /\ results[r] \in Result /\ content \in Contents
        /\ ~results[r].streaming
        /\ NextChunk(s) = ChunkCount(content)
        /\ RowsConsumed(s) \in Nat
        /\ RowsConsumed(s) = RowCount(content)
    <2>1. NextChunk(s) \in Nat /\ ChunkCount(content) \in Nat
          /\ NextChunk(s) <= ChunkCount(content)
      BY <1>3, <1>4, OpenFacts, ContentFacts
    <2>2. NextChunk(s) = ChunkCount(content)
      BY <1>4, <2>1
    <2>3. QED
      BY <1>3, <1>4, <2>2, OpenFacts DEF RowCount
  <1>6. /\ x \in StmtRecord /\ x.result = r /\ x.chunk = Nil
        /\ x.done /\ x.total_rows = RowCount(content)
        /\ x.result_set = S[s].result_set /\ x.is_streaming = S[s].is_streaming
    BY <1>3, <1>5 DEF StmtRecord
  <1>7. /\ y \in Result /\ y.content = content /\ y.streaming = results[r].streaming
    BY <1>5, ContentFacts DEF Result
  <1> HIDE DEF x, y
  <1>8. y # Nil
    BY <1>7, NilAssumption
  <1>9. /\ results' \in [Results -> Result \cup {Nil}]
        /\ results'[r] = y
        /\ \A q \in Results : q # r => results'[q] = results[q]
    BY <1>4, <1>7 DEF CInv, CTypeOK, TypeOK
  <1>10. results[r] # Nil
    BY <1>5, NilAssumption
  <1>11. /\ \A d \in Coroutines : ~Inside(d, s)'
         /\ S'[s] = x
    BY <1>1, <1>4 DEF Quiet, Inside, CInv, CTypeOK, TypeOK
  <1>12. \A k \in Chunks : ~ChunkFor(s, k)'
    BY <1>6, <1>11, NilAssumption DEF ChunkFor
  <1>13. /\ x # Nil
         /\ \A t \in Stmts : t # s => S'[t] = S[t]
         /\ S' \in [Stmts -> StmtRecord \cup {Nil}]
         /\ chunks' \in [Chunks -> Chunk \cup {Nil}]
         /\ Accounted(s)
    <2>1. /\ \A q \in Results : results'[q] # Nil <=> results[q] # Nil
          /\ \A q \in Results : q # S[s].result => results'[q] = results[q]
      BY <1>3, <1>8, <1>9, <1>10
    <2>2. /\ Fetchable(s) /\ chunks' = DestroyChunk(s) /\ S' = [S EXCEPT ![s] = x]
          /\ x \in StmtRecord /\ x.result = S[s].result /\ x.chunk = Nil
      BY <1>3, <1>4, <1>6
    <2>3. QED
      BY <1>12, <2>1, <2>2, SpentFacts
  <1>14. openStream' = openStream /\ openStream # r
    BY <1>4, <1>5, <1>10, NilAssumption DEF CInv, StreamOK
  <1>15. TypeOK'
    <2>1. Error \in Reply /\ End \in Reply
      BY DEF Error, End, Reply
    <2>2. QED
      BY <1>4, <1>9, <1>13, <1>14, <2>1 DEF CInv, CTypeOK, TypeOK
  <1>16. CTypeOK'
    BY <1>1, <1>2, <1>15, TypesKeep DEF CInv, CTypeOK
  <1>17. ColumnsFreed' /\ StreamOK'
    BY <1>4, <1>9, <1>14, NilAssumption DEF CInv, ColumnsFreed, StreamOK, CTypeOK, TypeOK
  <1>18. OnlyStatement(s)
    BY <1>1, <1>2, <1>4, <1>13, CallsOfNone DEF OnlyStatement, CInv, CTypeOK, TypeOK
  <1>19. StatementOK(s)'
    <2>1. /\ StatementOK(s) /\ pdo' = pdo
          /\ S[s] # Nil /\ S[s].result_set /\ pdo[s].executed /\ ~S[s].done
      BY <1>4 DEF CInv, Fetchable
    <2>2. s \notin cut'
      BY <2>1 DEF StatementOK
    <2>3. AllFetched(s)'
      BY <1>5, <1>6, <1>7, <1>9, <1>11, <1>14, ContentFacts DEF AllFetched, AbstractPosition
    <2>4. /\ S'[s].result # Nil /\ pdo'[s].executed
          /\ S'[s].is_streaming = results'[S'[s].result].streaming
          /\ pdo'[s].column_count = results'[S'[s].result].content.cols
      BY <1>3, <1>6, <1>7, <1>9, <1>11, <2>1, NilAssumption DEF StatementOK
    <2>5. S'[s].chunk = Nil /\ S'[s].done /\ S'[s].result_set
      BY <1>6, <1>11, <2>1
    <2>6. QED
      BY <2>2, <2>3, <2>4, <2>5 DEF StatementOK
  <1>20. QED
    BY <1>2, <1>11, <1>13, <1>14, <1>16, <1>17, <1>18, <1>19, StepKeeps

LEMMA FetchEntersKeeps ==
    ASSUME CInv, NEW c \in Coroutines, NEW s \in Stmts, Quiet(s), FetchEnters(c, s)
    PROVE  CInv'
  <1>1. PICK r \in Results : r = S[s].result
    BY OpenFacts DEF FetchEnters
  <1>2. PICK next : next = NextChunk(s)
    OBVIOUS
  <1> DEFINE content == results[r].content
             i == S[s].next_chunk_index
             j == IF S[s].is_streaming THEN i ELSE i + 1
             m == S[s].chunk_idx + 1
             x == [S[s] EXCEPT !.chunk = Nil, !.chunk_idx = m,
                               !.total_rows = RowsConsumed(s), !.next_chunk_index = j]
             y == [NewCall("fetch", s) EXCEPT !.result = r, !.index = i]
  <1>3. /\ Fetchable(s) /\ ~InChunk(s)
        /\ S[s].is_streaming \/ next < ChunkCount(content)
        /\ Enter(c, y)
        /\ chunks' = DestroyChunk(s)
        /\ S' = [S EXCEPT ![s] = x]
        /\ UNCHANGED <<pdo, results, openStream, unbuffered, reply, duck, cut>>
    BY <1>1, <1>2 DEF FetchEnters
  <1>4. /\ S[s] \in StmtRecord /\ results[r] \in Result /\ content \in Contents
        /\ S[s].is_streaming = results[r].streaming
        /\ next \in Nat /\ next <= ChunkCount(content)
        /\ RowsConsumed(s) \in Nat
        /\ RowsConsumed(s) = RowsBefore(content, next)
        /\ S[s] # Nil /\ S[s].result_set /\ ~S[s].done /\ pdo[s].executed
        /\ StatementOK(s)
    BY <1>1, <1>2, <1>3, OpenFacts DEF Fetchable, CInv
  <1>5. i \in Nat /\ j \in Nat /\ m \in Nat
    BY <1>4 DEF StmtRecord
  <1>6. next = IF results[r].streaming THEN results[r].served ELSE i
    BY <1>1, <1>2, <1>4 DEF NextChunk
  <1> HIDE DEF i, j, m
  <1>7. /\ x \in StmtRecord /\ x.result = r /\ x.chunk = Nil
        /\ ~x.done /\ x.result_set
        /\ x.is_streaming = results[r].streaming
        /\ x.total_rows = RowsBefore(content, next)
        /\ x.next_chunk_index = j
    <2>1. x \in StmtRecord
      BY <1>4, <1>5 DEF StmtRecord
    <2>2. x.result = r /\ x.chunk = Nil
      BY <1>1, <1>4 DEF StmtRecord
    <2>3. ~x.done
      BY <1>4 DEF StmtRecord
    <2>4. x.result_set
      BY <1>4 DEF StmtRecord
    <2>5. /\ x.is_streaming = results[r].streaming
          /\ x.total_rows = RowsBefore(content, next)
          /\ x.next_chunk_index = j
      BY <1>4 DEF StmtRecord
    <2>6. QED
      BY <2>1, <2>2, <2>3, <2>4, <2>5
  <1>8. /\ y \in Call /\ y.op = "fetch" /\ y.stmt = s
        /\ y.at = "entering" /\ y.chunk = Nil
        /\ y.result = r /\ y.index = i
    BY <1>5 DEF NewCall, Call, CInv, CTypeOK, TypeOK
  <1>9. ~results[r].streaming => j = next + 1 /\ next < ChunkCount(content)
    BY <1>3, <1>4, <1>6 DEF j
  <1> HIDE DEF x, y
  <1>10. /\ call[c] = Nil /\ call'[c] = y /\ y # Nil
         /\ call' \in [Coroutines -> Call \cup {Nil}]
         /\ php' \in Coroutines \cup {Nil}
         /\ Stage(c)' = "coming"
         /\ Placed(c)' /\ Elsewhere(c) /\ P!IInv'
    BY <1>3, <1>8, EnterMoves
  <1>11. CallsElsewhere(s) /\ \A d \in Coroutines : Inside(d, s)' => d = c
    BY <1>8, <1>10, CallsOfOne, EnteredAlone
  <1>12. S'[s] = x
    BY <1>3 DEF CInv, CTypeOK, TypeOK
  <1>13. \A k \in Chunks : ~ChunkFor(s, k)'
    BY <1>7, <1>8, <1>10, <1>11, <1>12, NilAssumption DEF ChunkFor
  <1>14. /\ x # Nil
         /\ \A t \in Stmts : t # s => S'[t] = S[t]
         /\ S' \in [Stmts -> StmtRecord \cup {Nil}]
         /\ chunks' \in [Chunks -> Chunk \cup {Nil}]
         /\ Accounted(s)
    <2>1. /\ \A q \in Results : results'[q] # Nil <=> results[q] # Nil
          /\ \A q \in Results : q # S[s].result => results'[q] = results[q]
      BY <1>3
    <2>2. /\ Fetchable(s) /\ chunks' = DestroyChunk(s) /\ S' = [S EXCEPT ![s] = x]
          /\ x \in StmtRecord /\ x.result = S[s].result /\ x.chunk = Nil
      BY <1>1, <1>3, <1>7
    <2>3. QED
      BY <1>13, <2>1, <2>2, SpentFacts
  <1>15. TypeOK'
    BY <1>3, <1>14 DEF CInv, CTypeOK, TypeOK
  <1>16. CTypeOK'
    BY <1>3, <1>10, <1>15, TypesKeep DEF CInv, CTypeOK
  <1>17. ColumnsFreed' /\ StreamOK'
    BY <1>3 DEF CInv, ColumnsFreed, StreamOK
  <1>18. OnlyStatement(s)
    BY <1>3, <1>11, <1>14 DEF OnlyStatement
  <1>19. r # Nil /\ s \notin cut'
    BY <1>3, <1>4, NilAssumption DEF StatementOK
  <1>20. Inside(c, s)'
    BY <1>8, <1>10 DEF Inside
  <1>21. StatementOK(s)'
    <2>1. ~Quiet(s)'
      BY <1>20 DEF Quiet
    <2>2. /\ S'[s].result # Nil /\ pdo'[s].executed
          /\ S'[s].is_streaming = results'[S'[s].result].streaming
          /\ pdo'[s].column_count = results'[S'[s].result].content.cols
      BY <1>1, <1>3, <1>4, <1>7, <1>12, <1>19 DEF StatementOK
    <2>3. S'[s].chunk = Nil /\ ~S'[s].done
      BY <1>7, <1>12
    <2>4. QED
      BY <1>19, <2>1, <2>2, <2>3 DEF StatementOK
  <1>22. Fetching(c)'
    <2>1. /\ call'[c].stmt = s /\ call'[c].result = r
          /\ call'[c].index = i /\ call'[c].chunk = Nil
      BY <1>8, <1>10
    <2>2. /\ S'[s] # Nil /\ S'[s].result_set /\ ~S'[s].done
          /\ S'[s].result = r /\ S'[s].chunk = Nil
          /\ S'[s].total_rows = RowsBefore(content, next)
          /\ S'[s].next_chunk_index = j
      BY <1>7, <1>12, <1>14
    <2>3. results' = results
      BY <1>3
    <2> HIDE DEF content
    <2>4. QED
      BY <1>4, <1>6, <1>9, <1>10, <2>1, <2>2, <2>3 DEF Fetching, content
  <1>23. CallOK(c)'
    BY <1>8, <1>10, <1>22 DEF CallOK
  <1>24. /\ \A d \in Coroutines : Placed(d)'
         /\ \A d, e \in Coroutines : Inside(d, s)' /\ Inside(e, s)' => d = e
         /\ \A d \in Coroutines : Inside(d, s)' => CallOK(d)'
         /\ openStream' \in {openStream, Nil}
    BY <1>3, <1>10, <1>11, <1>23 DEF Elsewhere
  <1>25. QED
    BY <1>10, <1>14, <1>16, <1>17, <1>18, <1>21, <1>24, StepKeeps

(***************************************************************************)
(* DuckDB answers the fetch that c is inside: it hands out a chunk, or     *)
(* notes in the result that there is none; the statement is not touched.   *)
(***************************************************************************)
LEMMA AnswerKeeps ==
    ASSUME CInv, NEW c \in Coroutines, NEW s \in Stmts,
           Inside(c, s), call[c].op = "fetch",
           UNCHANGED <<S, pdo, unbuffered, reply, php, duck, cut>>,
           P!IInv', Placed(c)', Elsewhere(c),
           call' \in [Coroutines -> Call \cup {Nil}],
           Inside(c, s)', call'[c].op = "fetch",
           NEW y \in Result, results' = [results EXCEPT ![S[s].result] = y],
           y.content = results[S[s].result].content,
           y.streaming = results[S[s].result].streaming,
           chunks' \in [Chunks -> Chunk \cup {Nil}],
           \A k \in Chunks : call[c].chunk # k,
           \A k \in Chunks :
               IF call'[c].chunk = k THEN chunks[k] = Nil /\ chunks'[k] # Nil
                                     ELSE chunks'[k] = chunks[k],
           openStream' = openStream \/ (openStream' = Nil /\ openStream = S[s].result),
           Fetching(c)'
    PROVE  CInv'
  <1>1. /\ \A d \in Coroutines : Inside(d, s) <=> d = c
        /\ CallOK(c) /\ call[c] # Nil /\ call[c].stmt = s
    BY InsideFacts DEF Inside
  <1>2. /\ S[s] # Nil /\ S[s].result_set /\ ~S[s].done /\ S[s].chunk = Nil
        /\ StatementOK(s)
    BY <1>1 DEF CallOK, Fetching, CInv
  <1>3. PICK r : r = S[s].result
    OBVIOUS
  <1>4. /\ r \in Results /\ r # Nil /\ results[r] # Nil
        /\ S[s] \in StmtRecord
    <2>1. S[s] \in StmtRecord /\ r # Nil
      BY <1>2, <1>3 DEF CInv, CTypeOK, TypeOK, StatementOK
    <2>2. r \in Results /\ ResultFor(s, r)
      BY <1>2, <1>3, <2>1 DEF StmtRecord, ResultFor
    <2>3. QED
      BY <2>1, <2>2 DEF CInv, Owned
  <1>5. /\ results' \in [Results -> Result \cup {Nil}]
        /\ results'[r] = y /\ y # Nil
        /\ \A q \in Results : q # r => results'[q] = results[q]
    <2>1. y # Nil
      BY NilAssumption
    <2>2. QED
      BY <1>3, <1>4, <2>1 DEF CInv, CTypeOK, TypeOK
  <1>6. TypeOK'
    <2>1. openStream' \in Results \cup {Nil}
      BY DEF CInv, CTypeOK, TypeOK
    <2>2. QED
      BY <1>5, <2>1 DEF CInv, CTypeOK, TypeOK
  <1>7. CTypeOK'
    BY <1>6, TypesKeep DEF CInv, CTypeOK
  <1>8. ColumnsFreed'
    BY DEF CInv, ColumnsFreed
  <1>9. StreamOK'
    <2>1. SUFFICES ASSUME openStream' # Nil PROVE StreamOK'
      BY DEF StreamOK
    <2>2. /\ openStream' = openStream /\ openStream \in Results
          /\ results[openStream].streaming /\ results[openStream] # Nil
      BY <2>1 DEF CInv, CTypeOK, TypeOK, StreamOK
    <2>3. QED
      BY <1>3, <1>5, <2>2 DEF StreamOK
  <1>10. CallsElsewhere(s) /\ \A d \in Coroutines : Inside(d, s)' <=> d = c
    <2>1. CallsElsewhere(s)
      BY CallsOfOne DEF Inside
    <2>2. QED
      BY <1>1, <2>1 DEF Elsewhere, Inside
  <1>11. OnlyStatement(s)
    BY <1>10 DEF OnlyStatement
  <1>12. \A q \in Results : (ResultFor(s, q) <=> q = r) /\ (ResultFor(s, q)' <=> q = r)
    BY <1>2, <1>3 DEF ResultFor
  <1>13. \A k \in Chunks : ~ChunkFor(s, k) /\ (ChunkFor(s, k)' <=> call'[c].chunk = k)
    BY <1>1, <1>2, <1>10, NilAssumption DEF ChunkFor
  <1>14. Accounted(s)
    <2>1. ASSUME NEW q \in Results
          PROVE  /\ ~ResultFor(s, q) /\ ~ResultFor(s, q)' => results'[q] = results[q]
                 /\ ResultFor(s, q)' => results'[q] # Nil /\ (ResultFor(s, q) \/ results[q] = Nil)
                 /\ ResultFor(s, q) /\ ~ResultFor(s, q)' => results'[q] = Nil
      BY <1>5, <1>12
    <2>2. ASSUME NEW k \in Chunks
          PROVE  /\ ~ChunkFor(s, k) /\ ~ChunkFor(s, k)' => chunks'[k] = chunks[k]
                 /\ ChunkFor(s, k)' => chunks'[k] # Nil /\ (ChunkFor(s, k) \/ chunks[k] = Nil)
                 /\ ChunkFor(s, k) /\ ~ChunkFor(s, k)' => chunks'[k] = Nil
      BY <1>13
    <2>3. QED
      BY <2>1, <2>2 DEF Accounted
  <1>15. StatementOK(s)'
    <2>1. ~Quiet(s)' /\ s \notin cut'
      BY <1>2, <1>10 DEF Quiet, StatementOK
    <2>2. /\ S'[s].result # Nil /\ pdo'[s].executed
          /\ S'[s].is_streaming = results'[S'[s].result].streaming
          /\ pdo'[s].column_count = results'[S'[s].result].content.cols
      BY <1>2, <1>3, <1>5 DEF StatementOK
    <2>3. S'[s].chunk = Nil /\ ~S'[s].done
      BY <1>2
    <2>4. QED
      BY <2>1, <2>2, <2>3 DEF StatementOK
  <1>16. /\ \A d \in Coroutines : Placed(d)'
         /\ \A d, e \in Coroutines : Inside(d, s)' /\ Inside(e, s)' => d = e
         /\ \A d \in Coroutines : Inside(d, s)' => CallOK(d)'
         /\ openStream' \in {openStream, Nil}
    BY <1>10 DEF Elsewhere, CallOK
  <1>17. QED
    BY <1>7, <1>8, <1>9, <1>11, <1>14, <1>15, <1>16, StepKeeps

LEMMA FetchRunsKeeps ==
    ASSUME CInv, NEW c \in Coroutines, FetchRuns(c)
    PROVE  CInv'
  <1>1. /\ call[c] # Nil /\ call[c].op = "fetch" /\ Dispatch!WorkerEnds(c)
        /\ UNCHANGED <<S, pdo, unbuffered, reply, php, duck, cut>>
    BY DEF FetchRuns, Runs
  <1>2. PICK s \in Stmts : s = call[c].stmt
    BY <1>1, InsideFacts
  <1>3. PICK r : r = call[c].result
    OBVIOUS
  <1> DEFINE content == results[r].content
             index == IF results[r].streaming THEN results[r].served ELSE call[c].index
  <1>4. PICK next : next = index
    OBVIOUS
  <1>5. CallOK(c) /\ Fetching(c) /\ Inside(c, s)
    BY <1>1, <1>2, InsideFacts DEF CallOK, Inside
  <1>6. call[c] \in Call
    BY <1>1 DEF CInv, CTypeOK
  <1>7. /\ r \in Results /\ results[r] \in Result /\ results[r] # Nil
        /\ content \in Contents
        /\ S[s].result = r /\ S[s] # Nil
    <2>1. S[s].result = r /\ S[s] # Nil /\ S[s].result_set
      BY <1>2, <1>3, <1>5 DEF Fetching
    <2>2. r \in Results \cup {Nil} /\ r # Nil
      BY <1>3, <1>6, <2>1 DEF Call, CInv, StatementOK
    <2>3. ResultFor(s, r)
      BY <2>1 DEF ResultFor
    <2>4. results[r] \in Result /\ results[r] # Nil
      BY <2>2, <2>3 DEF CInv, Owned, CTypeOK, TypeOK
    <2>5. QED
      BY <2>1, <2>2, <2>4 DEF Result
  <1>8. next \in Nat /\ ChunkCount(content) \in Nat
    BY <1>4, <1>6, <1>7, ContentFacts DEF Result, Call
  <1>9. /\ \A d \in Coroutines : d # c => call'[d] = call[d]
        /\ call' \in [Coroutines -> Call \cup {Nil}]
        /\ call'[c] # Nil /\ call'[c].at = call[c].at
        /\ call'[c].op = "fetch" /\ call'[c].stmt = s
        /\ call'[c].result = r /\ call'[c].index = call[c].index
        /\ \/ /\ next < ChunkCount(content)
              /\ \E k \in Chunks :
                    /\ chunks[k] = Nil
                    /\ chunks' = [chunks EXCEPT ![k] = [of |-> r, index |-> next]]
                    /\ call'[c].chunk = k
              /\ results' = [results EXCEPT ![r].served =
                    IF results[r].streaming THEN next + 1 ELSE results[r].served]
              /\ state'[c] = "DuckDBSuccess"
              /\ UNCHANGED openStream
           \/ /\ ~(next < ChunkCount(content))
              /\ results' = [results EXCEPT ![r].error = content.err]
              /\ openStream' = IF openStream = r THEN Nil ELSE openStream
              /\ state'[c] = "DuckDBError"
              /\ UNCHANGED <<chunks, call>>
    <2>1. CASE ~(next < ChunkCount(content))
      <3>1. /\ results' = [results EXCEPT ![r].error = content.err]
            /\ openStream' = IF openStream = r THEN Nil ELSE openStream
            /\ state'[c] = "DuckDBError"
            /\ UNCHANGED <<chunks, call>>
        BY <1>3, <1>4, <2>1 DEF FetchRuns
      <3>2. call' \in [Coroutines -> Call \cup {Nil}]
        BY <3>1 DEF CInv, CTypeOK
      <3>3. QED
        BY <1>1, <1>2, <1>3, <2>1, <3>1, <3>2
    <2>2. CASE next < ChunkCount(content)
      <3>1. PICK k \in Chunks :
              /\ chunks[k] = Nil
              /\ chunks' = [chunks EXCEPT ![k] = [of |-> r, index |-> next]]
              /\ call' = [call EXCEPT ![c].chunk = k]
        BY <1>3, <1>4, <2>2 DEF FetchRuns
      <3> DEFINE x == [call[c] EXCEPT !.chunk = k]
      <3>2. /\ x \in Call /\ x.at = call[c].at /\ x.op = "fetch" /\ x.stmt = s
            /\ x.result = r /\ x.index = call[c].index /\ x.chunk = k
        BY <1>1, <1>2, <1>3, <1>6 DEF Call
      <3>3. call' = [call EXCEPT ![c] = x]
        BY <3>1
      <3> HIDE DEF x
      <3>4. /\ \A d \in Coroutines : d # c => call'[d] = call[d]
            /\ call' \in [Coroutines -> Call \cup {Nil}]
            /\ call'[c] = x /\ x # Nil
        BY <3>2, <3>3, CoroutinesAssumption DEF CInv, CTypeOK
      <3>5. /\ next < ChunkCount(content)
            /\ results' = [results EXCEPT ![r].served =
                  IF results[r].streaming THEN next + 1 ELSE results[r].served]
            /\ state'[c] = "DuckDBSuccess"
            /\ UNCHANGED openStream
        BY <1>3, <1>4, <2>2 DEF FetchRuns
      <3>6. QED
        BY <3>1, <3>2, <3>4, <3>5
    <2>3. QED
      BY <2>1, <2>2
  <1>10. /\ Stage(c) = "coming"
         /\ Stage(c)' = IF state'[c] = "DuckDBSuccess" THEN "succeeded" ELSE "failed"
         /\ Placed(c)' /\ Elsewhere(c) /\ P!IInv'
    BY <1>1, <1>9, RunMoves
  <1>11. /\ S[s].result_set /\ ~S[s].done /\ S[s].chunk = Nil
         /\ call[c].chunk = Nil
         /\ next <= ChunkCount(content)
         /\ S[s].total_rows = RowsBefore(content, next)
         /\ ~results[r].streaming => S[s].next_chunk_index = next + 1
    BY <1>2, <1>3, <1>4, <1>5, <1>10 DEF Fetching
  <1>12. S[s].is_streaming = results[r].streaming
    BY <1>7, <1>11 DEF CInv, StatementOK
  <1>13. /\ Inside(c, s)' /\ \A k \in Chunks : call[c].chunk # k
    BY <1>9, <1>11, NilAssumption DEF Inside
  <1>14. call' \in [Coroutines -> Call \cup {Nil}] /\ call'[c].op = "fetch"
    BY <1>9
  <1>15. CASE next < ChunkCount(content)
    <2> DEFINE n == IF results[r].streaming THEN next + 1 ELSE results[r].served
               y == [results[r] EXCEPT !.served = n]
    <2>1. PICK k \in Chunks :
            /\ chunks[k] = Nil
            /\ chunks' = [chunks EXCEPT ![k] = [of |-> r, index |-> next]]
            /\ call'[c].chunk = k
      BY <1>9, <1>15
    <2>2. /\ results' = [results EXCEPT ![r] = y]
          /\ UNCHANGED openStream
          /\ Stage(c)' = "succeeded"
      BY <1>9, <1>10, <1>15
    <2>3. n \in Nat
      BY <1>7, <1>8 DEF Result
    <2> HIDE DEF n
    <2>4. /\ y \in Result /\ y.content = content
          /\ y.streaming = results[r].streaming /\ y.served = n
      BY <1>7, <2>3 DEF Result
    <2> DEFINE new == [of |-> r, index |-> next]
    <2>5. new \in Chunk /\ new.of = r /\ new.index = next
      BY <1>7, <1>8 DEF Chunk
    <2> HIDE DEF y, new
    <2>6. new # Nil
      BY <2>5, NilAssumption
    <2>7. /\ chunks' \in [Chunks -> Chunk \cup {Nil}]
          /\ chunks'[k] = new
          /\ \A j \in Chunks : j # k => chunks'[j] = chunks[j]
      BY <2>1, <2>5 DEF CInv, CTypeOK, TypeOK, new
    <2>8. results'[r] = y
      BY <1>7, <2>2 DEF CInv, CTypeOK, TypeOK
    <2>9. NextChunk(s)' = next + 1
      <3>1. NextChunk(s)' = IF results[r].streaming THEN n ELSE S[s].next_chunk_index
        BY <1>1, <1>7, <1>12, <2>4, <2>8 DEF NextChunk
      <3>2. QED
        BY <1>11, <3>1 DEF n
    <2>10. Fetching(c)'
      <3>1. /\ call'[c].stmt = s /\ call'[c].result = r /\ call'[c].chunk = k
            /\ S' = S /\ k # Nil
        BY <1>1, <1>9, <2>1, NilAssumption
      <3>2. /\ S[s] # Nil /\ S[s].result_set /\ ~S[s].done
            /\ S[s].result = r /\ S[s].chunk = Nil
        BY <1>7, <1>11
      <3>3. /\ chunks'[k].of = r
            /\ chunks'[k].index < ChunkCount(results'[r].content)
            /\ NextChunk(s)' = chunks'[k].index + 1
            /\ S[s].total_rows = RowsBefore(results'[r].content, chunks'[k].index)
        BY <1>11, <1>15, <2>4, <2>5, <2>7, <2>8, <2>9
      <3>4. QED
        BY <2>2, <3>1, <3>2, <3>3 DEF Fetching
    <2>11. \A j \in Chunks :
              IF call'[c].chunk = j THEN chunks[j] = Nil /\ chunks'[j] # Nil
                                    ELSE chunks'[j] = chunks[j]
      BY <2>1, <2>6, <2>7
    <2>12. QED
      <3>1. /\ results' = [results EXCEPT ![S[s].result] = y]
            /\ y.content = results[S[s].result].content
            /\ y.streaming = results[S[s].result].streaming
            /\ openStream' = openStream
        BY <1>7, <2>2, <2>4
      <3>2. QED
        BY <1>1, <1>5, <1>10, <1>13, <1>14, <2>4, <2>7, <2>10, <2>11, <3>1, AnswerKeeps
  <1>16. CASE ~(next < ChunkCount(content))
    <2> DEFINE y == [results[r] EXCEPT !.error = content.err]
    <2>1. /\ results' = [results EXCEPT ![r] = y]
          /\ openStream' = IF openStream = r THEN Nil ELSE openStream
          /\ Stage(c)' = "failed"
          /\ UNCHANGED <<chunks, call>>
      BY <1>9, <1>10, <1>16
    <2>2. /\ y \in Result /\ y.content = content
          /\ y.streaming = results[r].streaming /\ y.error = content.err
      BY <1>7, ContentFacts DEF Result
    <2> HIDE DEF y
    <2>3. results'[r] = y
      BY <1>7, <2>1 DEF CInv, CTypeOK, TypeOK
    <2>4. S[s].total_rows = RowCount(content)
      BY <1>8, <1>11, <1>16 DEF RowCount
    <2>5. openStream' # r
      BY <1>7, <2>1, NilAssumption
    <2>6. Fetching(c)'
      <3>1. /\ call'[c].stmt = s /\ call'[c].result = r /\ call'[c].chunk = Nil
            /\ S' = S
        BY <1>1, <1>9, <1>11, <2>1
      <3>2. /\ S[s] # Nil /\ S[s].result_set /\ ~S[s].done
            /\ S[s].result = r /\ S[s].chunk = Nil
        BY <1>7, <1>11
      <3>3. /\ results'[r].content = content /\ results'[r].error = content.err
        BY <2>2, <2>3
      <3> HIDE DEF content
      <3>4. QED
        BY <2>1, <2>4, <2>5, <3>1, <3>2, <3>3 DEF Fetching
    <2>7. \A j \in Chunks :
              IF call'[c].chunk = j THEN chunks[j] = Nil /\ chunks'[j] # Nil
                                    ELSE chunks'[j] = chunks[j]
      BY <1>13, <2>1
    <2>8. chunks' \in [Chunks -> Chunk \cup {Nil}]
      BY <2>1 DEF CInv, CTypeOK, TypeOK
    <2>9. openStream' = openStream \/ (openStream' = Nil /\ openStream = S[s].result)
      BY <1>7, <2>1
    <2>10. QED
      <3>1. /\ results' = [results EXCEPT ![S[s].result] = y]
            /\ y.content = results[S[s].result].content
            /\ y.streaming = results[S[s].result].streaming
        BY <1>7, <2>1, <2>2
      <3>2. QED
        BY <1>1, <1>5, <1>10, <1>13, <1>14, <2>2, <2>6, <2>7, <2>8, <2>9, <3>1, AnswerKeeps
  <1>17. QED
    BY <1>15, <1>16

(***************************************************************************)
(* The fetch that c is inside returns, and leaves x in the statement, p in *)
(* PDO core's fields and n as the answer.                                  *)
(***************************************************************************)
LEMMA FetchReturnKeeps ==
    ASSUME CInv, NEW c \in Coroutines, NEW s \in Stmts, Inside(c, s), S[s] # Nil,
           call'[c] = Nil, php' \in Coroutines \cup {Nil},
           call' \in [Coroutines -> Call \cup {Nil}],
           Placed(c)', Elsewhere(c), P!IInv',
           UNCHANGED <<results, chunks, openStream, unbuffered, duck>>,
           NEW x \in StmtRecord, S' = [S EXCEPT ![s] = x], x.result = S[s].result,
           NEW p \in PdoRecord, ColumnsOK(p), pdo' = [pdo EXCEPT ![s] = p],
           NEW n \in Reply, reply' = [reply EXCEPT ![s] = n],
           cut' = cut \/ cut' = cut \cup {s},
           \A k \in Chunks : x.chunk = k <=> (S[s].chunk = k \/ call[c].chunk = k),
           StatementOK(s)'
    PROVE  CInv'
  <1>1. /\ S' \in [Stmts -> StmtRecord \cup {Nil}]
        /\ S'[s] = x /\ x # Nil
        /\ pdo' \in [Stmts -> PdoRecord] /\ pdo'[s] = p
        /\ reply' \in [Stmts -> Reply]
        /\ \A t \in Stmts : t # s =>
              S'[t] = S[t] /\ pdo'[t] = pdo[t] /\ reply'[t] = reply[t]
    BY NilAssumption DEF CInv, CTypeOK, TypeOK
  <1>2. TypeOK'
    BY <1>1 DEF CInv, CTypeOK, TypeOK
  <1>3. ColumnsFreed'
    BY <1>1 DEF CInv, ColumnsFreed, ColumnsOK
  <1>4. duck' \in [Stmts -> Coroutines \cup {Nil}] /\ cut' \subseteq Stmts
    BY DEF CInv, CTypeOK
  <1>5. \A t \in Stmts : t # s =>
            /\ S'[t] = S[t] /\ pdo'[t] = pdo[t] /\ reply'[t] = reply[t]
            /\ duck'[t] = duck[t]
            /\ t \in cut' <=> t \in cut
    BY <1>1
  <1>6. /\ S'[s] # Nil /\ S'[s].result = S[s].result
        /\ \A k \in Chunks : S'[s].chunk = k <=> (S[s].chunk = k \/ call[c].chunk = k)
    BY <1>1
  <1>7. QED
    BY <1>2, <1>3, <1>4, <1>5, <1>6, ReturnKeeps

LEMMA FetchReturnsKeeps ==
    ASSUME CInv, NEW c \in Coroutines, FetchReturns(c)
    PROVE  CInv'
  <1>1. /\ Returning(c, "fetch") /\ Return(c)
        /\ UNCHANGED <<results, chunks, openStream, unbuffered, duck>>
    BY DEF FetchReturns
  <1>2. /\ call[c] # Nil /\ call'[c] = Nil /\ call[c].op = "fetch"
        /\ call' \in [Coroutines -> Call \cup {Nil}]
        /\ php' \in Coroutines \cup {Nil}
        /\ Stage(c) \in {"refused", "failed", "succeeded"}
        /\ Stage(c) = "refused" <=> ran[c] = 0
        /\ Placed(c)' /\ Elsewhere(c) /\ P!IInv'
    BY <1>1, ReturnMoves DEF Returning
  <1>3. PICK s \in Stmts : s = call[c].stmt
    BY <1>2, InsideFacts
  <1>4. PICK r : r = S[s].result
    OBVIOUS
  <1>5. PICK k : k = call[c].chunk
    OBVIOUS
  <1> DEFINE content == results[r].content
  <1>6. /\ \A d \in Coroutines : Inside(d, s) <=> d = c
        /\ Fetching(c) /\ call[c].result = r
    BY <1>2, <1>3, <1>4, InsideFacts DEF CallOK, Fetching
  <1>7. /\ S[s] # Nil /\ S[s].result_set /\ ~S[s].done /\ S[s].chunk = Nil
        /\ StatementOK(s)
    BY <1>3, <1>6 DEF Fetching, CInv
  <1>8. /\ S[s] \in StmtRecord /\ r \in Results /\ r # Nil
        /\ results[r] \in Result /\ results[r] # Nil
        /\ content \in Contents
        /\ k \in Chunks \cup {Nil}
    <2>1. S[s] \in StmtRecord /\ r # Nil
      BY <1>4, <1>7 DEF CInv, CTypeOK, TypeOK, StatementOK
    <2>2. r \in Results /\ ResultFor(s, r)
      BY <1>4, <1>7, <2>1 DEF StmtRecord, ResultFor
    <2>3. results[r] \in Result /\ results[r] # Nil
      BY <2>2 DEF CInv, Owned, CTypeOK, TypeOK
    <2>4. k \in Chunks \cup {Nil}
      BY <1>2, <1>5, CallFacts DEF CInv
    <2>5. QED
      BY <2>1, <2>2, <2>3, <2>4 DEF Result
  <1>9. Inside(c, s) /\ \A d \in Coroutines : ~Inside(d, s)'
    BY <1>2, <1>6 DEF Elsewhere, Inside
  <1>10. /\ pdo[s] \in PdoRecord /\ ColumnsOK(pdo[s])
         /\ pdo' = pdo => pdo' = [pdo EXCEPT ![s] = pdo[s]]
    BY PdoFacts DEF CInv, CTypeOK, TypeOK
  <1>11. CASE k # Nil
    <2> DEFINE of == chunks[k].of
               index == chunks[k].index
               size == ChunkSize(results[of].content, index)
               x == [S[s] EXCEPT !.chunk = k, !.chunk_idx = 0, !.chunk_size = size]
    <2>1. k \in Chunks /\ Stage(c) = "succeeded" /\ chunks[k] \in Chunk
      <3>1. k \in Chunks /\ ChunkFor(s, k)
        BY <1>5, <1>8, <1>9, <1>11 DEF ChunkFor
      <3>2. QED
        BY <1>5, <1>6, <1>11, <3>1 DEF CInv, Owned, CTypeOK, TypeOK, Fetching
    <2>2. /\ of = r /\ index \in Nat /\ index < ChunkCount(content)
          /\ NextChunk(s) = index + 1
          /\ S[s].total_rows = RowsBefore(content, index)
      BY <1>3, <1>5, <1>6, <2>1 DEF Fetching, Chunk
    <2>3. /\ size = ChunkSize(content, index) /\ size \in Nat /\ 0 < size
          /\ RowsBefore(content, index) \in Nat
      BY <1>8, <2>2, ContentFacts, RowBounds
    <2>4. /\ S' = [S EXCEPT ![s] = x]
          /\ pdo' = [pdo EXCEPT ![s] = Describe(pdo[s])]
          /\ reply' = [reply EXCEPT ![s] = Row(RowAt(chunks[k], 0))]
          /\ UNCHANGED cut
      <3>1. call[c].stmt = s /\ call[c].chunk = k /\ k # Nil
        BY <1>3, <1>5, <1>11
      <3>2. S' = [S EXCEPT ![s].chunk = k, ![s].chunk_idx = 0, ![s].chunk_size = size]
        BY <3>1 DEF FetchReturns
      <3>3. /\ pdo' = [pdo EXCEPT ![s] = Describe(pdo[s])]
            /\ reply' = [reply EXCEPT ![s] = Row(RowAt(chunks[k], 0))]
            /\ UNCHANGED cut
        BY <3>1 DEF FetchReturns
      <3>4. QED
        BY <3>2, <3>3
    <2>5. Row(RowAt(chunks[k], 0)) \in Reply
      BY <2>2, <2>3 DEF Row, RowAt, Reply
    <2> HIDE DEF size
    <2>6. /\ x \in StmtRecord /\ x.result = r /\ x.chunk = k
          /\ x.chunk_idx = 0 /\ x.chunk_size = size
          /\ x.total_rows = S[s].total_rows
          /\ x.is_streaming = S[s].is_streaming
          /\ x.next_chunk_index = S[s].next_chunk_index
      BY <1>4, <1>8, <2>1, <2>3 DEF StmtRecord
    <2>7. x.result_set
      BY <1>7, <1>8 DEF StmtRecord
    <2>8. ~x.done
      BY <1>7, <1>8 DEF StmtRecord
    <2> HIDE DEF x, index, of
    <2>9. /\ Describe(pdo[s]) \in PdoRecord /\ ColumnsOK(Describe(pdo[s]))
          /\ Describe(pdo[s]).column_count = pdo[s].column_count
          /\ Describe(pdo[s]).executed = pdo[s].executed
      BY <1>10, ColumnFacts
    <2>10. /\ S'[s] = x /\ pdo'[s] = Describe(pdo[s])
           /\ results' = results /\ chunks' = chunks
      BY <1>1, <2>4 DEF CInv, CTypeOK, TypeOK
    <2>11. NextChunk(s)' = NextChunk(s)
      BY <1>4, <2>6, <2>10 DEF NextChunk
    <2>12. ChunkAtHand(s)'
      <3>1. /\ chunks[k].of = r /\ chunks[k].index = index
        BY <2>2 DEF of, index
      <3>2. QED
        BY <2>2, <2>3, <2>6, <2>7, <2>10, <2>11, <3>1 DEF ChunkAtHand
    <2>13. StatementOK(s)'
      <3>1. /\ S'[s].result # Nil
            /\ S'[s].is_streaming = results'[S'[s].result].streaming
            /\ pdo'[s].column_count = results'[S'[s].result].content.cols
        BY <1>4, <1>7, <1>8, <2>6, <2>9, <2>10 DEF StatementOK
      <3>2. S'[s].chunk # Nil /\ ~S'[s].done /\ S'[s].result_set
        BY <1>11, <2>6, <2>7, <2>8, <2>10
      <3>3. pdo'[s].executed
        BY <1>7, <2>9, <2>10 DEF StatementOK
      <3>4. s \notin cut'
        BY <1>7, <2>4 DEF StatementOK
      <3>5. QED
        BY <2>12, <3>1, <3>2, <3>3, <3>4 DEF StatementOK
    <2>14. \A j \in Chunks : x.chunk = j <=> (S[s].chunk = j \/ call[c].chunk = j)
      BY <1>5, <1>7, <2>6, NilAssumption
    <2>15. QED
      <3>1. x.result = S[s].result /\ cut' = cut
        BY <1>4, <2>4, <2>6
      <3>2. QED
        BY <1>1, <1>2, <1>7, <1>9, <2>4, <2>5, <2>6, <2>9, <2>13, <2>14, <3>1,
           FetchReturnKeeps
  <1>12. CASE k = Nil
    <2> DEFINE x == [S[s] EXCEPT !.chunk = Nil, !.chunk_idx = 0, !.chunk_size = 0,
                                 !.done = TRUE]
               n == IF r # Nil /\ results[r].error THEN Error ELSE End
    <2>1. /\ S' = [S EXCEPT ![s] = x]
          /\ reply' = [reply EXCEPT ![s] = n]
          /\ cut' = IF ran[c] = 0 THEN cut \cup {s} ELSE cut
          /\ UNCHANGED pdo
      BY <1>3, <1>4, <1>5, <1>12 DEF FetchReturns
    <2>2. n \in Reply
      BY DEF Error, End, Reply
    <2>3. /\ x \in StmtRecord /\ x.result = r /\ x.chunk = Nil
          /\ x.total_rows = S[s].total_rows
          /\ x.is_streaming = S[s].is_streaming
      BY <1>4, <1>8 DEF StmtRecord
    <2>4. x.done
      BY <1>8 DEF StmtRecord
    <2>5. x.result_set
      BY <1>7, <1>8 DEF StmtRecord
    <2> HIDE DEF x, n
    <2>6. S'[s] = x /\ x # Nil
      BY <1>8, <2>1, <2>3, NilAssumption DEF CInv, CTypeOK, TypeOK
    <2>7. s \notin cut' => AllFetched(s)'
      <3>1. SUFFICES ASSUME s \notin cut' PROVE AllFetched(s)'
        OBVIOUS
      <3>2. Stage(c) = "failed"
        BY <1>2, <1>5, <1>6, <1>12, <2>1, <3>1 DEF Fetching
      <3>3. S[s].total_rows = RowCount(content) /\ openStream # r
        BY <1>3, <1>4, <1>6, <3>2 DEF Fetching
      <3>4. RowCount(content) \in Nat
        BY <1>8, ContentFacts
      <3>5. QED
        BY <1>1, <2>3, <2>6, <3>3, <3>4 DEF AllFetched, AbstractPosition
    <2>8. StatementOK(s)'
      <3>1. /\ S'[s].result # Nil
            /\ S'[s].is_streaming = results'[S'[s].result].streaming
            /\ pdo'[s].column_count = results'[S'[s].result].content.cols
        BY <1>1, <1>4, <1>7, <1>8, <2>1, <2>3, <2>6 DEF StatementOK
      <3>2. pdo'[s].executed
        BY <1>7, <2>1 DEF StatementOK
      <3>3. S'[s] # Nil /\ S'[s].chunk = Nil /\ S'[s].done /\ S'[s].result_set
        BY <2>3, <2>4, <2>5, <2>6
      <3>4. QED
        BY <2>7, <3>1, <3>2, <3>3 DEF StatementOK
    <2>9. \A j \in Chunks : x.chunk = j <=> (S[s].chunk = j \/ call[c].chunk = j)
      BY <1>5, <1>7, <1>12, <2>3, NilAssumption
    <2>10. cut' = cut \/ cut' = cut \cup {s}
      BY <2>1
    <2>11. QED
      <3>1. x.result = S[s].result
        BY <1>4, <2>3
      <3>2. /\ pdo[s] \in PdoRecord /\ ColumnsOK(pdo[s])
            /\ pdo' = [pdo EXCEPT ![s] = pdo[s]]
        BY <1>10, <2>1
      <3>3. S' = [S EXCEPT ![s] = x] /\ reply' = [reply EXCEPT ![s] = n]
        BY <2>1
      <3>4. QED
        BY <1>1, <1>2, <1>7, <1>9, <2>2, <2>3, <2>8, <2>9, <2>10, <3>1, <3>2, <3>3,
           FetchReturnKeeps
  <1>13. QED
    BY <1>11, <1>12

LEMMA FetchAtOnceKeeps ==
    ASSUME CInv, NEW c \in Coroutines, NEW s \in Stmts, Quiet(s), FetchAtOnce(c, s)
    PROVE  CInv'
  <1>1. CASE FetchNothing(s)
    BY <1>1, FetchNothingKeepsCalls DEF FetchAtOnce
  <1>2. CASE FetchInChunk(s)
    BY <1>2, FetchInChunkKeepsCalls DEF FetchAtOnce
  <1>3. CASE FetchLast(s) /\ ~S[s].is_streaming
    BY <1>3, FetchLastAtOnceKeeps DEF FetchAtOnce
  <1>4. QED
    BY <1>1, <1>2, <1>3 DEF FetchAtOnce

-----------------------------------------------------------------------------
(* Together *)

LEMMA InitCInv == CInit => CInv
  <1> SUFFICES ASSUME CInit PROVE CInv
    OBVIOUS
  <1> USE DEF CInit
  <1>1. TypeOK /\ ColumnsFreed
    BY InitIInv DEF IInv
  <1>2. P!IInv
    BY DispatchInit
  <1>3. CTypeOK
    BY <1>1, <1>2, DispatchRunning DEF CTypeOK, Running
  <1>4. \A c \in Coroutines : call[c] = Nil /\ pc[c] = "out" /\ task[c] = "none"
    BY DEF Dispatch!Init
  <1>5. \A c \in Coroutines : Placed(c) /\ CallOK(c)
    BY <1>4, CoroutinesAssumption DEF Placed, CallOK
  <1>6. \A c \in Coroutines, s \in Stmts : ~Inside(c, s)
    BY <1>4 DEF Inside
  <1>7. Owned
    BY <1>6 DEF Init, Owned, ResultFor, ChunkFor
  <1>8. StreamOK /\ \A s \in Stmts : StatementOK(s)
    BY DEF Init, StreamOK, StatementOK
  <1>9. QED
    BY <1>1, <1>2, <1>3, <1>5, <1>6, <1>7, <1>8 DEF CInv, Alone

(* Programs that do not enter a statement beside another coroutine enter   *)
(* quiet statements only.                                                  *)
LEMMA MayUseQuiet ==
    ASSUME ~Overlap, NEW c \in Coroutines, NEW s \in Stmts, MayUse(c, s)
    PROVE  Quiet(s)
  BY DEF MayUse, Quiet

LEMMA NextKeepsCalls ==
    ASSUME ~Overlap, CInv, [CNext]_allVars
    PROVE  CInv'
  <1>1. CASE UNCHANGED allVars
    <2>1. /\ UNCHANGED <<S, pdo, results, chunks, openStream>>
          /\ UNCHANGED <<unbuffered, reply>>
          /\ UNCHANGED <<dispatchVars, php, call, cut>>
          /\ UNCHANGED duck
      BY <1>1 DEF allVars, stmtVars
    <2>2. QED
      BY <2>1, ReplyKeepsCalls DEF CInv, CTypeOK, TypeOK
  <1>2. ASSUME NEW c \in Coroutines, NEW s \in Stmts, ExecuteEnters(c, s)
        PROVE  CInv'
    <2>1. MayUse(c, s)
      BY <1>2 DEF ExecuteEnters, Enter, NewCall
    <2>2. QED
      BY <1>2, <2>1, MayUseQuiet, ExecuteEntersKeeps
  <1>3. ASSUME NEW c \in Coroutines, NEW s \in Stmts, FetchEnters(c, s)
        PROVE  CInv'
    <2>1. MayUse(c, s)
      BY <1>3 DEF FetchEnters, Enter, NewCall
    <2>2. QED
      BY <1>3, <2>1, MayUseQuiet, FetchEntersKeeps
  <1>4. ASSUME NEW c \in Coroutines, NEW s \in Stmts,
               ExecuteIsRefused(c, s) \/ FetchAtOnce(c, s) \/ Closes(c, s) \/ Drops(c, s)
        PROVE  CInv'
    <2>1. Quiet(s)
      BY <1>4, MayUseQuiet DEF ExecuteIsRefused, FetchAtOnce, Closes, Drops, AtOnce
    <2>2. QED
      BY <1>4, <2>1, ExecuteIsRefusedKeeps, FetchAtOnceKeeps, ClosesKeep, DropsKeep
  <1>5. ASSUME NEW c \in Coroutines, NEW s \in Stmts, PrepareEnters(c, s)
        PROVE  CInv'
    BY <1>5, PrepareEntersKeeps
  <1>6. ASSUME NEW c \in Coroutines,
               \/ Sleeps(c) \/ Queues(c) \/ IsRefused(c) \/ Resumes(c)
               \/ SetsUnbuffered(c)
        PROVE  CInv'
    BY <1>6, WaitsKeep, RefusalKeeps, ResumptionKeeps, SetsUnbufferedKeeps
  <1>7. ASSUME NEW c \in Coroutines, PrepareRuns(c) \/ ExecuteRuns(c) \/ FetchRuns(c)
        PROVE  CInv'
    BY <1>7, PrepareRunsKeeps, ExecuteRunsKeeps, FetchRunsKeeps
  <1>8. ASSUME NEW c \in Coroutines,
               PrepareReturns(c) \/ ExecuteReturns(c) \/ FetchReturns(c)
        PROVE  CInv'
    BY <1>8, PrepareReturnsKeeps, ExecuteReturnsKeeps, FetchReturnsKeeps
  <1>9. CASE WorkerTakes
    BY <1>9, TakingKeeps
  <1>10. QED
    BY <1>1, <1>2, <1>3, <1>4, <1>5, <1>6, <1>7, <1>8, <1>9 DEF CNext

-----------------------------------------------------------------------------
(* The invariants of the runs *)

(***************************************************************************)
(* In every state of every program that does not enter a statement beside  *)
(* another coroutine, the calls, the statements and DuckDB's objects fit   *)
(* together as CInv says.                                                  *)
(***************************************************************************)
THEOREM CallsInvariance ==
    ASSUME ~Overlap
    PROVE  CSpec => []CInv
  <1>1. CInit => CInv
    BY InitCInv
  <1>2. CInv /\ [CNext]_allVars => CInv'
    BY NextKeepsCalls
  <1>3. QED
    BY <1>1, <1>2, PTL DEF CSpec

(* Every variable keeps its type, the locals of a waiting handler included. *)
THEOREM CallsTypeCorrect ==
    ASSUME ~Overlap
    PROVE  CSpec => []CTypeOK
  <1>1. CInv => CTypeOK
    BY DEF CInv
  <1>2. QED
    BY <1>1, CallsInvariance, PTL

(* The bindings of the executions in progress, beside any step of others. *)
LEMMA BindingsStay ==
    ASSUME NoLeftoverBindings, CTypeOK, UNCHANGED duck,
           \A d \in Coroutines :
              call[d] # Nil /\ call[d].op = "execute" =>
                 call'[d] # Nil /\ call'[d].op = "execute" /\ call'[d].stmt = call[d].stmt
    PROVE  NoLeftoverBindings'
  BY DEF NoLeftoverBindings, CTypeOK, Inside

(* An execution that returns, or is refused, leaves no binding of its own. *)
LEMMA BindingsCleared ==
    ASSUME NoLeftoverBindings, CTypeOK, NEW s \in Stmts, Unbinds(s),
           \A d \in Coroutines :
              call[d] # Nil /\ call[d].op = "execute" /\ call[d].stmt # s =>
                 call'[d] # Nil /\ call'[d].op = "execute" /\ call'[d].stmt = call[d].stmt
    PROVE  NoLeftoverBindings'
  <1> SUFFICES ASSUME NEW t \in Stmts, duck'[t] # Nil
               PROVE  /\ call'[duck'[t]] # Nil /\ call'[duck'[t]].stmt = t
                      /\ call'[duck'[t]].op = "execute"
    BY DEF NoLeftoverBindings, Inside
  <1>1. t # s /\ duck'[t] = duck[t] /\ duck[t] \in Coroutines
    BY DEF Unbinds, CTypeOK
  <1>2. Inside(duck[t], t) /\ call[duck[t]].op = "execute"
    BY <1>1 DEF NoLeftoverBindings
  <1>3. QED
    BY <1>1, <1>2 DEF Inside

LEMMA NextKeepsBindings ==
    ASSUME CInv, CInv', NoLeftoverBindings, [CNext]_allVars
    PROVE  NoLeftoverBindings'
  <1>1. /\ CTypeOK
        /\ call \in [Coroutines -> Call \cup {Nil}]
        /\ call' \in [Coroutines -> Call \cup {Nil}]
        /\ duck \in [Stmts -> Coroutines \cup {Nil}]
        /\ Nil \notin Call /\ Nil \notin Coroutines
    BY CoroutinesAssumption DEF CInv, CTypeOK
  <1>2. CASE UNCHANGED <<call, duck>>
    BY <1>1, <1>2, BindingsStay
  <1>3. ASSUME NEW c \in Coroutines, NEW s \in Stmts, ExecuteEnters(c, s)
        PROVE  NoLeftoverBindings'
    <2> DEFINE x == NewCall("execute", s)
    <2>1. /\ call[c] = Nil
          /\ call' = [call EXCEPT ![c] = x] /\ duck' = [duck EXCEPT ![s] = c]
          /\ x \in Call /\ x.op = "execute" /\ x.stmt = s
      BY <1>3, NewCallFacts DEF ExecuteEnters, Enter, MayUse, Free, CInv
    <2> HIDE DEF x
    <2>2. QED
      BY <1>1, <2>1 DEF NoLeftoverBindings, Inside
  <1>4. ASSUME NEW c \in Coroutines, NEW s \in Stmts, PrepareEnters(c, s) \/ FetchEnters(c, s)
        PROVE  NoLeftoverBindings'
    <2>1. PICK x : call' = [call EXCEPT ![c] = x]
      BY <1>4 DEF PrepareEnters, FetchEnters, Enter
    <2>2. call[c] = Nil /\ UNCHANGED duck
      BY <1>4 DEF PrepareEnters, FetchEnters, Enter, MayUse, Free
    <2>3. QED
      BY <1>1, <2>1, <2>2, BindingsStay
  <1>5. ASSUME NEW c \in Coroutines, NEW s \in Stmts, ExecuteIsRefused(c, s) \/ Drops(c, s)
        PROVE  NoLeftoverBindings'
    <2>1. Unbinds(s) /\ UNCHANGED call
      BY <1>5 DEF ExecuteIsRefused, Drops, AtOnce, Unbinds
    <2>2. QED
      BY <1>1, <2>1, BindingsCleared
  <1>6. ASSUME NEW c \in Coroutines, Sleeps(c) \/ Queues(c) \/ IsRefused(c) \/ Resumes(c)
        PROVE  NoLeftoverBindings'
    <2>1. PICK place \in {"waiting", "returning"} : call' = [call EXCEPT ![c].at = place]
      BY <1>6 DEF Sleeps, Queues, IsRefused, Resumes, Proceed
    <2>2. UNCHANGED duck
      BY <1>6 DEF Sleeps, Queues, IsRefused, Resumes, Proceed
    <2>3. ASSUME call[c] # Nil
          PROVE  call'[c].op = call[c].op /\ call'[c].stmt = call[c].stmt /\ call'[c] # Nil
      <3>1. call[c] \in Call
        BY <1>1, <2>3
      <3>2. PICK x : x = [call[c] EXCEPT !.at = place]
        OBVIOUS
      <3>3. x.op = call[c].op /\ x.stmt = call[c].stmt /\ x \in Call
        BY <3>1, <3>2 DEF Call
      <3>4. call'[c] = x
        BY <1>1, <2>1, <3>2
      <3>5. QED
        BY <1>1, <3>3, <3>4
    <2>4. QED
      BY <1>1, <2>1, <2>2, <2>3, BindingsStay
  <1>7. ASSUME NEW c \in Coroutines, FetchRuns(c) PROVE NoLeftoverBindings'
    <2>1. /\ UNCHANGED duck
          /\ UNCHANGED call \/ \E k \in Chunks : call' = [call EXCEPT ![c].chunk = k]
          /\ call[c] # Nil /\ call[c].op = "fetch"
      BY <1>7 DEF FetchRuns, Runs
    <2>2. QED
      BY <1>1, <2>1, BindingsStay
  <1>8. ASSUME NEW c \in Coroutines, PrepareReturns(c) \/ FetchReturns(c)
        PROVE  NoLeftoverBindings'
    <2>1. /\ call[c].op \in {"prepare", "fetch"}
          /\ call' = [call EXCEPT ![c] = Nil] /\ UNCHANGED duck
      BY <1>8 DEF PrepareReturns, FetchReturns, Returning, Return
    <2>2. QED
      BY <1>1, <2>1, BindingsStay
  <1>9. ASSUME NEW c \in Coroutines, ExecuteReturns(c) PROVE NoLeftoverBindings'
    <2>1. PICK s : s = call[c].stmt
      OBVIOUS
    <2>2. Unbinds(s) /\ call' = [call EXCEPT ![c] = Nil]
      BY <1>9, <2>1 DEF ExecuteReturns, Return
    <2>3. s \in Stmts
      BY <1>9, <2>1, ReturnMoves, InsideFacts DEF ExecuteReturns
    <2>4. QED
      BY <1>1, <2>1, <2>2, <2>3, BindingsCleared
  <1>10. ASSUME NEW c \in Coroutines, NEW s \in Stmts, FetchAtOnce(c, s) \/ Closes(c, s)
         PROVE  UNCHANGED <<call, duck>>
    BY <1>10 DEF FetchAtOnce, Closes, AtOnce
  <1>11. ASSUME NEW c \in Coroutines, PrepareRuns(c) \/ ExecuteRuns(c) \/ SetsUnbuffered(c)
         PROVE  UNCHANGED <<call, duck>>
    BY <1>11 DEF PrepareRuns, ExecuteRuns, Runs, SetsUnbuffered
  <1>12. WorkerTakes \/ UNCHANGED allVars => UNCHANGED <<call, duck>>
    BY DEF WorkerTakes, allVars
  <1>13. QED
    BY <1>2, <1>3, <1>4, <1>5, <1>6, <1>7, <1>8, <1>9, <1>10, <1>11, <1>12 DEF CNext

(***************************************************************************)
(* However long executions wait, and whether the pool or DuckDB refuses    *)
(* them, no binding of one is left in a statement once it has returned: a  *)
(* statement may be handed to another coroutine, or to the next execution. *)
(***************************************************************************)
THEOREM NoLeftoverBindingsHolds ==
    ASSUME ~Overlap
    PROVE  CSpec => []NoLeftoverBindings
  <1>1. CInit => CInv /\ NoLeftoverBindings
    BY InitCInv DEF CInit, NoLeftoverBindings
  <1>2. CInv /\ NoLeftoverBindings /\ [CNext]_allVars => CInv' /\ NoLeftoverBindings'
    BY NextKeepsCalls, NextKeepsBindings
  <1>3. QED
    BY <1>1, <1>2, PTL DEF CSpec

(* Of an allocated result there is one owner, of a free address none. *)
LEMMA ResultHasOneOwner ==
    ASSUME CInv, NEW r \in Results
    PROVE  LET owners == {o \in Stmts \cup Coroutines : ResultOwner(o, r)}
           IN  IF results[r] = Nil THEN owners = {} ELSE \E o : owners = {o}
  <1> DEFINE owners == {o \in Stmts \cup Coroutines : ResultOwner(o, r)}
  <1>1. ASSUME NEW c \in Coroutines, call[c] # Nil, call[c].op = "execute",
               S[call[c].stmt].result = r
        PROVE  /\ call[c].stmt \in Stmts /\ ResultFor(call[c].stmt, r)
               /\ ~S[call[c].stmt].result_set
    BY <1>1, InsideFacts DEF CallOK, Executing, ResultFor
  <1>2. CASE results[r] = Nil
    <2>1. \A s \in Stmts : ~ResultFor(s, r)
      BY <1>2 DEF CInv, Owned
    <2>2. owners = {}
      BY <1>1, <2>1 DEF ResultOwner, ResultFor
    <2>3. QED
      BY <1>2, <2>2
  <1>3. CASE results[r] # Nil
    <2>1. PICK s \in Stmts : ResultFor(s, r)
      BY <1>3 DEF CInv, Owned
    <2>2. \A t \in Stmts : ResultFor(t, r) => t = s
      BY <2>1 DEF CInv, Owned
    <2>3. S[s] # Nil /\ S[s].result = r /\ StatementOK(s)
      BY <2>1 DEF ResultFor, CInv
    <2>4. CASE S[s].result_set
      <3>1. s \in owners
        BY <2>3, <2>4 DEF ResultOwner
      <3>2. \A o \in owners : o = s
        BY <1>1, <2>2, <2>4 DEF ResultOwner, ResultFor
      <3>3. owners = {s}
        BY <3>1, <3>2
      <3>4. QED
        BY <1>3, <3>3
    <2>5. CASE ~S[s].result_set
      <3>1. r # Nil
        BY NilAssumption
      <3>2. PICK c \in Coroutines : Inside(c, s)
        BY <2>3, <2>5, <3>1 DEF StatementOK, Quiet
      <3>3. /\ call[c] # Nil /\ call[c].stmt = s /\ CallOK(c)
            /\ call[c].op \in {"prepare", "execute", "fetch"}
        BY <3>2, CallFacts DEF Inside, CInv
      <3>4. call[c].op = "execute" /\ Stage(c) = "succeeded"
        <4>1. call[c].op = "execute"
          BY <2>3, <2>5, <3>3 DEF CallOK, Preparing, Fetching
        <4>2. QED
          BY <2>3, <3>1, <3>3, <4>1 DEF CallOK, Executing
      <3>5. ~NotYetRun(c) /\ ran[c] = 1
        <4>1. ran[c] \in {0, 1}
          BY DispatchRunning DEF Running, CInv
        <4>2. QED
          BY <3>4, <4>1 DEF Stage
      <3>6. c \in owners
        BY <2>3, <3>3, <3>4, <3>5 DEF ResultOwner
      <3>7. ASSUME NEW o \in owners PROVE o = c
        <4>1. ~(o \in Stmts /\ S[o] # Nil /\ S[o].result_set /\ S[o].result = r)
          BY <2>2, <2>5 DEF ResultFor
        <4>2. /\ o \in Coroutines /\ call[o] # Nil /\ call[o].op = "execute"
              /\ S[call[o].stmt].result = r
          BY <4>1 DEF ResultOwner
        <4>3. call[o].stmt = s
          BY <1>1, <2>2, <4>2
        <4>4. Inside(o, s)
          BY <4>2, <4>3 DEF Inside
        <4>5. QED
          BY <3>2, <4>2, <4>4 DEF CInv, Alone
      <3>8. owners = {c}
        BY <3>6, <3>7
      <3>9. QED
        BY <1>3, <3>8
    <2>6. QED
      BY <2>4, <2>5
  <1>4. QED
    BY <1>2, <1>3

LEMMA ChunkHasOneOwner ==
    ASSUME CInv, NEW k \in Chunks
    PROVE  LET owners == {o \in Stmts \cup Coroutines : ChunkOwner(o, k)}
           IN  IF chunks[k] = Nil THEN owners = {} ELSE \E o : owners = {o}
  <1> DEFINE owners == {o \in Stmts \cup Coroutines : ChunkOwner(o, k)}
  <1>1. k # Nil
    BY NilAssumption
  <1>2. ASSUME NEW c \in Coroutines, call[c] # Nil, call[c].chunk = k
        PROVE  /\ call[c].stmt \in Stmts
               /\ Inside(c, call[c].stmt)
               /\ ChunkFor(call[c].stmt, k)
               /\ S[call[c].stmt].chunk = Nil
    <2>1. /\ call[c].stmt \in Stmts /\ CallOK(c)
          /\ call[c].op \in {"prepare", "execute", "fetch"}
      BY <1>2, InsideFacts, CallFacts DEF CInv
    <2>2. S[call[c].stmt].chunk = Nil
      BY <1>1, <1>2, <2>1 DEF CallOK, Preparing, Executing, Fetching
    <2>3. Inside(c, call[c].stmt)
      BY <1>2 DEF Inside
    <2>4. QED
      BY <1>2, <2>1, <2>2, <2>3 DEF ChunkFor
  <1>3. CASE chunks[k] = Nil
    <2>1. \A s \in Stmts : ~ChunkFor(s, k)
      BY <1>3 DEF CInv, Owned
    <2>2. owners = {}
      BY <1>2, <2>1 DEF ChunkOwner, ChunkFor
    <2>3. QED
      BY <1>3, <2>2
  <1>4. CASE chunks[k] # Nil
    <2>1. PICK s \in Stmts : ChunkFor(s, k)
      BY <1>4 DEF CInv, Owned
    <2>2. \A t \in Stmts : ChunkFor(t, k) => t = s
      BY <2>1 DEF CInv, Owned
    <2>3. CASE S[s] # Nil /\ S[s].chunk = k
      <3>1. s \in owners
        BY <2>3 DEF ChunkOwner
      <3>2. \A o \in owners : o = s
        BY <1>1, <1>2, <2>2, <2>3 DEF ChunkOwner, ChunkFor
      <3>3. owners = {s}
        BY <3>1, <3>2
      <3>4. QED
        BY <1>4, <3>3
    <2>4. CASE ~(S[s] # Nil /\ S[s].chunk = k)
      <3>1. PICK c \in Coroutines : Inside(c, s) /\ call[c].chunk = k
        BY <2>1, <2>4 DEF ChunkFor
      <3>2. c \in owners
        BY <3>1 DEF ChunkOwner, Inside
      <3>3. ASSUME NEW o \in owners PROVE o = c
        <4>1. ~(o \in Stmts /\ S[o] # Nil /\ S[o].chunk = k)
          BY <2>2, <2>4 DEF ChunkFor
        <4>2. o \in Coroutines /\ call[o] # Nil /\ call[o].chunk = k
          BY <4>1 DEF ChunkOwner
        <4>3. call[o].stmt = s /\ Inside(o, call[o].stmt)
          BY <1>2, <2>2, <4>2
        <4>4. QED
          BY <3>1, <4>2, <4>3 DEF CInv, Alone
      <3>4. owners = {c}
        BY <3>2, <3>3
      <3>5. QED
        BY <1>4, <3>4
    <2>5. QED
      BY <2>3, <2>4
  <1>5. QED
    BY <1>3, <1>4

LEMMA Owners == CInv => OneOwner
  <1> SUFFICES ASSUME CInv PROVE OneOwner
    OBVIOUS
  <1>1. Cardinality({}) = 0 /\ \A o : Cardinality({o}) = 1
    BY FS_EmptySet, FS_Singleton
  <1>2. ASSUME NEW r \in Results
        PROVE  Cardinality({o \in Stmts \cup Coroutines : ResultOwner(o, r)})
                  = IF results[r] = Nil THEN 0 ELSE 1
    BY <1>1, ResultHasOneOwner
  <1>3. ASSUME NEW k \in Chunks
        PROVE  Cardinality({o \in Stmts \cup Coroutines : ChunkOwner(o, k)})
                  = IF chunks[k] = Nil THEN 0 ELSE 1
    BY <1>1, ChunkHasOneOwner
  <1>4. QED
    BY <1>2, <1>3 DEF OneOwner

(***************************************************************************)
(* A result or a chunk that a handler was handed while it waited is never  *)
(* lost and never held twice: until it is in the statement, the handler    *)
(* that is about to return owns it.                                        *)
(***************************************************************************)
THEOREM OneOwnerHolds ==
    ASSUME ~Overlap
    PROVE  CSpec => []OneOwner
  BY CallsInvariance, Owners, PTL

LEMMA Coherent == CInv => CoherentBetweenCalls
  BY DEF CInv, CoherentBetweenCalls, StatementOK, Quiet, ResultAtHand

(***************************************************************************)
(* Between calls, column count, chunk, offset and counters of a statement  *)
(* are those of its result, whatever other coroutines did to the           *)
(* connection while one of its calls waited.                               *)
(***************************************************************************)
THEOREM CoherentBetweenCallsHolds ==
    ASSUME ~Overlap
    PROVE  CSpec => []CoherentBetweenCalls
  BY CallsInvariance, Coherent, PTL

LEMMA DoneFetched == CInv => DoneUnlessRefused
  BY DEF CInv, DoneUnlessRefused, StatementOK

(***************************************************************************)
(* A statement that has answered the end has handed out every row, and its *)
(* stream does not keep the connection busy, unless the pool refused the   *)
(* fetch that answered.                                                    *)
(***************************************************************************)
THEOREM DoneUnlessRefusedHolds ==
    ASSUME ~Overlap
    PROVE  CSpec => []DoneUnlessRefused
  BY CallsInvariance, DoneFetched, PTL

-----------------------------------------------------------------------------
(* The abstract cursor before and after a step *)

(* What a step may do to the abstract cursor, a refused fetch excepted. *)
CursorStep == CursorNext \/ \E c \in Coroutines : FetchRefused(c)

(* A handler that waits hides the chunk at hand, but not the position: the *)
(* record has been brought up to date when it yields.                      *)
LEMMA CursorKept ==
    ASSUME CInv, NEW t \in Stmts, S'[t] = S[t],
           \A r \in Results :
               ResultFor(t, r) => results'[r].content = results[r].content
    PROVE  AbstractCursor(t)' = AbstractCursor(t)
  <1>1. CASE S[t] = Nil \/ ~S[t].result_set
    BY <1>1 DEF AbstractCursor
  <1>2. CASE S[t] # Nil /\ S[t].result_set
    <2>1. S[t] \in StmtRecord /\ S[t].result # Nil
      BY <1>2 DEF CInv, CTypeOK, TypeOK, StatementOK
    <2>2. S[t].result \in Results /\ ResultFor(t, S[t].result)
      BY <1>2, <2>1 DEF StmtRecord, ResultFor
    <2>3. results'[S[t].result].content = results[S[t].result].content
      BY <2>2
    <2>4. QED
      BY <1>2, <2>3 DEF AbstractCursor, AbstractExecution, AbstractPosition
  <1>3. QED
    BY <1>1, <1>2

LEMMA OtherCursorsKept ==
    ASSUME CInv, NEW s \in Stmts,
           \A t \in Stmts : t # s => S'[t] = S[t],
           \A r \in Results : results[r] # Nil /\ ~ResultFor(s, r) =>
               results'[r].content = results[r].content
    PROVE  \A t \in Stmts : t # s => AbstractCursor(t)' = AbstractCursor(t)
  <1>1. \A t \in Stmts, r \in Results :
            t # s /\ ResultFor(t, r) => results[r] # Nil /\ ~ResultFor(s, r)
    BY DEF CInv, Owned
  <1>2. QED
    BY <1>1, CursorKept

(* A step that changes neither a record nor a content. *)
LEMMA NothingMaps ==
    ASSUME CInv, UNCHANGED <<S, reply>>,
           \A r \in Results : results[r] # Nil =>
               results'[r].content = results[r].content
    PROVE  CursorNext
  <1>1. \A t \in Stmts, r \in Results : ResultFor(t, r) => results[r] # Nil
    BY DEF CInv, Owned
  <1>2. \A t \in Stmts : AbstractCursor(t)' = AbstractCursor(t)
    BY <1>1, CursorKept
  <1>3. QED
    BY <1>2 DEF CursorNext, Abs

(* A step of s that its abstract cursor does not show. *)
LEMMA HiddenMaps ==
    ASSUME NEW s \in Stmts, reply' = reply,
           AbstractCursor(s)' = AbstractCursor(s),
           \A t \in Stmts : t # s => AbstractCursor(t)' = AbstractCursor(t)
    PROVE  CursorNext
  <1>1. \A t \in Stmts : AbstractCursor(t)' = AbstractCursor(t)
    OBVIOUS
  <1>2. QED
    BY <1>1 DEF CursorNext, Abs

(* A quiet statement is closed, freed, or begins to be executed. *)
LEMMA FreeMaps ==
    ASSUME CInv, NEW s \in Stmts, Quiet(s), S[s] # Nil,
           \A t \in Stmts : t # s => S'[t] = S[t],
           S'[s] = Nil \/ ~S'[s].result_set,
           results' = DestroyResult(s),
           reply' = [reply EXCEPT ![s] = NoRow]
    PROVE  CursorNext
  <1>1. \A r \in Results : ~ResultFor(s, r) => results'[r] = results[r]
    BY QuietFacts DEF DestroyResult, CInv, CTypeOK, TypeOK
  <1>2. \A t \in Stmts : t # s => AbstractCursor(t)' = AbstractCursor(t)
    BY <1>1, OtherCursorsKept
  <1>3. AbstractCursor(s)' = [status |-> "closed"]
    BY DEF AbstractCursor
  <1>4. Abs' = [Abs EXCEPT ![s] = [status |-> "closed"]]
    BY <1>2, <1>3, AbsStep
  <1>5. Cursor!Close(s)
    BY <1>4 DEF Cursor!Close, Cursor!Closed, Cursor!NoRow, NoRow, Abs
  <1>6. QED
    BY <1>5 DEF CursorNext, Cursor!Next

(* An open cursor, told from the record of its statement. *)
LEMMA OpenCursor ==
    ASSUME CInv, NEW s \in Stmts, S[s] # Nil, S[s].result_set, ~S[s].done
    PROVE  LET c == results[S[s].result].content
           IN  AbstractCursor(s) = [status |-> "open",
                                    exec |-> [rows |-> RowCount(c), err |-> c.err],
                                    pos |-> AbstractPosition(s)]
  BY DEF AbstractCursor, AbstractExecution

(* The record after a step, and the cursor that it stands for. *)
LEMMA CursorAfter ==
    ASSUME NEW s \in Stmts, NEW c, NEW r \in Results, NEW p,
           S'[s] # Nil, S'[s].result = r, S'[s].result_set,
           results'[r].content = c, AbstractPosition(s)' = p
    PROVE  AbstractCursor(s)' = [status |-> IF S'[s].done THEN "ended" ELSE "open",
                                 exec |-> [rows |-> RowCount(c), err |-> c.err],
                                 pos |-> p]
  BY DEF AbstractCursor, AbstractExecution

-----------------------------------------------------------------------------
(* Handlers that free, prepare and execute *)

LEMMA ClosesMaps ==
    ASSUME CInv, NEW c \in Coroutines, NEW s \in Stmts, Quiet(s),
           Closes(c, s) \/ Drops(c, s)
    PROVE  CursorNext
  <1>1. /\ S[s] # Nil
        /\ results' = DestroyResult(s)
        /\ reply' = [reply EXCEPT ![s] = NoRow]
        /\ \A t \in Stmts : t # s => S'[t] = S[t]
    BY DEF Closes, CloseCursor, DropResult, Drops, Destroy, CInv, CTypeOK, TypeOK
  <1>2. S[s] \in StmtRecord
    BY <1>1, QuietFacts
  <1>3. S'[s] = Nil \/ ~S'[s].result_set
    <2>1. CASE Closes(c, s)
      <3>1. S'[s] = [S[s] EXCEPT !.result = Nil, !.result_set = FALSE, !.chunk = Nil]
        BY <2>1 DEF Closes, CloseCursor, DropResult, CInv, CTypeOK, TypeOK
      <3>2. QED
        BY <1>2, <3>1, DroppedRecord
    <2>2. CASE Drops(c, s)
      BY <2>2 DEF Drops, Destroy, CInv, CTypeOK, TypeOK
    <2>3. QED
      BY <2>1, <2>2
  <1>4. QED
    BY <1>1, <1>3, FreeMaps

(* The executer, or PDO core before it, frees what the statement has. *)
LEMMA DropsMap ==
    ASSUME CInv, NEW s \in Stmts, Quiet(s), S[s] # Nil, DropResult(s)
    PROVE  CursorNext
  <1>1. S[s] \in StmtRecord
    BY QuietFacts
  <1>2. /\ S'[s] = [S[s] EXCEPT !.result = Nil, !.result_set = FALSE, !.chunk = Nil]
        /\ \A t \in Stmts : t # s => S'[t] = S[t]
    BY DEF DropResult, CInv, CTypeOK, TypeOK
  <1>3. ~S'[s].result_set
    BY <1>1, <1>2, DroppedRecord
  <1>4. QED
    BY <1>2, <1>3, FreeMaps DEF DropResult

LEMMA ExecuteIsRefusedMaps ==
    ASSUME CInv, NEW c \in Coroutines, NEW s \in Stmts, Quiet(s), ExecuteIsRefused(c, s)
    PROVE  CursorNext
  <1>1. PICK first \in ClosesFirst : ExecuteRefused(s, first)
    BY DEF ExecuteIsRefused
  <1>2. CASE first /\ pdo[s].executed
    BY <1>1, <1>2, DropsMap DEF ExecuteRefused
  <1>3. CASE ~(first /\ pdo[s].executed)
    BY <1>1, <1>3, NothingMaps DEF ExecuteRefused
  <1>4. QED
    BY <1>2, <1>3

LEMMA ExecuteEntersMaps ==
    ASSUME CInv, NEW c \in Coroutines, NEW s \in Stmts, Quiet(s), ExecuteEnters(c, s)
    PROVE  CursorNext
  BY DropsMap DEF ExecuteEnters

(* The statement comes into being without a result. *)
LEMMA PrepareReturnsMaps ==
    ASSUME CInv, NEW c \in Coroutines, PrepareReturns(c)
    PROVE  CursorNext
  <1>1. PICK s \in Stmts : s = call[c].stmt
    <2>1. call[c] # Nil
      BY ReturnMoves DEF PrepareReturns
    <2>2. QED
      BY <2>1, InsideFacts
  <1>2. CASE Prepare(s)
    <2>1. /\ S[s] = Nil /\ UNCHANGED <<results, reply>>
          /\ \A t \in Stmts : t # s => S'[t] = S[t]
          /\ ~S'[s].result_set
      BY <1>2 DEF Prepare, CInv, CTypeOK, TypeOK
    <2>2. AbstractCursor(s)' = AbstractCursor(s)
      BY <2>1 DEF AbstractCursor
    <2>3. QED
      BY <2>1, <2>2, OtherCursorsKept, HiddenMaps
  <1>3. CASE UNCHANGED stmtVars
    BY <1>3, NothingMaps DEF stmtVars
  <1>4. QED
    BY <1>1, <1>2, <1>3 DEF PrepareReturns

(* DuckDB writes the result; the statement does not show it yet. *)
LEMMA ExecuteRunsMaps ==
    ASSUME CInv, NEW c \in Coroutines, ExecuteRuns(c)
    PROVE  CursorNext
  <1>1. /\ call[c] # Nil /\ call[c].op = "execute" /\ reply' = reply
    BY DEF ExecuteRuns, Runs
  <1>2. PICK s \in Stmts : s = call[c].stmt
    BY <1>1, InsideFacts
  <1>3. S[s] # Nil /\ S[s] \in StmtRecord /\ ~S[s].result_set
    <2>1. Executing(c)
      BY <1>1, InsideFacts DEF CallOK
    <2>2. QED
      BY <1>2, <2>1 DEF Executing, CInv, CTypeOK, TypeOK
  <1>4. /\ \E r \in Results \cup {Nil} : S' = [S EXCEPT ![s].result = r]
        /\ \A q \in Results : results[q] # Nil => results'[q].content = results[q].content
    <2>1. CASE S' = [S EXCEPT ![s].result = Nil] /\ results' = results
      BY <2>1
    <2>2. ASSUME NEW r \in Results, NEW v, results[r] = Nil,
                 S' = [S EXCEPT ![s].result = r], results' = [results EXCEPT ![r] = v]
          PROVE  \A q \in Results : results[q] # Nil =>
                    results'[q].content = results[q].content
      BY <2>2 DEF CInv, CTypeOK, TypeOK
    <2>3. QED
      BY <1>2, <2>1, <2>2 DEF ExecuteRuns
  <1>5. /\ S'[s].result_set = S[s].result_set
        /\ \A t \in Stmts : t # s => S'[t] = S[t]
    BY <1>3, <1>4 DEF CInv, CTypeOK, TypeOK, StmtRecord
  <1>6. AbstractCursor(s)' = AbstractCursor(s)
    BY <1>3, <1>5 DEF AbstractCursor
  <1>7. QED
    BY <1>1, <1>4, <1>5, <1>6, OtherCursorsKept, HiddenMaps

(* The execution returns: from now on the rows can be fetched. *)
LEMMA ExecuteReturnsMaps ==
    ASSUME CInv, NEW c \in Coroutines, ExecuteReturns(c)
    PROVE  CursorNext
  <1>1. /\ Returning(c, "execute") /\ Return(c) /\ reply' = reply
    BY DEF ExecuteReturns
  <1>2. /\ call[c] # Nil /\ call[c].op = "execute"
        /\ Stage(c) = "succeeded" <=> state[c] = "DuckDBSuccess"
    BY <1>1, ReturnMoves DEF Returning
  <1>3. PICK s \in Stmts : s = call[c].stmt
    BY <1>2, InsideFacts
  <1>4. PICK r : r = S[s].result
    OBVIOUS
  <1>5. /\ S[s] # Nil /\ S[s] \in StmtRecord /\ ~S[s].result_set
        /\ r \in Results \cup {Nil}
        /\ r # Nil <=> state[c] = "DuckDBSuccess"
        /\ reply[s] = NoRow
    <2>1. Executing(c)
      BY <1>2, InsideFacts DEF CallOK
    <2>2. S[s] \in StmtRecord
      BY <1>3, <2>1 DEF Executing, CInv, CTypeOK, TypeOK
    <2>3. QED
      BY <1>2, <1>3, <1>4, <2>1, <2>2 DEF Executing, StmtRecord
  <1>6. CASE state[c] = "DuckDBError"
    <2>1. S' = [S EXCEPT ![s].result = Nil] /\ results' = results
      BY <1>3, <1>4, <1>5, <1>6 DEF ExecuteReturns
    <2>2. /\ S'[s].result_set = S[s].result_set
          /\ \A t \in Stmts : t # s => S'[t] = S[t]
      BY <1>5, <2>1 DEF CInv, CTypeOK, TypeOK, StmtRecord
    <2>3. AbstractCursor(s)' = AbstractCursor(s)
      BY <1>5, <2>2 DEF AbstractCursor
    <2>4. QED
      BY <1>1, <2>1, <2>2, <2>3, OtherCursorsKept, HiddenMaps
  <1>7. CASE state[c] = "DuckDBSuccess"
    <2> DEFINE content == results[r].content
               noColumns == ColumnsOf(r) = 0
               status == IF noColumns THEN "ended" ELSE "open"
               e == [rows |-> RowCount(content), err |-> content.err]
               x == [result |-> r, chunk |-> Nil, chunk_idx |-> 0, chunk_size |-> 0,
                     done |-> noColumns, result_set |-> TRUE,
                     is_streaming |-> IsStreaming(r),
                     next_chunk_index |-> 0, total_rows |-> 0]
    <2>1. r \in Results /\ r # Nil /\ content \in Contents
      <3>1. r \in Results /\ r # Nil
        BY <1>5, <1>7
      <3>2. ResultFor(s, r)
        BY <1>4, <1>5 DEF ResultFor
      <3>3. QED
        BY <3>1, <3>2 DEF CInv, Owned, CTypeOK, TypeOK, Result
    <2>2. S' = [S EXCEPT ![s] = x] /\ results' = results
      BY <1>3, <1>4, <1>7 DEF ExecuteReturns
    <2>3. x \in StmtRecord
      <3>1. results[r] \in Result
        BY <1>4, <1>5, <2>1 DEF ResultFor, CInv, Owned, CTypeOK, TypeOK
      <3>2. noColumns \in BOOLEAN /\ IsStreaming(r) \in BOOLEAN
        BY <2>1, <3>1 DEF IsStreaming, Result
      <3> HIDE DEF noColumns
      <3>3. QED
        BY <2>1, <3>2 DEF StmtRecord
    <2>4. noColumns => e.rows = 0 /\ ~e.err
      BY <2>1, ContentsAssumption DEF ColumnsOf, RowCount, RowsBefore, ChunkCount
    <2>5. e \in Outcomes
      BY <2>1 DEF Outcomes
    <2>6. /\ x.result = r /\ x.result_set = TRUE /\ x.done = noColumns
          /\ x.chunk = Nil /\ x.total_rows = 0
      OBVIOUS
    <2> HIDE DEF x, noColumns
    <2>7. /\ S'[s] = x /\ x # Nil
          /\ \A t \in Stmts : t # s => S'[t] = S[t]
      BY <2>2, <2>3, NilAssumption DEF CInv, CTypeOK, TypeOK
    <2>8. AbstractPosition(s)' = 0
      BY <2>6, <2>7 DEF AbstractPosition
    <2>9. AbstractCursor(s)' = [status |-> status, exec |-> e, pos |-> 0]
      BY <2>1, <2>2, <2>6, <2>7, <2>8, CursorAfter
    <2>10. \A t \in Stmts : t # s => AbstractCursor(t)' = AbstractCursor(t)
      BY <2>2, <2>7, OtherCursorsKept
    <2> HIDE DEF e, status
    <2>11. Abs' = [Abs EXCEPT ![s] = Cursor!At(e, status, 0)]
      BY <2>9, <2>10, AbsStep DEF Cursor!At
    <2>12. \/ \E o \in Outcomes : Abs' = [Abs EXCEPT ![s] = Cursor!At(o, "open", 0)]
           \/ \E o \in Outcomes :
                 /\ o.rows = 0 /\ ~o.err
                 /\ Abs' = [Abs EXCEPT ![s] = Cursor!At(o, "ended", 0)]
      <3>1. CASE noColumns
        BY <2>4, <2>5, <2>11, <3>1 DEF status
      <3>2. CASE ~noColumns
        BY <2>5, <2>11, <3>2 DEF status
      <3>3. QED
        BY <3>1, <3>2
    <2>13. reply' = [reply EXCEPT ![s] = Cursor!NoRow]
      BY <1>1, <1>5 DEF Cursor!NoRow, NoRow, CInv, CTypeOK, TypeOK
    <2>14. Cursor!Execute(s)
      BY <2>12, <2>13 DEF Cursor!Execute, Abs, Outcomes
    <2>15. QED
      BY <2>14 DEF CursorNext, Cursor!Next
  <1>8. QED
    BY <1>6, <1>7 DEF ExecuteReturns

-----------------------------------------------------------------------------
(* Fetches *)

LEMMA FetchNothingMapsQuiet ==
    ASSUME CInv, NEW s \in Stmts, FetchNothing(s)
    PROVE  CursorNext
  <1>1. AbstractCursor(s).status # "open"
    BY DEF FetchNothing, CInv, StatementOK, AbstractCursor
  <1>2. Abs' = Abs
    BY DEF FetchNothing, Abs, AbstractCursor, AbstractExecution, AbstractPosition
  <1>3. Abs[s] = AbstractCursor(s)
    BY DEF Abs
  <1>4. Cursor!FetchNothing(s)
    BY <1>1, <1>2, <1>3 DEF FetchNothing, Cursor!FetchNothing, Cursor!End, End, Abs
  <1>5. QED
    BY <1>4 DEF CursorNext, Cursor!Next

(* The next row is in the chunk at hand. *)
LEMMA FetchInChunkMapsQuiet ==
    ASSUME CInv, NEW s \in Stmts, Quiet(s), FetchInChunk(s)
    PROVE  CursorNext
  <1> DEFINE k == chunks[S[s].chunk]
             x == [S[s] EXCEPT !.chunk_idx = S[s].chunk_idx + 1]
  <1>1. PICK r \in Results : r = S[s].result
    BY OpenFacts DEF FetchInChunk
  <1>2. PICK c \in Contents : c = results[r].content
    BY <1>1, OpenFacts DEF FetchInChunk
  <1>3. PICK i \in Nat : i = k.index
    BY OpenFacts DEF FetchInChunk, InChunk, Chunk
  <1>4. /\ Fetchable(s) /\ InChunk(s)
        /\ S' = [S EXCEPT ![s] = x] /\ results' = results
        /\ reply' = [reply EXCEPT ![s] = Row(RowAt(k, S[s].chunk_idx + 1))]
    BY DEF FetchInChunk
  <1>5. /\ S[s] # Nil /\ S[s] \in StmtRecord /\ S[s].result_set /\ ~S[s].done
        /\ S[s].chunk # Nil /\ S[s].chunk_idx + 1 < S[s].chunk_size
        /\ ChunkAtHand(s)
    BY <1>4, OpenFacts DEF Fetchable, InChunk
  <1>6. /\ k.of = r /\ i < ChunkCount(c)
        /\ S[s].chunk_size = ChunkSize(c, i)
        /\ S[s].total_rows = RowsBefore(c, i)
    BY <1>1, <1>2, <1>3, <1>5 DEF ChunkAtHand
  <1>7. PICK p \in Nat : p = AbstractPosition(s)
    BY <1>5 DEF AbstractPosition, StmtRecord
  <1>8. p = RowsBefore(c, i) + S[s].chunk_idx + 1
    BY <1>5, <1>6, <1>7 DEF AbstractPosition, StmtRecord
  <1>9. RowAt(k, S[s].chunk_idx + 1) = p + 1
    BY <1>2, <1>3, <1>5, <1>6, <1>8, RowBounds DEF RowAt, StmtRecord
  <1>10. p < RowCount(c)
    BY <1>5, <1>6, <1>8, RowBounds DEF ChunkSize, StmtRecord
  <1>11. /\ x \in StmtRecord /\ x.result = S[s].result /\ x.chunk = S[s].chunk
         /\ x.total_rows = S[s].total_rows /\ x.chunk_idx = S[s].chunk_idx + 1
    BY <1>5 DEF StmtRecord
  <1>12. x.result_set
    BY <1>5 DEF StmtRecord
  <1>13. ~x.done
    BY <1>5 DEF StmtRecord
  <1> HIDE DEF x
  <1>14. /\ S'[s] = x /\ x # Nil
         /\ \A t \in Stmts : t # s => S'[t] = S[t]
    BY <1>4, <1>11, NilAssumption DEF CInv, CTypeOK, TypeOK
  <1>15. AbstractPosition(s)' = p + 1
    BY <1>5, <1>6, <1>8, <1>11, <1>14, RowBounds DEF AbstractPosition, StmtRecord
  <1> DEFINE e == [rows |-> RowCount(c), err |-> c.err]
  <1>16. AbstractCursor(s)' = [status |-> "open", exec |-> e, pos |-> p + 1]
    BY <1>1, <1>2, <1>4, <1>11, <1>12, <1>13, <1>14, <1>15, CursorAfter
  <1>17. AbstractCursor(s) = [status |-> "open", exec |-> e, pos |-> p]
    BY <1>1, <1>2, <1>5, <1>7, OpenCursor
  <1>18. \A t \in Stmts : t # s => AbstractCursor(t)' = AbstractCursor(t)
    BY <1>4, <1>14, OtherCursorsKept
  <1>19. e.rows = RowCount(c)
    OBVIOUS
  <1> HIDE DEF e
  <1>20. QED
    BY <1>4, <1>9, <1>10, <1>16, <1>17, <1>18, <1>19, RowMaps

(* The position of a statement whose chunk at hand is exhausted. *)
LEMMA SpentPosition ==
    ASSUME CInv, NEW s \in Stmts, Quiet(s), Fetchable(s), ~InChunk(s)
    PROVE  AbstractPosition(s) = RowsConsumed(s)
  <1>1. CASE S[s].chunk = Nil
    BY <1>1 DEF AbstractPosition, RowsConsumed
  <1>2. CASE S[s].chunk # Nil
    <2>1. S[s] \in StmtRecord /\ S[s].chunk_idx < S[s].chunk_size
      BY <1>2, OpenFacts DEF ChunkAtHand
    <2>2. S[s].chunk_idx + 1 = S[s].chunk_size
      BY <1>2, <2>1 DEF InChunk, StmtRecord
    <2>3. QED
      BY <1>2, <2>2 DEF AbstractPosition, RowsConsumed
  <1>3. QED
    BY <1>1, <1>2

(* Behind the last chunk of a materialised result. *)
LEMMA FetchLastMapsQuiet ==
    ASSUME CInv, NEW s \in Stmts, Quiet(s), FetchLast(s)
    PROVE  CursorNext
  <1>1. PICK r \in Results : r = S[s].result
    BY OpenFacts DEF FetchLast
  <1>2. PICK c \in Contents : c = results[r].content
    BY <1>1, OpenFacts DEF FetchLast
  <1>3. PICK p \in Nat : p = RowsConsumed(s)
    BY OpenFacts DEF FetchLast
  <1> DEFINE x == [S[s] EXCEPT !.chunk = Nil, !.chunk_idx = 0, !.chunk_size = 0,
                               !.total_rows = p, !.done = TRUE]
             e == [rows |-> RowCount(c), err |-> c.err]
  <1>4. /\ Fetchable(s) /\ ~InChunk(s)
        /\ NextChunk(s) >= ChunkCount(c)
        /\ S' = [S EXCEPT ![s] = x]
        /\ results' = [results EXCEPT ![r].error = c.err]
        /\ reply' = [reply EXCEPT ![s] = IF c.err THEN Error ELSE End]
    BY <1>1, <1>2, <1>3 DEF FetchLast
  <1>5. /\ S[s] # Nil /\ S[s] \in StmtRecord /\ S[s].result_set /\ ~S[s].done
        /\ results[r] \in Result
    BY <1>1, <1>4, OpenFacts DEF Fetchable
  <1>6. p = RowCount(c)
    <2>1. NextChunk(s) \in Nat /\ ChunkCount(c) \in Nat /\ NextChunk(s) <= ChunkCount(c)
      BY <1>1, <1>2, <1>4, OpenFacts, ContentFacts
    <2>2. NextChunk(s) = ChunkCount(c)
      BY <1>4, <2>1
    <2>3. QED
      BY <1>1, <1>2, <1>3, <1>4, <2>2, OpenFacts DEF RowCount
  <1>7. /\ x \in StmtRecord /\ x.result = r /\ x.chunk = Nil
        /\ x.total_rows = p /\ x.done = TRUE
    BY <1>1, <1>5 DEF StmtRecord
  <1>8. x.result_set
    BY <1>5 DEF StmtRecord
  <1> HIDE DEF x
  <1>9. /\ S'[s] = x /\ x # Nil
        /\ \A t \in Stmts : t # s => S'[t] = S[t]
    BY <1>4, <1>7, NilAssumption DEF CInv, CTypeOK, TypeOK
  <1>10. \A q \in Results : results'[q].content = results[q].content
    BY <1>4, <1>5 DEF CInv, CTypeOK, TypeOK, Result
  <1>11. AbstractPosition(s)' = p
    BY <1>7, <1>9 DEF AbstractPosition
  <1>12. AbstractCursor(s)' = [status |-> "ended", exec |-> e, pos |-> p]
    BY <1>2, <1>7, <1>8, <1>9, <1>10, <1>11, CursorAfter
  <1>13. AbstractCursor(s) = [status |-> "open", exec |-> e, pos |-> p]
    BY <1>1, <1>2, <1>3, <1>4, <1>5, OpenCursor, SpentPosition
  <1>14. \A t \in Stmts : t # s => AbstractCursor(t)' = AbstractCursor(t)
    BY <1>9, <1>10, OtherCursorsKept
  <1>15. e.rows = p /\ e.err = c.err
    BY <1>6
  <1> HIDE DEF e
  <1>16. QED
    BY <1>4, <1>12, <1>13, <1>14, <1>15, LastMaps

LEMMA FetchAtOnceMaps ==
    ASSUME CInv, NEW c \in Coroutines, NEW s \in Stmts, Quiet(s), FetchAtOnce(c, s)
    PROVE  CursorNext
  BY FetchNothingMapsQuiet, FetchInChunkMapsQuiet, FetchLastMapsQuiet DEF FetchAtOnce

(* The exhausted chunk goes, and its rows are counted: no row is skipped.  *)
LEMMA FetchEntersMaps ==
    ASSUME CInv, NEW c \in Coroutines, NEW s \in Stmts, Quiet(s), FetchEnters(c, s)
    PROVE  CursorNext
  <1>1. PICK r \in Results : r = S[s].result
    BY OpenFacts DEF FetchEnters
  <1>2. PICK p \in Nat : p = RowsConsumed(s)
    BY OpenFacts DEF FetchEnters
  <1> DEFINE i == S[s].next_chunk_index
             j == IF S[s].is_streaming THEN i ELSE i + 1
             m == S[s].chunk_idx + 1
             x == [S[s] EXCEPT !.chunk = Nil, !.chunk_idx = m,
                               !.total_rows = p, !.next_chunk_index = j]
  <1>3. /\ Fetchable(s) /\ ~InChunk(s)
        /\ S' = [S EXCEPT ![s] = x] /\ UNCHANGED <<results, reply>>
    BY <1>2 DEF FetchEnters
  <1>4. S[s] # Nil /\ S[s] \in StmtRecord /\ S[s].result_set /\ ~S[s].done
    BY <1>3, OpenFacts DEF Fetchable
  <1>5. i \in Nat /\ j \in Nat /\ m \in Nat
    BY <1>4 DEF StmtRecord
  <1> HIDE DEF i, j, m
  <1>6. /\ x \in StmtRecord /\ x.result = r /\ x.chunk = Nil /\ x.total_rows = p
    BY <1>1, <1>4, <1>5 DEF StmtRecord
  <1>7. x.result_set
    BY <1>4 DEF StmtRecord
  <1>8. ~x.done
    BY <1>4 DEF StmtRecord
  <1> HIDE DEF x
  <1>9. /\ S'[s] = x /\ x # Nil
        /\ \A t \in Stmts : t # s => S'[t] = S[t]
    BY <1>3, <1>6, NilAssumption DEF CInv, CTypeOK, TypeOK
  <1>10. AbstractPosition(s)' = p
    BY <1>6, <1>9 DEF AbstractPosition
  <1>11. AbstractPosition(s) = p
    BY <1>2, <1>3, SpentPosition
  <1>12. AbstractCursor(s)' = AbstractCursor(s)
    BY <1>1, <1>3, <1>4, <1>6, <1>7, <1>8, <1>9, <1>10, <1>11, OpenCursor, CursorAfter
  <1>13. QED
    BY <1>3, <1>9, <1>12, OtherCursorsKept, HiddenMaps

LEMMA FetchRunsMaps ==
    ASSUME CInv, NEW c \in Coroutines, FetchRuns(c)
    PROVE  CursorNext
  <1>1. PICK r : r = call[c].result
    OBVIOUS
  <1>2. /\ call[c] # Nil /\ UNCHANGED <<S, reply>>
        /\ \/ \E n : results' = [results EXCEPT ![r].served = n]
           \/ \E b : results' = [results EXCEPT ![r].error = b]
    BY <1>1 DEF FetchRuns, Runs
  <1>3. \A q \in Results : results[q] # Nil => results'[q].content = results[q].content
    BY <1>2 DEF CInv, CTypeOK, TypeOK, Result
  <1>4. QED
    BY <1>2, <1>3, NothingMaps

(* DuckDB handed out a chunk, whose first row is answered, or nothing, which *)
(* is the end of the rows unless the pool refused the call.                 *)
LEMMA FetchReturnsMaps ==
    ASSUME CInv, NEW c \in Coroutines, FetchReturns(c)
    PROVE  CursorStep
  <1>1. Returning(c, "fetch") /\ Return(c) /\ results' = results
    BY DEF FetchReturns
  <1>2. /\ call[c] # Nil /\ call[c].op = "fetch"
        /\ Stage(c) \in {"refused", "failed", "succeeded"}
        /\ Stage(c) = "refused" <=> ran[c] = 0
    BY <1>1, ReturnMoves DEF Returning
  <1>3. PICK s \in Stmts : s = call[c].stmt
    BY <1>2, InsideFacts
  <1>4. PICK k : k = call[c].chunk
    OBVIOUS
  <1>5. Fetching(c) /\ Inside(c, s)
    BY <1>2, <1>3, InsideFacts DEF CallOK, Inside
  <1>6. /\ S[s] # Nil /\ S[s] \in StmtRecord /\ S[s].result_set /\ ~S[s].done
        /\ S[s].chunk = Nil /\ S[s].result # Nil
    BY <1>3, <1>5 DEF Fetching, CInv, CTypeOK, TypeOK, StatementOK
  <1>7. PICK r \in Results : r = S[s].result
    BY <1>6 DEF StmtRecord
  <1>8. results[r] \in Result /\ results[r] # Nil /\ call[c].result = r
    <2>1. ResultFor(s, r)
      BY <1>6, <1>7 DEF ResultFor
    <2>2. QED
      BY <1>3, <1>5, <1>7, <2>1 DEF Fetching, CInv, Owned, CTypeOK, TypeOK
  <1>9. PICK content \in Contents : content = results[r].content
    BY <1>8 DEF Result
  <1>10. PICK p \in Nat : p = S[s].total_rows
    BY <1>6 DEF StmtRecord
  <1> DEFINE e == [rows |-> RowCount(content), err |-> content.err]
  <1>11. AbstractCursor(s) = [status |-> "open", exec |-> e, pos |-> p]
    BY <1>6, <1>7, <1>9, <1>10, OpenCursor DEF AbstractPosition
  <1>12. e.rows = RowCount(content) /\ e.err = content.err
    OBVIOUS
  <1>13. ASSUME \A t \in Stmts : t # s => S'[t] = S[t]
         PROVE  \A t \in Stmts : t # s => AbstractCursor(t)' = AbstractCursor(t)
    BY <1>1, <1>13, OtherCursorsKept
  <1>14. CASE Stage(c) = "succeeded"
    <2>1. /\ k \in Chunks /\ chunks[k] \in Chunk
      <3>1. k # Nil /\ k \in Chunks
        BY <1>2, <1>4, <1>5, <1>14, CallFacts DEF Fetching, CInv
      <3>2. ChunkFor(s, k)
        BY <1>4, <1>5 DEF ChunkFor
      <3>3. QED
        BY <3>1, <3>2 DEF CInv, Owned, CTypeOK, TypeOK
    <2>2. PICK i \in Nat : i = chunks[k].index
      BY <2>1 DEF Chunk
    <2>3. chunks[k].of = r /\ i < ChunkCount(content) /\ p = RowsBefore(content, i)
      BY <1>3, <1>4, <1>5, <1>8, <1>9, <1>10, <1>14, <2>2 DEF Fetching
    <2> DEFINE size == ChunkSize(content, i)
               x == [S[s] EXCEPT !.chunk = k, !.chunk_idx = 0, !.chunk_size = size]
    <2>4. size \in Nat
      BY <2>3, ContentFacts
    <2>5. /\ S' = [S EXCEPT ![s] = x]
          /\ reply' = [reply EXCEPT ![s] = Row(RowAt(chunks[k], 0))]
      <3>1. call[c].stmt = s /\ call[c].chunk = k /\ k # Nil
        BY <1>3, <1>4, <2>1, NilAssumption
      <3>2. size = ChunkSize(results[chunks[k].of].content, chunks[k].index)
        BY <1>9, <2>2, <2>3
      <3> HIDE DEF size
      <3>3. S' = [S EXCEPT ![s].chunk = k, ![s].chunk_idx = 0, ![s].chunk_size = size]
        BY <3>1, <3>2 DEF FetchReturns
      <3>4. reply' = [reply EXCEPT ![s] = Row(RowAt(chunks[k], 0))]
        BY <3>1 DEF FetchReturns
      <3>5. QED
        BY <3>3, <3>4
    <2> HIDE DEF size
    <2>6. /\ x \in StmtRecord /\ x.result = r /\ x.chunk = k
          /\ x.chunk_idx = 0 /\ x.total_rows = p
      BY <1>6, <1>7, <1>10, <2>1, <2>4 DEF StmtRecord
    <2>7. x.result_set
      BY <1>6 DEF StmtRecord
    <2>8. ~x.done
      BY <1>6 DEF StmtRecord
    <2> HIDE DEF x
    <2>9. /\ S'[s] = x /\ x # Nil
          /\ \A t \in Stmts : t # s => S'[t] = S[t]
      BY <2>5, <2>6, NilAssumption DEF CInv, CTypeOK, TypeOK
    <2>10. AbstractPosition(s)' = p + 1
      BY <2>1, <2>6, <2>9, NilAssumption DEF AbstractPosition
    <2>11. AbstractCursor(s)' = [status |-> "open", exec |-> e, pos |-> p + 1]
      BY <1>1, <1>9, <2>6, <2>7, <2>8, <2>9, <2>10, CursorAfter
    <2>12. RowAt(chunks[k], 0) = p + 1
      BY <1>9, <2>2, <2>3 DEF RowAt
    <2>13. p < RowCount(content)
      BY <2>3, RowBounds
    <2> HIDE DEF e
    <2>14. CursorNext
      BY <1>11, <1>12, <1>13, <2>5, <2>9, <2>11, <2>12, <2>13, RowMaps
    <2>15. QED
      BY <2>14 DEF CursorStep
  <1>15. CASE Stage(c) = "failed"
    <2>1. /\ k = Nil /\ p = RowCount(content) /\ results[r].error = content.err
      BY <1>3, <1>4, <1>5, <1>8, <1>9, <1>10, <1>15 DEF Fetching
    <2> DEFINE x == [S[s] EXCEPT !.chunk = Nil, !.chunk_idx = 0, !.chunk_size = 0,
                                 !.done = TRUE]
    <2>2. /\ S' = [S EXCEPT ![s] = x]
          /\ reply' = [reply EXCEPT ![s] = IF content.err THEN Error ELSE End]
      <3>1. call[c].stmt = s /\ call[c].chunk = Nil
        BY <1>3, <1>4, <2>1
      <3>2. S' = [S EXCEPT ![s].chunk = Nil, ![s].chunk_idx = 0, ![s].chunk_size = 0,
                           ![s].done = TRUE]
        BY <3>1 DEF FetchReturns
      <3>3. reply' = [reply EXCEPT ![s] =
                IF S[s].result # Nil /\ results[S[s].result].error THEN Error ELSE End]
        BY <3>1 DEF FetchReturns
      <3>4. S[s].result # Nil /\ results[S[s].result].error = content.err
        BY <1>6, <1>7, <2>1
      <3>5. QED
        BY <3>2, <3>3, <3>4
    <2>3. /\ x \in StmtRecord /\ x.result = r /\ x.chunk = Nil
          /\ x.total_rows = p /\ x.done = TRUE
      BY <1>6, <1>7, <1>10 DEF StmtRecord
    <2>4. x.result_set
      BY <1>6 DEF StmtRecord
    <2> HIDE DEF x
    <2>5. /\ S'[s] = x /\ x # Nil
          /\ \A t \in Stmts : t # s => S'[t] = S[t]
      BY <2>2, <2>3, NilAssumption DEF CInv, CTypeOK, TypeOK
    <2>6. AbstractPosition(s)' = p
      BY <2>3, <2>5 DEF AbstractPosition
    <2>7. AbstractCursor(s)' = [status |-> "ended", exec |-> e, pos |-> p]
      BY <1>1, <1>9, <2>3, <2>4, <2>5, <2>6, CursorAfter
    <2> HIDE DEF e
    <2>8. CursorNext
      BY <1>11, <1>12, <1>13, <2>1, <2>2, <2>5, <2>7, LastMaps
    <2>9. QED
      BY <2>8 DEF CursorStep
  <1>16. CASE Stage(c) = "refused"
    BY <1>1, <1>2, <1>16 DEF CursorStep, FetchRefused
  <1>17. QED
    BY <1>2, <1>14, <1>15, <1>16

-----------------------------------------------------------------------------
(* Every step maps to one of the abstract cursor, or is a refused fetch. *)

LEMMA CallsMap ==
    ASSUME ~Overlap, CInv, [CNext]_allVars
    PROVE  CursorStep
  <1>1. CASE UNCHANGED allVars
    BY <1>1, NothingMaps DEF allVars, stmtVars, CursorStep
  <1>2. ASSUME NEW c \in Coroutines, NEW s \in Stmts,
               \/ ExecuteEnters(c, s) \/ FetchEnters(c, s)
               \/ ExecuteIsRefused(c, s) \/ FetchAtOnce(c, s)
               \/ Closes(c, s) \/ Drops(c, s)
        PROVE  CursorNext
    <2>1. MayUse(c, s)
      BY <1>2 DEF ExecuteEnters, FetchEnters, Enter, NewCall,
                  ExecuteIsRefused, FetchAtOnce, Closes, Drops, AtOnce
    <2>2. Quiet(s)
      BY <2>1, MayUseQuiet
    <2>3. QED
      BY <1>2, <2>2, ExecuteEntersMaps, FetchEntersMaps, ExecuteIsRefusedMaps,
         FetchAtOnceMaps, ClosesMaps
  <1>3. ASSUME NEW c \in Coroutines, NEW s \in Stmts, PrepareEnters(c, s)
        PROVE  CursorNext
    BY <1>3, NothingMaps DEF PrepareEnters, stmtVars
  <1>4. ASSUME NEW c \in Coroutines,
               \/ Sleeps(c) \/ Queues(c) \/ IsRefused(c) \/ Resumes(c)
        PROVE  CursorNext
    BY <1>4, NothingMaps DEF Sleeps, Queues, IsRefused, Resumes, Proceed, stmtVars
  <1>5. ASSUME NEW c \in Coroutines, PrepareRuns(c) PROVE CursorNext
    BY <1>5, NothingMaps DEF PrepareRuns, Runs
  <1>6. ASSUME NEW c \in Coroutines, SetsUnbuffered(c) PROVE CursorNext
    BY <1>6, NothingMaps DEF SetsUnbuffered, SetUnbuffered
  <1>7. CASE WorkerTakes
    BY <1>7, NothingMaps DEF WorkerTakes, stmtVars, CursorStep
  <1>8. QED
    BY <1>1, <1>2, <1>3, <1>4, <1>5, <1>6, <1>7, PrepareReturnsMaps, ExecuteRunsMaps,
       ExecuteReturnsMaps, FetchRunsMaps, FetchReturnsMaps DEF CNext, CursorStep

(***************************************************************************)
(* The handlers of duckdb_statement.c, though they yield in the middle,    *)
(* implement the row cursor: a statement hands out the rows of its latest  *)
(* successful execution in order, each once, and then the end or the       *)
(* error, whatever other coroutines do to the connection while it waits.   *)
(* The one exception is the fetch that the pool refuses.                   *)
(***************************************************************************)
THEOREM CallsImplementRowCursor ==
    ASSUME ~Overlap
    PROVE  CSpec => RowsUnlessRefused
  <1>1. CInit => Cursor!Init
    BY DEF CInit, Init, Cursor!Init, Cursor!Closed, Cursor!NoRow, NoRow, AbstractCursor
  <1>2. CInv /\ [CNext]_allVars =>
            [Cursor!Next \/ \E c \in Coroutines : FetchRefused(c)]_(Cursor!vars)
    BY CallsMap DEF CursorStep, CursorNext, Cursor!vars, Abs
  <1>3. QED
    BY <1>1, <1>2, CallsInvariance, PTL DEF CSpec, RowsUnlessRefused
=============================================================================
