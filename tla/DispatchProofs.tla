--------------------------- MODULE DispatchProofs ---------------------------
(***************************************************************************)
(* Proofs about module SwooleDispatch, for any number of coroutines and of *)
(* other callers, any connections, any size of the pool and every set of   *)
(* symbols that the runtime may have resolved.                             *)
(***************************************************************************)
EXTENDS SwooleDispatch, TLAPS

-----------------------------------------------------------------------------
(* The inductive invariant *)

(* Only coroutines poll the flag and yield; a call knows its connection. *)
Located ==
    \A c \in Callers :
        /\ c \notin Coroutines => pc[c] \in {"out", "inline"}
        /\ pc[c] # "out" => conn[c] \in Conns
        /\ pc[c] = "out" => conn[c] = Nil

(* A task waits in the queue at most once, and only while it is "queued". *)
QueueOK ==
    /\ \A i \in 1..Len(queue) : task[queue[i]] = "queued"
    /\ \A i, j \in 1..Len(queue) : queue[i] = queue[j] => i = j

(* fn has not run for a call that waits, is queued or is running. *)
NotYetRan ==
    \A c \in Callers :
        pc[c] \in {"asleep", "spinning", "inline"} \/ task[c] \in {"queued", "running"} =>
            ran[c] = 0 /\ state[c] = "DuckDBError"

IInv ==
    /\ TypeOK
    /\ Located
    /\ QueueOK
    /\ NoDanglingTask
    /\ FlagHasOneHolder
    /\ NotYetRan
    /\ SuccessMeansRan

LEMMA InitIInv == Init => IInv
  <1> SUFFICES ASSUME Init PROVE IInv
    OBVIOUS
  <1> USE DEF Init
  <1>1. TypeOK
    BY CallersAssumption DEF TypeOK, Places, TaskStates, States
  <1>2. QueueOK
    BY DEF QueueOK
  <1>3. FlagHasOneHolder
    BY CallersAssumption DEF FlagHasOneHolder, Holds
  <1>4. Located /\ NoDanglingTask /\ NotYetRan /\ SuccessMeansRan
    BY CallersAssumption DEF Located, NoDanglingTask, NotYetRan, SuccessMeansRan
  <1>5. QED
    BY <1>1, <1>2, <1>3, <1>4 DEF IInv

-----------------------------------------------------------------------------
(* Facts the steps share *)

(* Whoever is at the lock is a coroutine that has no task and no flag. *)
LEMMA AtLockFacts ==
    ASSUME IInv, NEW c \in Callers, NEW k \in Conns, AtLock(c, k)
    PROVE  /\ c \in Coroutines
           /\ pc[c] \in {"out", "asleep", "spinning"}
           /\ task[c] = "none"
           /\ \A j \in Conns : ~Holds(c, j)
  BY DEF AtLock, Calls, Retries, IInv, TypeOK, Places, TaskStates, NoDanglingTask, Holds

(* The flag of a connection is one of the booleans. *)
LEMMA FlagSet ==
    ASSUME IInv, NEW k \in Conns, NEW b \in BOOLEAN
    PROVE  /\ [busy EXCEPT ![k] = b] \in [Conns -> BOOLEAN]
           /\ [busy EXCEPT ![k] = b][k] = b
           /\ \A j \in Conns \ {k} : [busy EXCEPT ![k] = b][j] = busy[j]
  BY DEF IInv, TypeOK

(* A task appended to the queue is the last one, and the others stay. *)
LEMMA QueueAppend ==
    ASSUME NEW T, NEW q \in Seq(T), NEW c \in T
    PROVE  /\ Append(q, c) \in Seq(T)
           /\ Len(q) \in Nat
           /\ Len(Append(q, c)) = Len(q) + 1
           /\ \A i \in 1..Len(q) : Append(q, c)[i] = q[i]
           /\ Append(q, c)[Len(q) + 1] = c
  OBVIOUS

(* What is behind the head of a queue moves up by one. *)
LEMMA QueueTail ==
    ASSUME NEW T, NEW q \in Seq(T), q # <<>>
    PROVE  /\ Tail(q) \in Seq(T)
           /\ Len(q) \in Nat \ {0}
           /\ Len(Tail(q)) = Len(q) - 1
           /\ Head(q) = q[1] /\ Head(q) \in T
           /\ \A i \in 1..Len(Tail(q)) : Tail(q)[i] = q[i + 1]
  OBVIOUS

(* The flags while some coroutine comes to hold, or stops holding, one.   *)
LEMMA FlagTaken ==
    ASSUME IInv, NEW c \in Coroutines, NEW k \in Conns,
           ~busy[k],
           \A j \in Conns : ~Holds(c, j),
           \A d \in Callers, j \in Conns :
              Holds(d, j)' <=> IF d = c THEN j = k ELSE Holds(d, j),
           busy' = [busy EXCEPT ![k] = TRUE]
    PROVE  FlagHasOneHolder'
  <1>1. /\ busy'[k] = TRUE
        /\ \A j \in Conns \ {k} : busy'[j] = busy[j]
    BY FlagSet
  <1>2. \A d \in Coroutines : d \in Callers
    BY CallersAssumption
  <1>3. \A d \in Coroutines : ~Holds(d, k)
    BY DEF IInv, FlagHasOneHolder
  <1>4. \A j \in Conns : busy'[j] <=> \E d \in Coroutines : Holds(d, j)'
    BY <1>1, <1>2, <1>3 DEF IInv, FlagHasOneHolder
  <1>5. \A d, e \in Coroutines, j \in Conns : Holds(d, j)' /\ Holds(e, j)' => d = e
    BY <1>2, <1>3 DEF IInv, FlagHasOneHolder
  <1>6. QED
    BY <1>4, <1>5 DEF FlagHasOneHolder

LEMMA FlagCleared ==
    ASSUME IInv, NEW c \in Coroutines, NEW k \in Conns,
           Holds(c, k),
           \A d \in Callers, j \in Conns : Holds(d, j)' <=> d # c /\ Holds(d, j),
           busy' = [busy EXCEPT ![k] = FALSE]
    PROVE  FlagHasOneHolder'
  <1>1. /\ busy'[k] = FALSE
        /\ \A j \in Conns \ {k} : busy'[j] = busy[j]
    BY FlagSet
  <1>2. \A d \in Coroutines : d \in Callers
    BY CallersAssumption
  <1>3. \A j \in Conns \ {k} : ~Holds(c, j)
    BY DEF Holds
  <1>4. \A d \in Coroutines : d # c => ~Holds(d, k)
    BY DEF IInv, FlagHasOneHolder
  <1>5. \A j \in Conns : busy'[j] <=> \E d \in Coroutines : Holds(d, j)'
    BY <1>1, <1>2, <1>3, <1>4 DEF IInv, FlagHasOneHolder
  <1>6. \A d, e \in Coroutines, j \in Conns : Holds(d, j)' /\ Holds(e, j)' => d = e
    BY <1>2 DEF IInv, FlagHasOneHolder
  <1>7. QED
    BY <1>5, <1>6 DEF FlagHasOneHolder

LEMMA FlagsKept ==
    ASSUME IInv,
           \A d \in Callers, j \in Conns : Holds(d, j)' <=> Holds(d, j),
           busy' = busy
    PROVE  FlagHasOneHolder'
  BY CallersAssumption DEF IInv, FlagHasOneHolder

-----------------------------------------------------------------------------
(* One lemma per action *)

LEMMA WaitKeeps ==
    ASSUME IInv, NEW c \in Callers, NEW k \in Conns, Wait(c, k)
    PROVE  IInv'
  <1> USE DEF Wait, Fresh, Yield, Keep
  <1>1. /\ c \in Coroutines
        /\ pc[c] \in {"out", "asleep", "spinning"}
        /\ task[c] = "none"
        /\ \A j \in Conns : ~Holds(c, j)
    BY AtLockFacts
  <1>2. TypeOK'
    BY <1>1, CallersAssumption DEF IInv, TypeOK, Places, TaskStates, States
  <1>3. FlagHasOneHolder'
    <2>1. \A d \in Callers, j \in Conns : Holds(d, j)' <=> Holds(d, j)
      BY <1>1 DEF IInv, TypeOK, Holds, Located
    <2>2. QED
      BY <2>1, FlagsKept
  <1>4. Located' /\ NoDanglingTask'
    BY <1>1, CallersAssumption DEF IInv, TypeOK, Located, NoDanglingTask
  <1>5. QueueOK'
    BY <1>1, CallersAssumption DEF IInv, TypeOK, QueueOK
  <1>6. NotYetRan' /\ SuccessMeansRan'
    BY <1>1, CallersAssumption DEF IInv, TypeOK, NotYetRan, SuccessMeansRan
  <1>7. QED
    BY <1>2, <1>3, <1>4, <1>5, <1>6 DEF IInv

LEMMA LockAndQueueKeeps ==
    ASSUME IInv, NEW c \in Callers, NEW k \in Conns, LockAndQueue(c, k)
    PROVE  IInv'
  <1> USE DEF LockAndQueue, Fresh, Yield
  <1>1. /\ c \in Coroutines
        /\ pc[c] \in {"out", "asleep", "spinning"}
        /\ task[c] = "none"
        /\ \A j \in Conns : ~Holds(c, j)
    BY AtLockFacts
  <1>2. /\ queue' \in Seq(Callers)
        /\ Len(queue) \in Nat
        /\ Len(queue') = Len(queue) + 1
        /\ \A i \in 1..Len(queue) : queue'[i] = queue[i]
        /\ queue'[Len(queue) + 1] = c
    BY QueueAppend DEF IInv, TypeOK
  <1>3. TypeOK'
    BY <1>1, <1>2, CallersAssumption DEF IInv, TypeOK, Places, TaskStates, States
  <1>4. FlagHasOneHolder'
    <2>1. \A d \in Callers, j \in Conns :
             Holds(d, j)' <=> IF d = c THEN j = k ELSE Holds(d, j)
      BY <1>1 DEF IInv, TypeOK, Holds
    <2>2. QED
      BY <1>1, <2>1, FlagTaken
  <1>5. Located' /\ NoDanglingTask'
    BY <1>1, <1>2, CallersAssumption DEF IInv, TypeOK, Located, NoDanglingTask
  <1>6. QueueOK'
    BY <1>1, <1>2, CallersAssumption DEF IInv, TypeOK, QueueOK
  <1>7. NotYetRan' /\ SuccessMeansRan'
    BY <1>1, <1>2, CallersAssumption DEF IInv, TypeOK, NotYetRan, SuccessMeansRan
  <1>8. QED
    BY <1>3, <1>4, <1>5, <1>6, <1>7 DEF IInv

LEMMA LockAndRefusedKeeps ==
    ASSUME IInv, NEW c \in Callers, NEW k \in Conns, LockAndRefused(c, k)
    PROVE  IInv'
  <1> USE DEF LockAndRefused, Fresh, Leave
  <1>1. /\ c \in Coroutines
        /\ pc[c] \in {"out", "asleep", "spinning"}
        /\ task[c] = "none"
        /\ \A j \in Conns : ~Holds(c, j)
    BY AtLockFacts
  <1>2. TypeOK'
    BY <1>1, CallersAssumption DEF IInv, TypeOK, Places, TaskStates, States
  <1>3. FlagHasOneHolder'
    <2>1. \A d \in Callers, j \in Conns : Holds(d, j)' <=> Holds(d, j)
      BY <1>1 DEF IInv, TypeOK, Holds, Located
    <2>2. QED
      BY <2>1, FlagsKept
  <1>4. Located' /\ NoDanglingTask'
    BY <1>1, CallersAssumption DEF IInv, TypeOK, Located, NoDanglingTask
  <1>5. QueueOK'
    BY <1>1, CallersAssumption DEF IInv, TypeOK, QueueOK
  <1>6. NotYetRan' /\ SuccessMeansRan'
    BY <1>1, CallersAssumption DEF IInv, TypeOK, NotYetRan, SuccessMeansRan
  <1>7. QED
    BY <1>2, <1>3, <1>4, <1>5, <1>6 DEF IInv

LEMMA LockAndRunKeeps ==
    ASSUME IInv, NEW c \in Callers, NEW k \in Conns, LockAndRun(c, k)
    PROVE  IInv'
  <1> USE DEF LockAndRun, Fresh, Keep
  <1>1. /\ c \in Coroutines
        /\ pc[c] \in {"out", "asleep", "spinning"}
        /\ task[c] = "none"
        /\ \A j \in Conns : ~Holds(c, j)
    BY AtLockFacts
  <1>2. TypeOK'
    BY <1>1, CallersAssumption DEF IInv, TypeOK, Places, TaskStates, States
  <1>3. FlagHasOneHolder'
    <2>1. \A d \in Callers, j \in Conns :
             Holds(d, j)' <=> IF d = c THEN j = k ELSE Holds(d, j)
      BY <1>1 DEF IInv, TypeOK, Holds
    <2>2. QED
      BY <1>1, <2>1, FlagTaken
  <1>4. Located' /\ NoDanglingTask'
    BY <1>1, CallersAssumption DEF IInv, TypeOK, Located, NoDanglingTask
  <1>5. QueueOK'
    BY <1>1, CallersAssumption DEF IInv, TypeOK, QueueOK
  <1>6. NotYetRan' /\ SuccessMeansRan'
    BY <1>1, CallersAssumption DEF IInv, TypeOK, NotYetRan, SuccessMeansRan
  <1>7. QED
    BY <1>2, <1>3, <1>4, <1>5, <1>6 DEF IInv

LEMMA RunInlineKeeps ==
    ASSUME IInv, NEW c \in Callers, NEW k \in Conns, RunInline(c, k)
    PROVE  IInv'
  <1> USE DEF RunInline, Calls, Fresh, Keep
  <1>1. TypeOK'
    BY CallersAssumption DEF IInv, TypeOK, Places, TaskStates, States
  <1>2. FlagHasOneHolder'
    <2>1. \A d \in Callers, j \in Conns : Holds(d, j)' <=> Holds(d, j)
      BY DEF IInv, TypeOK, Holds, Located
    <2>2. QED
      BY <2>1, FlagsKept
  <1>3. Located' /\ NoDanglingTask'
    BY CallersAssumption DEF IInv, TypeOK, Located, NoDanglingTask
  <1>4. QueueOK'
    BY CallersAssumption DEF IInv, TypeOK, QueueOK
  <1>5. NotYetRan' /\ SuccessMeansRan'
    BY CallersAssumption DEF IInv, TypeOK, NotYetRan, SuccessMeansRan
  <1>6. QED
    BY <1>1, <1>2, <1>3, <1>4, <1>5 DEF IInv

LEMMA InlineEndsKeeps ==
    ASSUME IInv, NEW c \in Callers, InlineEnds(c)
    PROVE  IInv'
  <1> USE DEF InlineEnds, FnEnds, Leave
  <1>1. TypeOK'
    BY CallersAssumption DEF IInv, TypeOK, Places, TaskStates, States, Located
  <1>2. FlagHasOneHolder'
    <2>1. CASE c \in Coroutines
      <3>1. conn[c] \in Conns /\ Holds(c, conn[c])
        BY <2>1 DEF IInv, Located, Holds
      <3>2. \A d \in Callers, j \in Conns : Holds(d, j)' <=> d # c /\ Holds(d, j)
        BY <3>1, CallersAssumption DEF IInv, TypeOK, Holds
      <3>3. QED
        BY <2>1, <3>1, <3>2, FlagCleared
    <2>2. CASE c \notin Coroutines
      <3>1. \A d \in Callers, j \in Conns : Holds(d, j)' <=> Holds(d, j)
        BY <2>2 DEF IInv, TypeOK, Holds
      <3>2. QED
        BY <2>2, <3>1, FlagsKept
    <2>3. QED
      BY <2>1, <2>2
  <1>3. Located' /\ NoDanglingTask'
    BY CallersAssumption DEF IInv, TypeOK, Located, NoDanglingTask
  <1>4. QueueOK'
    BY CallersAssumption DEF IInv, TypeOK, QueueOK
  <1>5. NotYetRan' /\ SuccessMeansRan'
    <2>1. ran[c] = 0 /\ pc[c] = "inline" /\ task[c] = "none"
      BY DEF IInv, TypeOK, TaskStates, NoDanglingTask, NotYetRan
    <2>2. ran' = [ran EXCEPT ![c] = 1]
      BY <2>1
    <2>3. \A d \in Callers \ {c} :
             /\ ran'[d] = ran[d] /\ state'[d] = state[d]
             /\ pc'[d] = pc[d] /\ task'[d] = task[d]
      BY DEF IInv, TypeOK
    <2>4. ran'[c] = 1 /\ pc'[c] \in {"out", "yielded"} /\ task'[c] \in {"none", "done"}
      BY <2>1, <2>2 DEF IInv, TypeOK
    <2>5. QED
      BY <2>3, <2>4 DEF IInv, NotYetRan, SuccessMeansRan
  <1>6. QED
    BY <1>1, <1>2, <1>3, <1>4, <1>5 DEF IInv

LEMMA WorkerEndsKeeps ==
    ASSUME IInv, NEW c \in Callers, WorkerEnds(c)
    PROVE  IInv'
  <1> USE DEF WorkerEnds, FnEnds
  <1>1. TypeOK'
    BY CallersAssumption DEF IInv, TypeOK, Places, TaskStates, States, Located
  <1>2. FlagHasOneHolder'
    <2>1. \A d \in Callers, j \in Conns : Holds(d, j)' <=> Holds(d, j)
      BY DEF IInv, TypeOK, Holds, Located
    <2>2. QED
      BY <2>1, FlagsKept
  <1>3. Located' /\ NoDanglingTask'
    BY CallersAssumption DEF IInv, TypeOK, Located, NoDanglingTask
  <1>4. QueueOK'
    BY CallersAssumption DEF IInv, TypeOK, QueueOK
  <1>5. NotYetRan' /\ SuccessMeansRan'
    <2>1. ran[c] = 0 /\ pc[c] = "yielded" /\ task[c] = "running"
      BY DEF IInv, TypeOK, TaskStates, NoDanglingTask, NotYetRan
    <2>2. ran' = [ran EXCEPT ![c] = 1]
      BY <2>1
    <2>3. \A d \in Callers \ {c} :
             /\ ran'[d] = ran[d] /\ state'[d] = state[d]
             /\ pc'[d] = pc[d] /\ task'[d] = task[d]
      BY DEF IInv, TypeOK
    <2>4. ran'[c] = 1 /\ pc'[c] \in {"out", "yielded"} /\ task'[c] \in {"none", "done"}
      BY <2>1, <2>2 DEF IInv, TypeOK
    <2>5. QED
      BY <2>3, <2>4 DEF IInv, NotYetRan, SuccessMeansRan
  <1>6. QED
    BY <1>1, <1>2, <1>3, <1>4, <1>5 DEF IInv

LEMMA ResumeKeeps ==
    ASSUME IInv, NEW c \in Callers, Resume(c)
    PROVE  IInv'
  <1> USE DEF Resume, Leave
  <1>1. TypeOK'
    BY CallersAssumption DEF IInv, TypeOK, Places, TaskStates, States, Located
  <1>2. FlagHasOneHolder'
    <2>1. c \in Coroutines /\ conn[c] \in Conns /\ Holds(c, conn[c])
      BY DEF IInv, TypeOK, Located, Holds
    <2>2. \A d \in Callers, j \in Conns : Holds(d, j)' <=> d # c /\ Holds(d, j)
      BY <2>1, CallersAssumption DEF IInv, TypeOK, Holds
    <2>3. QED
      BY <2>1, <2>2, FlagCleared
  <1>3. Located' /\ NoDanglingTask'
    BY CallersAssumption DEF IInv, TypeOK, Located, NoDanglingTask
  <1>4. QueueOK'
    BY CallersAssumption DEF IInv, TypeOK, QueueOK
  <1>5. NotYetRan' /\ SuccessMeansRan'
    BY CallersAssumption DEF IInv, TypeOK, NotYetRan, SuccessMeansRan
  <1>6. QED
    BY <1>1, <1>2, <1>3, <1>4, <1>5 DEF IInv

LEMMA WorkerTakesKeeps ==
    ASSUME IInv, WorkerTakes
    PROVE  IInv'
  <1> USE DEF WorkerTakes
  <1>1. /\ queue' \in Seq(Callers)
        /\ Len(queue) \in Nat \ {0}
        /\ Len(queue') = Len(queue) - 1
        /\ Head(queue) = queue[1] /\ Head(queue) \in Callers
        /\ \A i \in 1..Len(queue') : queue'[i] = queue[i + 1]
    BY QueueTail DEF IInv, TypeOK
  <1>2. /\ task[Head(queue)] = "queued"
        /\ task' = [task EXCEPT ![Head(queue)] = "running"]
        /\ \A i \in 1..Len(queue') : queue'[i] # Head(queue)
    <2>1. \A i \in 1..Len(queue') : i + 1 \in 1..Len(queue) /\ 1 \in 1..Len(queue)
      BY <1>1
    <2>2. 1 \in 1..Len(queue)
      BY <1>1
    <2>3. QED
      BY <1>1, <2>1, <2>2 DEF IInv, QueueOK
  <1>3. TypeOK'
    BY <1>1, CallersAssumption DEF IInv, TypeOK, Places, TaskStates, States
  <1>4. FlagHasOneHolder'
    <2>1. \A d \in Callers, j \in Conns : Holds(d, j)' <=> Holds(d, j)
      BY DEF IInv, TypeOK, Holds, Located
    <2>2. QED
      BY <2>1, FlagsKept
  <1>5. Located' /\ NoDanglingTask'
    BY <1>1, <1>2, CallersAssumption DEF IInv, TypeOK, Located, NoDanglingTask
  <1>6. QueueOK'
    BY <1>1, <1>2, CallersAssumption DEF IInv, TypeOK, QueueOK
  <1>7. NotYetRan' /\ SuccessMeansRan'
    BY <1>1, <1>2, CallersAssumption DEF IInv, TypeOK, NotYetRan, SuccessMeansRan
  <1>8. QED
    BY <1>3, <1>4, <1>5, <1>6, <1>7 DEF IInv

LEMMA NextKeeps == IInv /\ [Next]_vars => IInv'
  <1> SUFFICES ASSUME IInv, [Next]_vars PROVE IInv'
    OBVIOUS
  <1>1. ASSUME NEW c \in Callers, NEW k \in Conns, Try(c, k) \/ RunInline(c, k)
        PROVE  IInv'
    BY <1>1, WaitKeeps, LockAndQueueKeeps, LockAndRefusedKeeps, LockAndRunKeeps,
       RunInlineKeeps DEF Try
  <1>2. ASSUME NEW c \in Callers, InlineEnds(c) \/ WorkerEnds(c) \/ Resume(c)
        PROVE  IInv'
    BY <1>2, InlineEndsKeeps, WorkerEndsKeeps, ResumeKeeps
  <1>3. CASE WorkerTakes
    BY <1>3, WorkerTakesKeeps
  <1>4. CASE UNCHANGED vars
    BY <1>4 DEF vars, IInv, TypeOK, Located, QueueOK, NoDanglingTask, FlagHasOneHolder,
                Holds, NotYetRan, SuccessMeansRan
  <1>5. QED
    BY <1>1, <1>2, <1>3, <1>4 DEF Next

-----------------------------------------------------------------------------
(* The theorems *)

(* Every behaviour stays inside the inductive invariant. *)
THEOREM DispatchInvariance == Spec => []IInv
  <1>1. QED
    BY InitIInv, NextKeeps, PTL DEF Spec

(* Every variable of swoole_run() keeps its type. *)
THEOREM DispatchTypeCorrect == Spec => []TypeOK
  <1>1. IInv => TypeOK
    BY DEF IInv
  <1>2. QED
    BY <1>1, DispatchInvariance, PTL

(* The busy flag of a connection is set exactly while one coroutine holds it. *)
THEOREM FlagHasOneHolderHolds == Spec => []FlagHasOneHolder
  <1>1. IInv => FlagHasOneHolder
    BY DEF IInv
  <1>2. QED
    BY <1>1, DispatchInvariance, PTL

(* Two coroutines never have a DuckDB call in progress on one connection. *)
THEOREM MutualExclusion == Spec => []Exclusive
  <1>1. IInv => Exclusive
    <2> SUFFICES ASSUME IInv, NEW c \in Coroutines, NEW d \in Coroutines,
                        InCall(c), InCall(d), conn[c] = conn[d]
                 PROVE  c = d
      BY DEF Exclusive
    <2>1. c \in Callers /\ d \in Callers
      BY CallersAssumption
    <2>2. /\ conn[c] \in Conns /\ Holds(c, conn[c])
          /\ conn[d] \in Conns /\ Holds(d, conn[d])
      BY <2>1 DEF InCall, Holds, IInv, Located, NoDanglingTask
    <2>3. QED
      BY <2>2 DEF IInv, FlagHasOneHolder
  <1>2. QED
    BY <1>1, DispatchInvariance, PTL

(* A task that the pool still has belongs to a caller inside swoole_run(). *)
THEOREM NoDanglingTaskHolds == Spec => []NoDanglingTask
  <1>1. IInv => NoDanglingTask
    BY DEF IInv
  <1>2. QED
    BY <1>1, DispatchInvariance, PTL

(* A wrapper that returns success has run its call, once. *)
THEOREM SuccessMeansRanHolds == Spec => []SuccessMeansRan
  <1>1. IInv => SuccessMeansRan
    BY DEF IInv
  <1>2. QED
    BY <1>1, DispatchInvariance, PTL

(* Where every caller is a coroutine, all calls on a connection are serialized. *)
THEOREM SerializedAmongCoroutines ==
    ASSUME Callers \subseteq Coroutines
    PROVE  Spec => []CallsSerialized
  <1>1. Exclusive => CallsSerialized
    BY DEF Exclusive, CallsSerialized
  <1>2. QED
    BY <1>1, MutualExclusion, PTL
=============================================================================
