--------------------------- MODULE StatementProofs ---------------------------
(***************************************************************************)
(* Proofs about module Statement, for any number of statements, any        *)
(* results a query can return and every version of PDO core.               *)
(***************************************************************************)
EXTENDS Statement, TLAPS

-----------------------------------------------------------------------------
(* Facts about contents and the helpers *)

(* Chunks are not empty, and RowsBefore adds up their sizes. *)
LEMMA ContentFacts ==
    ASSUME NEW c \in Contents
    PROVE  /\ c.cols \in Nat
           /\ c.err \in BOOLEAN
           /\ ChunkCount(c) \in Nat
           /\ \A k \in 0..ChunkCount(c) : RowsBefore(c, k) \in Nat
           /\ \A k \in Nat : k < ChunkCount(c) =>
                 /\ ChunkSize(c, k) \in Nat
                 /\ ChunkSize(c, k) > 0
                 /\ RowsBefore(c, k + 1) = RowsBefore(c, k) + ChunkSize(c, k)
           /\ RowCount(c) \in Nat
  <1>1. /\ c \in [cols : Nat, bounds : Seq(Nat), err : BOOLEAN]
        /\ \A k \in 1..Len(c.bounds) : c.bounds[k] > 0
        /\ \A j, k \in 1..Len(c.bounds) : j < k => c.bounds[j] < c.bounds[k]
    BY ContentsAssumption
  <1>2. ChunkCount(c) \in Nat
    BY <1>1 DEF ChunkCount
  <1>3. ASSUME NEW k \in 0..ChunkCount(c)
        PROVE  RowsBefore(c, k) \in Nat
    BY <1>1, <1>3 DEF ChunkCount, RowsBefore
  <1>4. ASSUME NEW k \in Nat, k < ChunkCount(c)
        PROVE  /\ ChunkSize(c, k) \in Nat
               /\ ChunkSize(c, k) > 0
               /\ RowsBefore(c, k + 1) = RowsBefore(c, k) + ChunkSize(c, k)
    <2>1. k \in 0..ChunkCount(c) /\ k + 1 \in 1..ChunkCount(c)
      BY <1>2, <1>4
    <2>2. RowsBefore(c, k) \in Nat /\ RowsBefore(c, k + 1) \in Nat
      BY <1>2, <1>3, <2>1
    <2>3. RowsBefore(c, k + 1) > RowsBefore(c, k)
      BY <1>1, <2>1, <1>4 DEF ChunkCount, RowsBefore
    <2>4. QED
      BY <2>2, <2>3 DEF ChunkSize
  <1>5. RowCount(c) \in Nat
    BY <1>2, <1>3 DEF RowCount
  <1>6. QED
    BY <1>1, <1>2, <1>3, <1>4, <1>5

(* SetColumnCount and Describe keep the described columns countable. *)
ColumnsOK(p) == p.columns \in {Nil, p.column_count}

LEMMA ColumnFacts ==
    ASSUME NEW p \in PdoRecord, ColumnsOK(p), NEW n \in Nat
    PROVE  /\ SetColumnCount(p, n) \in PdoRecord
           /\ SetColumnCount(p, n).column_count = n
           /\ SetColumnCount(p, n).executed = p.executed
           /\ ColumnsOK(SetColumnCount(p, n))
           /\ Describe(p) \in PdoRecord
           /\ Describe(p).column_count = p.column_count
           /\ Describe(p).executed = p.executed
           /\ ColumnsOK(Describe(p))
           /\ PdoClosed(p) \in PdoRecord
           /\ PdoClosed(p).column_count = 0
           /\ ColumnsOK(PdoClosed(p))
  BY DEF PdoRecord, ColumnsOK, SetColumnCount, Describe, PdoClosed

-----------------------------------------------------------------------------
(* The inductive invariant: the invariants that the runs check, together. *)

IInv == TypeOK /\ Ownership /\ Coherence /\ StreamReachable /\ ColumnsFreed

LEMMA InitIInv == Init => IInv
  <1> SUFFICES ASSUME Init PROVE IInv
    OBVIOUS
  <1>1. TypeOK
    <2>1. NewPdo \in PdoRecord /\ NoRow \in Reply
      BY DEF NewPdo, PdoRecord, NoRow, Reply
    <2>2. QED
      BY <2>1 DEF Init, TypeOK
  <1>2. Ownership
    BY DEF Init, Ownership, HoldsResult, HoldsChunk
  <1>3. Coherence /\ StreamReachable
    BY DEF Init, Coherence, StreamReachable
  <1>4. ColumnsFreed
    BY DEF Init, ColumnsFreed, NewPdo
  <1>5. QED
    BY <1>1, <1>2, <1>3, <1>4 DEF IInv

(***************************************************************************)
(* What the free-the-old-result parts of a handler for s leave: nothing at *)
(* the addresses s held, everything elsewhere.                             *)
(***************************************************************************)
LEMMA DestroyFacts ==
    ASSUME IInv, NEW s \in Stmts, S[s] # Nil
    PROVE  /\ S[s] \in StmtRecord
           /\ DestroyResult(s) \in [Results -> Result \cup {Nil}]
           /\ DestroyChunk(s) \in [Chunks -> Chunk \cup {Nil}]
           /\ StreamAfterDestroy(s) \in Results \cup {Nil}
           /\ \A r \in Results : DestroyResult(s)[r] =
                 IF HoldsResult(s, r) THEN Nil ELSE results[r]
           /\ \A k \in Chunks : DestroyChunk(s)[k] =
                 IF HoldsChunk(s, k) THEN Nil ELSE chunks[k]
  BY NilAssumption
     DEF IInv, TypeOK, Ownership, DestroyResult, DestroyChunk, StreamAfterDestroy,
         HoldsResult, HoldsChunk, StmtRecord

-----------------------------------------------------------------------------
(* Every handler keeps the inductive invariant. *)

LEMMA FetchInChunkKeeps ==
    ASSUME IInv, NEW s \in Stmts, FetchInChunk(s)
    PROVE  IInv'
  <1> USE DEF FetchInChunk, Fetchable, InChunk
  <1>1. /\ S[s] \in StmtRecord /\ S[s].chunk \in Chunks /\ S[s].result \in Results
        /\ chunks[S[s].chunk] \in Chunk
        /\ results[S[s].result] \in Result
        /\ ChunkAtHand(s)
    BY NilAssumption
       DEF IInv, TypeOK, Ownership, Coherence, StmtRecord, ChunkAtHand
  <1>2. TypeOK'
    <2>1. S' \in [Stmts -> StmtRecord \cup {Nil}]
      BY <1>1 DEF IInv, TypeOK, StmtRecord
    <2>2. pdo' \in [Stmts -> PdoRecord]
      BY ColumnFacts DEF IInv, TypeOK, ColumnsFreed, ColumnsOK
    <2>3. RowAt(chunks[S[s].chunk], S[s].chunk_idx + 1) \in Nat
      BY <1>1, ContentFacts DEF RowAt, ChunkAtHand, StmtRecord, Chunk, Result
    <2>4. reply' \in [Stmts -> Reply]
      BY <2>3 DEF IInv, TypeOK, Reply, Row
    <2>5. QED
      BY <2>1, <2>2, <2>4 DEF IInv, TypeOK
  <1>3. Ownership'
    BY <1>1, NilAssumption DEF IInv, TypeOK, Ownership, HoldsResult, HoldsChunk, StmtRecord
  <1>4. Coherence'
    BY <1>1, ColumnFacts, NilAssumption
       DEF IInv, TypeOK, ColumnsFreed, ColumnsOK, Coherence, ChunkAtHand, ResultAtHand, NextChunk, StmtRecord
  <1>5. StreamReachable'
    BY <1>1, ColumnFacts, NilAssumption
       DEF IInv, TypeOK, ColumnsFreed, ColumnsOK, StreamReachable, HoldsResult, StmtRecord
  <1>6. ColumnsFreed'
    BY ColumnFacts DEF IInv, TypeOK, ColumnsFreed, ColumnsOK
  <1>7. QED
    BY <1>2, <1>3, <1>4, <1>5, <1>6 DEF IInv

(* A statement that a handler for another one leaves alone stays coherent. *)
LEMMA CoherenceFrame ==
    ASSUME Coherence, NEW t \in Stmts, S[t] # Nil,
           S'[t] = S[t], pdo'[t] = pdo[t],
           S[t].result_set => results'[S[t].result] = results[S[t].result],
           S[t].chunk # Nil => chunks'[S[t].chunk] = chunks[S[t].chunk]
    PROVE  /\ S'[t].result_set => ResultAtHand(t)'
           /\ S'[t].chunk # Nil => ChunkAtHand(t)'
  BY DEF Coherence, ChunkAtHand, ResultAtHand, NextChunk

LEMMA FetchNextChunkKeeps ==
    ASSUME IInv, NEW s \in Stmts, NEW k \in Chunks, FetchNextChunk(s, k)
    PROVE  IInv'
  <1> DEFINE r == S[s].result
             content == results[r].content
             index == NextChunk(s)
  <1> USE DEF FetchNextChunk, Fetchable, InChunk
  <1>1. /\ S[s] \in StmtRecord /\ r \in Results
        /\ results[r] \in Result /\ content \in Contents
        /\ index \in Nat /\ index < ChunkCount(content)
        /\ ResultAtHand(s)
        /\ S[s].chunk # Nil => ChunkAtHand(s) /\ S[s].chunk \in Chunks
    BY NilAssumption
       DEF IInv, TypeOK, Ownership, Coherence, StmtRecord, Result, NextChunk
  <1>2. /\ ChunkSize(content, index) \in Nat
        /\ ChunkSize(content, index) > 0
        /\ RowsBefore(content, index) \in Nat
    BY <1>1, ContentFacts
  <1>3. RowsConsumed(s) \in Nat /\ RowsConsumed(s) = RowsBefore(content, index)
    <2>1. CASE S[s].chunk = Nil
      BY <1>1, <2>1 DEF RowsConsumed, ResultAtHand, RowsBefore, StmtRecord
    <2>2. CASE S[s].chunk # Nil
      <3>1. chunks[S[s].chunk] \in Chunk
        BY <1>1, <2>2 DEF IInv, TypeOK, Ownership
      <3>2. ChunkAtHand(s)
        BY <1>1, <2>2
      <3>3. QED
        BY <1>1, <1>2, <2>2, <3>1, <3>2, ContentFacts
           DEF RowsConsumed, ChunkAtHand, StmtRecord, Chunk
    <2>3. QED
      BY <2>1, <2>2
  <1>4. /\ chunks' \in [Chunks -> Chunk \cup {Nil}]
        /\ chunks'[k] = [of |-> r, index |-> index]
        /\ ~HoldsChunk(s, k) => chunks[k] = Nil
        /\ \A j \in Chunks : j # k => chunks'[j] = IF HoldsChunk(s, j) THEN Nil ELSE chunks[j]
    BY <1>1, DestroyFacts DEF Chunk
  <1>5. /\ S'[s] \in StmtRecord /\ S'[s] # Nil
        /\ S'[s].result_set /\ S'[s].result = r /\ S'[s].chunk = k
        /\ \A t \in Stmts : t # s => S'[t] = S[t]
        /\ S' \in [Stmts -> StmtRecord \cup {Nil}]
    <2> DEFINE size == ChunkSize(content, index)
               total == RowsConsumed(s)
               next == IF S[s].is_streaming THEN S[s].next_chunk_index
                                            ELSE S[s].next_chunk_index + 1
    <2>1. size \in Nat /\ total \in Nat /\ next \in Nat
      BY <1>1, <1>2, <1>3 DEF StmtRecord
    <2>2. S[s] # Nil /\ S[s].result_set
      OBVIOUS
    <2>3. S' = [S EXCEPT ![s].chunk = k, ![s].chunk_idx = 0,
                         ![s].chunk_size = size, ![s].total_rows = total,
                         ![s].next_chunk_index = next]
      OBVIOUS
    <2> HIDE DEF FetchNextChunk, size, total, next
    <2>4. /\ S'[s] \in StmtRecord
          /\ S'[s].result_set /\ S'[s].result = r /\ S'[s].chunk = k
          /\ \A t \in Stmts : t # s => S'[t] = S[t]
          /\ S' \in [Stmts -> StmtRecord \cup {Nil}]
      BY <1>1, <2>1, <2>2, <2>3 DEF IInv, TypeOK, StmtRecord
    <2>5. QED
      BY <2>4, NilAssumption
  <1>6. TypeOK'
    <2>2. pdo' \in [Stmts -> PdoRecord]
      BY ColumnFacts DEF IInv, TypeOK, ColumnsFreed, ColumnsOK
    <2>3. results' \in [Results -> Result \cup {Nil}]
      BY <1>1 DEF IInv, TypeOK, Result
    <2>4. RowAt([of |-> r, index |-> index], 0) \in Nat
      BY <1>1, <1>2 DEF RowAt
    <2>5. reply' \in [Stmts -> Reply]
      BY <2>4 DEF IInv, TypeOK, Reply, Row
    <2>6. QED
      BY <1>4, <1>5, <2>2, <2>3, <2>5 DEF IInv, TypeOK
  <1>7. Ownership'
    <2>0. S[s] # Nil /\ S[s].result_set
      OBVIOUS
    <2>1. /\ \A t \in Stmts, j \in Results : HoldsResult(t, j)' <=> HoldsResult(t, j)
          /\ \A t \in Stmts, j \in Chunks :
                HoldsChunk(t, j)' <=> IF t = s THEN j = k ELSE HoldsChunk(t, j)
      <3> HIDE DEF FetchNextChunk
      <3>1. ASSUME NEW t \in Stmts, t # s
            PROVE  /\ \A j \in Results : HoldsResult(t, j)' <=> HoldsResult(t, j)
                   /\ \A j \in Chunks : HoldsChunk(t, j)' <=> HoldsChunk(t, j)
        BY <1>5, <3>1 DEF HoldsResult, HoldsChunk
      <3>2. /\ \A j \in Results : HoldsResult(s, j)' <=> HoldsResult(s, j)
            /\ \A j \in Chunks : HoldsChunk(s, j)' <=> j = k
        BY <1>5, <2>0 DEF HoldsResult, HoldsChunk
      <3>3. QED
        BY <3>1, <3>2
    <2>2. \A j \in Results : results'[j] # Nil <=> results[j] # Nil
      BY <1>1, <1>6, NilAssumption DEF IInv, TypeOK, Result
    <2>3. /\ \A j \in Results : results'[j] # Nil => \E t \in Stmts : HoldsResult(t, j)'
          /\ \A j \in Chunks : chunks'[j] # Nil => \E t \in Stmts : HoldsChunk(t, j)'
      BY <1>4, <2>1, <2>2 DEF IInv, Ownership
    <2>4. \A t \in Stmts : S'[t] # Nil =>
            /\ S'[t].result_set <=> S'[t].result # Nil
            /\ S'[t].result # Nil => results'[S'[t].result] # Nil
            /\ S'[t].chunk # Nil => chunks'[S'[t].chunk] # Nil
      <3> SUFFICES ASSUME NEW t \in Stmts, S'[t] # Nil
                   PROVE  /\ S'[t].result_set <=> S'[t].result # Nil
                          /\ S'[t].result # Nil => results'[S'[t].result] # Nil
                          /\ S'[t].chunk # Nil => chunks'[S'[t].chunk] # Nil
        OBVIOUS
      <3>1. CASE t = s
        BY <1>1, <1>4, <2>2, <3>1, NilAssumption
           DEF IInv, TypeOK, Ownership, StmtRecord, Chunk
      <3>2. CASE t # s
        <4> HIDE DEF FetchNextChunk
        <4>1. S'[t] = S[t] /\ S[t] # Nil /\ S[t] \in StmtRecord
          BY <1>5, <3>2 DEF IInv, TypeOK
        <4>2. /\ S[t].result_set <=> S[t].result # Nil
              /\ S[t].result # Nil => results[S[t].result] # Nil
              /\ S[t].chunk # Nil => chunks[S[t].chunk] # Nil
          BY <4>1 DEF IInv, Ownership
        <4>3. S[t].result # Nil => results'[S[t].result] # Nil
          BY <2>2, <4>1, <4>2 DEF StmtRecord
        <4>4. ASSUME S[t].chunk # Nil PROVE chunks'[S[t].chunk] # Nil
          <5>1. PICK j \in Chunks : j = S[t].chunk /\ chunks[j] # Nil
            BY <4>1, <4>2, <4>4 DEF StmtRecord
          <5>2. ~HoldsChunk(s, j)
            BY <3>2, <4>1, <5>1 DEF IInv, Ownership, HoldsChunk
          <5>3. [of |-> r, index |-> index] # Nil
            BY <1>1, NilAssumption DEF Chunk
          <5>4. QED
            BY <1>4, <5>1, <5>2, <5>3
        <4>5. QED
          BY <4>1, <4>2, <4>3, <4>4
      <3>3. QED
        BY <3>1, <3>2
    <2>5. \A t, u \in Stmts : t # u =>
            /\ \A j \in Results : ~(HoldsResult(t, j)' /\ HoldsResult(u, j)')
            /\ \A j \in Chunks : ~(HoldsChunk(t, j)' /\ HoldsChunk(u, j)')
      <3> HIDE DEF FetchNextChunk
      <3>1. \A t \in Stmts : t # s => ~HoldsChunk(t, k)
        BY <1>4, NilAssumption DEF IInv, Ownership, HoldsChunk
      <3>2. QED
        BY <2>1, <3>1 DEF IInv, Ownership
    <2>6. QED
      BY <2>3, <2>4, <2>5 DEF Ownership
  <1>8. Coherence'
    <2> SUFFICES ASSUME NEW t \in Stmts, S'[t] # Nil
                 PROVE  /\ S'[t].result_set => ResultAtHand(t)'
                        /\ S'[t].chunk # Nil => ChunkAtHand(t)'
      BY DEF Coherence
    <2>1. CASE t = s
      <3>1. ResultAtHand(s)'
        <4>1. /\ S'[s].is_streaming = S[s].is_streaming /\ S'[s].result = r
              /\ S'[s].chunk # Nil
              /\ results'[r].streaming = results[r].streaming
              /\ results'[r].content = content
          BY <1>1, NilAssumption DEF IInv, TypeOK, StmtRecord, Result
        <4>2. pdo'[s].column_count = pdo[s].column_count
          BY ColumnFacts DEF IInv, TypeOK, ColumnsFreed, ColumnsOK
        <4>3. QED
          BY <1>1, <4>1, <4>2 DEF ResultAtHand
      <3>2. ChunkAtHand(s)'
        BY <1>1, <1>2, <1>3, <1>4
           DEF IInv, TypeOK, ChunkAtHand, ResultAtHand, NextChunk, StmtRecord, Result
      <3>3. QED
        BY <2>1, <3>1, <3>2
    <2>2. CASE t # s
      <3>1. /\ S'[t] = S[t] /\ pdo'[t] = pdo[t]
            /\ S[t].result_set => results'[S[t].result] = results[S[t].result]
            /\ S[t].chunk # Nil => chunks'[S[t].chunk] = chunks[S[t].chunk]
        BY <1>1, <1>4, <2>2, NilAssumption
           DEF IInv, TypeOK, Ownership, HoldsResult, HoldsChunk, StmtRecord
      <3>2. QED
        BY <3>1, CoherenceFrame DEF IInv
    <2>3. QED
      BY <2>1, <2>2
  <1>9. StreamReachable'
    <2>1. openStream' = openStream
      OBVIOUS
    <2>2. S'[s].is_streaming = S[s].is_streaming /\ S'[s].done = S[s].done
      BY <1>1 DEF IInv, TypeOK, StmtRecord
    <2>3. pdo'[s].executed = pdo[s].executed
      BY ColumnFacts DEF IInv, TypeOK, ColumnsFreed, ColumnsOK
    <2>4. \A t \in Stmts : t # s => pdo'[t] = pdo[t]
      BY DEF IInv, TypeOK
    <2>5. S[s] # Nil /\ S[s].result_set
      OBVIOUS
    <2> HIDE DEF FetchNextChunk, Fetchable, InChunk
    <2>6. ASSUME NEW t \in Stmts, HoldsResult(t, openStream), S[t].is_streaming,
                 pdo[t].executed, ~S[t].done
          PROVE  /\ HoldsResult(t, openStream)' /\ S'[t].is_streaming
                 /\ pdo'[t].executed /\ ~S'[t].done
      BY <1>5, <2>1, <2>2, <2>3, <2>4, <2>5, <2>6 DEF HoldsResult
    <2>7. QED
      BY <2>1, <2>6 DEF IInv, StreamReachable
  <1>10. ColumnsFreed'
    BY ColumnFacts DEF IInv, TypeOK, ColumnsFreed, ColumnsOK
  <1>11. QED
    BY <1>6, <1>7, <1>8, <1>9, <1>10 DEF IInv

LEMMA FetchLastKeeps ==
    ASSUME IInv, NEW s \in Stmts, FetchLast(s)
    PROVE  IInv'
  <1> DEFINE r == S[s].result
  <1> USE DEF FetchLast, Fetchable, InChunk
  <1>1. /\ S[s] \in StmtRecord /\ r \in Results
        /\ results[r] \in Result /\ results[r].content \in Contents
        /\ results[r].content.err \in BOOLEAN
        /\ ResultAtHand(s)
    BY NilAssumption, ContentFacts
       DEF IInv, TypeOK, Ownership, Coherence, StmtRecord, Result
  <1>2. RowsConsumed(s) \in Nat
    BY <1>1 DEF RowsConsumed, StmtRecord
  <1>3. /\ chunks' \in [Chunks -> Chunk \cup {Nil}]
        /\ \A j \in Chunks : chunks'[j] = IF HoldsChunk(s, j) THEN Nil ELSE chunks[j]
    BY <1>1, DestroyFacts
  <1>4. TypeOK'
    <2>1. S' \in [Stmts -> StmtRecord \cup {Nil}]
      BY <1>1, <1>2 DEF IInv, TypeOK, StmtRecord
    <2>2. results' \in [Results -> Result \cup {Nil}]
      BY <1>1 DEF IInv, TypeOK, Result
    <2>3. reply' \in [Stmts -> Reply]
      BY DEF IInv, TypeOK, Reply, End, Error
    <2>4. QED
      BY <1>3, <2>1, <2>2, <2>3 DEF IInv, TypeOK
  <1>5. Ownership'
    <2>1. /\ \A t \in Stmts, j \in Results : HoldsResult(t, j)' <=> HoldsResult(t, j)
          /\ \A t \in Stmts, j \in Chunks :
                HoldsChunk(t, j)' <=> t # s /\ HoldsChunk(t, j)
      BY <1>1, <1>4, NilAssumption DEF IInv, TypeOK, HoldsResult, HoldsChunk, StmtRecord
    <2>2. \A j \in Results : results'[j] # Nil <=> results[j] # Nil
      BY <1>1, <1>4, NilAssumption DEF IInv, TypeOK, Result
    <2>3. \A t \in Stmts : S'[t] # Nil =>
            /\ S'[t].result_set <=> S'[t].result # Nil
            /\ S'[t].result # Nil => results'[S'[t].result] # Nil
            /\ S'[t].chunk # Nil => chunks'[S'[t].chunk] # Nil
      BY <1>1, <1>3, <2>2, NilAssumption
         DEF IInv, TypeOK, Ownership, HoldsChunk, StmtRecord
    <2>4. QED
      BY <1>3, <2>1, <2>2, <2>3 DEF IInv, Ownership
  <1>6. Coherence'
    <2> SUFFICES ASSUME NEW t \in Stmts, S'[t] # Nil
                 PROVE  /\ S'[t].result_set => ResultAtHand(t)'
                        /\ S'[t].chunk # Nil => ChunkAtHand(t)'
      BY DEF Coherence
    <2>1. CASE t = s
      BY <1>1, <2>1 DEF IInv, TypeOK, ResultAtHand, StmtRecord, Result
    <2>2. CASE t # s
      <3>1. /\ S'[t] = S[t] /\ pdo'[t] = pdo[t]
            /\ S[t].result_set => results'[S[t].result] = results[S[t].result]
            /\ S[t].chunk # Nil => chunks'[S[t].chunk] = chunks[S[t].chunk]
        BY <1>1, <1>3, <2>2, NilAssumption
           DEF IInv, TypeOK, Ownership, HoldsResult, HoldsChunk, StmtRecord
      <3>2. QED
        BY <3>1, CoherenceFrame DEF IInv
    <2>3. QED
      BY <2>1, <2>2
  <1>7. StreamReachable'
    BY <1>1, NilAssumption
       DEF IInv, TypeOK, Ownership, StreamReachable, HoldsResult, StmtRecord
  <1>8. ColumnsFreed'
    BY DEF IInv, ColumnsFreed
  <1>9. QED
    BY <1>4, <1>5, <1>6, <1>7, <1>8 DEF IInv

(***************************************************************************)
(* The handlers that drop the result and let the statement live: whatever  *)
(* PDO core does to its own fields, as long as they stay countable.        *)
(***************************************************************************)
LEMMA DropResultKeeps ==
    ASSUME IInv, NEW s \in Stmts, S[s] # Nil, DropResult(s),
           NEW p \in PdoRecord, ColumnsOK(p), pdo' = [pdo EXCEPT ![s] = p],
           UNCHANGED unbuffered
    PROVE  IInv'
  <1> USE DEF DropResult
  <1>1. /\ S[s] \in StmtRecord
        /\ results' \in [Results -> Result \cup {Nil}]
        /\ chunks' \in [Chunks -> Chunk \cup {Nil}]
        /\ openStream' \in Results \cup {Nil}
        /\ \A r \in Results : results'[r] = IF HoldsResult(s, r) THEN Nil ELSE results[r]
        /\ \A j \in Chunks : chunks'[j] = IF HoldsChunk(s, j) THEN Nil ELSE chunks[j]
    BY DestroyFacts
  <1>2. TypeOK'
    BY <1>1 DEF IInv, TypeOK, StmtRecord, Reply, NoRow
  <1>3. Ownership'
    BY <1>1, NilAssumption
       DEF IInv, TypeOK, Ownership, HoldsResult, HoldsChunk, StmtRecord
  <1>4. Coherence'
    <2> SUFFICES ASSUME NEW t \in Stmts, S'[t] # Nil
                 PROVE  /\ S'[t].result_set => ResultAtHand(t)'
                        /\ S'[t].chunk # Nil => ChunkAtHand(t)'
      BY DEF Coherence
    <2>1. CASE t = s
      BY <1>1, <2>1 DEF IInv, TypeOK, StmtRecord
    <2>2. CASE t # s
      <3>1. /\ S'[t] = S[t] /\ pdo'[t] = pdo[t]
            /\ S[t].result_set => results'[S[t].result] = results[S[t].result]
            /\ S[t].chunk # Nil => chunks'[S[t].chunk] = chunks[S[t].chunk]
        BY <1>1, <2>2, NilAssumption
           DEF IInv, TypeOK, Ownership, HoldsResult, HoldsChunk, StmtRecord
      <3>2. QED
        BY <3>1, CoherenceFrame DEF IInv
    <2>3. QED
      BY <2>1, <2>2
  <1>5. StreamReachable'
    BY <1>1, NilAssumption
       DEF IInv, TypeOK, Ownership, StreamReachable, HoldsResult, StmtRecord,
           StreamAfterDestroy
  <1>6. ColumnsFreed'
    BY DEF IInv, TypeOK, ColumnsFreed, ColumnsOK
  <1>7. QED
    BY <1>2, <1>3, <1>4, <1>5, <1>6 DEF IInv

LEMMA ExecuteRefusedKeeps ==
    ASSUME IInv, NEW s \in Stmts, NEW first \in ClosesFirst, ExecuteRefused(s, first)
    PROVE  IInv'
  <1>1. pdo[s] \in PdoRecord /\ ColumnsOK(pdo[s])
    BY DEF IInv, TypeOK, ColumnsFreed, ColumnsOK
  <1>2. CASE first /\ pdo[s].executed
    <2>1. PdoClosed(pdo[s]) \in PdoRecord /\ ColumnsOK(PdoClosed(pdo[s]))
      BY <1>1, ColumnFacts
    <2>2. QED
      BY <1>2, <2>1, DropResultKeeps DEF ExecuteRefused, PdoBeforeExecute
  <1>3. CASE ~(first /\ pdo[s].executed)
    <2>1. UNCHANGED vars
      BY <1>1, <1>3 DEF ExecuteRefused, PdoBeforeExecute, IInv, TypeOK, vars
    <2>2. QED
      BY <2>1
         DEF vars, IInv, TypeOK, Ownership, Coherence, StreamReachable, ColumnsFreed,
             HoldsResult, HoldsChunk, ChunkAtHand, ResultAtHand, NextChunk
  <1>4. QED
    BY <1>2, <1>3

LEMMA ExecuteFailsKeeps ==
    ASSUME IInv, NEW s \in Stmts, NEW first \in ClosesFirst, ExecuteFails(s, first)
    PROVE  IInv'
  <1>1. pdo[s] \in PdoRecord /\ ColumnsOK(pdo[s])
    BY DEF IInv, TypeOK, ColumnsFreed, ColumnsOK
  <1>2. PdoBeforeExecute(s, first) \in PdoRecord /\ ColumnsOK(PdoBeforeExecute(s, first))
    BY <1>1, ColumnFacts DEF PdoBeforeExecute
  <1>3. QED
    BY <1>2, DropResultKeeps DEF ExecuteFails

LEMMA CloseCursorKeeps ==
    ASSUME IInv, NEW s \in Stmts, CloseCursor(s)
    PROVE  IInv'
  <1>1. pdo[s] \in PdoRecord /\ ColumnsOK(pdo[s])
    BY DEF IInv, TypeOK, ColumnsFreed, ColumnsOK
  <1>2. PdoClosed(pdo[s]) \in PdoRecord /\ ColumnsOK(PdoClosed(pdo[s]))
    BY <1>1, ColumnFacts
  <1>3. QED
    BY <1>2, DropResultKeeps DEF CloseCursor

LEMMA ExecuteSucceedsKeeps ==
    ASSUME IInv, NEW s \in Stmts, NEW first \in ClosesFirst, NEW r \in Results,
           NEW c \in Contents, NEW streaming \in BOOLEAN,
           ExecuteSucceeds(s, first, r, c, streaming)
    PROVE  IInv'
  <1> DEFINE noColumns == c.cols = 0
             new == [result |-> r, chunk |-> Nil, chunk_idx |-> 0, chunk_size |-> 0,
                     done |-> noColumns, result_set |-> TRUE, is_streaming |-> streaming,
                     next_chunk_index |-> 0, total_rows |-> 0]
             res == [content |-> c, streaming |-> streaming, served |-> 0, error |-> FALSE]
             p == PdoAfterExecute(s, first, c.cols)
  <1> USE DEF ExecuteSucceeds
  <1>0. noColumns \in BOOLEAN
    OBVIOUS
  <1> HIDE DEF noColumns
  <1>1. /\ new \in StmtRecord /\ new # Nil
        /\ res \in Result /\ res # Nil
    <2>1. new \in StmtRecord /\ res \in Result
      BY <1>0 DEF StmtRecord, Result
    <2>2. QED
      BY <2>1, NilAssumption
  <1>2. /\ p \in PdoRecord /\ ColumnsOK(p)
        /\ p.executed = TRUE /\ p.column_count = c.cols
    <2>1. pdo[s] \in PdoRecord /\ ColumnsOK(pdo[s])
      BY DEF IInv, TypeOK, ColumnsFreed, ColumnsOK
    <2>2. PdoBeforeExecute(s, first) \in PdoRecord /\ ColumnsOK(PdoBeforeExecute(s, first))
      BY <2>1, ColumnFacts DEF PdoBeforeExecute
    <2> DEFINE q == SetColumnCount(PdoBeforeExecute(s, first), c.cols)
    <2>3. q \in PdoRecord /\ ColumnsOK(q) /\ q.column_count = c.cols
      BY <2>2, ColumnFacts, ContentFacts
    <2>4. /\ Describe(q) \in PdoRecord /\ ColumnsOK(Describe(q))
          /\ Describe(q).column_count = c.cols
      BY <2>3, ColumnFacts
    <2> HIDE DEF q
    <2>5. p = [(IF q.executed THEN q ELSE Describe(q)) EXCEPT !.executed = TRUE]
      BY DEF PdoAfterExecute, q
    <2> HIDE DEF p
    <2>6. QED
      BY <2>3, <2>4, <2>5 DEF PdoRecord, ColumnsOK
  <1>3. /\ DestroyResult(s) \in [Results -> Result \cup {Nil}]
        /\ chunks' \in [Chunks -> Chunk \cup {Nil}]
        /\ results' \in [Results -> Result \cup {Nil}]
        /\ results'[r] = res
        /\ ~HoldsResult(s, r) => results[r] = Nil
        /\ \A j \in Results : j # r => results'[j] = IF HoldsResult(s, j) THEN Nil ELSE results[j]
        /\ \A j \in Chunks : chunks'[j] = IF HoldsChunk(s, j) THEN Nil ELSE chunks[j]
    BY <1>1, DestroyFacts
  <1>4. /\ S' \in [Stmts -> StmtRecord \cup {Nil}]
        /\ S'[s] = new /\ pdo'[s] = p
        /\ \A t \in Stmts : t # s => S'[t] = S[t] /\ pdo'[t] = pdo[t]
    BY <1>1 DEF IInv, TypeOK, noColumns
  <1> HIDE DEF ExecuteSucceeds, p
  <1>5. TypeOK'
    BY <1>2, <1>3, <1>4 DEF ExecuteSucceeds, p, IInv, TypeOK, Reply, NoRow
  <1>6. /\ \A t \in Stmts, j \in Results :
              HoldsResult(t, j)' <=> IF t = s THEN j = r ELSE HoldsResult(t, j)
        /\ \A t \in Stmts, j \in Chunks :
              HoldsChunk(t, j)' <=> t # s /\ HoldsChunk(t, j)
    <2>1. ASSUME NEW t \in Stmts, t # s
          PROVE  /\ \A j \in Results : HoldsResult(t, j)' <=> HoldsResult(t, j)
                 /\ \A j \in Chunks : HoldsChunk(t, j)' <=> HoldsChunk(t, j)
      BY <1>4, <2>1 DEF HoldsResult, HoldsChunk
    <2>2. /\ \A j \in Results : HoldsResult(s, j)' <=> j = r
          /\ \A j \in Chunks : ~HoldsChunk(s, j)'
      BY <1>1, <1>4, NilAssumption DEF HoldsResult, HoldsChunk
    <2>3. QED
      BY <2>1, <2>2
  <1>7. Ownership'
    <2>1. \A t \in Stmts : t # s => ~HoldsResult(t, r)
      BY <1>3, NilAssumption DEF IInv, Ownership, HoldsResult
    <2>2. \A t \in Stmts : S'[t] # Nil =>
            /\ S'[t].result_set <=> S'[t].result # Nil
            /\ S'[t].result # Nil => results'[S'[t].result] # Nil
            /\ S'[t].chunk # Nil => chunks'[S'[t].chunk] # Nil
      <3> SUFFICES ASSUME NEW t \in Stmts, S'[t] # Nil
                   PROVE  /\ S'[t].result_set <=> S'[t].result # Nil
                          /\ S'[t].result # Nil => results'[S'[t].result] # Nil
                          /\ S'[t].chunk # Nil => chunks'[S'[t].chunk] # Nil
        OBVIOUS
      <3>1. CASE t = s
        BY <1>1, <1>3, <1>4, <3>1, NilAssumption
      <3>2. CASE t # s
        BY <1>3, <1>4, <2>1, <3>2, NilAssumption
           DEF IInv, TypeOK, Ownership, HoldsChunk, HoldsResult, StmtRecord
      <3>3. QED
        BY <3>1, <3>2
    <2>3. /\ \A j \in Results : results'[j] # Nil => \E t \in Stmts : HoldsResult(t, j)'
          /\ \A j \in Chunks : chunks'[j] # Nil => \E t \in Stmts : HoldsChunk(t, j)'
      BY <1>3, <1>6 DEF IInv, Ownership
    <2>4. \A t, u \in Stmts : t # u =>
            /\ \A j \in Results : ~(HoldsResult(t, j)' /\ HoldsResult(u, j)')
            /\ \A j \in Chunks : ~(HoldsChunk(t, j)' /\ HoldsChunk(u, j)')
      BY <1>6, <2>1 DEF IInv, Ownership
    <2>5. QED
      BY <2>2, <2>3, <2>4 DEF Ownership
  <1>8. Coherence'
    <2> SUFFICES ASSUME NEW t \in Stmts, S'[t] # Nil
                 PROVE  /\ S'[t].result_set => ResultAtHand(t)'
                        /\ S'[t].chunk # Nil => ChunkAtHand(t)'
      BY DEF Coherence
    <2>1. CASE t = s
      BY <1>2, <1>3, <1>4, <2>1 DEF ResultAtHand, NextChunk
    <2>2. CASE t # s
      <3>1. /\ S'[t] = S[t] /\ pdo'[t] = pdo[t]
            /\ S[t].result_set => results'[S[t].result] = results[S[t].result]
            /\ S[t].chunk # Nil => chunks'[S[t].chunk] = chunks[S[t].chunk]
        BY <1>3, <1>4, <2>2, NilAssumption
           DEF IInv, TypeOK, Ownership, HoldsResult, HoldsChunk, StmtRecord
      <3>2. QED
        BY <3>1, CoherenceFrame DEF IInv
    <2>3. QED
      BY <2>1, <2>2
  <1>9. StreamReachable'
    <2>1. CASE streaming
      <3>1. openStream' = r /\ c.cols > 0
        BY <2>1 DEF ExecuteSucceeds
      <3>2. HoldsResult(s, r)' /\ S'[s].is_streaming /\ ~S'[s].done /\ pdo'[s].executed
        <4>1. noColumns = FALSE
          BY <3>1, ContentFacts DEF noColumns
        <4>2. S'[s].is_streaming /\ ~S'[s].done
          <5>1. S'[s].done = noColumns
            BY <1>4
          <5>2. S'[s].is_streaming <=> streaming
            BY <1>4
          <5>3. QED
            BY <2>1, <4>1, <5>1, <5>2
        <4>3. QED
          BY <1>2, <1>4, <1>6, <4>2
      <3>3. QED
        BY <3>1, <3>2 DEF StreamReachable, HoldsResult
    <2>2. CASE ~streaming
      BY <2>2 DEF ExecuteSucceeds, StreamReachable
    <2>3. QED
      BY <2>1, <2>2
  <1>10. ColumnsFreed'
    BY <1>2, <1>4 DEF IInv, ColumnsFreed, ColumnsOK
  <1>11. QED
    BY <1>5, <1>7, <1>8, <1>9, <1>10 DEF IInv

LEMMA DestroyKeeps ==
    ASSUME IInv, NEW s \in Stmts, Destroy(s)
    PROVE  IInv'
  <1> USE DEF Destroy
  <1>1. /\ S[s] \in StmtRecord
        /\ results' \in [Results -> Result \cup {Nil}]
        /\ chunks' \in [Chunks -> Chunk \cup {Nil}]
        /\ openStream' \in Results \cup {Nil}
        /\ \A r \in Results : results'[r] = IF HoldsResult(s, r) THEN Nil ELSE results[r]
        /\ \A j \in Chunks : chunks'[j] = IF HoldsChunk(s, j) THEN Nil ELSE chunks[j]
    BY DestroyFacts
  <1>2. TypeOK'
    <2>1. NewPdo \in PdoRecord
      BY DEF NewPdo, PdoRecord
    <2>2. QED
      BY <1>1, <2>1 DEF IInv, TypeOK, Reply, NoRow
  <1>3. Ownership'
    BY <1>1, NilAssumption
       DEF IInv, TypeOK, Ownership, HoldsResult, HoldsChunk, StmtRecord
  <1>4. Coherence'
    <2> SUFFICES ASSUME NEW t \in Stmts, S'[t] # Nil
                 PROVE  /\ S'[t].result_set => ResultAtHand(t)'
                        /\ S'[t].chunk # Nil => ChunkAtHand(t)'
      BY DEF Coherence
    <2>1. t # s
      BY DEF IInv, TypeOK
    <2>2. /\ S'[t] = S[t] /\ pdo'[t] = pdo[t]
          /\ S[t].result_set => results'[S[t].result] = results[S[t].result]
          /\ S[t].chunk # Nil => chunks'[S[t].chunk] = chunks[S[t].chunk]
      BY <1>1, <2>1, NilAssumption
         DEF IInv, TypeOK, Ownership, HoldsResult, HoldsChunk, StmtRecord
    <2>3. QED
      BY <2>2, CoherenceFrame DEF IInv
  <1>5. StreamReachable'
    BY <1>1, NilAssumption
       DEF IInv, TypeOK, Ownership, StreamReachable, HoldsResult, StmtRecord,
           StreamAfterDestroy
  <1>6. ColumnsFreed'
    BY DEF IInv, TypeOK, ColumnsFreed, NewPdo
  <1>7. QED
    BY <1>2, <1>3, <1>4, <1>5, <1>6 DEF IInv

LEMMA PrepareKeeps ==
    ASSUME IInv, NEW s \in Stmts, Prepare(s)
    PROVE  IInv'
  <1> USE DEF Prepare
  <1>1. S' \in [Stmts -> StmtRecord \cup {Nil}] /\ S'[s] \in StmtRecord
    BY DEF IInv, TypeOK, StmtRecord
  <1>2. /\ ~S'[s].result_set /\ S'[s].result = Nil /\ S'[s].chunk = Nil
        /\ \A t \in Stmts : t # s => S'[t] = S[t]
    BY DEF IInv, TypeOK
  <1>3. /\ \A t \in Stmts, r \in Results : HoldsResult(t, r)' <=> HoldsResult(t, r)
        /\ \A t \in Stmts, k \in Chunks : HoldsChunk(t, k)' <=> HoldsChunk(t, k)
    BY <1>1, <1>2, NilAssumption DEF HoldsResult, HoldsChunk
  <1>4. TypeOK'
    BY <1>1 DEF IInv, TypeOK
  <1>5. Ownership'
    BY <1>2, <1>3, NilAssumption DEF IInv, Ownership
  <1>6. Coherence'
    <2> SUFFICES ASSUME NEW t \in Stmts, S'[t] # Nil
                 PROVE  /\ S'[t].result_set => ResultAtHand(t)'
                        /\ S'[t].chunk # Nil => ChunkAtHand(t)'
      BY DEF Coherence
    <2>1. CASE t = s
      BY <1>2, <2>1
    <2>2. CASE t # s
      BY <1>2, <2>2, CoherenceFrame DEF IInv
    <2>3. QED
      BY <2>1, <2>2
  <1>7. StreamReachable'
    BY <1>2 DEF IInv, TypeOK, StreamReachable, HoldsResult
  <1>8. ColumnsFreed'
    BY DEF IInv, ColumnsFreed
  <1>9. QED
    BY <1>4, <1>5, <1>6, <1>7, <1>8 DEF IInv

(* The handlers that change nothing the invariant speaks of but reply. *)
LEMMA ReplyKeeps ==
    ASSUME IInv, UNCHANGED <<S, pdo, results, chunks, openStream>>,
           unbuffered' \in BOOLEAN, reply' \in [Stmts -> Reply]
    PROVE  IInv'
  BY DEF IInv, TypeOK, Ownership, Coherence, StreamReachable, ColumnsFreed,
         HoldsResult, HoldsChunk, ChunkAtHand, ResultAtHand, NextChunk

LEMMA NextKeeps == IInv /\ [Next]_vars => IInv'
  <1> SUFFICES ASSUME IInv, [Next]_vars PROVE IInv'
    OBVIOUS
  <1>1. CASE SetUnbuffered
    BY <1>1, ReplyKeeps DEF SetUnbuffered, IInv, TypeOK
  <1>2. ASSUME NEW s \in Stmts, Execute(s)
        PROVE  IInv'
    BY <1>2, ExecuteRefusedKeeps, ExecuteFailsKeeps, ExecuteSucceedsKeeps DEF Execute
  <1>3. ASSUME NEW s \in Stmts, FetchNothing(s)
        PROVE  IInv'
    <2>1. reply' \in [Stmts -> Reply]
      BY <1>3 DEF FetchNothing, IInv, TypeOK, Reply, End
    <2>2. QED
      BY <1>3, <2>1, ReplyKeeps DEF FetchNothing, IInv, TypeOK
  <1>4. ASSUME NEW s \in Stmts, Fetch(s)
        PROVE  IInv'
    BY <1>3, <1>4, FetchInChunkKeeps, FetchNextChunkKeeps, FetchLastKeeps DEF Fetch
  <1>5. CASE UNCHANGED vars
    BY <1>5, ReplyKeeps DEF vars, IInv, TypeOK
  <1>6. QED
    BY <1>1, <1>2, <1>4, <1>5, PrepareKeeps, CloseCursorKeeps, DestroyKeeps
       DEF Next, StmtNext
-----------------------------------------------------------------------------
(* The theorems *)

THEOREM Invariance == Spec => []IInv
  BY InitIInv, NextKeeps, PTL DEF Spec

(* Every variable keeps its type, so no count of rows or chunks goes below 0. *)
THEOREM TypeCorrect == Spec => []TypeOK
  BY Invariance, PTL DEF IInv

(* What DuckDB hands out is owned by exactly one statement and never dangles. *)
THEOREM OwnershipHolds == Spec => []Ownership
  BY Invariance, PTL DEF IInv

(* What get_col and get_col_meta read is the chunk and the columns at hand. *)
THEOREM CoherenceHolds == Spec => []Coherence
  BY Invariance, PTL DEF IInv

(* The connection is never blocked by a stream nobody can close. *)
THEOREM StreamReachableHolds == Spec => []StreamReachable
  BY Invariance, PTL DEF IInv

(* PDO core frees exactly the described columns. *)
THEOREM ColumnsFreedHolds == Spec => []ColumnsFreed
  BY Invariance, PTL DEF IInv

-----------------------------------------------------------------------------
(* Module Statement implements module RowCursor: the chunk walk hands out   *)
(* the rows of an execution in order, each once.  This is the one fact the *)
(* refinement needs beside IInv.                                           *)

(* PDO core fetches from a statement that has a result. *)
ResultExecuted ==
    \A s \in Stmts : S[s] # Nil /\ S[s].result_set => pdo[s].executed

LEMMA PdoExecuted ==
    ASSUME NEW s \in Stmts, NEW first, NEW n \in Nat, IInv
    PROVE  /\ PdoAfterExecute(s, first, n).executed = TRUE
           /\ (first /\ pdo[s].executed) \/ PdoBeforeExecute(s, first) = pdo[s]
           /\ Describe(pdo[s]).executed = pdo[s].executed
  <1>1. pdo[s] \in PdoRecord /\ ColumnsOK(pdo[s])
    BY DEF IInv, TypeOK, ColumnsFreed, ColumnsOK
  <1>2. Describe(pdo[s]).executed = pdo[s].executed
    BY <1>1, ColumnFacts
  <1>3. PdoBeforeExecute(s, first) \in PdoRecord /\ ColumnsOK(PdoBeforeExecute(s, first))
    BY <1>1, ColumnFacts DEF PdoBeforeExecute
  <1> DEFINE q == SetColumnCount(PdoBeforeExecute(s, first), n)
             d == IF q.executed THEN q ELSE Describe(q)
  <1>4. q \in PdoRecord /\ ColumnsOK(q)
    BY <1>3, ColumnFacts
  <1>5. d \in PdoRecord
    BY <1>4, ColumnFacts
  <1>6. PdoAfterExecute(s, first, n) = [d EXCEPT !.executed = TRUE]
    BY DEF PdoAfterExecute
  <1> HIDE DEF d
  <1>7. PdoAfterExecute(s, first, n).executed = TRUE
    BY <1>5, <1>6 DEF PdoRecord
  <1>8. QED
    BY <1>2, <1>7 DEF PdoBeforeExecute

(* A step that leaves s without a result keeps the fact. *)
LEMMA NoResultExecuted ==
    ASSUME ResultExecuted, NEW s \in Stmts,
           \A t \in Stmts : t # s => S'[t] = S[t] /\ pdo'[t] = pdo[t],
           S'[s] # Nil /\ S'[s].result_set => pdo'[s].executed
    PROVE  ResultExecuted'
  BY DEF ResultExecuted

LEMMA ResultExecutedKeeps ==
    ASSUME IInv, ResultExecuted, Next
    PROVE  ResultExecuted'
  <1>1. ASSUME NEW s \in Stmts, DropResult(s), \E p : pdo' = [pdo EXCEPT ![s] = p]
        PROVE  ResultExecuted'
    <2>1. \A t \in Stmts : t # s => S'[t] = S[t] /\ pdo'[t] = pdo[t]
      BY <1>1 DEF DropResult, IInv, TypeOK
    <2>2. S'[s] # Nil => ~S'[s].result_set
      BY <1>1, NilAssumption DEF DropResult, IInv, TypeOK, StmtRecord
    <2>3. QED
      BY <2>1, <2>2, NoResultExecuted
  <1>2. ASSUME NEW s \in Stmts, Execute(s) PROVE ResultExecuted'
    <2>1. PICK first \in ClosesFirst :
            \/ ExecuteRefused(s, first)
            \/ ExecuteFails(s, first)
            \/ \E r \in Results, c \in Contents, streaming \in BOOLEAN :
                  ExecuteSucceeds(s, first, r, c, streaming)
      BY <1>2 DEF Execute
    <2>2. CASE ExecuteRefused(s, first)
      <3>1. CASE first /\ pdo[s].executed
        BY <1>1, <2>2, <3>1 DEF ExecuteRefused
      <3>2. CASE ~(first /\ pdo[s].executed)
        <4>1. pdo' = [pdo EXCEPT ![s] = pdo[s]] /\ S' = S
          BY <2>2, <3>2 DEF ExecuteRefused, PdoBeforeExecute
        <4>2. QED
          BY <4>1 DEF ResultExecuted, IInv, TypeOK
      <3>3. QED
        BY <3>1, <3>2
    <2>3. CASE ExecuteFails(s, first)
      BY <1>1, <2>3 DEF ExecuteFails
    <2>4. CASE \E r \in Results, c \in Contents, streaming \in BOOLEAN :
                  ExecuteSucceeds(s, first, r, c, streaming)
      <3>1. PICK r \in Results, c \in Contents, streaming \in BOOLEAN :
              ExecuteSucceeds(s, first, r, c, streaming)
        BY <2>4
      <3>2. /\ PdoAfterExecute(s, first, c.cols).executed = TRUE
            /\ pdo' = [pdo EXCEPT ![s] = PdoAfterExecute(s, first, c.cols)]
            /\ \A t \in Stmts : t # s => S'[t] = S[t]
        BY <3>1, PdoExecuted, ContentFacts DEF ExecuteSucceeds, IInv, TypeOK
      <3> HIDE DEF PdoAfterExecute
      <3>3. pdo'[s].executed /\ \A t \in Stmts : t # s => pdo'[t] = pdo[t]
        BY <3>2 DEF IInv, TypeOK
      <3>4. QED
        BY <3>2, <3>3, NoResultExecuted
    <2>5. QED
      BY <2>1, <2>2, <2>3, <2>4
  <1>3. ASSUME NEW s \in Stmts, Fetch(s) PROVE ResultExecuted'
    <2>1. /\ \A t \in Stmts : t # s => S'[t] = S[t] /\ pdo'[t] = pdo[t]
          /\ pdo'[s].executed = pdo[s].executed
      <3>1. pdo' = pdo \/ pdo' = [pdo EXCEPT ![s] = Describe(pdo[s])]
        BY <1>3 DEF Fetch, FetchNothing, FetchInChunk, FetchNextChunk, FetchLast
      <3>2. \A t \in Stmts : t # s => S'[t] = S[t]
        BY <1>3 DEF Fetch, FetchNothing, FetchInChunk, FetchNextChunk, FetchLast,
                    IInv, TypeOK
      <3>3. Describe(pdo[s]).executed = pdo[s].executed
        BY PdoExecuted
      <3>4. QED
        BY <3>1, <3>2, <3>3 DEF IInv, TypeOK
    <2>2. CASE FetchNothing(s)
      BY <2>2 DEF FetchNothing, ResultExecuted
    <2>3. CASE ~FetchNothing(s)
      <3>1. pdo[s].executed
        BY <1>3, <2>3 DEF Fetch, FetchInChunk, FetchNextChunk, FetchLast, Fetchable
      <3>2. QED
        BY <2>1, <3>1, NoResultExecuted
    <2>4. QED
      BY <2>2, <2>3
  <1>4. ASSUME NEW s \in Stmts, Prepare(s) PROVE ResultExecuted'
    <2>1. \A t \in Stmts : t # s => S'[t] = S[t] /\ pdo'[t] = pdo[t]
      BY <1>4 DEF Prepare, IInv, TypeOK
    <2>2. ~S'[s].result_set
      BY <1>4 DEF Prepare, IInv, TypeOK
    <2>3. QED
      BY <2>1, <2>2, NoResultExecuted
  <1>5. ASSUME NEW s \in Stmts, CloseCursor(s) PROVE ResultExecuted'
    BY <1>1, <1>5 DEF CloseCursor
  <1>6. ASSUME NEW s \in Stmts, Destroy(s) PROVE ResultExecuted'
    <2>1. /\ \A t \in Stmts : t # s => S'[t] = S[t] /\ pdo'[t] = pdo[t]
          /\ S'[s] = Nil
      BY <1>6 DEF Destroy, IInv, TypeOK
    <2>2. QED
      BY <2>1, NoResultExecuted
  <1>7. CASE SetUnbuffered
    BY <1>7 DEF SetUnbuffered, ResultExecuted
  <1>8. QED
    BY <1>2, <1>3, <1>4, <1>5, <1>6, <1>7 DEF Next, StmtNext

RInv == IInv /\ ResultExecuted

LEMMA InitRInv == Init => RInv
  BY InitIInv DEF Init, RInv, ResultExecuted

LEMMA NextRInv == RInv /\ [Next]_vars => RInv'
  <1>1. CASE UNCHANGED vars
    BY <1>1, NextKeeps DEF RInv, ResultExecuted, vars
  <1>2. CASE Next
    BY <1>2, NextKeeps, ResultExecutedKeeps DEF RInv
  <1>3. QED
    BY <1>1, <1>2

-----------------------------------------------------------------------------
(* The abstract cursor before and after a step *)

(* No chunk has more rows before its end than the result has. *)
LEMMA RowBounds ==
    ASSUME NEW c \in Contents, NEW k \in Nat, k < ChunkCount(c)
    PROVE  /\ RowsBefore(c, k) \in Nat
           /\ RowsBefore(c, k + 1) \in Nat
           /\ RowCount(c) \in Nat
           /\ RowsBefore(c, k) < RowsBefore(c, k + 1)
           /\ RowsBefore(c, k + 1) <= RowCount(c)
  <1>1. ChunkCount(c) \in Nat /\ RowCount(c) \in Nat
    BY ContentFacts
  <1>2. k \in 0..ChunkCount(c) /\ k + 1 \in 0..ChunkCount(c)
    BY <1>1
  <1>3. RowsBefore(c, k) \in Nat /\ RowsBefore(c, k + 1) \in Nat
    BY <1>2, ContentFacts
  <1>4. RowsBefore(c, k) < RowsBefore(c, k + 1)
    BY <1>3, ContentFacts
  <1>5. RowsBefore(c, k + 1) <= RowCount(c)
    <2>1. /\ Len(c.bounds) \in Nat /\ c.bounds \in Seq(Nat)
          /\ \A i, j \in 1..Len(c.bounds) : i < j => c.bounds[i] < c.bounds[j]
      BY ContentsAssumption
    <2>2. k + 1 \in 1..Len(c.bounds) /\ Len(c.bounds) \in 1..Len(c.bounds)
      BY <2>1 DEF ChunkCount
    <2>3. RowsBefore(c, k + 1) = c.bounds[k + 1] /\ RowCount(c) = c.bounds[Len(c.bounds)]
      BY <2>1, <2>2 DEF RowsBefore, RowCount, ChunkCount
    <2>4. k + 1 = Len(c.bounds) \/ k + 1 < Len(c.bounds)
      BY <2>2
    <2>5. c.bounds[k + 1] \in Nat
      BY <1>3, <2>3
    <2>6. CASE k + 1 < Len(c.bounds)
      <3>1. c.bounds[k + 1] < c.bounds[Len(c.bounds)]
        BY <2>1, <2>2, <2>6
      <3>2. QED
        BY <1>1, <2>3, <2>5, <3>1
    <2>7. CASE k + 1 = Len(c.bounds)
      BY <2>3, <2>5, <2>7
    <2>8. QED
      BY <2>4, <2>6, <2>7
  <1>6. QED
    BY <1>1, <1>3, <1>4, <1>5

(* The state function that the refinement maps to the abstract cursor. *)
Abs == [s \in Stmts |-> AbstractCursor(s)]

Outcomes == {[rows |-> RowCount(c), err |-> c.err] : c \in Contents}

LEMMA OthersKept ==
    ASSUME IInv, NEW s \in Stmts,
           \A t \in Stmts : t # s => S'[t] = S[t],
           \A r \in Results : results[r] # Nil /\ ~HoldsResult(s, r) =>
               results'[r].content = results[r].content
    PROVE  \A t \in Stmts : t # s => AbstractCursor(t)' = AbstractCursor(t)
  <1> SUFFICES ASSUME NEW t \in Stmts, t # s
               PROVE  AbstractCursor(t)' = AbstractCursor(t)
    OBVIOUS
  <1>1. CASE S[t] = Nil \/ ~S[t].result_set
    BY <1>1 DEF AbstractCursor
  <1>2. CASE S[t] # Nil /\ S[t].result_set
    <2>1. /\ S[t].result \in Results
          /\ results[S[t].result] # Nil
          /\ HoldsResult(t, S[t].result)
          /\ ~HoldsResult(s, S[t].result)
      BY <1>2, NilAssumption DEF IInv, TypeOK, Ownership, HoldsResult, StmtRecord
    <2>2. S'[t] = S[t] /\ results'[S[t].result].content = results[S[t].result].content
      BY <2>1
    <2>3. QED
      BY <1>2, <2>2 DEF AbstractCursor, AbstractExecution, AbstractPosition
  <1>3. QED
    BY <1>1, <1>2

LEMMA AbsStep ==
    ASSUME NEW s \in Stmts, NEW v,
           AbstractCursor(s)' = v,
           \A t \in Stmts : t # s => AbstractCursor(t)' = AbstractCursor(t)
    PROVE  Abs' = [Abs EXCEPT ![s] = v]
  BY DEF Abs

(* An open statement: where its abstract cursor stands. *)
LEMMA FetchableFacts ==
    ASSUME RInv, NEW s \in Stmts, Fetchable(s)
    PROVE  LET c == results[S[s].result].content
           IN  /\ c \in Contents
               /\ S[s] \in StmtRecord
               /\ S[s].result \in Results
               /\ results[S[s].result] \in Result
               /\ AbstractPosition(s) \in Nat
               /\ NextChunk(s) \in Nat
               /\ AbstractCursor(s) =
                    [status |-> "open",
                     exec |-> [rows |-> RowCount(c), err |-> c.err],
                     pos |-> AbstractPosition(s)]
  <1>1. /\ S[s] \in StmtRecord /\ S[s].result \in Results
        /\ results[S[s].result] \in Result
    BY NilAssumption DEF Fetchable, RInv, IInv, TypeOK, Ownership, StmtRecord
  <1>2. results[S[s].result].content \in Contents
    BY <1>1 DEF Result
  <1>3. AbstractPosition(s) \in Nat
    BY <1>1 DEF AbstractPosition, StmtRecord
  <1>4. NextChunk(s) \in Nat
    BY <1>1 DEF NextChunk, StmtRecord, Result
  <1>5. QED
    BY <1>1, <1>2, <1>3, <1>4 DEF Fetchable, AbstractCursor, AbstractExecution

-----------------------------------------------------------------------------
(* One lemma per kind of step *)

CursorNext == Cursor!Next \/ UNCHANGED <<Abs, reply>>

(* Closing, freeing, or an execution that leaves no result. *)
LEMMA ClosedMaps ==
    ASSUME RInv, NEW s \in Stmts,
           \A t \in Stmts : t # s => S'[t] = S[t],
           S'[s] = Nil \/ ~S'[s].result_set,
           results' = DestroyResult(s),
           reply' = [reply EXCEPT ![s] = NoRow],
           S[s] # Nil
    PROVE  CursorNext
  <1>1. \A r \in Results : ~HoldsResult(s, r) => results'[r] = results[r]
    BY DestroyFacts DEF RInv
  <1>2. \A t \in Stmts : t # s => AbstractCursor(t)' = AbstractCursor(t)
    BY <1>1, OthersKept DEF RInv
  <1>3. AbstractCursor(s)' = [status |-> "closed"]
    BY DEF AbstractCursor
  <1>4. Abs' = [Abs EXCEPT ![s] = [status |-> "closed"]]
    BY <1>2, <1>3, AbsStep
  <1>5. Cursor!Close(s)
    BY <1>4 DEF Cursor!Close, Cursor!Closed, Cursor!NoRow, NoRow, Abs
  <1>6. QED
    BY <1>5 DEF CursorNext, Cursor!Next

LEMMA FetchNothingMaps ==
    ASSUME RInv, NEW s \in Stmts, FetchNothing(s)
    PROVE  CursorNext
  <1>1. AbstractCursor(s).status # "open"
    BY DEF FetchNothing, RInv, ResultExecuted, AbstractCursor
  <1>2. Abs' = Abs
    BY DEF FetchNothing, Abs, AbstractCursor, AbstractExecution, AbstractPosition
  <1>3. Abs[s] = AbstractCursor(s)
    BY DEF Abs
  <1>4. Cursor!FetchNothing(s)
    BY <1>1, <1>2, <1>3 DEF FetchNothing, Cursor!FetchNothing, Cursor!End, End, Abs
  <1>5. QED
    BY <1>4 DEF CursorNext, Cursor!Next

(* A fetch that hands out the next row. *)
LEMMA RowMaps ==
    ASSUME NEW s \in Stmts, NEW e, NEW p \in Nat,
           AbstractCursor(s) = [status |-> "open", exec |-> e, pos |-> p],
           p < e.rows,
           AbstractCursor(s)' = [status |-> "open", exec |-> e, pos |-> p + 1],
           \A t \in Stmts : t # s => AbstractCursor(t)' = AbstractCursor(t),
           reply' = [reply EXCEPT ![s] = Row(p + 1)]
    PROVE  CursorNext
  <1>1. Abs' = [Abs EXCEPT ![s] = [status |-> "open", exec |-> e, pos |-> p + 1]]
    BY AbsStep
  <1>2. Abs[s] = [status |-> "open", exec |-> e, pos |-> p]
    BY DEF Abs
  <1>3. Abs[s].status = "open" /\ Abs[s].exec = e /\ Abs[s].pos = p
    BY <1>2
  <1>4. /\ Cursor!At(Abs[s].exec, "open", Abs[s].pos + 1)
             = [status |-> "open", exec |-> e, pos |-> p + 1]
        /\ Cursor!Row(Abs[s].pos + 1) = Row(p + 1)
    BY <1>3 DEF Cursor!At, Cursor!Row, Row
  <1>5. /\ Abs[s].status = "open"
        /\ Abs[s].pos < Abs[s].exec.rows
        /\ Abs' = [Abs EXCEPT ![s] = Cursor!At(Abs[s].exec, "open", Abs[s].pos + 1)]
        /\ reply' = [reply EXCEPT ![s] = Cursor!Row(Abs[s].pos + 1)]
    BY <1>1, <1>3, <1>4
  <1>6. Cursor!FetchRow(s)
    BY <1>5 DEF Cursor!FetchRow, Abs
  <1>7. QED
    BY <1>6 DEF CursorNext, Cursor!Next

(* A fetch behind the last row. *)
LEMMA LastMaps ==
    ASSUME NEW s \in Stmts, NEW e, NEW p,
           AbstractCursor(s) = [status |-> "open", exec |-> e, pos |-> p],
           p = e.rows,
           AbstractCursor(s)' = [status |-> "ended", exec |-> e, pos |-> p],
           \A t \in Stmts : t # s => AbstractCursor(t)' = AbstractCursor(t),
           reply' = [reply EXCEPT ![s] = IF e.err THEN Error ELSE End]
    PROVE  CursorNext
  <1>1. Abs' = [Abs EXCEPT ![s] = [status |-> "ended", exec |-> e, pos |-> p]]
    BY AbsStep
  <1>2. Abs[s].status = "open" /\ Abs[s].exec = e /\ Abs[s].pos = p
    BY DEF Abs
  <1>3. /\ Cursor!At(Abs[s].exec, "ended", Abs[s].pos)
             = [status |-> "ended", exec |-> e, pos |-> p]
        /\ Cursor!Error = Error /\ Cursor!End = End
    BY <1>2 DEF Cursor!At, Cursor!Error, Cursor!End, Error, End
  <1>4. /\ Abs[s].status = "open"
        /\ Abs[s].pos = Abs[s].exec.rows
        /\ Abs' = [Abs EXCEPT ![s] = Cursor!At(Abs[s].exec, "ended", Abs[s].pos)]
        /\ reply' = [reply EXCEPT
               ![s] = IF Abs[s].exec.err THEN Cursor!Error ELSE Cursor!End]
    BY <1>1, <1>2, <1>3
  <1>5. Cursor!FetchLast(s)
    BY <1>4 DEF Cursor!FetchLast, Abs
  <1>6. QED
    BY <1>5 DEF CursorNext, Cursor!Next

LEMMA FetchInChunkMaps ==
    ASSUME RInv, NEW s \in Stmts, FetchInChunk(s)
    PROVE  CursorNext
  <1> DEFINE r == S[s].result
             c == results[r].content
             k == chunks[S[s].chunk]
             p == AbstractPosition(s)
             e == [rows |-> RowCount(c), err |-> c.err]
  <1>1. /\ Fetchable(s) /\ InChunk(s)
        /\ S' = [S EXCEPT ![s].chunk_idx = S[s].chunk_idx + 1]
        /\ reply' = [reply EXCEPT ![s] = Row(RowAt(k, S[s].chunk_idx + 1))]
        /\ results' = results
    BY DEF FetchInChunk
  <1>2. /\ c \in Contents /\ S[s] \in StmtRecord
        /\ p \in Nat
        /\ AbstractCursor(s) = [status |-> "open", exec |-> e, pos |-> p]
    BY <1>1, FetchableFacts
  <1>3. /\ k.of = r /\ k.index \in Nat /\ k.index < ChunkCount(c)
        /\ S[s].chunk_size = ChunkSize(c, k.index)
        /\ S[s].total_rows = RowsBefore(c, k.index)
        /\ S[s].chunk # Nil /\ S[s].chunk_idx + 1 < S[s].chunk_size
    BY <1>1, NilAssumption
       DEF InChunk, Fetchable, RInv, IInv, TypeOK, Ownership, Coherence, ChunkAtHand,
           StmtRecord, Chunk
  <1>4. p = S[s].total_rows + S[s].chunk_idx + 1
    BY <1>2, <1>3 DEF AbstractPosition, StmtRecord
  <1>5. RowAt(k, S[s].chunk_idx + 1) = p + 1
    BY <1>2, <1>3, <1>4 DEF RowAt, StmtRecord
  <1>6. p < RowCount(c)
    BY <1>2, <1>3, <1>4, RowBounds DEF ChunkSize, StmtRecord
  <1>7. /\ S'[s] = [S[s] EXCEPT !.chunk_idx = S[s].chunk_idx + 1]
        /\ \A t \in Stmts : t # s => S'[t] = S[t]
    BY <1>1 DEF RInv, IInv, TypeOK
  <1>8. /\ S'[s].result = r /\ S'[s].result_set /\ ~S'[s].done /\ S'[s] # Nil
        /\ S'[s].chunk = S[s].chunk /\ S'[s].total_rows = S[s].total_rows
        /\ S'[s].chunk_idx = S[s].chunk_idx + 1
    BY <1>1, <1>2, <1>7, NilAssumption DEF Fetchable, StmtRecord
  <1>9. AbstractPosition(s)' = p + 1
    BY <1>2, <1>3, <1>4, <1>8 DEF AbstractPosition, StmtRecord
  <1>10. AbstractCursor(s)' = [status |-> "open", exec |-> e, pos |-> p + 1]
    BY <1>1, <1>8, <1>9 DEF AbstractCursor, AbstractExecution
  <1>11. \A t \in Stmts : t # s => AbstractCursor(t)' = AbstractCursor(t)
    BY <1>1, <1>7, OthersKept DEF RInv
  <1> HIDE DEF e, p
  <1>12. e.rows = RowCount(c)
    BY DEF e
  <1>13. QED
    BY <1>1, <1>2, <1>5, <1>6, <1>10, <1>11, <1>12, RowMaps

(* A chunk at hand that is exhausted ends where the next one begins. *)
LEMMA ExhaustedFacts ==
    ASSUME RInv, NEW s \in Stmts, Fetchable(s), ~InChunk(s)
    PROVE  LET c == results[S[s].result].content
           IN  /\ NextChunk(s) <= ChunkCount(c)
               /\ AbstractPosition(s) = RowsBefore(c, NextChunk(s))
               /\ RowsConsumed(s) = RowsBefore(c, NextChunk(s))
  <1> DEFINE c == results[S[s].result].content
             k == chunks[S[s].chunk]
  <1>1. c \in Contents /\ S[s] \in StmtRecord /\ ChunkCount(c) \in Nat
    BY FetchableFacts, ContentFacts
  <1>2. CASE S[s].chunk = Nil
    <2>1. NextChunk(s) = 0 /\ S[s].total_rows = 0
      BY <1>2 DEF Fetchable, RInv, IInv, Coherence, ResultAtHand
    <2>2. QED
      BY <1>1, <1>2, <2>1 DEF AbstractPosition, RowsConsumed, RowsBefore
  <1>3. CASE S[s].chunk # Nil
    <2>1. /\ NextChunk(s) = k.index + 1 /\ k.index \in Nat /\ k.index < ChunkCount(c)
          /\ S[s].chunk_size = ChunkSize(c, k.index)
          /\ S[s].chunk_idx < S[s].chunk_size
          /\ S[s].total_rows = RowsBefore(c, k.index)
      BY <1>1, <1>3, NilAssumption
         DEF Fetchable, RInv, IInv, TypeOK, Ownership, Coherence, ChunkAtHand,
             StmtRecord, Chunk
    <2>2. S[s].chunk_idx + 1 = S[s].chunk_size
      BY <1>1, <1>3, <2>1, ContentFacts DEF InChunk, StmtRecord
    <2>3. RowsBefore(c, k.index + 1) = S[s].total_rows + S[s].chunk_size
      BY <1>1, <2>1, ContentFacts
    <2>4. QED
      BY <1>1, <1>3, <2>1, <2>2, <2>3 DEF AbstractPosition, RowsConsumed, StmtRecord
  <1>4. QED
    BY <1>2, <1>3

LEMMA FetchNextChunkMaps ==
    ASSUME RInv, NEW s \in Stmts, NEW j \in Chunks, FetchNextChunk(s, j)
    PROVE  CursorNext
  <1> DEFINE r == S[s].result
             c == results[r].content
             i == NextChunk(s)
             p == AbstractPosition(s)
             e == [rows |-> RowCount(c), err |-> c.err]
             size == ChunkSize(c, i)
             next == IF S[s].is_streaming THEN S[s].next_chunk_index
                                          ELSE S[s].next_chunk_index + 1
             serve == IF S[s].is_streaming THEN results[r].served + 1
                                           ELSE results[r].served
  <1>1. /\ Fetchable(s) /\ ~InChunk(s) /\ i < ChunkCount(c)
        /\ S' = [S EXCEPT ![s].chunk = j, ![s].chunk_idx = 0, ![s].chunk_size = size,
                          ![s].total_rows = RowsConsumed(s), ![s].next_chunk_index = next]
        /\ reply' = [reply EXCEPT ![s] = Row(RowAt([of |-> r, index |-> i], 0))]
        /\ results' = [results EXCEPT ![r].served = serve]
    BY DEF FetchNextChunk
  <1>2. /\ c \in Contents /\ S[s] \in StmtRecord /\ r \in Results
        /\ results[r] \in Result
        /\ p \in Nat /\ i \in Nat
        /\ AbstractCursor(s) = [status |-> "open", exec |-> e, pos |-> p]
    <2>1. Fetchable(s)
      BY <1>1
    <2>2. QED
      BY <2>1, FetchableFacts
  <1>3. p = RowsBefore(c, i) /\ RowsConsumed(s) = p
    BY <1>1, ExhaustedFacts
  <1>4. p < RowCount(c)
    BY <1>1, <1>2, <1>3, RowBounds
  <1>5. RowAt([of |-> r, index |-> i], 0) = p + 1
    BY <1>2, <1>3 DEF RowAt
  <1>6. \A t \in Stmts : t # s => S'[t] = S[t]
    BY <1>1 DEF RInv, IInv, TypeOK
  <1>7. /\ S'[s].result = r /\ S'[s].result_set /\ ~S'[s].done /\ S'[s] # Nil
        /\ S'[s].chunk # Nil /\ S'[s].total_rows = p /\ S'[s].chunk_idx = 0
    <2>1. size \in Nat /\ next \in Nat
      BY <1>1, <1>2, ContentFacts DEF StmtRecord
    <2>2. S[s].result_set /\ ~S[s].done
      BY <1>1 DEF Fetchable
    <2>3. /\ S \in [Stmts -> StmtRecord \cup {Nil}]
          /\ S' = [S EXCEPT ![s].chunk = j, ![s].chunk_idx = 0, ![s].chunk_size = size,
                            ![s].total_rows = p, ![s].next_chunk_index = next]
      BY <1>1, <1>3 DEF RInv, IInv, TypeOK
    <2> HIDE DEF size, next, i, p
    <2>4. /\ S'[s] \in StmtRecord
          /\ S'[s].result = r /\ S'[s].result_set /\ ~S'[s].done
          /\ S'[s].chunk = j /\ S'[s].total_rows = p /\ S'[s].chunk_idx = 0
      BY <1>2, <2>1, <2>2, <2>3 DEF StmtRecord
    <2>5. QED
      BY <2>4, NilAssumption
  <1>8. \A q \in Results : results'[q].content = results[q].content
    BY <1>1, <1>2 DEF RInv, IInv, TypeOK, Result
  <1>9. AbstractPosition(s)' = p + 1
    BY <1>2, <1>7 DEF AbstractPosition
  <1>10. AbstractCursor(s)' = [status |-> "open", exec |-> e, pos |-> p + 1]
    BY <1>2, <1>7, <1>8, <1>9 DEF AbstractCursor, AbstractExecution
  <1>11. \A t \in Stmts : t # s => AbstractCursor(t)' = AbstractCursor(t)
    BY <1>6, <1>8, OthersKept DEF RInv
  <1> HIDE DEF e, p
  <1>12. e.rows = RowCount(c)
    BY DEF e
  <1>13. QED
    BY <1>1, <1>2, <1>4, <1>5, <1>10, <1>11, <1>12, RowMaps

LEMMA FetchLastMaps ==
    ASSUME RInv, NEW s \in Stmts, FetchLast(s)
    PROVE  CursorNext
  <1> DEFINE r == S[s].result
             c == results[r].content
             p == AbstractPosition(s)
             e == [rows |-> RowCount(c), err |-> c.err]
             err == results[r].content.err
  <1>1. /\ Fetchable(s) /\ ~InChunk(s) /\ NextChunk(s) >= ChunkCount(c)
        /\ S' = [S EXCEPT ![s].chunk = Nil, ![s].chunk_idx = 0, ![s].chunk_size = 0,
                          ![s].total_rows = RowsConsumed(s), ![s].done = TRUE]
        /\ reply' = [reply EXCEPT ![s] = IF err THEN Error ELSE End]
        /\ results' = [results EXCEPT ![r].error = err]
    BY DEF FetchLast
  <1>2. /\ c \in Contents /\ S[s] \in StmtRecord /\ r \in Results
        /\ results[r] \in Result
        /\ p \in Nat /\ NextChunk(s) \in Nat /\ ChunkCount(c) \in Nat
        /\ AbstractCursor(s) = [status |-> "open", exec |-> e, pos |-> p]
    <2>1. Fetchable(s)
      BY <1>1
    <2>2. /\ c \in Contents /\ S[s] \in StmtRecord /\ r \in Results
          /\ results[r] \in Result
          /\ p \in Nat /\ NextChunk(s) \in Nat
          /\ AbstractCursor(s) = [status |-> "open", exec |-> e, pos |-> p]
      BY <2>1, FetchableFacts
    <2> HIDE DEF c
    <2>3. ChunkCount(c) \in Nat
      BY <2>2, ContentFacts
    <2>4. QED
      BY <2>2, <2>3
  <1>3. p = RowCount(c) /\ RowsConsumed(s) = p
    <2>1. NextChunk(s) = ChunkCount(c)
      <3>1. NextChunk(s) <= ChunkCount(c)
        BY <1>1, ExhaustedFacts
      <3>2. NextChunk(s) \in Nat /\ ChunkCount(c) \in Nat
        BY <1>2
      <3>3. NextChunk(s) >= ChunkCount(c)
        BY <1>1
      <3> HIDE DEF c
      <3>4. QED
        BY <3>1, <3>2, <3>3
    <2>2. QED
      BY <1>1, <2>1, ExhaustedFacts DEF RowCount
  <1>4. \A t \in Stmts : t # s => S'[t] = S[t]
    BY <1>1 DEF RInv, IInv, TypeOK
  <1>5. /\ S'[s].result = r /\ S'[s].result_set /\ S'[s].done /\ S'[s] # Nil
        /\ S'[s].chunk = Nil /\ S'[s].total_rows = p
    <2>1. S[s].result_set
      BY <1>1 DEF Fetchable
    <2>2. /\ S \in [Stmts -> StmtRecord \cup {Nil}]
          /\ S' = [S EXCEPT ![s].chunk = Nil, ![s].chunk_idx = 0, ![s].chunk_size = 0,
                            ![s].total_rows = p, ![s].done = TRUE]
      BY <1>1, <1>3 DEF RInv, IInv, TypeOK
    <2> HIDE DEF p
    <2>3. /\ S'[s] \in StmtRecord
          /\ S'[s].result = r /\ S'[s].result_set /\ S'[s].done
          /\ S'[s].chunk = Nil /\ S'[s].total_rows = p
      BY <1>2, <2>1, <2>2 DEF StmtRecord
    <2>4. QED
      BY <2>3, NilAssumption
  <1>6. \A q \in Results : results'[q].content = results[q].content
    BY <1>1, <1>2 DEF RInv, IInv, TypeOK, Result
  <1>7. AbstractPosition(s)' = p
    BY <1>2, <1>5 DEF AbstractPosition
  <1>8. AbstractCursor(s)' = [status |-> "ended", exec |-> e, pos |-> p]
    BY <1>2, <1>5, <1>6, <1>7 DEF AbstractCursor, AbstractExecution
  <1>9. \A t \in Stmts : t # s => AbstractCursor(t)' = AbstractCursor(t)
    BY <1>4, <1>6, OthersKept DEF RInv
  <1>10. e.rows = p /\ e.err = err
    BY <1>3
  <1> HIDE DEF e, p, err
  <1>11. QED
    BY <1>1, <1>2, <1>8, <1>9, <1>10, LastMaps

LEMMA ExecuteSucceedsMaps ==
    ASSUME RInv, NEW s \in Stmts, NEW first \in ClosesFirst,
           NEW r \in Results, NEW c \in Contents, NEW streaming \in BOOLEAN,
           ExecuteSucceeds(s, first, r, c, streaming)
    PROVE  CursorNext
  <1> DEFINE e == [rows |-> RowCount(c), err |-> c.err]
             noColumns == c.cols = 0
             status == IF noColumns THEN "ended" ELSE "open"
             res == [content |-> c, streaming |-> streaming, served |-> 0, error |-> FALSE]
             new == [result |-> r, chunk |-> Nil, chunk_idx |-> 0, chunk_size |-> 0,
                     done |-> noColumns, result_set |-> TRUE, is_streaming |-> streaming,
                     next_chunk_index |-> 0, total_rows |-> 0]
  <1>1. noColumns \in BOOLEAN
    OBVIOUS
  <1>2. /\ S' = [S EXCEPT ![s] = new]
        /\ results' = [DestroyResult(s) EXCEPT ![r] = res]
        /\ DestroyResult(s)[r] = Nil
        /\ reply' = [reply EXCEPT ![s] = NoRow]
    BY DEF ExecuteSucceeds
  <1>3. noColumns => e.rows = 0 /\ ~e.err
    BY ContentsAssumption DEF RowCount, RowsBefore, ChunkCount
  <1> HIDE DEF noColumns
  <1>4. new \in StmtRecord
    BY <1>1 DEF StmtRecord
  <1>5. /\ S'[s] = new /\ new # Nil
        /\ \A t \in Stmts : t # s => S'[t] = S[t]
    BY <1>2, <1>4, NilAssumption DEF RInv, IInv, TypeOK
  <1>6. /\ DestroyResult(s) \in [Results -> Result \cup {Nil}]
        /\ \A q \in Results :
              DestroyResult(s)[q] = IF HoldsResult(s, q) THEN Nil ELSE results[q]
    <2>1. S[s] # Nil
      BY DEF ExecuteSucceeds
    <2>2. QED
      BY <2>1, DestroyFacts DEF RInv
  <1>7. results'[r] = res
    BY <1>2, <1>6
  <1>8. \A q \in Results : results[q] # Nil /\ ~HoldsResult(s, q) =>
              results'[q].content = results[q].content
    <2> SUFFICES ASSUME NEW q \in Results, results[q] # Nil, ~HoldsResult(s, q)
                 PROVE  results'[q].content = results[q].content
      OBVIOUS
    <2>1. q # r
      BY <1>2, <1>6
    <2>2. results'[q] = results[q]
      BY <1>2, <1>6, <2>1
    <2>3. QED
      BY <2>2
  <1>9. \A t \in Stmts : t # s => AbstractCursor(t)' = AbstractCursor(t)
    BY <1>5, <1>8, OthersKept DEF RInv
  <1>10. /\ S'[s].result = r /\ S'[s].result_set = TRUE /\ S'[s].done = noColumns
         /\ S'[s].chunk = Nil /\ S'[s].total_rows = 0 /\ S'[s] # Nil
    BY <1>5
  <1>11. AbstractPosition(s)' = 0
    BY <1>10 DEF AbstractPosition
  <1>12. AbstractCursor(s)' = [status |-> status, exec |-> e, pos |-> 0]
    BY <1>7, <1>10, <1>11 DEF AbstractCursor, AbstractExecution
  <1>13. e \in Outcomes
    BY DEF Outcomes
  <1> HIDE DEF e, status
  <1>14. Abs' = [Abs EXCEPT ![s] = Cursor!At(e, status, 0)]
    <2>1. Abs' = [Abs EXCEPT ![s] = [status |-> status, exec |-> e, pos |-> 0]]
      BY <1>9, <1>12, AbsStep
    <2>2. QED
      BY <2>1 DEF Cursor!At
  <1>15. \/ \E x \in Outcomes : Abs' = [Abs EXCEPT ![s] = Cursor!At(x, "open", 0)]
         \/ \E x \in Outcomes :
               /\ x.rows = 0 /\ ~x.err
               /\ Abs' = [Abs EXCEPT ![s] = Cursor!At(x, "ended", 0)]
    <2>1. CASE noColumns
      BY <1>3, <1>13, <1>14, <2>1 DEF status
    <2>2. CASE ~noColumns
      BY <1>13, <1>14, <2>2 DEF status
    <2>3. QED
      BY <2>1, <2>2
  <1>16. reply' = [reply EXCEPT ![s] = Cursor!NoRow]
    BY <1>2 DEF NoRow, Cursor!NoRow
  <1>17. Cursor!Execute(s)
    BY <1>15, <1>16 DEF Cursor!Execute, Abs, Outcomes
  <1>18. QED
    BY <1>17 DEF CursorNext, Cursor!Next

LEMMA ExecuteMaps ==
    ASSUME RInv, NEW s \in Stmts, Execute(s)
    PROVE  CursorNext
  <1>1. PICK first \in ClosesFirst :
          \/ ExecuteRefused(s, first)
          \/ ExecuteFails(s, first)
          \/ \E r \in Results, c \in Contents, streaming \in BOOLEAN :
                ExecuteSucceeds(s, first, r, c, streaming)
    BY DEF Execute
  <1>2. ASSUME S[s] # Nil, DropResult(s) PROVE CursorNext
    <2>1. ~S'[s].result_set
      BY <1>2 DEF DropResult, RInv, IInv, TypeOK, StmtRecord
    <2>2. \A t \in Stmts : t # s => S'[t] = S[t]
      BY <1>2 DEF DropResult, RInv, IInv, TypeOK
    <2>3. QED
      BY <1>2, <2>1, <2>2, ClosedMaps DEF DropResult
  <1>3. CASE ExecuteRefused(s, first)
    <2>1. CASE first /\ pdo[s].executed
      BY <1>2, <1>3, <2>1 DEF ExecuteRefused
    <2>2. CASE ~(first /\ pdo[s].executed)
      BY <1>3, <2>2 DEF ExecuteRefused, CursorNext, Abs, AbstractCursor,
                        AbstractExecution, AbstractPosition
    <2>3. QED
      BY <2>1, <2>2
  <1>4. CASE ExecuteFails(s, first)
    BY <1>2, <1>4 DEF ExecuteFails
  <1>5. CASE \E r \in Results, c \in Contents, streaming \in BOOLEAN :
                ExecuteSucceeds(s, first, r, c, streaming)
    BY <1>5, ExecuteSucceedsMaps
  <1>6. QED
    BY <1>1, <1>3, <1>4, <1>5

LEMMA CloseMaps ==
    ASSUME RInv, NEW s \in Stmts, CloseCursor(s) \/ Destroy(s)
    PROVE  CursorNext
  <1>1. /\ \A t \in Stmts : t # s => S'[t] = S[t]
        /\ results' = DestroyResult(s)
        /\ reply' = [reply EXCEPT ![s] = NoRow]
        /\ S[s] # Nil
    BY DEF CloseCursor, DropResult, Destroy, RInv, IInv, TypeOK
  <1>2. S'[s] = Nil \/ ~S'[s].result_set
    <2>1. CASE CloseCursor(s)
      BY <2>1 DEF CloseCursor, DropResult, RInv, IInv, TypeOK, StmtRecord
    <2>2. CASE Destroy(s)
      BY <2>2 DEF Destroy, RInv, IInv, TypeOK
    <2>3. QED
      BY <2>1, <2>2
  <1>3. QED
    BY <1>1, <1>2, ClosedMaps

LEMMA PrepareMaps ==
    ASSUME RInv, NEW s \in Stmts, Prepare(s)
    PROVE  CursorNext
  <1>1. /\ \A t \in Stmts : t # s => S'[t] = S[t]
        /\ S[s] = Nil /\ ~S'[s].result_set
        /\ results' = results /\ reply' = reply
    BY DEF Prepare, RInv, IInv, TypeOK
  <1>2. \A t \in Stmts : AbstractCursor(t)' = AbstractCursor(t)
    BY <1>1 DEF AbstractCursor, AbstractExecution, AbstractPosition
  <1>3. QED
    BY <1>1, <1>2 DEF CursorNext, Abs

LEMMA NextMaps == RInv /\ [Next]_vars => CursorNext
  <1> SUFFICES ASSUME RInv, [Next]_vars PROVE CursorNext
    OBVIOUS
  <1>1. ASSUME NEW s \in Stmts, StmtNext(s) PROVE CursorNext
    BY <1>1, PrepareMaps, ExecuteMaps, CloseMaps, FetchNothingMaps, FetchInChunkMaps,
       FetchNextChunkMaps, FetchLastMaps DEF StmtNext, Fetch
  <1>2. CASE SetUnbuffered \/ UNCHANGED vars
    BY <1>2 DEF SetUnbuffered, vars, CursorNext, Abs, AbstractCursor,
                AbstractExecution, AbstractPosition
  <1>3. QED
    BY <1>1, <1>2 DEF Next

-----------------------------------------------------------------------------
(* The refinement theorem *)

(***************************************************************************)
(* The driver's chunk cursor implements the row cursor: whatever is        *)
(* executed, fetched, closed and freed, each statement hands out the rows  *)
(* of its latest successful execution in order, each once, and then the    *)
(* end or the error.                                                       *)
(***************************************************************************)
THEOREM ImplementsRowCursor == Spec => RowsInOrder
  <1>1. Init => Cursor!Init
    BY DEF Init, Cursor!Init, Cursor!Closed, Cursor!NoRow, NoRow, AbstractCursor
  <1>2. RInv /\ [Next]_vars => [Cursor!Next]_(Cursor!vars)
    BY NextMaps DEF CursorNext, Cursor!vars, Abs
  <1>3. QED
    BY InitRInv, NextRInv, <1>1, <1>2, PTL DEF Spec, RowsInOrder, Cursor!Spec
=============================================================================
