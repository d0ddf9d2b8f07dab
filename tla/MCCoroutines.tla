---------------------------- MODULE MCCoroutines -----------------------------
(* CoroutineStatements for TLC: two coroutines on one connection.           *)
EXTENDS CoroutineStatements, TLC

MCContents ==
    { [cols |-> 0, bounds |-> <<>>, err |-> FALSE],
      [cols |-> 1, bounds |-> <<1>>, err |-> TRUE],
      [cols |-> 1, bounds |-> <<2, 3>>, err |-> FALSE] }

Symmetry ==
    Permutations(Coroutines) \cup Permutations(Stmts)
        \cup Permutations(Results) \cup Permutations(Chunks)
=============================================================================
