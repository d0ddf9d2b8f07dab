----------------------------- MODULE MCStatement -----------------------------
(* Statement for TLC: queries that return no columns, no rows, one chunk   *)
(* and several chunks, with and without an error after the last row.       *)
EXTENDS Statement

MCContents ==
    { [cols |-> 0, bounds |-> <<>>, err |-> FALSE],
      [cols |-> 1, bounds |-> <<>>, err |-> FALSE],
      [cols |-> 2, bounds |-> <<2>>, err |-> TRUE],
      [cols |-> 1, bounds |-> <<1, 3>>, err |-> FALSE] }
=============================================================================
