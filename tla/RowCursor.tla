------------------------------ MODULE RowCursor ------------------------------
(***************************************************************************)
(* What a PDO statement promises about the rows of one execution, with     *)
(* nothing of how the driver keeps them: an execution determines a number  *)
(* of rows and whether producing the last one runs into an error; fetches  *)
(* then hand out the rows 1, 2, 3, ... each exactly once, and after them   *)
(* either the end of the rows or the error, and from then on the end.      *)
(* Module Statement, the driver's chunk cursor, implements this module.    *)
(***************************************************************************)
EXTENDS Naturals

CONSTANTS Stmts,       \* the statements
          Executions   \* possible outcomes of an execution, a subset of
                       \* [rows : Nat, err : BOOLEAN]

VARIABLES cursor,      \* per statement: [status, exec, pos]
          reply        \* per statement: what the last fetch answered

vars == <<cursor, reply>>

(***************************************************************************)
(* "closed": no rows to fetch; "open": the rows after pos are still to     *)
(* come; "ended": the end, or the error, has been reported.                *)
(***************************************************************************)
Closed == [status |-> "closed"]
At(e, status, p) == [status |-> status, exec |-> e, pos |-> p]

NoRow == [outcome |-> "none", row |-> 0]
Row(n) == [outcome |-> "row", row |-> n]
End == [outcome |-> "end", row |-> 0]
Error == [outcome |-> "error", row |-> 0]

Init ==
    /\ cursor = [s \in Stmts |-> Closed]
    /\ reply = [s \in Stmts |-> NoRow]

(* An execution, or its failure, forgets the rows of the one before. *)
Execute(s) ==
    /\ \/ cursor' = [cursor EXCEPT ![s] = Closed]
       \/ \E e \in Executions :
            cursor' = [cursor EXCEPT ![s] = At(e, "open", 0)]
       \/ \E e \in Executions :     \* a statement that returns no columns
            /\ e.rows = 0 /\ ~e.err
            /\ cursor' = [cursor EXCEPT ![s] = At(e, "ended", 0)]
    /\ reply' = [reply EXCEPT ![s] = NoRow]

FetchRow(s) ==
    LET c == cursor[s] IN
    /\ c.status = "open"
    /\ c.pos < c.exec.rows
    /\ cursor' = [cursor EXCEPT ![s] = At(c.exec, "open", c.pos + 1)]
    /\ reply' = [reply EXCEPT ![s] = Row(c.pos + 1)]

FetchLast(s) ==
    LET c == cursor[s] IN
    /\ c.status = "open"
    /\ c.pos = c.exec.rows
    /\ cursor' = [cursor EXCEPT ![s] = At(c.exec, "ended", c.pos)]
    /\ reply' = [reply EXCEPT ![s] = IF c.exec.err THEN Error ELSE End]

FetchNothing(s) ==
    /\ cursor[s].status # "open"
    /\ reply' = [reply EXCEPT ![s] = End]
    /\ UNCHANGED cursor

Close(s) ==
    /\ cursor' = [cursor EXCEPT ![s] = Closed]
    /\ reply' = [reply EXCEPT ![s] = NoRow]

Next ==
    \E s \in Stmts :
        Execute(s) \/ FetchRow(s) \/ FetchLast(s) \/ FetchNothing(s) \/ Close(s)

Spec == Init /\ [][Next]_vars
=============================================================================
