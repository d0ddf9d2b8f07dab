------------------------------- MODULE Binding -------------------------------
(***************************************************************************)
(* The parameters of one prepared statement: from bindValue(), bindParam() *)
(* and execute($params) through the overrides of pdo_duckdb.c, PDO core's  *)
(* tables of bound parameters and bound columns, and the driver's          *)
(* param_hook, to the bindings that DuckDB keeps in the prepared statement *)
(* until they are cleared.                                                 *)
(*                                                                         *)
(* PDO core (bound, cols and when it calls the hook) and DuckDB (duck) are *)
(* not part of the repository; they appear as the driver uses them.        *)
(***************************************************************************)
EXTENDS Naturals

CONSTANTS NumParams,     \* the placeholders of the statement: 1..NumParams
          NumColumns,    \* the columns of its result: 1..NumColumns
          Vars,          \* PHP variables that can be bound by reference
          Scalars,       \* PHP values that DuckDB takes as they are
          Arrays,        \* arrays and objects, to be encoded as JSON
          Unencodable,   \* arrays and objects that JSON cannot encode
          Unknown,       \* a name or an index that is no placeholder
          Nil

ASSUME NumAssumption == NumParams \in Nat /\ NumColumns \in Nat

Params == 1..NumParams
Keys == Params \cup {Unknown}
Columns == 1..NumColumns

Json(v) == [json |-> v]
Texts == Scalars \cup {Json(v) : v \in Arrays}    \* what DuckDB can bind
Values == Texts \cup Arrays \cup Unencodable      \* what PHP can hold

Source == [value : Texts] \cup [var : Vars]

ASSUME ValuesAssumption ==
    /\ Unknown \notin Params
    /\ \A A, B \in {Scalars, Arrays, Unencodable} : A = B \/ A \cap B = {}
    /\ \A v \in Arrays : Json(v) \notin Arrays \cup Unencodable
    /\ Nil \notin Source \cup Values \cup Vars

VARIABLES vars,      \* the contents of the PHP variables
          bound,     \* stmt->bound_params: the sources of parameters, by key
          cols,      \* stmt->bound_columns: the variable of each column
          duck,      \* DuckDB's bindings in the prepared statement
          rows,      \* whether there is a row to fetch
          asked,     \* history: what the caller bound since the last execute()
          last       \* history: what the last execution used, and was asked

state == <<vars, bound, cols, duck, rows, asked, last>>

Nothing == [p \in Params |-> Nil]
NoParams == [k \in Keys |-> Nil]

TypeOK ==
    /\ vars \in [Vars -> Values]
    /\ bound \in [Keys -> Source \cup {Nil}]
    /\ cols \in [Columns -> Vars \cup {Nil}]
    /\ duck \in [Params -> Texts \cup {Nil}]
    /\ rows \in BOOLEAN
    /\ asked \in [Keys -> Source \cup {Nil}]
    /\ last = Nil \/ last \in [used : [Params -> Texts],
                               asked : [Params -> Texts \cup {Nil}]]

Init ==
    /\ vars \in [Vars -> Scalars]
    /\ bound = NoParams
    /\ cols = [i \in Columns |-> Nil]
    /\ duck = Nothing
    /\ rows = FALSE
    /\ asked = NoParams
    /\ last = Nil

-----------------------------------------------------------------------------
(* Encoding and binding *)

Encodable(v) == v \notin Unencodable

(* php_json_encode() for arrays and objects, anything else as it is. *)
Encode(v) == IF v \in Arrays THEN Json(v) ELSE v

(* The value of a source when the statement is executed: references are     *)
(* followed only then.                                                      *)
Current(source) == IF source \in [var : Vars] THEN vars[source.var] ELSE source.value

(* param_hook() at EXEC_PRE fails for a parameter ... *)
RefusesParam(params, k) ==
    params[k] # Nil /\ (k = Unknown \/ ~Encodable(Current(params[k])))

(* ... or for a bound column, which PDO core hands it just the same. *)
RefusesColumn(i) == cols[i] # Nil /\ (i \notin Params \/ ~Encodable(vars[cols[i]]))

ParamsRefused(params) == \E k \in Keys : RefusesParam(params, k)

Refuses(params) == ParamsRefused(params) \/ \E i \in Columns : RefusesColumn(i)

(* A bound column that param_hook() binds as the parameter of that number. *)
ColumnBinds(p) == p \in Columns /\ cols[p] # Nil

(* DuckDB's bindings after param_hook() has bound these parameters and then *)
(* these columns.                                                           *)
BoundBy(params, ps, is) ==
    [p \in Params |->
        CASE p \in is -> Encode(vars[cols[p]])
          [] p \in ps \ is -> Encode(Current(params[p]))
          [] OTHER -> duck[p]]

Given(params) == {p \in Params : params[p] # Nil}
BoundColumns == {i \in Columns : cols[i] # Nil}

(* After it went over both tables. *)
Bound(params) == BoundBy(params, Given(params), BoundColumns)

(* PDO core goes over bound_params in the order they were bound in, then    *)
(* over bound_columns, and stops at the first refusal: what came before it  *)
(* is bound.                                                                *)
PartlyBound(params) ==
    LET before == {p \in Given(params) : ~RefusesParam(params, p)}
        columns == {i \in BoundColumns : ~RefusesColumn(i)}
    IN  IF ParamsRefused(params)
          THEN {BoundBy(params, ps, {}) : ps \in SUBSET before}
          ELSE {BoundBy(params, before, is) : is \in SUBSET columns}

(* Defect: DuckDB's bindings outlive the execution. *)
NotCleared(bindings) == bindings

(* duckdb_clear_bindings() after the execution, whatever came of it. *)
Cleared(bindings) == Nothing

-----------------------------------------------------------------------------
(* What PHP code does *)

Assign(x, v) ==
    /\ vars' = [vars EXCEPT ![x] = v]
    /\ UNCHANGED <<bound, cols, duck, rows, asked, last>>

(* Defect: the array is bound as it is. *)
BindArray(k, v) ==
    /\ Encodable(v)
    /\ bound' = [bound EXCEPT ![k] = [value |-> v]]
    /\ asked' = [asked EXCEPT ![k] = [value |-> Encode(v)]]
    /\ UNCHANGED <<vars, cols, duck, rows, last>>

(* bindValue(); a value that cannot be encoded is an exception and nothing  *)
(* else.                                                                    *)
BindValue(k, v) ==
    /\ Encodable(v)
    /\ bound' = [bound EXCEPT ![k] = [value |-> Encode(v)]]
    /\ asked' = [asked EXCEPT ![k] = [value |-> Encode(v)]]
    /\ UNCHANGED <<vars, cols, duck, rows, last>>

(* bindParam() encodes an array in the caller's variable, at once. *)
BindParam(k, x) ==
    /\ Encodable(vars[x])
    /\ vars' = [vars EXCEPT ![x] = Encode(vars[x])]
    /\ bound' = [bound EXCEPT ![k] = [var |-> x]]
    /\ asked' = [asked EXCEPT ![k] = [var |-> x]]
    /\ UNCHANGED <<cols, duck, rows, last>>

(* bindColumn(), which the driver does not override. *)
BindColumn(i, x) ==
    /\ cols' = [cols EXCEPT ![i] = x]
    /\ UNCHANGED <<vars, bound, duck, rows, asked, last>>

(* Defect: the exception of the hook leaves the override before it clears   *)
(* DuckDB's bindings.                                                       *)
RefusedUncleared(params) ==
    /\ Refuses(params)
    /\ duck' \in PartlyBound(params)
    /\ rows' \in {rows, FALSE}
    /\ UNCHANGED last

(* The hook throws: nothing is executed. *)
Refused(params) ==
    /\ Refuses(params)
    /\ \E bindings \in PartlyBound(params) : duck' = Cleared(bindings)
    /\ rows' \in {rows, FALSE}
    /\ UNCHANGED last

(* DuckDB fails if a placeholder has no binding, and else uses them all. *)
Executed(params, wants) ==
    LET bindings == Bound(params)
        meant == [p \in Params |->
                     IF wants[p] = Nil THEN Nil ELSE Encode(Current(wants[p]))]
    IN  /\ ~Refuses(params)
        /\ duck' = Cleared(bindings)
        /\ \/ /\ \E p \in Params : bindings[p] = Nil
              /\ rows' \in {rows, FALSE}
              /\ UNCHANGED last
           \/ /\ \A p \in Params : bindings[p] # Nil
              /\ rows' \in BOOLEAN
              /\ last' = [used |-> bindings, asked |-> meant]

(***************************************************************************)
(* execute() once the override has encoded its arguments: params are in    *)
(* bound_params, wants is what the caller means.  Afterwards DuckDB's      *)
(* bindings and bound_params are cleared, whatever came of it.             *)
(***************************************************************************)
Run(params, wants) ==
    /\ Refused(params) \/ Executed(params, wants)
    /\ bound' = NoParams
    /\ asked' = NoParams
    /\ UNCHANGED <<vars, cols>>

(* execute() uses what was bound, ... *)
Execute == Run(bound, asked)

(* ... execute($params) only its arguments.  When one cannot be encoded the *)
(* override throws before PDO core is called, and nothing changes.          *)
ExecuteWith(args) ==
    /\ \A k \in DOMAIN args : Encodable(args[k])
    /\ LET params == [k \in Keys |-> IF k \in DOMAIN args
                                       THEN [value |-> Encode(args[k])] ELSE Nil]
       IN  Run(params, params)

(* A fetch assigns a column of the row to each bound variable. *)
Fetch ==
    /\ rows
    /\ \E row \in [Vars -> Scalars] :
          vars' = [x \in Vars |->
                      IF \E i \in Columns : cols[i] = x THEN row[x] ELSE vars[x]]
    /\ rows' \in BOOLEAN
    /\ UNCHANGED <<bound, cols, duck, asked, last>>

Arguments == UNION {[D -> Values] : D \in SUBSET Keys \ {{}}}

Next ==
    \/ \E x \in Vars, v \in Values : Assign(x, v)
    \/ \E k \in Keys, v \in Values : BindValue(k, v)
    \/ \E k \in Keys, x \in Vars : BindParam(k, x)
    \/ \E i \in Columns, x \in Vars : BindColumn(i, x)
    \/ Execute
    \/ \E args \in Arguments : ExecuteWith(args)
    \/ Fetch

Spec == Init /\ [][Next]_state

-----------------------------------------------------------------------------
(* Properties *)

(***************************************************************************)
(* An execution uses for each parameter what the caller bound for it since *)
(* the last execute(), or passed to this one, and its latest value if it   *)
(* was bound by reference; nothing of an earlier execution, refused ones   *)
(* included.  Parameters with the number of a bound column are excepted,   *)
(* see NoStaleBindings.                                                    *)
(***************************************************************************)
UsesWhatWasAsked ==
    last # Nil =>
        \A p \in Params : ~ColumnBinds(p) => last.used[p] = last.asked[p]

(***************************************************************************)
(* The comment above the override of execute(): it always clears DuckDB's  *)
(* bindings, "so stale bindings don't leak across re-execute() calls".     *)
(* Then every parameter would be what the caller asked for.                *)
(***************************************************************************)
NoStaleBindings == last # Nil => last.used = last.asked
=============================================================================
