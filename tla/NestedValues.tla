----------------------------- MODULE NestedValues -----------------------------
(***************************************************************************)
(* The nested types of duckdb_val_from_vector(): lists, arrays, structs,   *)
(* maps, unions and variants.  DuckDB stores a column in vectors: the      *)
(* elements of all the lists of a column are the rows of one child vector, *)
(* a struct has one child vector for each member.  The driver walks them   *)
(* by row number and offset, and must give back the rows of the column.    *)
(* A vector is known by the rows it holds: what DuckDB stores for them is  *)
(* said by Valid, Offsets and Tag, and its child vectors are the rows      *)
(* Elements, Slots, Member, EntryMember and Tagged.                        *)
(*                                                                         *)
(* NULL is Nil, in SQL and in PHP.  A PHP array is a function from its     *)
(* keys, a list one from 1..n; the order of named entries is left out.     *)
(***************************************************************************)
EXTENDS Integers, SequencesExt

CONSTANTS Scalars,     \* the values of a column that is not nested
          Nil,
          Types,       \* the types of columns and of what they contain
          Depth,       \* how deep each of them is nested
          MaxDepth,    \* the deepest
          MaxLength,   \* the longest list
          Rows,        \* the number of rows of a column
          MapKey(_)    \* zval_to_map_key(): the text of a key

-----------------------------------------------------------------------------
(* Types and their values *)

Scalar == [id |-> "SCALAR"]
List(t) == [id |-> "LIST", child |-> t]
Array(t, n) == [id |-> "ARRAY", child |-> t, size |-> n]
Struct(names, ts) == [id |-> "STRUCT", names |-> names, children |-> ts]
Map(k, v) == [id |-> "MAP", key |-> k, value |-> v]
Union(names, ts) == [id |-> "UNION", names |-> names, children |-> ts]
Variant(ts) == [id |-> "VARIANT", children |-> ts]

Components(t) ==
    CASE t.id = "SCALAR" -> {}
      [] t.id \in {"LIST", "ARRAY"} -> {t.child}
      [] t.id = "MAP" -> {t.key, t.value}
      [] t.id \in {"STRUCT", "UNION", "VARIANT"} -> Range(t.children)

ASSUME NestedAssumption ==
    Nil \notin Scalars /\ MaxLength \in Nat /\ MaxDepth \in Nat /\ Rows \in Nat \ {0}

ASSUME TypesAssumption ==
    /\ Depth \in [Types -> 0..MaxDepth]
    /\ \A t \in Types :
        /\ t.id \in {"SCALAR", "LIST", "ARRAY", "STRUCT", "MAP", "UNION", "VARIANT"}
        /\ t.id = "ARRAY" => t.size \in Nat
        /\ t.id \in {"STRUCT", "UNION", "VARIANT"} => t.children \in Seq(Types)
        /\ \A c \in Components(t) : c \in Types /\ Depth[c] < Depth[t]

Distinct(map) == \A i, j \in DOMAIN map : map[i][1] = map[j][1] => i = j

ListsOf(S) == UNION {[1..n -> S] : n \in 0..MaxLength}

(* The values of a type, given those of its components.  A union and a      *)
(* variant know which of their types a value has; the keys of a map are     *)
(* distinct and not NULL.                                                  *)
ValuesOf(t, values) ==
    {Nil} \cup
    CASE t.id = "SCALAR" -> Scalars
      [] t.id = "LIST" -> ListsOf(values[t.child])
      [] t.id = "ARRAY" -> [1..t.size -> values[t.child]]
      [] t.id = "STRUCT" ->
            {v \in [DOMAIN t.children -> UNION {values[c] : c \in Range(t.children)}] :
                \A i \in DOMAIN t.children : v[i] \in values[t.children[i]]}
      [] t.id = "MAP" ->
            {m \in ListsOf((values[t.key] \ {Nil}) \X values[t.value]) : Distinct(m)}
      [] t.id \in {"UNION", "VARIANT"} ->
            UNION {[tag : {i}, value : values[t.children[i]]] : i \in DOMAIN t.children}

Values[t \in Types] == ValuesOf(t, Values)

-----------------------------------------------------------------------------
(* DuckDB's vectors; their rows are counted from 0 as in C *)

Valid(rows, row) == rows[row + 1] # Nil

(* The elements of the lists of a column, one list after the other. *)
Elements(rows) == FlattenSeq([r \in DOMAIN rows |-> IF rows[r] = Nil THEN <<>> ELSE rows[r]])

Offsets(rows, row) ==
    [offset |-> Len(Elements(SubSeq(rows, 1, row))),
     length |-> IF Valid(rows, row) THEN Len(rows[row + 1]) ELSE 0]

(* The elements of arrays: as many for a NULL as for an array. *)
Slots(rows, size) ==
    FlattenSeq([r \in DOMAIN rows |->
                   IF rows[r] = Nil THEN [i \in 1..size |-> Nil] ELSE rows[r]])

Member(rows, i) == [r \in DOMAIN rows |-> IF rows[r] = Nil THEN Nil ELSE rows[r][i]]

(* The keys (1) or the values (2) of entries of maps, none of which is NULL. *)
EntryMember(entries, i) == [e \in DOMAIN entries |-> entries[e][i]]

(* The tags of a union's rows, counted from 0, and its member vectors. *)
Tag(rows, row) == IF Valid(rows, row) THEN rows[row + 1].tag - 1 ELSE 0

Tagged(rows, i) ==
    [r \in DOMAIN rows |->
        IF rows[r] # Nil /\ rows[r].tag = i THEN rows[r].value ELSE Nil]

-----------------------------------------------------------------------------
(* The driver's conversion *)

(* Defect: the size of the array is forgotten. *)
NextElement(row, size, i) == row + i

(* Where the arrays of a row start in the child vector. *)
ArrayElement(row, size, i) == row * size + i

(* add_assoc_zval(), or add_next_index_zval() when members have no names. *)
Named(names, zvs) ==
    IF \A i \in DOMAIN names : names[i] = ""
      THEN zvs
      ELSE [n \in Range(names) |-> zvs[CHOOSE i \in DOMAIN names : names[i] = n]]

(* add_assoc_zval_ex(): the entry is new, or has a new value. *)
WithEntry(zv, key, value) ==
    [k \in DOMAIN zv \cup {key} |-> IF k = key THEN value ELSE zv[k]]

(* The loop over the n entries of a map. *)
Entries(n, keys, values) ==
    LET zv[i \in 0..n] ==
            IF i = 0 THEN <<>> ELSE WithEntry(zv[i - 1], keys[i], values[i])
    IN  zv[n]

(* duckdb_val_from_vector() for a type, given that for its components. *)
ConvertedBy(t, converted, rows, row) ==
    IF ~Valid(rows, row) THEN Nil
    ELSE CASE t.id = "SCALAR" -> rows[row + 1]
      [] t.id = "LIST" ->
            LET entry == Offsets(rows, row)
            IN  [i \in 1..entry.length |->
                    converted[t.child][Elements(rows)][entry.offset + i - 1]]
      [] t.id = "ARRAY" ->
            [i \in 1..t.size |->
                converted[t.child][Slots(rows, t.size)][ArrayElement(row, t.size, i - 1)]]
      [] t.id = "STRUCT" ->
            Named(t.names, [i \in DOMAIN t.children |->
                               converted[t.children[i]][Member(rows, i)][row]])
      [] t.id = "MAP" ->
            LET entry == Offsets(rows, row)
                keys == EntryMember(Elements(rows), 1)
                values == EntryMember(Elements(rows), 2)
                key(i) == converted[t.key][keys][i]
                value(i) == converted[t.value][values][i]
            IN  Entries(entry.length,
                        [i \in 1..entry.length |-> MapKey(key(entry.offset + i - 1))],
                        [i \in 1..entry.length |-> value(entry.offset + i - 1)])
      [] t.id = "UNION" ->
            LET tag == Tag(rows, row)
            IN  IF tag >= Len(t.children) THEN Nil
                ELSE WithEntry(<<>>, t.names[tag + 1],
                               converted[t.children[tag + 1]][Tagged(rows, tag + 1)][row])
      [] t.id = "VARIANT" ->   \* duckdb_variant_to_vector() makes a vector of one row
            LET v == rows[row + 1]
            IN  converted[t.children[v.tag]][<<v.value>>][0]

Converted[t \in Types] ==
    [rows \in Seq(Values[t]) |->
        [row \in 0..Len(rows) - 1 |-> ConvertedBy(t, Converted, rows, row)]]

-----------------------------------------------------------------------------
VARIABLES type,      \* of the column of the result
          column,    \* its rows
          read       \* the row that PDO core asked for and what it was given

vars == <<type, column, read>>

NothingRead == [row |-> Nil]

Init ==
    /\ type \in Types
    /\ column \in [1..Rows -> Values[type]]
    /\ read = NothingRead

(* duckdb_stmt_get_col() of any row of the chunk.  Its guards belong to      *)
(* module Statement; the stringify attribute, which turns the result into   *)
(* text, is left out.                                                       *)
GetCol(row) ==
    /\ read' = [row |-> row, zv |-> Converted[type][column][row]]
    /\ UNCHANGED <<type, column>>

Next == \E row \in 0..(Rows - 1) : GetCol(row)

Spec == Init /\ [][Next]_vars

-----------------------------------------------------------------------------
(* The property *)

(* Of two entries of a map with the same key PHP keeps the later one.       *)
LastEntries(keys, values) ==
    [k \in Range(keys) |->
        values[CHOOSE i \in DOMAIN keys :
                  keys[i] = k /\ \A j \in DOMAIN keys : keys[j] = k => j <= i]]

(* The PHP value that stands for a value, given those for its components.   *)
PhpOf(t, php, v) ==
    IF v = Nil THEN Nil
    ELSE CASE t.id = "SCALAR" -> v
      [] t.id \in {"LIST", "ARRAY"} -> [i \in DOMAIN v |-> php[t.child][v[i]]]
      [] t.id = "STRUCT" -> Named(t.names, [i \in DOMAIN v |-> php[t.children[i]][v[i]]])
      [] t.id = "MAP" -> LastEntries([i \in DOMAIN v |-> MapKey(php[t.key][v[i][1]])],
                                     [i \in DOMAIN v |-> php[t.value][v[i][2]]])
      [] t.id = "UNION" -> [name \in {t.names[v.tag]} |-> php[t.children[v.tag]][v.value]]
      [] t.id = "VARIANT" -> php[t.children[v.tag]][v.value]

Php[t \in Types] == [v \in Values[t] |-> PhpOf(t, Php, v)]

(***************************************************************************)
(* Whatever its type, the value that PHP gets for a row is the value of    *)
(* this row: no element comes from a neighbour, whichever of them are NULL *)
(* or empty and however deep the nesting.                                  *)
(***************************************************************************)
RowConverted ==
    read.row # Nil => read.zv = Php[type][column[read.row + 1]]
=============================================================================
