--------------------------- MODULE BindingProofs ----------------------------
(***************************************************************************)
(* Proofs about module Binding, for any number of parameters, of columns   *)
(* and of variables, and any values.                                       *)
(***************************************************************************)
EXTENDS Binding, TLAPS

(* Nothing that an execution bound survives it, however far it came. *)
BindingInv ==
    /\ TypeOK
    /\ bound = asked
    /\ duck = Nothing
    /\ UsesWhatWasAsked

-----------------------------------------------------------------------------
(* Encoding *)

LEMMA EncodeText ==
    ASSUME NEW v \in Values, Encodable(v)
    PROVE  Encode(v) \in Texts
  BY DEF Values, Texts, Encodable, Encode

LEMMA TextsAreEncodable ==
    ASSUME NEW v \in Texts
    PROVE  v \in Values /\ Encode(v) \in Texts
  BY DEF Values, Texts, Encode

LEMMA CurrentValue ==
    ASSUME NEW src \in Source, vars \in [Vars -> Values]
    PROVE  Current(src) \in Values
  <1>1. CASE src \in [var : Vars]
    BY <1>1 DEF Current
  <1>2. CASE src \notin [var : Vars]
    <2>1. src \in [value : Texts]
      BY <1>2 DEF Source
    <2>2. Current(src) = src.value /\ src.value \in Texts
      BY <1>2, <2>1 DEF Current
    <2>3. QED
      BY <2>2, TextsAreEncodable
  <1>3. QED
    BY <1>1, <1>2

(* What the caller binds is a source. *)
LEMMA Sources ==
    /\ \A t \in Texts : [value |-> t] \in Source
    /\ \A x \in Vars : [var |-> x] \in Source
  BY DEF Source

(* Once the hook refuses nothing, DuckDB is handed texts, and those asked for. *)
LEMMA BoundTexts ==
    ASSUME BindingInv, NEW params \in [Keys -> Source \cup {Nil}], ~Refuses(params)
    PROVE  /\ Bound(params) \in [Params -> Texts \cup {Nil}]
           /\ \A p \in Params :
                 /\ params[p] # Nil => Encode(Current(params[p])) \in Texts
                 /\ ~ColumnBinds(p) =>
                       Bound(params)[p] = IF params[p] = Nil THEN Nil
                                                            ELSE Encode(Current(params[p]))
  <1>1. /\ vars \in [Vars -> Values]
        /\ cols \in [Columns -> Vars \cup {Nil}]
        /\ duck = Nothing
    BY DEF BindingInv, TypeOK
  <1>2. ASSUME NEW p \in Params, params[p] # Nil
        PROVE  Encode(Current(params[p])) \in Texts
    <2>1. p \in Keys /\ params[p] \in Source
      BY <1>2 DEF Keys
    <2>2. Encodable(Current(params[p]))
      BY <1>2, <2>1 DEF Refuses, ParamsRefused, RefusesParam
    <2>3. Current(params[p]) \in Values
      BY <1>1, <2>1, CurrentValue
    <2>4. QED
      BY <2>2, <2>3, EncodeText
  <1>3. ASSUME NEW p \in Params, ColumnBinds(p)
        PROVE  Encode(vars[cols[p]]) \in Texts
    <2>1. p \in Columns /\ cols[p] # Nil
      BY <1>3 DEF ColumnBinds
    <2>2. Encodable(vars[cols[p]]) /\ vars[cols[p]] \in Values
      BY <1>1, <2>1 DEF Refuses, RefusesColumn
    <2>3. QED
      BY <2>2, EncodeText
  <1>4. ASSUME NEW p \in Params
        PROVE  Bound(params)[p] =
                 IF ColumnBinds(p) THEN Encode(vars[cols[p]])
                 ELSE IF params[p] # Nil THEN Encode(Current(params[p])) ELSE Nil
    BY <1>1 DEF Bound, BoundBy, Given, BoundColumns, ColumnBinds, Nothing
  <1>5. Bound(params) = [p \in Params |-> Bound(params)[p]]
    BY DEF Bound, BoundBy
  <1>6. QED
    BY <1>2, <1>3, <1>4, <1>5

-----------------------------------------------------------------------------
(* The invariant *)

LEMMA InitBindingInv == Init => BindingInv
  <1>1. Scalars \subseteq Values
    BY DEF Values, Texts
  <1>2. QED
    BY <1>1 DEF Init, BindingInv, TypeOK, UsesWhatWasAsked, NoParams, Nothing

LEMMA RunKeeps ==
    ASSUME BindingInv, NEW params \in [Keys -> Source \cup {Nil}], Run(params, params)
    PROVE  BindingInv'
  <1> DEFINE bindings == Bound(params)
             meant == [p \in Params |->
                          IF params[p] = Nil THEN Nil ELSE Encode(Current(params[p]))]
  <1>1. /\ bound' = NoParams /\ asked' = NoParams
        /\ duck' = Nothing
        /\ vars' = vars /\ cols' = cols
        /\ \/ rows' \in {rows, FALSE} /\ last' = last
           \/ /\ ~Refuses(params)
              /\ \A p \in Params : bindings[p] # Nil
              /\ rows' \in BOOLEAN
              /\ last' = [used |-> bindings, asked |-> meant]
    BY DEF Run, Refused, Executed, Cleared
  <1> HIDE DEF bindings, meant
  <1>2. \A p \in Params : ColumnBinds(p)' <=> ColumnBinds(p)
    BY <1>1 DEF ColumnBinds
  <1>3. CASE last' = last /\ rows' \in {rows, FALSE}
    <2>1. TypeOK'
      BY <1>1, <1>3 DEF BindingInv, TypeOK, NoParams, Nothing
    <2>2. UsesWhatWasAsked'
      BY <1>2, <1>3 DEF BindingInv, UsesWhatWasAsked
    <2>3. QED
      BY <1>1, <2>1, <2>2 DEF BindingInv, Nothing
  <1>4. CASE /\ ~Refuses(params)
             /\ \A p \in Params : bindings[p] # Nil
             /\ rows' \in BOOLEAN
             /\ last' = [used |-> bindings, asked |-> meant]
    <2>1. /\ bindings \in [Params -> Texts \cup {Nil}]
          /\ meant \in [Params -> Texts \cup {Nil}]
          /\ \A p \in Params : ~ColumnBinds(p) => bindings[p] = meant[p]
      BY <1>4, BoundTexts DEF bindings, meant
    <2>2. bindings \in [Params -> Texts]
      BY <1>4, <2>1
    <2>3. last'.used = bindings /\ last'.asked = meant
      BY <1>4
    <2>4. TypeOK'
      BY <1>1, <1>4, <2>1, <2>2 DEF BindingInv, TypeOK, NoParams, Nothing
    <2>5. UsesWhatWasAsked'
      BY <1>2, <2>1, <2>3 DEF UsesWhatWasAsked
    <2>6. QED
      BY <1>1, <2>4, <2>5 DEF BindingInv, Nothing
  <1>5. QED
    BY <1>1, <1>3, <1>4

LEMMA BindingKeeps == BindingInv /\ [Next]_state => BindingInv'
  <1> SUFFICES ASSUME BindingInv, [Next]_state PROVE BindingInv'
    OBVIOUS
  <1>1. ASSUME NEW x \in Vars, NEW v \in Values, Assign(x, v) PROVE BindingInv'
    BY <1>1 DEF Assign, BindingInv, TypeOK, UsesWhatWasAsked, ColumnBinds, Nothing
  <1>2. ASSUME NEW k \in Keys, NEW v \in Values, BindValue(k, v) PROVE BindingInv'
    <2>1. [value |-> Encode(v)] \in Source
      BY <1>2, EncodeText, Sources DEF BindValue
    <2> DEFINE src == [value |-> Encode(v)]
    <2>2. /\ bound' = [bound EXCEPT ![k] = src] /\ asked' = [asked EXCEPT ![k] = src]
          /\ vars' = vars /\ cols' = cols /\ duck' = duck /\ rows' = rows /\ last' = last
      BY <1>2 DEF BindValue
    <2> HIDE DEF src
    <2>3. src \in Source
      BY <2>1 DEF src
    <2>4. QED
      BY <2>2, <2>3 DEF BindingInv, TypeOK, UsesWhatWasAsked, ColumnBinds, Nothing
  <1>3. ASSUME NEW k \in Keys, NEW x \in Vars, BindParam(k, x) PROVE BindingInv'
    <2> DEFINE src == [var |-> x]
               text == Encode(vars[x])
    <2>1. src \in Source
      BY Sources
    <2>2. text \in Values
      BY <1>3, EncodeText, TextsAreEncodable DEF BindParam, BindingInv, TypeOK
    <2>3. /\ bound' = [bound EXCEPT ![k] = src] /\ asked' = [asked EXCEPT ![k] = src]
          /\ vars' = [vars EXCEPT ![x] = text]
          /\ cols' = cols /\ duck' = duck /\ rows' = rows /\ last' = last
      BY <1>3 DEF BindParam
    <2> HIDE DEF src, text
    <2>4. QED
      BY <2>1, <2>2, <2>3
         DEF BindingInv, TypeOK, UsesWhatWasAsked, ColumnBinds, Nothing
  <1>4. ASSUME NEW i \in Columns, NEW x \in Vars, BindColumn(i, x) PROVE BindingInv'
    <2>1. /\ cols' = [cols EXCEPT ![i] = x] /\ cols' \in [Columns -> Vars \cup {Nil}]
          /\ UNCHANGED <<vars, bound, duck, rows, asked, last>>
      BY <1>4 DEF BindColumn, BindingInv, TypeOK
    <2>2. \A p \in Params : ColumnBinds(p) => ColumnBinds(p)'
      BY <2>1, ValuesAssumption DEF ColumnBinds, BindingInv, TypeOK
    <2>3. QED
      BY <2>1, <2>2 DEF BindingInv, TypeOK, UsesWhatWasAsked, Nothing
  <1>5. CASE Execute
    <2>1. Run(bound, bound) /\ bound \in [Keys -> Source \cup {Nil}]
      BY <1>5 DEF Execute, BindingInv, TypeOK
    <2>2. QED
      BY <2>1, RunKeeps
  <1>6. ASSUME NEW args \in Arguments, ExecuteWith(args) PROVE BindingInv'
    <2> DEFINE params == [k \in Keys |-> IF k \in DOMAIN args
                                           THEN [value |-> Encode(args[k])] ELSE Nil]
    <2>1. Run(params, params)
      BY <1>6 DEF ExecuteWith
    <2>2. ASSUME NEW k \in DOMAIN args PROVE [value |-> Encode(args[k])] \in Source
      <3>1. args[k] \in Values
        BY <2>2 DEF Arguments
      <3>2. Encodable(args[k])
        BY <1>6, <2>2 DEF ExecuteWith
      <3>3. QED
        BY <3>1, <3>2, EncodeText, Sources
    <2>3. params \in [Keys -> Source \cup {Nil}]
      BY <2>2
    <2> HIDE DEF params
    <2>4. QED
      BY <2>1, <2>3, RunKeeps
  <1>7. CASE Fetch
    <2>1. /\ vars' \in [Vars -> Values]
          /\ rows' \in BOOLEAN
          /\ UNCHANGED <<bound, cols, duck, asked, last>>
      <3>1. PICK row \in [Vars -> Scalars] :
              vars' = [x \in Vars |->
                         IF \E i \in Columns : cols[i] = x THEN row[x] ELSE vars[x]]
        BY <1>7 DEF Fetch
      <3>2. Scalars \subseteq Values
        BY DEF Values, Texts
      <3>3. QED
        BY <1>7, <3>1, <3>2 DEF Fetch, BindingInv, TypeOK
    <2>2. QED
      BY <2>1 DEF BindingInv, TypeOK, UsesWhatWasAsked, ColumnBinds, Nothing
  <1>8. CASE UNCHANGED state
    BY <1>8 DEF state, BindingInv, TypeOK, UsesWhatWasAsked, ColumnBinds, Nothing
  <1>9. QED
    BY <1>1, <1>2, <1>3, <1>4, <1>5, <1>6, <1>7, <1>8 DEF Next

-----------------------------------------------------------------------------
(* The theorems *)

(* An execution uses what the caller bound since the last one, and no more. *)
THEOREM UsesWhatWasAskedHolds == Spec => []UsesWhatWasAsked
  <1>1. BindingInv => UsesWhatWasAsked
    BY DEF BindingInv
  <1>2. QED
    BY <1>1, InitBindingInv, BindingKeeps, PTL DEF Spec

(* DuckDB is only ever handed values that it can bind. *)
THEOREM BindingTypeCorrect == Spec => []TypeOK
  <1>1. BindingInv => TypeOK
    BY DEF BindingInv
  <1>2. QED
    BY <1>1, InitBindingInv, BindingKeeps, PTL DEF Spec
=============================================================================
