--------------------------- MODULE MCNestedValues ----------------------------
(* NestedValues for TLC: each nested type over scalars, and one level more. *)
EXTENDS NestedValues

CONSTANT Empty     \* the scalar that is an empty string

ASSUME EmptyAssumption == Empty \in Scalars

Pair == <<Scalar, List(Scalar)>>

MCTypes ==
    { Scalar, Array(Scalar, 1),
      List(Scalar), List(List(Scalar)), Array(Scalar, 2), Array(List(Scalar), 2),
      List(Array(Scalar, 2)), Struct(<<"a", "b">>, Pair), Struct(<<"", "">>, Pair),
      Map(Scalar, Scalar), Map(Array(Scalar, 1), Scalar),
      Union(<<"a", "b">>, Pair), Variant(Pair) }

MCDepth ==
    [t \in MCTypes |->
        IF Components(t) = {} THEN 0 ELSE IF Components(t) = {Scalar} THEN 1 ELSE 2]

(* zval_to_map_key(): a sequence of what ", " separates; NULL, the empty    *)
(* array and the empty string all have the empty text.                     *)
RECURSIVE KeyText(_)
KeyText(zv) ==
    IF zv \in Scalars THEN <<zv>>
    ELSE IF zv \in {Nil, <<>>} THEN <<Empty>>
    ELSE FlattenSeq([i \in DOMAIN zv |-> KeyText(zv[i])])
=============================================================================
