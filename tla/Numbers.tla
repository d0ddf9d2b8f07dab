------------------------------- MODULE Numbers -------------------------------
(***************************************************************************)
(* The numbers of duckdb_val_from_vector(): an integer or a decimal of a   *)
(* DuckDB column becomes a PHP int when it fits, a PHP float when it is a  *)
(* decimal that a float holds exactly, and a string of digits otherwise.   *)
(* DuckDB hands 128-bit numbers out as two words; C's conversions between  *)
(* words and signed integers are modelled with their width.                *)
(*                                                                         *)
(* duckdb_get_string() and duckdb_decimal_to_double() are DuckDB's.        *)
(***************************************************************************)
EXTENDS Integers

CONSTANTS Half,     \* half the range of a word, 2^63; ZEND_LONG_MAX + 1
          Exact     \* up to here a double holds every integer, 2^53

ASSUME WordAssumption == Half \in Nat /\ Exact \in 1..(Half - 1)

Base == 2 * Half                 \* 2^64
Word == 0..(Base - 1)            \* uint64_t
Signed == (-Half)..(Half - 1)    \* int64_t and zend_long

(* Defect: the word is taken for a signed integer as it is. *)
WordAsLong(w) == w

(* C's conversions between the two, which keep the bits. *)
ToWord(n) == IF n < 0 THEN n + Base ELSE n
ToLong(w) == IF w < Half THEN w ELSE w - Base

(* ~w + 1, which wraps around at zero. *)
Negated(w) == IF w = 0 THEN 0 ELSE Base - w

(***************************************************************************)
(* What a column holds: a signed or an unsigned integer of at most 64      *)
(* bits, a HUGEINT or UHUGEINT of two words, or the unscaled value of a    *)
(* DECIMAL, stored as a signed integer or as a HUGEINT.                    *)
(***************************************************************************)
Stored ==
    [type : {"BIGINT", "SMALL DECIMAL"}, value : Signed]
    \cup [type : {"UBIGINT"}, value : Word]
    \cup [type : {"HUGEINT", "DECIMAL"}, upper : Signed, lower : Word]
    \cup [type : {"UHUGEINT"}, upper : Word, lower : Word]

InOneWord == {"BIGINT", "SMALL DECIMAL", "UBIGINT"}

(* The number that the words of a column stand for. *)
Number(col) ==
    IF col.type \in InOneWord THEN col.value ELSE col.upper * Base + col.lower

VARIABLES col,     \* the column of the row at hand
          zv       \* what the conversion made of it

vars == <<col, zv>>

Long(n) == [kind |-> "long", number |-> n]
Text(n) == [kind |-> "string", number |-> n]
Double(n) == [kind |-> "double", number |-> n]
Null == [kind |-> "null"]

TypeOK ==
    /\ col \in Stored
    /\ zv \in {Null} \cup [kind : {"long"}, number : Signed]
                    \cup [kind : {"string", "double"}, number : Int]

Init == col \in Stored /\ zv = Null

-----------------------------------------------------------------------------
(* snprintf() always succeeds, duckdb_get_string() may return NULL. *)
Printed(c) == zv' = Text(Number(c))
GetString(c) == zv' \in {Text(Number(c)), Null}

GetBigint(c) ==
    /\ c.type = "BIGINT"
    /\ zv' = Long(c.value)

GetUbigint(c) ==
    /\ c.type = "UBIGINT"
    /\ IF c.value > Half - 1 THEN Printed(c) ELSE zv' = Long(ToLong(c.value))

(* Defect: the lower word alone decides. *)
FitsByLowerWord(c) ==
    \/ c.upper = 0
    \/ c.upper = -1 /\ c.lower >= ToWord(-Half)

(* A HUGEINT that is a sign extension of its lower word. *)
HugeintFits(c) ==
    \/ c.upper = 0 /\ c.lower <= Half - 1
    \/ c.upper = -1 /\ c.lower >= ToWord(-Half)

GetHugeint(c) ==
    /\ c.type = "HUGEINT"
    /\ IF HugeintFits(c) THEN zv' = Long(ToLong(c.lower)) ELSE GetString(c)

GetUhugeint(c) ==
    /\ c.type = "UHUGEINT"
    /\ IF c.upper = 0 /\ c.lower <= Half - 1
          THEN zv' = Long(ToLong(c.lower))
          ELSE GetString(c)

(* The two words of a decimal, sign extended when it was stored in one. *)
Words(c) ==
    IF c.type = "SMALL DECIMAL"
      THEN [upper |-> IF c.value < 0 THEN -1 ELSE 0, lower |-> ToWord(c.value)]
      ELSE [upper |-> c.upper, lower |-> c.lower]

(* Defect: the bound is that of a long. *)
FitsInWord(w) ==
    \/ w.upper = 0 /\ w.lower <= Half - 1
    \/ w.upper = -1 /\ Negated(w.lower) <= Half - 1

(* The decimals that become a double: ~upper = 0 stands for upper = -1, and *)
(* the lower word is negated on its own.                                    *)
DecimalFits(w) ==
    \/ w.upper = 0 /\ w.lower <= Exact
    \/ w.upper = -1 /\ Negated(w.lower) <= Exact

GetDecimal(c) ==
    /\ c.type \in {"SMALL DECIMAL", "DECIMAL"}
    /\ IF DecimalFits(Words(c)) THEN zv' = Double(Number(c)) ELSE GetString(c)

Next ==
    \E c \in Stored :
        /\ \/ GetBigint(c)
           \/ GetUbigint(c)
           \/ GetHugeint(c)
           \/ GetUhugeint(c)
           \/ GetDecimal(c)
        /\ col' = c

Spec == Init /\ [][Next]_vars

-----------------------------------------------------------------------------
(* Properties *)

(***************************************************************************)
(* An int or a string is the number that the column holds, at every width  *)
(* and sign; an integer column becomes a string only when PHP has no int   *)
(* for it, and decimals, but only they, become floats and no ints.         *)
(***************************************************************************)
IsInteger(c) == c.type \notin {"SMALL DECIMAL", "DECIMAL"}

NumbersKept ==
    /\ zv.kind \in {"long", "string"} => zv.number = Number(col)
    /\ zv.kind = "long" => IsInteger(col)
    /\ zv.kind = "string" /\ IsInteger(col) => zv.number \notin Signed
    /\ zv.kind = "double" => ~IsInteger(col)

(***************************************************************************)
(* A decimal becomes a float only if its unscaled value is in the range    *)
(* whose integers all are floats, and a string only outside, with the one  *)
(* exception that DoublesInRange is about: -2^64, whose lower word is zero.*)
(***************************************************************************)
Fits(n) == -Exact <= n /\ n <= Exact

DecimalsRound ==
    /\ zv.kind = "double" => Fits(Number(col)) \/ Number(col) = -Base
    /\ zv.kind = "string" /\ ~IsInteger(col) => ~Fits(Number(col))

(***************************************************************************)
(* The tests of decimals whose unscaled value is beyond 2^53 expect, for   *)
(* either sign, a string of every digit (-.311699786984687608 for one):    *)
(* no such decimal becomes a float.                                        *)
(***************************************************************************)
DoublesInRange == zv.kind = "double" => Fits(Number(col))
=============================================================================
