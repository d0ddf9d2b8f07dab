---------------------------- MODULE NumbersProofs ----------------------------
(***************************************************************************)
(* Proofs about module Numbers, for words of any size.  A row is converted *)
(* on its own, so the invariants follow from a single step; what is to be  *)
(* proved is the arithmetic of the words.                                  *)
(***************************************************************************)
EXTENDS Numbers, TLAPS

NumbersInv == TypeOK /\ NumbersKept /\ DecimalsRound

(* The arithmetic of two words. *)
LEMMA TwoWords ==
    ASSUME NEW u \in Int, NEW b \in Int, NEW w \in Int
    PROVE  /\ u * b + w \in Int
           /\ u = 0 => u * b + w = w
           /\ u = -1 => u * b + w = w - b
  OBVIOUS

LEMMA WordFacts ==
    /\ Base \in Int /\ Base = 2 * Half /\ Half \in Nat /\ Exact \in Nat /\ 0 < Exact /\ Exact < Half
    /\ \A w : w \in Word <=> w \in Int /\ 0 <= w /\ w < Base
    /\ \A n : n \in Signed <=> n \in Int /\ -Half <= n /\ n < Half
  BY WordAssumption DEF Base, Word, Signed

(* A stored value is a number, of one word or of two. *)
LEMMA StoredNumbers ==
    ASSUME NEW c \in Stored
    PROVE  /\ \/ /\ c.type \in {"BIGINT", "SMALL DECIMAL"}
                 /\ c.value \in Signed
              \/ /\ c.type = "UBIGINT"
                 /\ c.value \in Word
              \/ /\ c.type \in {"HUGEINT", "DECIMAL"}
                 /\ c.upper \in Signed /\ c.lower \in Word
              \/ /\ c.type = "UHUGEINT"
                 /\ c.upper \in Word /\ c.lower \in Word
           /\ Number(c) \in Int
  <1>1. \/ /\ c.type \in {"BIGINT", "SMALL DECIMAL"}
           /\ c.value \in Signed
        \/ /\ c.type = "UBIGINT"
           /\ c.value \in Word
        \/ /\ c.type \in {"HUGEINT", "DECIMAL"}
           /\ c.upper \in Signed /\ c.lower \in Word
        \/ /\ c.type = "UHUGEINT"
           /\ c.upper \in Word /\ c.lower \in Word
    BY DEF Stored
  <1>2. CASE c.type \in InOneWord
    <2>1. c.value \in Int
      BY <1>1, <1>2, WordFacts DEF InOneWord
    <2>2. QED
      BY <1>1, <1>2, <2>1 DEF Number
  <1>3. CASE c.type \notin InOneWord
    <2>1. c.upper \in Int /\ c.lower \in Int
      BY <1>1, <1>3, WordFacts DEF InOneWord
    <2>2. Number(c) = c.upper * Base + c.lower
      BY <1>3 DEF Number
    <2>3. Number(c) \in Int
      BY <2>1, <2>2, TwoWords, WordFacts
    <2>4. QED
      BY <1>1, <2>3
  <1>4. QED
    BY <1>2, <1>3

(* An upper word that is only the sign of the lower one. *)
LEMMA SignWords ==
    ASSUME NEW c \in Stored, c.type \notin InOneWord
    PROVE  /\ c.upper = 0 => Number(c) = c.lower
           /\ c.upper = -1 => Number(c) = c.lower - Base
  <1>1. c.upper \in Int /\ c.lower \in Int
    BY StoredNumbers, WordFacts DEF InOneWord
  <1>2. Number(c) = c.upper * Base + c.lower
    BY DEF Number
  <1>3. QED
    BY <1>1, <1>2, TwoWords, WordFacts

(* A string of the digits, or NULL, is right where no int and no float is. *)
LEMMA Digits ==
    ASSUME NEW c \in Stored, col' = c, zv' \in {Text(Number(c)), Null},
           IsInteger(c) => Number(c) \notin Signed,
           ~IsInteger(c) => ~Fits(Number(c))
    PROVE  NumbersInv'
  <1>1. Number(c) \in Int
    BY StoredNumbers
  <1>2. CASE zv' = Text(Number(c))
    <2>1. zv' \in [kind : {"string", "double"}, number : Int]
          /\ zv'.kind = "string" /\ zv'.number = Number(c)
      BY <1>1, <1>2 DEF Text
    <2>2. QED
      BY <2>1 DEF NumbersInv, TypeOK, NumbersKept, DecimalsRound
  <1>3. CASE zv' = Null
    <2>1. zv'.kind = "null"
      BY <1>3 DEF Null
    <2>2. QED
      BY <1>3, <2>1 DEF NumbersInv, TypeOK, NumbersKept, DecimalsRound
  <1>4. QED
    BY <1>2, <1>3

(* An int is right when it is the number of an integer column. *)
LEMMA Ints ==
    ASSUME NEW c \in Stored, NEW n \in Signed, col' = c, zv' = Long(n),
           n = Number(c), IsInteger(c)
    PROVE  NumbersInv'
  <1>1. zv' \in [kind : {"long"}, number : Signed] /\ zv'.kind = "long" /\ zv'.number = Number(c)
    BY DEF Long
  <1>2. QED
    BY <1>1 DEF NumbersInv, TypeOK, NumbersKept, DecimalsRound

(* A float is right when a float holds the unscaled value, or at -2^64. *)
LEMMA Floats ==
    ASSUME NEW c \in Stored, col' = c, zv' = Double(Number(c)),
           ~IsInteger(c), Fits(Number(c)) \/ Number(c) = -Base
    PROVE  NumbersInv'
  <1>1. Number(c) \in Int
    BY StoredNumbers
  <1>2. /\ zv' \in [kind : {"string", "double"}, number : Int]
        /\ zv'.kind = "double" /\ zv'.number = Number(c)
    BY <1>1 DEF Double
  <1>3. QED
    BY <1>2 DEF NumbersInv, TypeOK, NumbersKept, DecimalsRound

-----------------------------------------------------------------------------
(* One lemma for each type *)

LEMMA GetBigintRight ==
    ASSUME NEW c \in Stored, GetBigint(c), col' = c
    PROVE  NumbersInv'
  <1>1. c.value \in Signed /\ c.value = Number(c) /\ IsInteger(c) /\ zv' = Long(c.value)
    BY StoredNumbers DEF GetBigint, Number, InOneWord, IsInteger
  <1>2. QED
    BY <1>1, Ints

LEMMA GetUbigintRight ==
    ASSUME NEW c \in Stored, GetUbigint(c), col' = c
    PROVE  NumbersInv'
  <1>1. c.value \in Word /\ c.value = Number(c) /\ IsInteger(c)
    BY StoredNumbers DEF GetUbigint, Number, InOneWord, IsInteger
  <1>2. CASE c.value > Half - 1
    <2>1. Number(c) \notin Signed
      BY <1>1, <1>2, WordFacts
    <2>2. zv' = Text(Number(c))
      BY <1>2 DEF GetUbigint, Printed
    <2>3. QED
      BY <1>1, <2>1, <2>2, Digits
  <1>3. CASE ~(c.value > Half - 1)
    <2>1. c.value < Half /\ c.value \in Signed
      BY <1>1, <1>3, WordFacts
    <2>2. zv' = Long(c.value)
      BY <1>3, <2>1 DEF GetUbigint, ToLong
    <2>3. QED
      BY <1>1, <2>1, <2>2, Ints
  <1>4. QED
    BY <1>2, <1>3

(* Two words whose upper one is not the sign of a small lower one stand for *)
(* no number of one signed word.                                            *)
LEMMA TwoWordsNeeded ==
    ASSUME NEW u \in Int, NEW w \in Word, u >= 1 \/ u < -1
    PROVE  u * Base + w \notin Signed /\ ~Fits(u * Base + w)
  <1>1. w \in Int /\ 0 <= w /\ w < Base
    BY WordFacts
  <1>2. CASE u >= 1
    <2>1. u * Base >= Base
      BY <1>2, WordFacts
    <2>2. u * Base \in Int
      BY WordFacts
    <2>3. QED
      BY <1>1, <2>1, <2>2, WordFacts DEF Fits
  <1>3. CASE u < -1
    <2>1. u * Base <= -2 * Base
      BY <1>3, WordFacts
    <2>2. u * Base \in Int
      BY WordFacts
    <2>3. QED
      BY <1>1, <2>1, <2>2, WordFacts DEF Fits
  <1>4. QED
    BY <1>2, <1>3

LEMMA GetHugeintRight ==
    ASSUME NEW c \in Stored, GetHugeint(c), col' = c
    PROVE  NumbersInv'
  <1>1. /\ c.upper \in Signed /\ c.lower \in Word
        /\ c.type \notin InOneWord /\ IsInteger(c)
    BY StoredNumbers DEF GetHugeint, InOneWord, IsInteger
  <1>2. c.upper \in Int /\ c.lower \in Int /\ ToWord(-Half) = Half
    BY <1>1, WordFacts DEF ToWord
  <1>3. CASE HugeintFits(c)
    <2>1. zv' = Long(ToLong(c.lower))
      BY <1>3 DEF GetHugeint
    <2>2. CASE c.upper = 0
      <3>1. c.lower < Half /\ ToLong(c.lower) = c.lower
        BY <1>2, <1>3, <2>2, WordFacts DEF HugeintFits, ToLong
      <3>2. c.lower \in Signed
        BY <1>1, <3>1, WordFacts
      <3>3. QED
        BY <1>1, <2>1, <2>2, <3>1, <3>2, SignWords, Ints
    <2>3. CASE c.upper = -1
      <3>1. c.lower >= Half /\ ToLong(c.lower) = c.lower - Base
        BY <1>2, <1>3, <2>3, WordFacts DEF HugeintFits, ToLong
      <3>2. c.lower - Base \in Signed
        BY <1>1, <3>1, WordFacts
      <3>3. QED
        BY <1>1, <2>1, <2>3, <3>1, <3>2, SignWords, Ints
    <2>4. QED
      BY <1>3, <2>2, <2>3 DEF HugeintFits
  <1>4. CASE ~HugeintFits(c)
    <2>1. zv' \in {Text(Number(c)), Null}
      BY <1>4 DEF GetHugeint, GetString
    <2>2. Number(c) \notin Signed
      <3>1. CASE c.upper = 0
        BY <1>1, <1>2, <1>4, <3>1, SignWords, WordFacts DEF HugeintFits
      <3>2. CASE c.upper = -1
        BY <1>1, <1>2, <1>4, <3>2, SignWords, WordFacts DEF HugeintFits
      <3>3. CASE c.upper >= 1 \/ c.upper < -1
        BY <1>1, <1>2, <3>3, TwoWordsNeeded DEF Number
      <3>4. QED
        BY <1>2, <3>1, <3>2, <3>3
    <2>3. QED
      BY <1>1, <2>1, <2>2, Digits
  <1>5. QED
    BY <1>3, <1>4

LEMMA GetUhugeintRight ==
    ASSUME NEW c \in Stored, GetUhugeint(c), col' = c
    PROVE  NumbersInv'
  <1>1. /\ c.upper \in Word /\ c.lower \in Word
        /\ c.type \notin InOneWord /\ IsInteger(c)
    BY StoredNumbers DEF GetUhugeint, InOneWord, IsInteger
  <1>2. c.upper \in Int /\ c.lower \in Int /\ 0 <= c.upper
    BY <1>1, WordFacts
  <1>3. CASE c.upper = 0 /\ c.lower <= Half - 1
    <2>1. zv' = Long(ToLong(c.lower))
      BY <1>3 DEF GetUhugeint
    <2>2. ToLong(c.lower) = c.lower /\ c.lower \in Signed
      BY <1>1, <1>2, <1>3, WordFacts DEF ToLong
    <2>3. QED
      BY <1>1, <1>3, <2>1, <2>2, SignWords, Ints
  <1>4. CASE ~(c.upper = 0 /\ c.lower <= Half - 1)
    <2>1. zv' \in {Text(Number(c)), Null}
      BY <1>4 DEF GetUhugeint, GetString
    <2>2. Number(c) \notin Signed
      <3>1. CASE c.upper = 0
        BY <1>1, <1>2, <1>4, <3>1, SignWords, WordFacts
      <3>2. CASE c.upper >= 1
        BY <1>1, <1>2, <3>2, TwoWordsNeeded DEF Number
      <3>3. QED
        BY <1>2, <3>1, <3>2
    <2>3. QED
      BY <1>1, <2>1, <2>2, Digits
  <1>5. QED
    BY <1>3, <1>4

(* Sign extension keeps the number. *)
LEMMA SignExtension ==
    ASSUME NEW v \in Signed, NEW u, u = IF v < 0 THEN -1 ELSE 0
    PROVE  u \in Signed /\ ToWord(v) \in Word /\ u * Base + ToWord(v) = v
  <1>1. v \in Int /\ -Half <= v /\ v < Half /\ Base \in Int /\ Base = 2 * Half
        /\ Half \in Int /\ 0 < Half
    BY WordFacts
  <1>2. CASE v < 0
    <2>1. u = -1 /\ ToWord(v) = v + Base
      BY <1>2 DEF ToWord
    <2>2. u \in Signed
      BY <1>1, <2>1, WordFacts
    <2>3. v + Base \in Int /\ 0 <= v + Base /\ v + Base < Base
      BY <1>1, <1>2
    <2>4. ToWord(v) \in Word
      BY <2>1, <2>3, WordFacts
    <2>5. (-1) * Base + (v + Base) = v
      BY <1>1
    <2>6. QED
      BY <2>1, <2>2, <2>4, <2>5
  <1>3. CASE ~(v < 0)
    <2>1. u = 0 /\ ToWord(v) = v
      BY <1>3 DEF ToWord
    <2>2. u \in Signed /\ v \in Word
      BY <1>1, <1>3, <2>1, WordFacts
    <2>3. 0 * Base + v = v
      BY <1>1
    <2>4. QED
      BY <2>1, <2>2, <2>3
  <1>4. QED
    BY <1>2, <1>3

LEMMA DecimalWords ==
    ASSUME NEW c \in Stored, c.type \in {"SMALL DECIMAL", "DECIMAL"}
    PROVE  /\ Words(c).upper \in Signed /\ Words(c).lower \in Word
           /\ Number(c) = Words(c).upper * Base + Words(c).lower
  <1>1. CASE c.type = "SMALL DECIMAL"
    <2>1. c.value \in Signed /\ Number(c) = c.value
      BY <1>1, StoredNumbers DEF Number, InOneWord
    <2>2. /\ Words(c).lower = ToWord(c.value)
          /\ Words(c).upper = IF c.value < 0 THEN -1 ELSE 0
      BY <1>1 DEF Words
    <2>3. QED
      BY <2>1, <2>2, SignExtension
  <1>2. CASE c.type = "DECIMAL"
    <2>1. c.upper \in Signed /\ c.lower \in Word
      BY <1>2, StoredNumbers
    <2>2. Words(c).upper = c.upper /\ Words(c).lower = c.lower
      BY <1>2 DEF Words
    <2>3. Number(c) = c.upper * Base + c.lower
      BY <1>2 DEF Number, InOneWord
    <2>4. QED
      BY <2>1, <2>2, <2>3
  <1>3. QED
    BY <1>1, <1>2

LEMMA GetDecimalRight ==
    ASSUME NEW c \in Stored, GetDecimal(c), col' = c
    PROVE  NumbersInv'
  <1> DEFINE w == Words(c)
  <1>1. c.type \in {"SMALL DECIMAL", "DECIMAL"} /\ ~IsInteger(c)
    BY DEF GetDecimal, IsInteger
  <1>2. /\ w.upper \in Int /\ w.lower \in Int /\ w.lower \in Word
        /\ 0 <= w.lower /\ w.lower < Base
        /\ Number(c) = w.upper * Base + w.lower
    BY <1>1, DecimalWords, WordFacts
  <1>3. /\ w.upper = 0 => Number(c) = w.lower
        /\ w.upper = -1 => Number(c) = w.lower - Base
    BY <1>2, TwoWords, WordFacts
  <1> HIDE DEF w
  <1>4. CASE DecimalFits(w)
    <2>1. zv' = Double(Number(c))
      BY <1>4 DEF GetDecimal, w
    <2>2. Fits(Number(c)) \/ Number(c) = -Base
      <3>1. CASE w.upper = 0 /\ w.lower <= Exact
        BY <1>2, <1>3, <3>1, WordFacts DEF Fits
      <3>2. CASE w.upper = -1 /\ Negated(w.lower) <= Exact
        <4>1. CASE w.lower = 0
          BY <1>2, <1>3, <3>2, <4>1, WordFacts
        <4>2. CASE w.lower # 0
          <5>1. Base - w.lower <= Exact
            BY <3>2, <4>2 DEF Negated
          <5>2. QED
            BY <1>2, <1>3, <3>2, <5>1, WordFacts DEF Fits
        <4>3. QED
          BY <4>1, <4>2
      <3>3. QED
        BY <1>4, <3>1, <3>2 DEF DecimalFits
    <2>3. QED
      BY <1>1, <2>1, <2>2, Floats
  <1>5. CASE ~DecimalFits(w)
    <2>1. zv' \in {Text(Number(c)), Null}
      BY <1>5 DEF GetDecimal, GetString, w
    <2>2. ~Fits(Number(c))
      <3>1. CASE w.upper = 0
        BY <1>2, <1>3, <1>5, <3>1, WordFacts DEF Fits, DecimalFits
      <3>2. CASE w.upper = -1
        BY <1>2, <1>3, <1>5, <3>2, WordFacts DEF Fits, DecimalFits, Negated
      <3>3. CASE w.upper >= 1 \/ w.upper < -1
        BY <1>2, <3>3, TwoWordsNeeded
      <3>4. QED
        BY <1>2, <3>1, <3>2, <3>3
    <2>3. QED
      BY <1>1, <2>1, <2>2, Digits
  <1>6. QED
    BY <1>4, <1>5

-----------------------------------------------------------------------------
(* The theorems *)

LEMMA NumbersInvariance == Spec => []NumbersInv
  <1>1. Init => NumbersInv
    <2> SUFFICES ASSUME Init PROVE NumbersInv
      OBVIOUS
    <2>1. col \in Stored /\ zv = Null /\ zv.kind = "null"
      BY DEF Init, Null
    <2>2. QED
      BY <2>1 DEF NumbersInv, TypeOK, NumbersKept, DecimalsRound
  <1>2. NumbersInv /\ [Next]_vars => NumbersInv'
    <2> SUFFICES ASSUME NumbersInv, [Next]_vars PROVE NumbersInv'
      OBVIOUS
    <2>1. CASE Next
      <3>1. PICK c \in Stored :
              /\ \/ GetBigint(c) \/ GetUbigint(c) \/ GetHugeint(c)
                 \/ GetUhugeint(c) \/ GetDecimal(c)
              /\ col' = c
        BY <2>1 DEF Next
      <3>2. QED
        BY <3>1, GetBigintRight, GetUbigintRight, GetHugeintRight,
           GetUhugeintRight, GetDecimalRight
    <2>2. CASE UNCHANGED vars
      BY <2>2 DEF vars, NumbersInv, TypeOK, NumbersKept, DecimalsRound
    <2>3. QED
      BY <2>1, <2>2
  <1>3. QED
    BY <1>1, <1>2, PTL DEF Spec

(* A PHP int is in the range of zend_long: no column makes one that is not. *)
THEOREM NumbersTypeCorrect == Spec => []TypeOK
  <1>1. NumbersInv => TypeOK
    BY DEF NumbersInv
  <1>2. QED
    BY <1>1, NumbersInvariance, PTL

(* Every int and every string is the number of its column, for words of any *)
(* size: the bounds in duckdb_val_from_vector() are exact.                  *)
THEOREM NumbersKeptHolds == Spec => []NumbersKept
  <1>1. NumbersInv => NumbersKept
    BY DEF NumbersInv
  <1>2. QED
    BY <1>1, NumbersInvariance, PTL

(* Apart from -2^64, exactly the decimals whose unscaled value is in the    *)
(* range where floats hold every integer become floats.                     *)
THEOREM DecimalsRoundHolds == Spec => []DecimalsRound
  <1>1. NumbersInv => DecimalsRound
    BY DEF NumbersInv
  <1>2. QED
    BY <1>1, NumbersInvariance, PTL
=============================================================================
