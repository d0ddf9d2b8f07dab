------------------------------ MODULE SqlProofs ------------------------------
(***************************************************************************)
(* Proofs about SqlText, for texts of any length over any alphabet: no     *)
(* loop leaves its buffer, and what DuckDB gets is one C string.           *)
(***************************************************************************)
EXTENDS SqlText, SequenceTheorems, WellFoundedInduction, TLAPS

(* What has been written is bounded by what has been read. *)
Written ==
    /\ op = "none" => Len(dst) = 0 /\ alloc = 1
    /\ op \in {"prepare", "prepared", "strip", "stripped"} =>
          Len(dst) <= i /\ alloc = Len(src) + 1
    /\ op = "quote" => Len(dst) <= 2 * i + 1 /\ alloc = 2 * Len(src) + 3
    /\ op = "quoted" => Len(dst) <= 2 * Len(src) + 2 /\ alloc = 2 * Len(src) + 3

SqlInv == TypeOK /\ Written /\ NoEarlyEnd

(* The bytes of two sequences, and their number, when they are joined.     *)
LEMMA Joined ==
    ASSUME NEW t \in Seq(Chars), NEW u \in Seq(Chars)
    PROVE  /\ t \o u \in Seq(Chars)
           /\ Len(t \o u) = Len(t) + Len(u)
           /\ \A k \in 1..Len(t \o u) :
                 \/ k \in 1..Len(t) /\ (t \o u)[k] = t[k]
                 \/ k - Len(t) \in 1..Len(u) /\ (t \o u)[k] = u[k - Len(t)]
  OBVIOUS

LEMMA JoinedParts ==
    ASSUME NEW t \in Seq(Chars), NEW u \in Seq(Chars)
    PROVE  /\ Len(t \o u) = Len(t) + Len(u)
           /\ \A k \in 1..Len(t) : (t \o u)[k] = t[k]
           /\ \A k \in 1..Len(u) : (t \o u)[Len(t) + k] = u[k]
  OBVIOUS

LEMMA JoinedInAnyOrder ==
    ASSUME NEW t \in Seq(Chars), NEW u \in Seq(Chars), NEW v \in Seq(Chars)
    PROVE  (t \o u) \o v = t \o (u \o v)
  BY ConcatAssociative

(* The byte at i is a byte of the alphabet. *)
LEMMA ByteAt ==
    ASSUME TypeOK, i < Len(src)
    PROVE  At(i) \in Chars /\ i + 1 \in 0..Len(src) /\ i \in Nat /\ Len(src) \in Nat
  BY DEF TypeOK, At

(* Twice a number, without a product. *)
LEMMA Twice ==
    \A n \in Nat : 2 * n = n + n /\ 2 * (n + 1) = n + n + 2 /\ n + n \in Nat
  OBVIOUS

(* Every function starts with an empty buffer, or with the opening quote. *)
LEMMA StartKeeps ==
    ASSUME SqlInv,
           NEW text \in Seq(Chars),
           \/ Start("prepare", text, Len(text) + 1, <<>>)
           \/ Start("strip", text, Len(text) + 1, <<>>)
           \/ Start("quote", text, 2 * Len(text) + 3, <<SQ>>)
    PROVE  SqlInv'
<1>1. /\ Len(text) \in Nat
      /\ <<>> \in Seq(Chars) /\ Len(<<>>) = 0
      /\ <<SQ>> \in Seq(Chars) /\ Len(<<SQ>>) = 1
  BY DEF Chars
<1>2. TypeOK'
  <2>1. /\ Len(text) + 1 \in Nat /\ 2 * Len(text) + 3 \in Nat
        /\ 0 \in 0..Len(text)
    BY <1>1, Twice
  <2> QED BY <1>1, <2>1 DEF SqlInv, TypeOK, Start, Running, Returned
<1>3. Written'
  <2>1. CASE Start("quote", text, 2 * Len(text) + 3, <<SQ>>)
    <3>1. Len(dst') <= 2 * i' + 1 /\ alloc' = 2 * Len(src') + 3
      BY <1>1, <2>1 DEF Start
    <3> QED BY <2>1, <3>1 DEF Start, Written
  <2>2. CASE \/ Start("prepare", text, Len(text) + 1, <<>>)
             \/ Start("strip", text, Len(text) + 1, <<>>)
    BY <1>1, <2>2 DEF Start, Written
  <2> QED BY <2>1, <2>2
<1>4. NoEarlyEnd'
  BY <1>1 DEF Start, NoEarlyEnd
<1> QED BY <1>2, <1>3, <1>4 DEF SqlInv

(* A turn of a loop over C strings writes nothing, or one byte that is not NUL. *)
LEMMA CopyTurn ==
    ASSUME SqlInv, op \in {"prepare", "strip"}, i < Len(src),
           Turn(<<>>) \/ \E c \in Chars \ {NUL} : Turn(<<c>>),
           in_sq' \in BOOLEAN, in_dq' \in BOOLEAN
    PROVE  SqlInv'
<1>1. /\ dst \in Seq(Chars) /\ Len(dst) \in Nat
      /\ i + 1 \in 0..Len(src) /\ i \in Nat /\ Len(src) \in Nat
  BY ByteAt DEF SqlInv, TypeOK
<1>2. /\ dst' \in Seq(Chars)
      /\ Len(dst') \in {Len(dst), Len(dst) + 1}
      /\ \A k \in 1..Len(dst') : dst'[k] # NUL
  <2>1. \A k \in 1..Len(dst) : dst[k] # NUL
    BY DEF SqlInv, NoEarlyEnd
  <2>2. CASE Turn(<<>>)
    <3>1. dst' = dst
      BY <1>1, <2>2 DEF Turn
    <3> QED BY <1>1, <2>1, <3>1
  <2>3. ASSUME NEW c \in Chars \ {NUL}, Turn(<<c>>)
        PROVE  <1>2!1 /\ <1>2!2 /\ <1>2!3
    <3>1. <<c>> \in Seq(Chars) /\ Len(<<c>>) = 1 /\ <<c>>[1] = c
      OBVIOUS
    <3>2. dst' = dst \o <<c>>
      BY <2>3 DEF Turn
    <3>3. /\ dst' \in Seq(Chars)
          /\ Len(dst') = Len(dst) + 1
          /\ \A k \in 1..Len(dst') :
                \/ k \in 1..Len(dst) /\ dst'[k] = dst[k]
                \/ k - Len(dst) \in 1..1 /\ dst'[k] = <<c>>[k - Len(dst)]
      BY <1>1, <3>1, <3>2, Joined
    <3>4. \A k \in 1..Len(dst') : dst'[k] # NUL
      BY <1>1, <2>1, <3>1, <3>3
    <3> QED BY <1>1, <3>3, <3>4
  <2> QED BY <2>2, <2>3
<1>3. /\ i' = i + 1
      /\ UNCHANGED <<op, src, alloc, literal, value>>
  BY DEF Turn
<1>4. TypeOK'
  BY <1>1, <1>2, <1>3 DEF SqlInv, TypeOK
<1>5. Written'
  <2>1. Len(dst) <= i /\ alloc = Len(src) + 1
    BY DEF SqlInv, Written
  <2>2. Len(dst') <= i + 1
    BY <1>1, <1>2, <2>1
  <2> QED BY <1>3, <2>1, <2>2 DEF Written
<1>6. NoEarlyEnd'
  BY <1>2 DEF NoEarlyEnd
<1> QED BY <1>4, <1>5, <1>6 DEF SqlInv

LEMMA PrepareTurnKeeps ==
    ASSUME SqlInv, PrepareTurn PROVE SqlInv'
<1>1. op = "prepare" /\ i < Len(src) /\ TypeOK
  BY DEF PrepareTurn, SqlInv
<1>2. in_sq' \in BOOLEAN /\ in_dq' \in BOOLEAN
  BY <1>1 DEF PrepareTurn, InSingle, InDouble, TypeOK
<1>3. CASE At(i) = NUL
  <2>1. Turn(<<>>)
    BY <1>3 DEF PrepareTurn
  <2> QED BY <1>1, <1>2, <2>1, CopyTurn
<1>4. CASE At(i) # NUL
  <2> DEFINE c == IF StartsName THEN DOLLAR ELSE At(i)
  <2>1. c \in Chars /\ c # NUL
    BY <1>1, <1>4, ByteAt DEF Chars, DOLLAR, NUL
  <2>2. Turn(<<c>>)
    BY <1>4 DEF PrepareTurn
  <2> HIDE DEF c
  <2> QED BY <1>1, <1>2, <2>1, <2>2, CopyTurn
<1> QED BY <1>3, <1>4

LEMMA StripTurnKeeps ==
    ASSUME SqlInv, StripTurn PROVE SqlInv'
<1>1. /\ op = "strip" /\ i < Len(src) /\ TypeOK
      /\ in_sq' \in BOOLEAN /\ in_dq' \in BOOLEAN
  BY DEF StripTurn, SqlInv, TypeOK
<1>2. CASE At(i) = NUL
  <2>1. Turn(<<>>)
    BY <1>2 DEF StripTurn
  <2> QED BY <1>1, <2>1, CopyTurn
<1>3. CASE At(i) # NUL
  <2>1. Turn(<<At(i)>>)
    BY <1>3 DEF StripTurn
  <2> QED BY <1>1, <1>3, <2>1, ByteAt, CopyTurn
<1> QED BY <1>2, <1>3

LEMMA StripCopiesKeeps ==
    ASSUME SqlInv, StripCopies PROVE SqlInv'
<1>1. Len(src) \in Nat
  BY DEF SqlInv, TypeOK
<1>2. TypeOK'
  BY <1>1 DEF SqlInv, TypeOK, StripCopies, Running, Returned
<1>3. Written'
  BY <1>1 DEF SqlInv, Written, StripCopies
<1>4. NoEarlyEnd'
  BY DEF StripCopies, NoEarlyEnd
<1> QED BY <1>2, <1>3, <1>4 DEF SqlInv

(* A turn of the quoter writes one byte or two. *)
LEMMA QuoteTurnKeeps ==
    ASSUME SqlInv, QuoteTurn PROVE SqlInv'
<1> DEFINE bytes == IF At(i) = SQ THEN <<SQ, SQ>> ELSE <<At(i)>>
<1>1. /\ op = "quote" /\ i < Len(src) /\ dst \in Seq(Chars) /\ Len(dst) \in Nat
      /\ At(i) \in Chars /\ i + 1 \in 0..Len(src) /\ i \in Nat /\ Len(src) \in Nat
  BY ByteAt DEF QuoteTurn, SqlInv, TypeOK
<1>2. bytes \in Seq(Chars) /\ (Len(bytes) = 1 \/ Len(bytes) = 2)
  BY <1>1
<1>3. Turn(bytes) /\ in_sq' = in_sq /\ in_dq' = in_dq
  BY DEF QuoteTurn
<1> HIDE DEF bytes
<1>4. dst' \in Seq(Chars) /\ (Len(dst') = Len(dst) + 1 \/ Len(dst') = Len(dst) + 2)
  BY <1>1, <1>2, <1>3, Joined DEF Turn
<1>5. TypeOK'
  BY <1>1, <1>3, <1>4 DEF SqlInv, TypeOK, Turn
<1>6. Written'
  <2>1. Len(dst) <= 2 * i + 1 /\ alloc = 2 * Len(src) + 3
    BY <1>1 DEF SqlInv, Written
  <2>2. Len(dst') <= 2 * (i + 1) + 1
    <3>1. Len(dst) <= i + i + 1
      BY <1>1, <2>1, Twice
    <3>2. Len(dst') <= Len(dst) + 2
      BY <1>1, <1>2, <1>4
    <3>3. 2 * (i + 1) + 1 = i + i + 3
      BY <1>1, Twice
    <3> QED BY <1>1, <1>2, <1>4, <3>1, <3>2, <3>3
  <2> QED BY <1>1, <1>3, <2>1, <2>2 DEF Turn, Written
<1>7. NoEarlyEnd'
  BY <1>1, <1>3 DEF Turn, NoEarlyEnd
<1> QED BY <1>5, <1>6, <1>7 DEF SqlInv

LEMMA QuoteReturnKeeps ==
    ASSUME SqlInv, QuoteReturn PROVE SqlInv'
<1>1. /\ op = "quote" /\ i = Len(src) /\ Len(src) \in Nat
      /\ dst \in Seq(Chars) /\ SQ \in Chars
  BY DEF SqlInv, TypeOK, QuoteReturn, Return, Chars
<1>2. Append(dst, SQ) \in Seq(Chars) /\ Len(Append(dst, SQ)) = Len(dst) + 1 /\ Len(dst) \in Nat
  BY <1>1
<1>3. TypeOK'
  BY <1>1, <1>2 DEF SqlInv, TypeOK, QuoteReturn, Return, Running, Returned
<1>4. Written'
  BY <1>1, <1>2 DEF SqlInv, Written, QuoteReturn, Return
<1>5. NoEarlyEnd'
  BY DEF QuoteReturn, Return, NoEarlyEnd
<1> QED BY <1>3, <1>4, <1>5 DEF SqlInv

(* The other two functions return as they are. *)
LEMMA ReturnKeeps ==
    ASSUME SqlInv, PrepareReturn \/ StripReturn PROVE SqlInv'
<1>1. TypeOK'
  BY DEF SqlInv, TypeOK, PrepareReturn, StripReturn, Return, Running, Returned
<1>2. Written'
  BY DEF SqlInv, Written, PrepareReturn, StripReturn, Return
<1>3. NoEarlyEnd'
  BY DEF SqlInv, NoEarlyEnd, PrepareReturn, StripReturn, Return
<1> QED BY <1>1, <1>2, <1>3 DEF SqlInv

(* A text with a literal in it is a text. *)
LEMMA SqlTextsAreTexts ==
    ASSUME TypeOK, NEW sql \in SqlTexts PROVE sql \in Seq(Chars)
<1>1. CASE literal = <<>>
  BY <1>1, TextsAssumption DEF SqlTexts
<1>2. CASE literal # <<>>
  <2>1. PICK before \in Fragments, after \in Fragments : sql = before \o literal \o after
    BY <1>2 DEF SqlTexts
  <2>2. before \in Seq(Chars) /\ after \in Seq(Chars) /\ literal \in Seq(Chars)
    BY TextsAssumption DEF TypeOK
  <2>3. before \o literal \in Seq(Chars)
    BY <2>2, Joined
  <2> QED BY <2>1, <2>2, <2>3, Joined
<1> QED BY <1>1, <1>2

LEMMA SqlInit == Init => SqlInv
<1> SUFFICES ASSUME Init PROVE SqlInv
  OBVIOUS
<1>1. /\ src \in Seq(Chars) /\ Len(src) = 0 /\ dst \in Seq(Chars) /\ Len(dst) = 0
      /\ literal \in Seq(Chars) /\ value \in Seq(Chars)
  BY DEF Init
<1>2. TypeOK
  <2>1. op = "none" /\ i = 0 /\ alloc = 1 /\ in_sq = FALSE /\ in_dq = FALSE
    BY DEF Init
  <2>2. i \in 0..Len(src)
    BY <1>1, <2>1
  <2> QED BY <1>1, <2>1, <2>2 DEF TypeOK, Running, Returned
<1>3. Written /\ NoEarlyEnd
  BY <1>1 DEF Init, Written, NoEarlyEnd
<1> QED BY <1>2, <1>3 DEF SqlInv

LEMMA SqlStep == SqlInv /\ [Next]_vars => SqlInv'
<1> SUFFICES ASSUME SqlInv, [Next]_vars PROVE SqlInv'
  OBVIOUS
<1>1. ASSUME NEW sql \in SqlTexts, PrepareStart(sql) \/ StripStart(sql) PROVE SqlInv'
  <2>1. sql \in Seq(Chars)
    BY SqlTextsAreTexts DEF SqlInv
  <2> QED BY <1>1, <2>1, StartKeeps DEF PrepareStart, StripStart
<1>2. ASSUME NEW unquoted \in Values, QuoteStart(unquoted) PROVE SqlInv'
  <2>1. unquoted \in Seq(Chars)
    BY TextsAssumption
  <2> QED BY <1>2, <2>1, StartKeeps DEF QuoteStart
<1>3. CASE UNCHANGED vars
  BY <1>3 DEF vars, SqlInv, TypeOK, Written, NoEarlyEnd
<1> QED
  BY <1>1, <1>2, <1>3, PrepareTurnKeeps, StripTurnKeeps, StripCopiesKeeps, QuoteTurnKeeps,
     QuoteReturnKeeps, ReturnKeeps DEF Next

(***************************************************************************)
(* The buffer invariant with its strengthening: in every state of the      *)
(* three loops the bytes written are bounded by the bytes read.            *)
(***************************************************************************)
THEOREM SqlInvariance == Spec => []SqlInv
  BY SqlInit, SqlStep, PTL DEF Spec

(* The variables of the three functions keep their types. *)
THEOREM SqlTypeCorrect == Spec => []TypeOK
  BY SqlInvariance, PTL DEF SqlInv

(***************************************************************************)
(* No text, however long, makes zstr_prepare(), zstr_strip_zerobytes() or  *)
(* the quoter write outside of its buffer.                                 *)
(***************************************************************************)
THEOREM FitsBufferHolds == Spec => []FitsBuffer
<1>1. SqlInv => FitsBuffer
  BY DEF SqlInv, TypeOK, Written, FitsBuffer, Running, Returned
<1> QED BY <1>1, SqlInvariance, PTL

(* What zstr_prepare() and zstr_strip_zerobytes() hand to DuckDB is one C  *)
(* string, whatever the program put into the text.                         *)
THEOREM NoEarlyEndHolds == Spec => []NoEarlyEnd
  BY SqlInvariance, PTL DEF SqlInv
-----------------------------------------------------------------------------
(* Induction and recursion.  What holds for all numbers is stated as a set  *)
(* of numbers, so that the well-foundedness of < can be cited.              *)

(* Every number is in a set that has each number whose predecessors it has. *)
LEMMA NumbersInduction ==
    ASSUME NEW T, \A n \in Nat : (\A m \in 0..(n - 1) : m \in T) => n \in T
    PROVE  Nat \subseteq T
<1> SUFFICES ASSUME Nat \ T # {} PROVE FALSE
  OBVIOUS
<1>1. PICK x \in Nat \ T : \A y \in Nat \ T : ~ (<<y, x>> \in OpToRel(<, Nat))
  BY WFMin, NatLessThanWellFounded
<1>2. \A y \in Nat : y < x => y \in T
  BY <1>1 DEF OpToRel
<1>3. x \in Nat /\ x \notin T
  OBVIOUS
<1>4. \A m \in 0..(x - 1) : m \in T
  BY <1>2, <1>3
<1> QED BY <1>3, <1>4

(* Every number up to a bound is in a set that has 0 and each successor.    *)
LEMMA UpToInduction ==
    ASSUME NEW max \in Nat, NEW T, 0 \in T,
           \A n \in 0..(max - 1) : n \in T => n + 1 \in T
    PROVE  0..max \subseteq T
<1> DEFINE U == {n \in Nat : n <= max => n \in T}
<1>1. ASSUME NEW n \in Nat, \A m \in 0..(n - 1) : m \in U
      PROVE  n \in U
  <2>1. CASE n = 0
    BY <2>1
  <2>2. CASE n > max
    BY <2>2
  <2>3. CASE n > 0 /\ n <= max
    <3>1. n - 1 \in 0..(n - 1) /\ n - 1 \in 0..(max - 1) /\ (n - 1) + 1 = n
      BY <2>3
    <3>2. n - 1 \in T
      BY <1>1, <3>1
    <3> QED BY <3>1, <3>2
  <2> QED BY <2>1, <2>2, <2>3
<1> HIDE DEF U
<1>2. Nat \subseteq U
  BY <1>1, NumbersInduction
<1> QED BY <1>2 DEF U

(* Every text is in a set that has the empty one and, with a text, all that *)
(* are one byte longer.                                                     *)
LEMMA TextsInduction ==
    ASSUME NEW T, <<>> \in T,
           \A t \in Seq(Chars), c \in Chars : t \in T => Append(t, c) \in T
    PROVE  Seq(Chars) \subseteq T
<1> SUFFICES ASSUME NEW t \in Seq(Chars) PROVE t \in T
  OBVIOUS
<1> DEFINE U == {n \in Nat : SubSeq(t, 1, n) \in T}
<1>1. Len(t) \in Nat /\ SubSeq(t, 1, 0) = <<>> /\ SubSeq(t, 1, Len(t)) = t
  BY SubSeqEmpty, SubSeqFull
<1>2. 0 \in U
  BY <1>1
<1>3. ASSUME NEW n \in 0..(Len(t) - 1), n \in U
      PROVE  n + 1 \in U
  <2>1. /\ SubSeq(t, 1, n) \in Seq(Chars)
        /\ t[n + 1] \in Chars
        /\ SubSeq(t, 1, n + 1) = Append(SubSeq(t, 1, n), t[n + 1])
    BY <1>1
  <2>2. SubSeq(t, 1, n) \in T
    BY <1>3
  <2>3. SubSeq(t, 1, n + 1) \in T
    BY <2>1, <2>2
  <2> QED BY <1>1, <2>3
<1> HIDE DEF U
<1>4. 0..Len(t) \subseteq U
  BY <1>1, <1>2, <1>3, UpToInduction
<1>5. Len(t) \in U
  BY <1>1, <1>4
<1> QED BY <1>1, <1>5 DEF U

HasTable(V, next, size) ==
    \E h \in Seq(V) : Len(h) = size /\ \A k \in 1..size : h[k] = next[SubSeq(h, 1, k - 1)]

(***************************************************************************)
(* A table whose entries are computed from the ones before them exists,    *)
(* whatever the computation: the definitions below that refer to           *)
(* themselves are therefore as their equations say.                        *)
(***************************************************************************)
LEMMA Table ==
    ASSUME NEW V, NEW next \in [Seq(V) -> V], NEW size \in Nat
    PROVE  HasTable(V, next, size)
<1> DEFINE U == {n \in Nat : HasTable(V, next, n)}
<1>1. 0 \in U
  <2>1. <<>> \in Seq(V) /\ Len(<<>>) = 0 /\ \A k \in 1..0 : FALSE
    OBVIOUS
  <2>2. \E h \in Seq(V) :
           Len(h) = 0 /\ \A k \in 1..0 : h[k] = next[SubSeq(h, 1, k - 1)]
    BY <2>1
  <2> QED BY <2>2 DEF HasTable
<1>2. ASSUME NEW n \in 0..(size - 1), n \in U
      PROVE  n + 1 \in U
  <2>1. PICK h \in Seq(V) :
           Len(h) = n /\ \A k \in 1..n : h[k] = next[SubSeq(h, 1, k - 1)]
    BY <1>2 DEF HasTable
  <2> DEFINE g == Append(h, next[h])
  <2>2. /\ g \in Seq(V) /\ Len(g) = n + 1
        /\ g[n + 1] = next[h]
        /\ \A k \in 1..n : g[k] = h[k]
    BY <2>1
  <2>3. \A k \in 1..(n + 1) : SubSeq(g, 1, k - 1) = SubSeq(h, 1, k - 1)
    <3> SUFFICES ASSUME NEW k \in 1..(n + 1)
                 PROVE  SubSeq(g, 1, k - 1) = SubSeq(h, 1, k - 1)
      OBVIOUS
    <3>1. /\ SubSeq(g, 1, k - 1) \in Seq(V) /\ SubSeq(h, 1, k - 1) \in Seq(V)
          /\ Len(SubSeq(g, 1, k - 1)) = k - 1 /\ Len(SubSeq(h, 1, k - 1)) = k - 1
          /\ \A j \in 1..(k - 1) : /\ SubSeq(g, 1, k - 1)[j] = g[j]
                                   /\ SubSeq(h, 1, k - 1)[j] = h[j]
      BY <2>1, <2>2
    <3> HIDE DEF g
    <3>2. \A j \in 1..(k - 1) : SubSeq(g, 1, k - 1)[j] = SubSeq(h, 1, k - 1)[j]
      BY <2>2, <3>1
    <3> QED BY <3>1, <3>2, SeqEqual
  <2>4. SubSeq(h, 1, n) = h
    BY <2>1, SubSeqFull
  <2> HIDE DEF g
  <2>5. ASSUME NEW k \in 1..(n + 1)
        PROVE  g[k] = next[SubSeq(g, 1, k - 1)]
    <3>1. SubSeq(g, 1, k - 1) = SubSeq(h, 1, k - 1)
      BY <2>3
    <3>2. CASE k = n + 1
      <4>1. k - 1 = n
        BY <3>2
      <4> QED BY <2>2, <2>4, <3>1, <3>2, <4>1
    <3>3. CASE k \in 1..n
      <4>1. g[k] = h[k] /\ h[k] = next[SubSeq(h, 1, k - 1)]
        BY <2>1, <2>2, <3>3
      <4> QED BY <3>1, <4>1
    <3> QED BY <3>2, <3>3
  <2>6. HasTable(V, next, n + 1)
    BY <2>2, <2>5 DEF HasTable
  <2> QED BY <2>6
<1> HIDE DEF U
<1>3. 0..size \subseteq U
  BY <1>1, <1>2, UpToInduction
<1>4. size \in U
  BY <1>3
<1> QED BY <1>4 DEF U

-----------------------------------------------------------------------------
(* What a loop copies *)

Translation == [Chars -> Seq(Chars)]

(* The states of a loop that copies t: its end, and what each turn adds.    *)
Copying(t, bytes, len, h) ==
    /\ Copied(t, bytes) = h[len]
    /\ h \in [0..len -> Seq(Chars)]
    /\ h[0] = <<>>
    /\ \A n \in 1..len : h[n] = h[n - 1] \o bytes[t[n]]

LEMMA CopiedTable ==
    ASSUME NEW t \in Seq(Chars), NEW bytes \in Translation
    PROVE  \E h : Copying(t, bytes, Len(t), h)
<1> DEFINE Entry(g, n) == IF n = 0 THEN <<>> ELSE g[n - 1] \o bytes[t[n]]
           V == Seq(Chars)
           next == [g \in Seq(V) |->
                       IF Len(g) = 0 \/ Len(g) > Len(t) THEN <<>>
                       ELSE g[Len(g)] \o bytes[t[Len(g)]]]
<1>1. next \in [Seq(V) -> V]
  <2> SUFFICES ASSUME NEW g \in Seq(V), Len(g) # 0, Len(g) <= Len(t)
               PROVE  g[Len(g)] \o bytes[t[Len(g)]] \in V
    BY EmptySeq
  <2>1. Len(g) \in 1..Len(t) /\ Len(g) \in 1..Len(g)
    OBVIOUS
  <2>2. g[Len(g)] \in V /\ t[Len(g)] \in Chars
    BY <2>1, ElementOfSeq
  <2>3. bytes[t[Len(g)]] \in V
    BY <2>2 DEF Translation
  <2> QED BY <2>2, <2>3, ConcatProperties
<1>2. PICK e \in Seq(V) : /\ Len(e) = Len(t) + 1
                          /\ \A k \in 1..(Len(t) + 1) : e[k] = next[SubSeq(e, 1, k - 1)]
  <2>1. PICK size \in Nat : size = Len(t) + 1
    OBVIOUS
  <2> HIDE DEF next, V
  <2>2. HasTable(V, next, size)
    BY <1>1, Table
  <2>3. \E e \in Seq(V) : Len(e) = size /\ \A k \in 1..size : e[k] = next[SubSeq(e, 1, k - 1)]
    BY <2>2 DEF HasTable
  <2> QED BY <2>1, <2>3
<1> DEFINE h == [n \in 0..Len(t) |-> e[n + 1]]
<1>3. h \in [0..Len(t) -> Seq(Chars)]
  BY <1>2
<1>4. ASSUME NEW n \in 0..Len(t)
      PROVE  h[n] = Entry(h, n)
  <2> DEFINE g == SubSeq(e, 1, n)
  <2>1. /\ n + 1 \in 1..(Len(t) + 1) /\ h[n] = e[n + 1] /\ (n + 1) - 1 = n
    OBVIOUS
  <2>2. g \in Seq(V) /\ Len(g) = n /\ (n > 0 => g[n] = e[n])
    BY <1>2
  <2>3. h[n] = next[g]
    BY <1>2, <2>1
  <2>4. next[g] = IF n = 0 THEN <<>> ELSE e[n] \o bytes[t[n]]
    <3> HIDE DEF g
    <3> QED BY <2>2
  <2>5. n > 0 => h[n - 1] = e[n]
    OBVIOUS
  <2> HIDE DEF g, h, next
  <2> QED BY <2>3, <2>4, <2>5
<1>5. h = [n \in 0..Len(t) |-> Entry(h, n)]
  <2> HIDE DEF Entry
  <2> QED BY <1>4
<1> HIDE DEF h
<1>6. \E f : f = [n \in 0..Len(t) |-> IF n = 0 THEN <<>> ELSE f[n - 1] \o bytes[t[n]]]
  BY <1>5
<1>7. PICK f : /\ Copied(t, bytes) = f[Len(t)]
               /\ f = [n \in 0..Len(t) |-> IF n = 0 THEN <<>> ELSE f[n - 1] \o bytes[t[n]]]
  BY <1>6, Zenon DEF Copied
<1>8. 0 \in 0..Len(t) /\ \A n \in 1..Len(t) : n \in 0..Len(t) /\ n # 0
  OBVIOUS
<1>9. f[0] = <<>> /\ \A n \in 1..Len(t) : f[n] = f[n - 1] \o bytes[t[n]]
  BY <1>7, <1>8, Zenon
<1>10. f \in [0..Len(t) -> Seq(Chars)]
  <2> DEFINE U == {n \in Nat : f[n] \in Seq(Chars)}
  <2>1. 0 \in U
    <3>1. f[0] \in Seq(Chars)
      BY <1>9, EmptySeq
    <3> QED BY <3>1
  <2>2. ASSUME NEW n \in 0..(Len(t) - 1), n \in U
        PROVE  n + 1 \in U
    <3>1. n + 1 \in 1..Len(t) /\ (n + 1) - 1 = n
      OBVIOUS
    <3>2. bytes[t[n + 1]] \in Seq(Chars)
      BY <3>1 DEF Translation
    <3>3. f[n + 1] = f[n] \o bytes[t[n + 1]]
      BY <1>9, <3>1
    <3>4. f[n] \in Seq(Chars)
      BY <2>2
    <3>5. f[n + 1] \in Seq(Chars)
      BY <3>2, <3>3, <3>4, ConcatProperties
    <3> QED BY <3>5
  <2> HIDE DEF U
  <2>3. 0..Len(t) \subseteq U
    <3>1. Len(t) \in Nat
      OBVIOUS
    <3> QED BY ONLY <2>1, <2>2, <3>1, UpToInduction
  <2>4. DOMAIN f = 0..Len(t) /\ f = [n \in 0..Len(t) |-> f[n]]
    BY <1>7
  <2> QED BY <2>3, <2>4 DEF U
<1>11. Copying(t, bytes, Len(t), f)
  BY <1>7, <1>9, <1>10 DEF Copying
<1> QED BY <1>11

LEMMA CopiedType ==
    ASSUME NEW t \in Seq(Chars), NEW bytes \in Translation
    PROVE  Copied(t, bytes) \in Seq(Chars)
<1>1. PICK h : Copied(t, bytes) = h[Len(t)] /\ h \in [0..Len(t) -> Seq(Chars)]
  BY CopiedTable DEF Copying
<1>2. Len(t) \in 0..Len(t)
  OBVIOUS
<1> QED BY <1>1, <1>2

LEMMA CopiedEmpty ==
    ASSUME NEW bytes \in Translation
    PROVE  Copied(<<>>, bytes) = <<>>
<1>1. <<>> \in Seq(Chars) /\ Len(<<>>) = 0
  OBVIOUS
<1>2. PICK h : Copied(<<>>, bytes) = h[Len(<<>>)] /\ h[0] = <<>>
  BY <1>1, CopiedTable DEF Copying
<1> QED BY <1>1, <1>2

(* One more turn of the loop. *)
LEMMA CopiedAppend ==
    ASSUME NEW t \in Seq(Chars), NEW c \in Chars, NEW bytes \in Translation
    PROVE  Copied(Append(t, c), bytes) = Copied(t, bytes) \o bytes[c]
<1>1. PICK u \in Seq(Chars) : u = Append(t, c)
  BY AppendProperties
<1>2. PICK len \in Nat : len = Len(t)
  OBVIOUS
<1>3. /\ Len(u) = len + 1 /\ u[len + 1] = c
      /\ \A n \in 1..len : u[n] = t[n]
  BY <1>1, <1>2, AppendProperties
<1>4. PICK h : Copying(t, bytes, len, h)
  BY <1>2, CopiedTable
<1>5. PICK g : Copying(u, bytes, len + 1, g)
  BY <1>3, CopiedTable
<1> DEFINE U == {n \in Nat : g[n] = h[n]}
<1>6. 0 \in U
  BY <1>4, <1>5 DEF Copying
<1>7. ASSUME NEW n \in 0..(len - 1), n \in U
      PROVE  n + 1 \in U
  <2>1. PICK m \in 1..len : m = n + 1 /\ m \in 1..(len + 1) /\ m - 1 = n
    OBVIOUS
  <2>2. g[m] = g[n] \o bytes[u[m]] /\ h[m] = h[n] \o bytes[t[m]]
    BY <1>4, <1>5, <2>1 DEF Copying
  <2>3. u[m] = t[m] /\ g[n] = h[n]
    BY <1>3, <1>7
  <2>4. g[m] = h[m]
    BY <2>2, <2>3
  <2> QED BY <2>1, <2>4
<1> HIDE DEF U
<1>8. 0..len \subseteq U
  BY <1>6, <1>7, UpToInduction
<1>9. g[len] = h[len]
  BY <1>8 DEF U
<1>10. g[len + 1] = g[len] \o bytes[c]
  <2>1. len + 1 \in 1..(len + 1) /\ (len + 1) - 1 = len
    OBVIOUS
  <2> QED BY <1>3, <1>5, <2>1 DEF Copying
<1> QED BY <1>1, <1>4, <1>5, <1>9, <1>10 DEF Copying

(* A loop over two texts in a row is two loops in a row. *)
LEMMA CopiedConcat ==
    ASSUME NEW t \in Seq(Chars), NEW u \in Seq(Chars), NEW bytes \in Translation
    PROVE  Copied(t \o u, bytes) = Copied(t, bytes) \o Copied(u, bytes)
<1> DEFINE U == {v \in Seq(Chars) :
                    Copied(t \o v, bytes) = Copied(t, bytes) \o Copied(v, bytes)}
<1>1. <<>> \in U
  <2>1. t \o <<>> = t /\ Copied(t, bytes) \o <<>> = Copied(t, bytes) /\ <<>> \in Seq(Chars)
    BY CopiedType, ConcatEmptySeq
  <2> QED BY <2>1, CopiedEmpty
<1>2. ASSUME NEW v \in Seq(Chars), NEW c \in Chars, v \in U
      PROVE  Append(v, c) \in U
  <2>1. /\ Append(v, c) \in Seq(Chars) /\ t \o v \in Seq(Chars)
        /\ t \o Append(v, c) = Append(t \o v, c)
    OBVIOUS
  <2>2. bytes[c] \in Seq(Chars)
    BY DEF Translation
  <2>3. Copied(Append(t \o v, c), bytes) = Copied(t \o v, bytes) \o bytes[c]
    BY <2>1, CopiedAppend
  <2>4. Copied(Append(v, c), bytes) = Copied(v, bytes) \o bytes[c]
    BY CopiedAppend
  <2>5. Copied(t \o v, bytes) = Copied(t, bytes) \o Copied(v, bytes)
    BY <1>2
  <2>6. (Copied(t, bytes) \o Copied(v, bytes)) \o bytes[c]
           = Copied(t, bytes) \o (Copied(v, bytes) \o bytes[c])
    <3>1. PICK x \in Seq(Chars) : x = Copied(t, bytes)
      BY CopiedType
    <3>2. PICK y \in Seq(Chars) : y = Copied(v, bytes)
      BY CopiedType
    <3>3. PICK z \in Seq(Chars) : z = bytes[c]
      BY <2>2
    <3>4. (x \o y) \o z = x \o (y \o z)
      BY ConcatAssociative
    <3> QED BY <3>1, <3>2, <3>3, <3>4
  <2> QED BY <2>1, <2>3, <2>4, <2>5, <2>6
<1> HIDE DEF U
<1>3. Seq(Chars) \subseteq U
  BY <1>1, <1>2, TextsInduction
<1> QED BY <1>3 DEF U

-----------------------------------------------------------------------------
(* Texts without their NUL bytes *)

DropsNul == [c \in Chars |-> IF c = NUL THEN <<>> ELSE <<c>>]

LEMMA DropsNulType == DropsNul \in Translation
  BY DEF DropsNul, Translation

LEMMA WithoutNulEmpty == WithoutNul(<<>>) = <<>>
  BY CopiedEmpty, DropsNulType DEF WithoutNul, DropsNul

LEMMA WithoutNulConcat ==
    ASSUME NEW t \in Seq(Chars), NEW u \in Seq(Chars)
    PROVE  WithoutNul(t \o u) = WithoutNul(t) \o WithoutNul(u)
  BY CopiedConcat, DropsNulType DEF WithoutNul, DropsNul

LEMMA WithoutNulAppend ==
    ASSUME NEW t \in Seq(Chars), NEW c \in Chars
    PROVE  WithoutNul(Append(t, c)) =
              IF c = NUL THEN WithoutNul(t) ELSE Append(WithoutNul(t), c)
<1>1. WithoutNul(Append(t, c)) = WithoutNul(t) \o DropsNul[c]
  BY CopiedAppend, DropsNulType DEF WithoutNul, DropsNul
<1>2. DropsNul[c] = IF c = NUL THEN <<>> ELSE <<c>>
  BY DEF DropsNul
<1>3. WithoutNul(t) \in Seq(Chars)
  BY CopiedType, DropsNulType DEF WithoutNul, DropsNul
<1>4. WithoutNul(t) \o <<>> = WithoutNul(t) /\ WithoutNul(t) \o <<c>> = Append(WithoutNul(t), c)
  BY <1>3, ConcatEmptySeq, AppendIsConcat
<1> QED BY <1>1, <1>2, <1>4

LEMMA WithoutNulType ==
    ASSUME NEW t \in Seq(Chars)
    PROVE  /\ WithoutNul(t) \in Seq(Chars)
           /\ \A k \in 1..Len(WithoutNul(t)) : WithoutNul(t)[k] # NUL
<1> DEFINE U == {v \in Seq(Chars) : /\ WithoutNul(v) \in Seq(Chars)
                                    /\ \A k \in 1..Len(WithoutNul(v)) : WithoutNul(v)[k] # NUL}
<1>1. <<>> \in U
  <2>1. <<>> \in Seq(Chars) /\ \A k \in 1..Len(<<>>) : FALSE
    OBVIOUS
  <2> QED BY <2>1, WithoutNulEmpty
<1>2. ASSUME NEW v \in Seq(Chars), NEW c \in Chars, v \in U
      PROVE  Append(v, c) \in U
  <2>1. PICK w \in Seq(Chars) : w = WithoutNul(v) /\ \A k \in 1..Len(w) : w[k] # NUL
    BY <1>2
  <2>2. Append(v, c) \in Seq(Chars)
    OBVIOUS
  <2>3. PICK x : x = WithoutNul(Append(v, c)) /\ x = IF c = NUL THEN w ELSE Append(w, c)
    BY <2>1, WithoutNulAppend
  <2>4. x \in Seq(Chars) /\ \A k \in 1..Len(x) : x[k] # NUL
    BY <2>1, <2>3, AppendProperties
  <2> QED BY <2>2, <2>3, <2>4
<1> HIDE DEF U
<1>3. Seq(Chars) \subseteq U
  BY <1>1, <1>2, TextsInduction
<1> QED BY <1>3 DEF U

(* A text that has none is left as it is. *)
LEMMA WithoutNulSame ==
    ASSUME NEW t \in Seq(Chars), \A k \in 1..Len(t) : t[k] # NUL
    PROVE  WithoutNul(t) = t
<1> DEFINE U == {v \in Seq(Chars) : (\A k \in 1..Len(v) : v[k] # NUL) => WithoutNul(v) = v}
<1>1. <<>> \in U
  BY WithoutNulEmpty
<1>2. ASSUME NEW v \in Seq(Chars), NEW c \in Chars, v \in U
      PROVE  Append(v, c) \in U
  <2>1. PICK w \in Seq(Chars) : w = Append(v, c)
    BY AppendProperties
  <2>2. Len(w) \in 1..Len(w) /\ w[Len(w)] = c /\ \A k \in 1..Len(v) : k \in 1..Len(w) /\ w[k] = v[k]
    BY <2>1
  <2>3. ASSUME \A k \in 1..Len(w) : w[k] # NUL
        PROVE  WithoutNul(w) = w
    <3>1. c # NUL /\ \A k \in 1..Len(v) : v[k] # NUL
      BY <2>2, <2>3
    <3>2. WithoutNul(v) = v
      BY <1>2, <3>1
    <3> QED BY <2>1, <3>1, <3>2, WithoutNulAppend
  <2> QED BY <2>1, <2>3
<1> HIDE DEF U
<1>3. Seq(Chars) \subseteq U
  BY <1>1, <1>2, TextsInduction
<1> QED BY <1>3 DEF U

-----------------------------------------------------------------------------
(* Quoted regions *)

(* A quote among the first n bytes is open, given which bytes are inside.   *)
SomeOpen(t, n, inside) ==
    \E o \in 1..n : /\ t[o] \in {SQ, DQ}
                    /\ ~inside[o]
                    /\ \A m \in o + 1..n : t[m] # t[o]

(* What lies inside depends on what comes before, so Inside is as its       *)
(* equation says.                                                           *)
LEMMA InsideEquation ==
    ASSUME NEW t \in Seq(Chars)
    PROVE  Inside(t) = [p \in 1..Len(t) + 1 |-> SomeOpen(t, p - 1, Inside(t))]
<1> DEFINE next == [g \in Seq(BOOLEAN) |-> SomeOpen(t, Len(g), g)]
<1>1. next \in [Seq(BOOLEAN) -> BOOLEAN]
  BY DEF SomeOpen
<1>2. PICK size \in Nat : size = Len(t) + 1
  OBVIOUS
<1>3. HasTable(BOOLEAN, next, size)
  <2> HIDE DEF next
  <2> QED BY <1>1, Table
<1>4. PICK h \in Seq(BOOLEAN) :
         Len(h) = size /\ \A k \in 1..size : h[k] = next[SubSeq(h, 1, k - 1)]
  BY <1>3 DEF HasTable
<1>5. ASSUME NEW k \in 1..size
      PROVE  h[k] = SomeOpen(t, k - 1, h)
  <2> DEFINE g == SubSeq(h, 1, k - 1)
  <2>1. /\ g \in Seq(BOOLEAN) /\ Len(g) = k - 1
        /\ \A o \in 1..(k - 1) : g[o] = h[o]
    BY <1>4
  <2>2. next[g] = SomeOpen(t, Len(g), g)
    BY <2>1
  <2>3. h[k] = next[g]
    BY <1>4
  <2> HIDE DEF g
  <2>4. SomeOpen(t, k - 1, g) = SomeOpen(t, k - 1, h)
    BY <2>1 DEF SomeOpen
  <2> QED BY <2>1, <2>2, <2>3, <2>4
<1>6. h = [k \in 1..size |-> SomeOpen(t, k - 1, h)]
  <2>1. h = [k \in 1..size |-> h[k]]
    BY <1>4
  <2>2. [k \in 1..size |-> h[k]] = [k \in 1..size |-> SomeOpen(t, k - 1, h)]
    BY <1>5
  <2> QED BY <2>1, <2>2
<1>7. \E f : f = [p \in 1..Len(t) + 1 |->
                     \E o \in 1..p - 1 : /\ t[o] \in {SQ, DQ}
                                         /\ ~f[o]
                                         /\ \A m \in o + 1..p - 1 : t[m] # t[o]]
  BY <1>2, <1>6 DEF SomeOpen
<1>8. Inside(t) = [p \in 1..Len(t) + 1 |->
                     \E o \in 1..p - 1 : /\ t[o] \in {SQ, DQ}
                                         /\ ~Inside(t)[o]
                                         /\ \A m \in o + 1..p - 1 : t[m] # t[o]]
  BY <1>7, Zenon DEF Inside
<1> QED BY <1>8, Zenon DEF SomeOpen

(* The first n bytes of t leave a region open that began with the quote q.  *)
Open(t, n, q) ==
    \E o \in 1..n : /\ t[o] = q
                    /\ ~Inside(t)[o]
                    /\ \A m \in o + 1..n : t[m] # q

LEMMA InsideOpen ==
    ASSUME NEW t \in Seq(Chars), NEW n \in 0..Len(t)
    PROVE  Inside(t)[n + 1] <=> Open(t, n, SQ) \/ Open(t, n, DQ)
<1>1. n + 1 \in 1..Len(t) + 1 /\ (n + 1) - 1 = n
  OBVIOUS
<1>2. Inside(t)[n + 1] = SomeOpen(t, n, Inside(t))
  BY <1>1, InsideEquation
<1>3. SomeOpen(t, n, Inside(t)) <=> Open(t, n, SQ) \/ Open(t, n, DQ)
  BY DEF SomeOpen, Open
<1> QED BY <1>2, <1>3

LEMMA NothingOpen == \A t, q : ~Open(t, 0, q)
  BY DEF Open

(* What the byte behind the first n does to an open region. *)
LEMMA OpenNext ==
    ASSUME NEW t \in Seq(Chars), NEW n \in 0..(Len(t) - 1), NEW q \in {SQ, DQ}
    PROVE  Open(t, n + 1, q) <=>
              IF t[n + 1] = q THEN ~Inside(t)[n + 1] ELSE Open(t, n, q)
<1>1. CASE t[n + 1] = q
  <2>1. ASSUME ~Inside(t)[n + 1] PROVE Open(t, n + 1, q)
    <3>1. n + 1 \in 1..(n + 1) /\ \A m \in (n + 1) + 1..n + 1 : FALSE
      OBVIOUS
    <3> QED BY <1>1, <2>1, <3>1 DEF Open
  <2>2. ASSUME Open(t, n + 1, q) PROVE ~Inside(t)[n + 1]
    <3>1. PICK o \in 1..(n + 1) : ~Inside(t)[o] /\ \A m \in o + 1..n + 1 : t[m] # q
      BY <2>2 DEF Open
    <3>2. o = n + 1
      <4>1. o <= n => n + 1 \in o + 1..n + 1
        OBVIOUS
      <4> QED BY <1>1, <3>1, <4>1
    <3> QED BY <3>1, <3>2
  <2> QED BY <1>1, <2>1, <2>2
<1>2. CASE t[n + 1] # q
  <2>1. ASSUME Open(t, n, q) PROVE Open(t, n + 1, q)
    <3>1. PICK o \in 1..n : t[o] = q /\ ~Inside(t)[o] /\ \A m \in o + 1..n : t[m] # q
      BY <2>1 DEF Open
    <3>2. o \in 1..(n + 1) /\ \A m \in o + 1..n + 1 : m \in o + 1..n \/ m = n + 1
      OBVIOUS
    <3>3. \A m \in o + 1..n + 1 : t[m] # q
      BY <1>2, <3>1, <3>2
    <3> QED BY <3>1, <3>2, <3>3 DEF Open
  <2>2. ASSUME Open(t, n + 1, q) PROVE Open(t, n, q)
    <3>1. PICK o \in 1..(n + 1) : t[o] = q /\ ~Inside(t)[o] /\ \A m \in o + 1..n + 1 : t[m] # q
      BY <2>2 DEF Open
    <3>2. o # n + 1
      BY <1>2, <3>1
    <3>3. o \in 1..n /\ \A m \in o + 1..n : m \in o + 1..n + 1
      BY <3>2
    <3> QED BY <3>1, <3>3 DEF Open
  <2> QED BY <1>2, <2>1, <2>2
<1> QED BY <1>1, <1>2

(* A byte is in one region at most. *)
LEMMA OneRegion ==
    ASSUME NEW t \in Seq(Chars), NEW n \in 0..Len(t)
    PROVE  ~(Open(t, n, SQ) /\ Open(t, n, DQ))
<1> DEFINE U == {k \in Nat : ~(Open(t, k, SQ) /\ Open(t, k, DQ))}
<1>1. 0 \in U
  BY NothingOpen
<1>2. ASSUME NEW k \in 0..(Len(t) - 1), k \in U
      PROVE  k + 1 \in U
  <2>1. /\ k \in 0..Len(t) /\ k + 1 \in Nat
        /\ SQ # DQ
    BY DEF SQ, DQ
  <2>2. ~(Open(t, k, SQ) /\ Open(t, k, DQ))
    BY <1>2
  <2>3. Inside(t)[k + 1] <=> Open(t, k, SQ) \/ Open(t, k, DQ)
    BY <2>1, InsideOpen
  <2>4. /\ Open(t, k + 1, SQ) <=> IF t[k + 1] = SQ THEN ~Inside(t)[k + 1] ELSE Open(t, k, SQ)
        /\ Open(t, k + 1, DQ) <=> IF t[k + 1] = DQ THEN ~Inside(t)[k + 1] ELSE Open(t, k, DQ)
    BY OpenNext
  <2>5. ~(Open(t, k + 1, SQ) /\ Open(t, k + 1, DQ))
    BY <2>1, <2>2, <2>3, <2>4
  <2> QED BY <2>1, <2>5
<1> HIDE DEF U
<1>3. 0..Len(t) \subseteq U
  <2>1. Len(t) \in Nat
    OBVIOUS
  <2> QED BY ONLY <1>1, <1>2, <2>1, UpToInduction
<1> QED BY <1>3 DEF U

(***************************************************************************)
(* A single quote outside of double quotes opens or closes a region; every *)
(* other byte leaves it as it is.  The same with the quotes exchanged.      *)
(* This is how zstr_prepare() reads a text.                                *)
(***************************************************************************)
LEMMA OpenStep ==
    ASSUME NEW t \in Seq(Chars), NEW n \in 0..(Len(t) - 1)
    PROVE  /\ Open(t, n + 1, SQ) <=>
                 IF t[n + 1] = SQ /\ ~Open(t, n, DQ) THEN ~Open(t, n, SQ) ELSE Open(t, n, SQ)
           /\ Open(t, n + 1, DQ) <=>
                 IF t[n + 1] = DQ /\ ~Open(t, n, SQ) THEN ~Open(t, n, DQ) ELSE Open(t, n, DQ)
<1>1. n \in 0..Len(t) /\ SQ # DQ
  BY DEF SQ, DQ
<1>2. ~(Open(t, n, SQ) /\ Open(t, n, DQ))
  BY <1>1, OneRegion
<1>3. Inside(t)[n + 1] <=> Open(t, n, SQ) \/ Open(t, n, DQ)
  BY <1>1, InsideOpen
<1>4. /\ Open(t, n + 1, SQ) <=> IF t[n + 1] = SQ THEN ~Inside(t)[n + 1] ELSE Open(t, n, SQ)
      /\ Open(t, n + 1, DQ) <=> IF t[n + 1] = DQ THEN ~Inside(t)[n + 1] ELSE Open(t, n, DQ)
  BY OpenNext
<1> QED BY <1>1, <1>2, <1>3, <1>4

(* What comes behind a text does not change which of its bytes are inside.  *)
LEMMA InsidePrefix ==
    ASSUME NEW t \in Seq(Chars), NEW u \in Seq(Chars), Len(u) <= Len(t),
           \A p \in 1..Len(u) : t[p] = u[p]
    PROVE  /\ \A p \in 1..Len(u) + 1 : Inside(t)[p] = Inside(u)[p]
           /\ \A q : Open(t, Len(u), q) <=> Open(u, Len(u), q)
<1>1. Inside(t) = [p \in 1..Len(t) + 1 |-> SomeOpen(t, p - 1, Inside(t))]
  BY InsideEquation
<1>2. Inside(u) = [p \in 1..Len(u) + 1 |-> SomeOpen(u, p - 1, Inside(u))]
  BY InsideEquation
<1> DEFINE U == {p \in Nat : p \in 1..Len(u) + 1 => Inside(t)[p] = Inside(u)[p]}
<1>3. ASSUME NEW p \in Nat, \A m \in 0..(p - 1) : m \in U
      PROVE  p \in U
  <2>1. ASSUME p \in 1..Len(u) + 1
        PROVE  Inside(t)[p] = Inside(u)[p]
    <3>1. p \in 1..Len(t) + 1
      BY <2>1
    <3>2. /\ Inside(t)[p] = SomeOpen(t, p - 1, Inside(t))
          /\ Inside(u)[p] = SomeOpen(u, p - 1, Inside(u))
      BY <1>1, <1>2, <2>1, <3>1
    <3>3. \A o \in 1..(p - 1) : t[o] = u[o] /\ Inside(t)[o] = Inside(u)[o]
      BY <1>3, <2>1
    <3>4. SomeOpen(t, p - 1, Inside(t)) = SomeOpen(u, p - 1, Inside(u))
      <4>1. \A o \in 1..(p - 1) : \A m \in o + 1..p - 1 : m \in 1..(p - 1)
        OBVIOUS
      <4> QED BY <3>3, <4>1 DEF SomeOpen
    <3> QED BY <3>2, <3>4
  <2> QED BY <2>1
<1> HIDE DEF U
<1>4. Nat \subseteq U
  BY <1>3, NumbersInduction
<1>5. \A p \in 1..Len(u) + 1 : Inside(t)[p] = Inside(u)[p]
  BY <1>4 DEF U
<1>6. \A q : Open(t, Len(u), q) <=> Open(u, Len(u), q)
  <2>1. \A o \in 1..Len(u) : o \in 1..Len(u) + 1 /\ \A m \in o + 1..Len(u) : m \in 1..Len(u)
    OBVIOUS
  <2> QED BY <1>5, <2>1 DEF Open
<1> QED BY <1>5, <1>6

(* One more byte at the end of a text. *)
LEMMA OpenAppend ==
    ASSUME NEW t \in Seq(Chars), NEW c \in Chars, NEW u \in Seq(Chars), u = Append(t, c)
    PROVE  /\ Len(u) = Len(t) + 1
           /\ Open(u, Len(u), SQ) <=>
                 IF c = SQ /\ ~Open(t, Len(t), DQ) THEN ~Open(t, Len(t), SQ)
                 ELSE Open(t, Len(t), SQ)
           /\ Open(u, Len(u), DQ) <=>
                 IF c = DQ /\ ~Open(t, Len(t), SQ) THEN ~Open(t, Len(t), DQ)
                 ELSE Open(t, Len(t), DQ)
<1>1. PICK n \in Nat : n = Len(t)
  OBVIOUS
<1>2. /\ Len(u) = n + 1 /\ u[n + 1] = c
      /\ \A p \in 1..n : u[p] = t[p]
      /\ n \in 0..(Len(u) - 1)
  BY <1>1, AppendProperties
<1>3. \A q : Open(u, n, q) <=> Open(t, n, q)
  <2>1. Len(t) <= Len(u) /\ \A p \in 1..Len(t) : u[p] = t[p]
    BY <1>1, <1>2
  <2>2. \A q : Open(u, Len(t), q) <=> Open(t, Len(t), q)
    BY <2>1, InsidePrefix
  <2> QED BY <1>1, <2>2
<1>4. /\ Open(u, n + 1, SQ) <=>
            IF u[n + 1] = SQ /\ ~Open(u, n, DQ) THEN ~Open(u, n, SQ) ELSE Open(u, n, SQ)
      /\ Open(u, n + 1, DQ) <=>
            IF u[n + 1] = DQ /\ ~Open(u, n, SQ) THEN ~Open(u, n, DQ) ELSE Open(u, n, DQ)
  BY <1>2, OpenStep
<1> QED BY <1>1, <1>2, <1>3, <1>4

(* NUL bytes neither open nor close a region. *)
LEMMA OpenWithoutNul ==
    ASSUME NEW t \in Seq(Chars), NEW q \in {SQ, DQ}
    PROVE  Open(WithoutNul(t), Len(WithoutNul(t)), q) <=> Open(t, Len(t), q)
<1> DEFINE Same(v, w) == \A x \in {SQ, DQ} : Open(w, Len(w), x) <=> Open(v, Len(v), x)
           U == {v \in Seq(Chars) : Same(v, WithoutNul(v))}
<1>1. <<>> \in U
  BY WithoutNulEmpty
<1>2. ASSUME NEW v \in Seq(Chars), NEW c \in Chars, v \in U
      PROVE  Append(v, c) \in U
  <2>1. PICK w \in Seq(Chars) : w = WithoutNul(v)
    BY WithoutNulType
  <2>2. PICK vc \in Seq(Chars) : vc = Append(v, c)
    BY AppendProperties
  <2>3. PICK wc \in Seq(Chars) : wc = Append(w, c)
    BY AppendProperties
  <2>4. /\ Open(w, Len(w), SQ) <=> Open(v, Len(v), SQ)
        /\ Open(w, Len(w), DQ) <=> Open(v, Len(v), DQ)
    BY <1>2, <2>1
  <2>5. /\ Open(vc, Len(vc), SQ) <=>
              IF c = SQ /\ ~Open(v, Len(v), DQ) THEN ~Open(v, Len(v), SQ)
              ELSE Open(v, Len(v), SQ)
        /\ Open(vc, Len(vc), DQ) <=>
              IF c = DQ /\ ~Open(v, Len(v), SQ) THEN ~Open(v, Len(v), DQ)
              ELSE Open(v, Len(v), DQ)
    BY <2>2, OpenAppend
  <2>6. /\ Open(wc, Len(wc), SQ) <=>
              IF c = SQ /\ ~Open(w, Len(w), DQ) THEN ~Open(w, Len(w), SQ)
              ELSE Open(w, Len(w), SQ)
        /\ Open(wc, Len(wc), DQ) <=>
              IF c = DQ /\ ~Open(w, Len(w), SQ) THEN ~Open(w, Len(w), DQ)
              ELSE Open(w, Len(w), DQ)
    BY <2>3, OpenAppend
  <2>7. WithoutNul(vc) = IF c = NUL THEN w ELSE wc
    BY <2>1, <2>2, <2>3, WithoutNulAppend
  <2>8. Same(vc, WithoutNul(vc))
    <3>1. CASE c = NUL
      <4>1. c # SQ /\ c # DQ
        BY <3>1 DEF NUL, SQ, DQ
      <4>2. /\ Open(w, Len(w), SQ) <=> Open(vc, Len(vc), SQ)
            /\ Open(w, Len(w), DQ) <=> Open(vc, Len(vc), DQ)
        BY <2>4, <2>5, <4>1
      <4> QED BY <2>7, <3>1, <4>2
    <3>2. CASE c # NUL
      <4>1. /\ Open(wc, Len(wc), SQ) <=> Open(vc, Len(vc), SQ)
            /\ Open(wc, Len(wc), DQ) <=> Open(vc, Len(vc), DQ)
        BY <2>4, <2>5, <2>6
      <4> QED BY <2>7, <3>2, <4>1
    <3> QED BY <3>1, <3>2
  <2> QED BY <2>2, <2>8
<1> HIDE DEF U
<1>3. Seq(Chars) \subseteq U
  BY <1>1, <1>2, TextsInduction
<1> QED BY <1>3 DEF U

-----------------------------------------------------------------------------
(* Where a byte of the text is without the NUL bytes before it *)

(* The first n bytes of t, without NUL bytes. *)
Kept(t, n) == WithoutNul(SubSeq(t, 1, n))

LEMMA KeptType ==
    ASSUME NEW t \in Seq(Chars), NEW n \in 0..Len(t)
    PROVE  Kept(t, n) \in Seq(Chars) /\ Len(Kept(t, n)) \in Nat
<1>1. SubSeq(t, 1, n) \in Seq(Chars)
  OBVIOUS
<1>2. Kept(t, n) \in Seq(Chars)
  BY <1>1, WithoutNulType DEF Kept
<1> QED BY <1>2

LEMMA KeptEnds ==
    ASSUME NEW t \in Seq(Chars)
    PROVE  Kept(t, 0) = <<>> /\ Kept(t, Len(t)) = WithoutNul(t)
<1>1. SubSeq(t, 1, 0) = <<>> /\ SubSeq(t, 1, Len(t)) = t
  BY SubSeqEmpty, SubSeqFull
<1> QED BY <1>1, WithoutNulEmpty DEF Kept

LEMMA KeptNext ==
    ASSUME NEW t \in Seq(Chars), NEW n \in 0..(Len(t) - 1)
    PROVE  Kept(t, n + 1) = IF t[n + 1] = NUL THEN Kept(t, n) ELSE Append(Kept(t, n), t[n + 1])
<1>1. PICK u \in Seq(Chars) : u = SubSeq(t, 1, n)
  <2>1. SubSeq(t, 1, n) \in Seq(Chars)
    OBVIOUS
  <2> QED BY <2>1
<1>2. PICK c \in Chars : c = t[n + 1]
  OBVIOUS
<1>3. SubSeq(t, 1, n + 1) = Append(u, c)
  BY <1>1, <1>2
<1> QED BY <1>1, <1>2, <1>3, WithoutNulAppend DEF Kept

(* What is kept of the beginning is the beginning of what is kept. *)
LEMMA KeptPrefix ==
    ASSUME NEW t \in Seq(Chars), NEW n \in 0..Len(t)
    PROVE  /\ Len(Kept(t, n)) <= Len(WithoutNul(t))
           /\ \A p \in 1..Len(Kept(t, n)) : WithoutNul(t)[p] = Kept(t, n)[p]
<1>1. PICK u \in Seq(Chars) : u = SubSeq(t, 1, n)
  <2>1. SubSeq(t, 1, n) \in Seq(Chars)
    OBVIOUS
  <2> QED BY <2>1
<1>2. PICK v \in Seq(Chars) : v = SubSeq(t, n + 1, Len(t))
  <2>1. SubSeq(t, n + 1, Len(t)) \in Seq(Chars)
    OBVIOUS
  <2> QED BY <2>1
<1>3. u \o v = t
  <2>1. Len(u) = n /\ Len(v) = Len(t) - n /\ u \o v \in Seq(Chars)
    BY <1>1, <1>2
  <2>2. Len(u \o v) = Len(t)
    BY <2>1
  <2>3. ASSUME NEW p \in 1..Len(t)
        PROVE  (u \o v)[p] = t[p]
    <3>1. CASE p <= n
      <4>1. u[p] = t[p]
        BY <1>1, <3>1
      <4> QED BY <2>1, <3>1, <4>1
    <3>2. CASE p > n
      <4>1. v[p - n] = t[p]
        BY <1>2, <3>2
      <4>2. (u \o v)[p] = v[p - n]
        BY <2>1, <3>2
      <4> QED BY <4>1, <4>2
    <3>3. p <= n \/ p > n
      OBVIOUS
    <3> QED BY <3>1, <3>2, <3>3
  <2> QED BY <2>1, <2>2, <2>3, SeqEqual
<1>4. PICK x \in Seq(Chars) : x = WithoutNul(u)
  BY WithoutNulType
<1>5. PICK y \in Seq(Chars) : y = WithoutNul(v)
  BY WithoutNulType
<1>6. WithoutNul(t) = x \o y
  BY <1>3, <1>4, <1>5, WithoutNulConcat
<1>7. Len(x) <= Len(x \o y) /\ \A p \in 1..Len(x) : (x \o y)[p] = x[p]
  OBVIOUS
<1> QED BY <1>1, <1>4, <1>6, <1>7 DEF Kept

(* A byte that is kept comes next. *)
LEMMA KeptAt ==
    ASSUME NEW t \in Seq(Chars), NEW n \in 0..(Len(t) - 1), t[n + 1] # NUL
    PROVE  /\ Len(Kept(t, n + 1)) = Len(Kept(t, n)) + 1
           /\ Len(Kept(t, n)) + 1 <= Len(WithoutNul(t))
           /\ WithoutNul(t)[Len(Kept(t, n)) + 1] = t[n + 1]
<1>1. n \in 0..Len(t) /\ n + 1 \in 0..Len(t) /\ t[n + 1] \in Chars
  OBVIOUS
<1>2. PICK u \in Seq(Chars) : u = Kept(t, n)
  BY <1>1, KeptType
<1>3. PICK v \in Seq(Chars) : v = Kept(t, n + 1)
  BY <1>1, KeptType
<1>4. v = Append(u, t[n + 1])
  BY <1>2, <1>3, KeptNext
<1>5. Len(v) = Len(u) + 1 /\ v[Len(u) + 1] = t[n + 1] /\ Len(u) + 1 \in 1..Len(v)
  BY <1>1, <1>4
<1>6. Len(v) <= Len(WithoutNul(t)) /\ \A p \in 1..Len(v) : WithoutNul(t)[p] = v[p]
  BY <1>1, <1>3, KeptPrefix
<1> QED BY <1>2, <1>3, <1>5, <1>6

-----------------------------------------------------------------------------
(* What zstr_prepare() and zstr_strip_zerobytes() have written *)

(* d is made of the first n bytes of t, where at most colons outside of     *)
(* quotes are replaced.                                                    *)
Imitates(d, t, n) ==
    /\ Len(d) = n
    /\ \A p \in 1..n : \/ d[p] = t[p]
                       \/ d[p] = DOLLAR /\ t[p] = COLON /\ ~Inside(t)[p]

(* d is the first n bytes of t with its placeholders rewritten. *)
Rewrites(d, t, n) ==
    /\ Len(d) = n
    /\ \A p \in 1..n : d[p] = Rewritten(t)[p]

(***************************************************************************)
(* Where zstr_prepare() is in its text: its flags say which quote the text *)
(* without NUL bytes has left open, as far as it has been read, and the    *)
(* buffer holds that much of it.                                           *)
(***************************************************************************)
Preparing ==
    op \in {"prepare", "prepared"} =>
        LET t == WithoutNul(src)
            n == Len(Kept(src, i))
        IN  /\ in_sq <=> Open(t, n, SQ)
            /\ in_dq <=> Open(t, n, DQ)
            /\ Imitates(dst, t, n)
            /\ ~NulBesideColon(src) => Rewrites(dst, t, n)

Stripping ==
    /\ op = "strip" => dst = Kept(src, i)
    /\ op = "stripped" => dst = WithoutNul(src)

Finished == op = "prepared" => i = Len(src)

TextInv == SqlInv /\ Preparing /\ Stripping /\ Finished

(* The byte at i begins a placeholder of the text as its author means it    *)
(* exactly if the three bytes that zstr_prepare() looks at say so.          *)
LEMMA StartsNameIsPlaceholder ==
    ASSUME TypeOK, op = "prepare", Preparing, i < Len(src), At(i) # NUL,
           ~NulBesideColon(src)
    PROVE  StartsName <=> Placeholder(WithoutNul(src), Len(Kept(src, i)) + 1)
<1>1. PICK t \in Seq(Chars) : t = WithoutNul(src)
  BY WithoutNulType DEF TypeOK
<1>2. /\ i \in Nat /\ Len(src) \in Nat /\ i \in 0..(Len(src) - 1) /\ src \in Seq(Chars)
      /\ src[i + 1] # NUL
  BY DEF TypeOK, At
<1>3. PICK n \in Nat : n = Len(Kept(src, i))
  BY <1>2, KeptType
<1>4. n + 1 <= Len(t) /\ t[n + 1] = src[i + 1] /\ Len(Kept(src, i + 1)) = n + 1
  BY <1>1, <1>2, <1>3, KeptAt
<1>5. Inside(t)[n + 1] <=> in_sq \/ in_dq
  <2>1. n \in 0..Len(t)
    BY <1>4
  <2>2. (in_sq <=> Open(t, n, SQ)) /\ (in_dq <=> Open(t, n, DQ))
    BY <1>1, <1>3 DEF Preparing
  <2> QED BY <2>1, <2>2, InsideOpen
<1>6. CASE src[i + 1] # COLON
  BY <1>1, <1>3, <1>4, <1>6 DEF StartsName, At, Placeholder
<1>7. CASE src[i + 1] = COLON
  <2>1. (i + 1 < Len(src) /\ src[i + 2] \in Letters)
           <=> (n + 1 < Len(t) /\ t[n + 2] \in Letters)
    <3>1. CASE i + 1 < Len(src)
      <4>1. src[i + 2] # NUL
        <5>1. i + 1 \in 1..Len(src) - 1 /\ (i + 1) + 1 = i + 2
          BY <1>2, <3>1
        <5> QED BY <1>7, <5>1 DEF NulBesideColon
      <4>2. i + 1 \in 0..(Len(src) - 1) /\ (i + 1) + 1 = i + 2
        BY <1>2, <3>1
      <4>3. /\ Len(Kept(src, i + 1)) + 1 <= Len(t)
            /\ t[Len(Kept(src, i + 1)) + 1] = src[i + 2]
        BY <1>1, <1>2, <4>1, <4>2, KeptAt
      <4>4. n + 2 <= Len(t) /\ t[n + 2] = src[i + 2]
        BY <1>4, <4>3
      <4> QED BY <3>1, <4>4
    <3>2. CASE ~(i + 1 < Len(src))
      <4>1. i + 1 = Len(src)
        BY <1>2, <3>2
      <4>2. Len(t) = n + 1
        BY <1>1, <1>2, <1>4, <4>1, KeptEnds
      <4> QED BY <3>2, <4>2
    <3> QED BY <3>1, <3>2
  <2>2. (i = 0 \/ src[i] # COLON) <=> (n + 1 = 1 \/ t[n] # COLON)
    <3>1. CASE i = 0
      <4>1. n = 0
        BY <1>2, <1>3, <3>1, KeptEnds
      <4> QED BY <3>1, <4>1
    <3>2. CASE i # 0
      <4>1. i - 1 \in 0..(Len(src) - 1) /\ (i - 1) + 1 = i /\ i \in 1..Len(src) - 1
        BY <1>2, <3>2
      <4>2. src[i] # NUL
        BY <1>7, <4>1 DEF NulBesideColon
      <4>3. /\ Len(Kept(src, i)) = Len(Kept(src, i - 1)) + 1
            /\ t[Len(Kept(src, i - 1)) + 1] = src[i]
        BY <1>1, <1>2, <4>1, <4>2, KeptAt
      <4>4. Len(Kept(src, i - 1)) \in Nat
        <5>1. i - 1 \in 0..Len(src)
          BY <4>1
        <5> QED BY <1>2, <5>1, KeptType
      <4>5. n # 0 /\ t[n] = src[i]
        BY <1>3, <4>3, <4>4
      <4> QED BY <3>2, <4>5
    <3> QED BY <3>1, <3>2
  <2>3. /\ At(i) = src[i + 1] /\ At(i + 1) = src[i + 2] /\ (i # 0 => At(i - 1) = src[i])
    BY <1>2 DEF At
  <2>4. /\ (n + 1) - 1 = n /\ (n + 1) + 1 = n + 2
    OBVIOUS
  <2>5. StartsName <=> /\ ~in_sq /\ ~in_dq
                       /\ i + 1 < Len(src) /\ src[i + 2] \in Letters
                       /\ i = 0 \/ src[i] # COLON
    BY <1>7, <2>3 DEF StartsName
  <2>6. Placeholder(t, n + 1) <=> /\ n + 1 < Len(t) /\ t[n + 2] \in Letters
                                  /\ n + 1 = 1 \/ t[n] # COLON
                                  /\ ~Inside(t)[n + 1]
    BY <1>4, <1>7, <2>4 DEF Placeholder
  <2>7. StartsName <=> Placeholder(t, n + 1)
    BY <1>5, <2>1, <2>2, <2>5, <2>6
  <2> QED BY <1>1, <1>3, <2>7
<1> QED BY <1>6, <1>7

(* A byte that is written brings the buffer one byte further. *)
LEMMA ImitatesNext ==
    ASSUME NEW t \in Seq(Chars), NEW d \in Seq(Chars), NEW n \in Nat, NEW c \in Chars,
           n + 1 <= Len(t), Imitates(d, t, n),
           \/ c = t[n + 1]
           \/ c = DOLLAR /\ t[n + 1] = COLON /\ ~Inside(t)[n + 1]
    PROVE  Imitates(Append(d, c), t, n + 1)
<1>1. PICK e \in Seq(Chars) : e = Append(d, c)
  BY AppendProperties
<1>2. /\ Len(e) = n + 1 /\ e[n + 1] = c
      /\ \A p \in 1..n : e[p] = d[p]
  BY <1>1, AppendProperties DEF Imitates
<1>3. \A p \in 1..(n + 1) : p \in 1..n \/ p = n + 1
  OBVIOUS
<1> QED BY <1>1, <1>2, <1>3 DEF Imitates

LEMMA RewritesNext ==
    ASSUME NEW t \in Seq(Chars), NEW d \in Seq(Chars), NEW n \in Nat, NEW c \in Chars,
           n + 1 <= Len(t), Rewrites(d, t, n),
           c = IF Placeholder(t, n + 1) THEN DOLLAR ELSE t[n + 1]
    PROVE  Rewrites(Append(d, c), t, n + 1)
<1>1. PICK e \in Seq(Chars) : e = Append(d, c)
  BY AppendProperties
<1>2. /\ Len(e) = n + 1 /\ e[n + 1] = c
      /\ \A p \in 1..n : e[p] = d[p]
  BY <1>1, AppendProperties DEF Rewrites
<1>3. \A p \in 1..(n + 1) : p \in 1..n \/ p = n + 1
  OBVIOUS
<1>4. n + 1 \in 1..Len(t)
  OBVIOUS
<1>5. Rewritten(t)[n + 1] = c
  BY <1>4 DEF Rewritten
<1> QED BY <1>1, <1>2, <1>3, <1>5 DEF Rewrites

LEMMA PrepareTurnFollows ==
    ASSUME TextInv, PrepareTurn PROVE Preparing'
<1>1. /\ op = "prepare" /\ op' = op /\ src' = src /\ i' = i + 1 /\ TypeOK
      /\ src \in Seq(Chars) /\ dst \in Seq(Chars)
      /\ i \in 0..(Len(src) - 1) /\ i < Len(src) /\ At(i) = src[i + 1] /\ At(i) \in Chars
  BY ByteAt DEF TextInv, SqlInv, PrepareTurn, Turn, TypeOK, At
<1>2. PICK t \in Seq(Chars) : t = WithoutNul(src)
  BY <1>1, WithoutNulType
<1>3. PICK n \in Nat : n = Len(Kept(src, i))
  <2>1. i \in 0..Len(src)
    BY <1>1
  <2> QED BY <1>1, <2>1, KeptType
<1>4. /\ in_sq <=> Open(t, n, SQ)
      /\ in_dq <=> Open(t, n, DQ)
      /\ Imitates(dst, t, n)
      /\ ~NulBesideColon(src) => Rewrites(dst, t, n)
  BY <1>1, <1>2, <1>3 DEF TextInv, Preparing
<1>5. PICK m : m = Len(Kept(src, i + 1))
  OBVIOUS
<1>6. SUFFICES /\ in_sq' <=> Open(t, m, SQ)
               /\ in_dq' <=> Open(t, m, DQ)
               /\ Imitates(dst', t, m)
               /\ ~NulBesideColon(src) => Rewrites(dst', t, m)
  BY <1>1, <1>2, <1>5 DEF Preparing
<1>7. CASE At(i) = NUL
  <2>1. m = n
    BY <1>1, <1>3, <1>5, <1>7, KeptNext
  <2>2. dst' = dst /\ in_sq' = in_sq /\ in_dq' = in_dq
    <3>1. Turn(<<>>) /\ UNCHANGED <<in_sq, in_dq>>
      BY <1>7 DEF PrepareTurn
    <3>2. dst \o <<>> = dst
      BY <1>1, ConcatEmptySeq
    <3> QED BY <3>1, <3>2 DEF Turn
  <2> QED BY <1>4, <2>1, <2>2
<1>8. CASE At(i) # NUL
  <2> DEFINE c == IF StartsName THEN DOLLAR ELSE At(i)
  <2>1. /\ c \in Chars
        /\ dst' = dst \o <<c>>
        /\ in_sq' = InSingle(At(i)) /\ in_dq' = InDouble(At(i))
    BY <1>1, <1>8 DEF PrepareTurn, Turn, Chars
  <2>2. c = IF StartsName THEN DOLLAR ELSE At(i)
    OBVIOUS
  <2> HIDE DEF c
  <2>3. dst' = Append(dst, c)
    BY <1>1, <2>1, AppendIsConcat
  <2>4. n + 1 <= Len(t) /\ t[n + 1] = At(i) /\ m = n + 1
    BY <1>1, <1>2, <1>3, <1>5, <1>8, KeptAt
  <2>5. n \in 0..Len(t) /\ n \in 0..(Len(t) - 1)
    BY <2>4
  <2>6. Inside(t)[n + 1] <=> in_sq \/ in_dq
    BY <1>4, <2>5, InsideOpen
  <2>7. \/ c = DOLLAR /\ t[n + 1] = COLON /\ ~Inside(t)[n + 1]
        \/ c = t[n + 1]
    BY <2>2, <2>4, <2>6 DEF StartsName
  <2>8. Imitates(dst', t, m)
    BY <1>1, <1>4, <2>1, <2>3, <2>4, <2>7, ImitatesNext
  <2>9. ASSUME ~NulBesideColon(src)
        PROVE  Rewrites(dst', t, m)
    <3>1. StartsName <=> Placeholder(t, n + 1)
      BY <1>1, <1>2, <1>3, <1>8, <2>9, StartsNameIsPlaceholder DEF TextInv
    <3>2. c = IF Placeholder(t, n + 1) THEN DOLLAR ELSE t[n + 1]
      BY <2>2, <2>4, <3>1
    <3> QED BY <1>1, <1>4, <2>1, <2>3, <2>4, <2>9, <3>2, RewritesNext
  <2>10. /\ in_sq' <=> IF t[n + 1] = SQ /\ ~in_dq THEN ~in_sq ELSE in_sq
         /\ in_dq' <=> IF t[n + 1] = DQ /\ ~in_sq THEN ~in_dq ELSE in_dq
    BY <2>1, <2>4 DEF InSingle, InDouble
  <2>11. (in_sq' <=> Open(t, m, SQ)) /\ (in_dq' <=> Open(t, m, DQ))
    <3>1. /\ Open(t, n + 1, SQ) <=>
                IF t[n + 1] = SQ /\ ~Open(t, n, DQ) THEN ~Open(t, n, SQ) ELSE Open(t, n, SQ)
          /\ Open(t, n + 1, DQ) <=>
                IF t[n + 1] = DQ /\ ~Open(t, n, SQ) THEN ~Open(t, n, DQ) ELSE Open(t, n, DQ)
      BY <2>5, OpenStep
    <3> QED BY <1>4, <2>4, <2>10, <3>1
  <2> QED BY <2>8, <2>9, <2>11
<1> QED BY <1>7, <1>8

(* Preparing and Stripping are about these variables only. *)
LEMMA PreparingElsewhere ==
    ASSUME op' \notin {"prepare", "prepared"} PROVE Preparing'
  BY DEF Preparing

LEMMA NothingRead ==
    ASSUME NEW text \in Seq(Chars)
    PROVE  /\ Kept(text, 0) = <<>>
           /\ Imitates(<<>>, WithoutNul(text), 0)
           /\ Rewrites(<<>>, WithoutNul(text), 0)
  BY KeptEnds DEF Imitates, Rewrites

LEMMA StartFollows ==
    ASSUME NEW text \in Seq(Chars), NEW size, NEW written,
           NEW function \in {"prepare", "strip", "quote"},
           Start(function, text, size, written),
           function # "quote" => written = <<>>
    PROVE  Preparing' /\ Stripping' /\ Finished'
<1>1. /\ op' = function /\ src' = text /\ i' = 0 /\ dst' = written
      /\ in_sq' = FALSE /\ in_dq' = FALSE
  BY DEF Start
<1>2. Kept(text, 0) = <<>> /\ Len(<<>>) = 0
  BY KeptEnds
<1>3. Preparing'
  <2>1. CASE function = "prepare"
    <3>1. (in_sq' <=> Open(WithoutNul(text), 0, SQ)) /\ (in_dq' <=> Open(WithoutNul(text), 0, DQ))
      BY <1>1, NothingOpen
    <3>2. Imitates(dst', WithoutNul(text), 0) /\ Rewrites(dst', WithoutNul(text), 0)
      BY <1>1, <2>1, NothingRead
    <3> QED BY <1>1, <1>2, <3>1, <3>2 DEF Preparing
  <2>2. CASE function # "prepare"
    BY <1>1, <2>2, PreparingElsewhere
  <2> QED BY <2>1, <2>2
<1>4. Stripping'
  BY <1>1, <1>2 DEF Stripping
<1>5. Finished'
  BY <1>1 DEF Finished
<1> QED BY <1>3, <1>4, <1>5

LEMMA StripTurnFollows ==
    ASSUME TextInv, StripTurn PROVE Stripping'
<1>1. /\ op = "strip" /\ op' = op /\ src' = src /\ i' = i + 1 /\ TypeOK
      /\ src \in Seq(Chars) /\ dst \in Seq(Chars)
      /\ i \in 0..(Len(src) - 1) /\ At(i) = src[i + 1] /\ At(i) \in Chars
  BY ByteAt DEF TextInv, SqlInv, StripTurn, Turn, TypeOK, At
<1>2. dst = Kept(src, i)
  BY <1>1 DEF TextInv, Stripping
<1>3. dst' = IF At(i) = NUL THEN dst ELSE Append(dst, At(i))
  <2>1. dst \o <<>> = dst /\ dst \o <<At(i)>> = Append(dst, At(i))
    BY <1>1, ConcatEmptySeq, AppendIsConcat
  <2> QED BY <2>1 DEF StripTurn, Turn
<1>4. Kept(src, i + 1) = IF src[i + 1] = NUL THEN Kept(src, i) ELSE Append(Kept(src, i), src[i + 1])
  BY <1>1, KeptNext
<1> QED BY <1>1, <1>2, <1>3, <1>4 DEF Stripping

LEMMA StripReturnFollows ==
    ASSUME TextInv, StripReturn \/ StripCopies PROVE Stripping'
<1>1. op = "strip" /\ op' = "stripped" /\ src' = src /\ src \in Seq(Chars)
  BY DEF StripReturn, StripCopies, Return, TextInv, SqlInv, TypeOK
<1>2. CASE StripReturn
  BY <1>1, <1>2, KeptEnds DEF TextInv, Stripping, StripReturn, Return
<1>3. CASE StripCopies
  BY <1>1, <1>3, WithoutNulSame DEF Stripping, StripCopies
<1> QED BY <1>2, <1>3

LEMMA TextInit == Init => TextInv
  BY SqlInit DEF Init, TextInv, Preparing, Stripping, Finished

LEMMA TextStep == TextInv /\ [Next]_vars => TextInv'
<1> SUFFICES ASSUME TextInv, [Next]_vars PROVE TextInv'
  OBVIOUS
<1>1. SqlInv'
  BY SqlStep DEF TextInv
<1> SUFFICES Preparing' /\ Stripping' /\ Finished'
  BY <1>1 DEF TextInv
<1>2. ASSUME NEW sql \in SqlTexts, PrepareStart(sql) \/ StripStart(sql)
      PROVE  Preparing' /\ Stripping' /\ Finished'
  <2>1. sql \in Seq(Chars)
    BY SqlTextsAreTexts DEF TextInv, SqlInv
  <2> QED BY <1>2, <2>1, StartFollows DEF PrepareStart, StripStart
<1>3. ASSUME NEW unquoted \in Values, QuoteStart(unquoted)
      PROVE  Preparing' /\ Stripping' /\ Finished'
  <2>1. unquoted \in Seq(Chars)
    BY TextsAssumption
  <2> QED BY <1>3, <2>1, StartFollows DEF QuoteStart
<1>4. CASE PrepareTurn
  <2>1. op' = "prepare"
    BY <1>4 DEF PrepareTurn, Turn
  <2> QED BY <1>4, <2>1, PrepareTurnFollows DEF Stripping, Finished
<1>5. CASE PrepareReturn
  <2>1. op = "prepare" /\ op' = "prepared" /\ i = Len(src)
        /\ UNCHANGED <<src, i, dst, in_sq, in_dq>>
    BY <1>5 DEF PrepareReturn, Return
  <2> QED BY <2>1 DEF TextInv, Preparing, Stripping, Finished
<1>6. CASE StripTurn
  <2>1. op' = "strip"
    BY <1>6 DEF StripTurn, Turn
  <2> QED BY <1>6, <2>1, StripTurnFollows, PreparingElsewhere DEF Finished
<1>7. CASE StripReturn \/ StripCopies
  <2>1. op' = "stripped"
    BY <1>7 DEF StripReturn, StripCopies, Return
  <2> QED BY <1>7, <2>1, StripReturnFollows, PreparingElsewhere DEF Finished
<1>8. CASE QuoteTurn \/ QuoteReturn
  <2>1. op' \in {"quote", "quoted"}
    BY <1>8 DEF QuoteTurn, QuoteReturn, Turn, Return
  <2> QED BY <2>1, PreparingElsewhere DEF Stripping, Finished
<1>9. CASE UNCHANGED vars
  BY <1>9 DEF vars, TextInv, Preparing, Stripping, Finished
<1> QED BY <1>2, <1>3, <1>4, <1>5, <1>6, <1>7, <1>8, <1>9 DEF Next

(* What the buffer holds is, at every turn, what the text read so far gives. *)
THEOREM TextInvariance == Spec => []TextInv
  BY TextInit, TextStep, PTL DEF Spec

LEMMA AllRewritten == TextInv => PlaceholdersOnly
<1> SUFFICES ASSUME TextInv, op = "prepared", ~NulBesideColon(src)
             PROVE  dst = Rewritten(WithoutNul(src))
  BY DEF PlaceholdersOnly
<1>1. src \in Seq(Chars) /\ dst \in Seq(Chars) /\ i = Len(src)
  BY DEF TextInv, SqlInv, TypeOK, Finished
<1>2. PICK t \in Seq(Chars) : t = WithoutNul(src)
  BY <1>1, WithoutNulType
<1>3. Rewrites(dst, t, Len(t))
  BY <1>1, <1>2, KeptEnds DEF TextInv, Preparing
<1>4. Rewritten(t) = [p \in 1..Len(t) |-> Rewritten(t)[p]]
  BY DEF Rewritten
<1>5. dst = [p \in 1..Len(t) |-> dst[p]]
  BY <1>1, <1>3 DEF Rewrites
<1>6. [p \in 1..Len(t) |-> dst[p]] = [p \in 1..Len(t) |-> Rewritten(t)[p]]
  BY <1>3 DEF Rewrites
<1> QED BY <1>2, <1>4, <1>5, <1>6

(***************************************************************************)
(* zstr_prepare() finds exactly the placeholders that the text has when it *)
(* is read as SQL with regions in quotes, and changes nothing else, in     *)
(* texts of any length in which no NUL byte touches a colon.               *)
(***************************************************************************)
THEOREM PlaceholdersOnlyHolds == Spec => []PlaceholdersOnly
  BY TextInvariance, AllRewritten, PTL

-----------------------------------------------------------------------------
(* Literals *)

(* What the quoter makes of each byte of a value. *)
DoublesQuotes == [c \in Chars |-> IF c = SQ THEN <<SQ, SQ>> ELSE <<c>>]

Doubled(t) == Copied(t, DoublesQuotes)

LEMMA DoublesQuotesType == DoublesQuotes \in Translation
<1>1. SQ \in Chars
  BY DEF Chars
<1>2. <<SQ, SQ>> \in Seq(Chars) /\ \A c \in Chars : <<c>> \in Seq(Chars)
  BY <1>1
<1> QED BY <1>2 DEF DoublesQuotes, Translation

LEMMA DoubledType ==
    ASSUME NEW t \in Seq(Chars)
    PROVE  Doubled(t) \in Seq(Chars)
  BY CopiedType, DoublesQuotesType DEF Doubled

LEMMA DoubledEmpty == Doubled(<<>>) = <<>>
  BY CopiedEmpty, DoublesQuotesType DEF Doubled

LEMMA DoubledAppend ==
    ASSUME NEW t \in Seq(Chars), NEW c \in Chars
    PROVE  Doubled(Append(t, c)) =
              IF c = SQ THEN Append(Append(Doubled(t), SQ), SQ) ELSE Append(Doubled(t), c)
<1>1. PICK d \in Seq(Chars) : d = Doubled(t)
  BY DoubledType
<1>2. Doubled(Append(t, c)) = d \o DoublesQuotes[c]
  BY <1>1, CopiedAppend, DoublesQuotesType DEF Doubled
<1>3. DoublesQuotes[c] = IF c = SQ THEN <<SQ, SQ>> ELSE <<c>>
  BY DEF DoublesQuotes
<1>4. SQ \in Chars
  BY DEF Chars
<1>5. d \o <<c>> = Append(d, c)
  BY AppendIsConcat
<1>6. d \o <<SQ, SQ>> = Append(Append(d, SQ), SQ)
  BY <1>4
<1> QED BY <1>1, <1>2, <1>3, <1>5, <1>6

(* It does not matter whether NUL bytes are dropped before or after.        *)
LEMMA DoubledWithoutNul ==
    ASSUME NEW t \in Seq(Chars)
    PROVE  WithoutNul(Doubled(t)) = Doubled(WithoutNul(t))
<1> DEFINE U == {v \in Seq(Chars) : WithoutNul(Doubled(v)) = Doubled(WithoutNul(v))}
<1>1. <<>> \in U
  <2>1. <<>> \in Seq(Chars)
    OBVIOUS
  <2> QED BY <2>1, WithoutNulEmpty, DoubledEmpty
<1>2. ASSUME NEW v \in Seq(Chars), NEW c \in Chars, v \in U
      PROVE  Append(v, c) \in U
  <2>1. PICK w \in Seq(Chars) : w = WithoutNul(v)
    BY WithoutNulType
  <2>2. PICK d \in Seq(Chars) : d = Doubled(v)
    BY DoubledType
  <2>3. PICK vc \in Seq(Chars) : vc = Append(v, c)
    BY AppendProperties
  <2>4. WithoutNul(d) = Doubled(w)
    BY <1>2, <2>1, <2>2
  <2>5. SQ \in Chars /\ SQ # NUL
    BY DEF Chars, SQ, NUL
  <2>6. CASE c = SQ
    <3>1. PICK e \in Seq(Chars) : e = Append(d, SQ)
      BY <2>5, AppendProperties
    <3>2. Doubled(vc) = Append(e, SQ)
      BY <2>2, <2>3, <2>6, <3>1, DoubledAppend
    <3>3. WithoutNul(Append(e, SQ)) = Append(WithoutNul(e), SQ)
      BY <2>5, WithoutNulAppend
    <3>4. WithoutNul(e) = Append(WithoutNul(d), SQ)
      BY <2>5, <3>1, WithoutNulAppend
    <3>5. WithoutNul(vc) = Append(w, SQ)
      BY <2>1, <2>3, <2>5, <2>6, WithoutNulAppend
    <3>6. Doubled(Append(w, SQ)) = Append(Append(Doubled(w), SQ), SQ)
      BY <2>5, DoubledAppend
    <3>7. WithoutNul(Doubled(vc)) = Doubled(WithoutNul(vc))
      BY <2>4, <3>2, <3>3, <3>4, <3>5, <3>6
    <3> QED BY <2>3, <3>7
  <2>7. CASE c # SQ
    <3>1. Doubled(vc) = Append(d, c)
      BY <2>2, <2>3, <2>7, DoubledAppend
    <3>2. WithoutNul(Append(d, c)) = IF c = NUL THEN WithoutNul(d) ELSE Append(WithoutNul(d), c)
      BY WithoutNulAppend
    <3>3. WithoutNul(vc) = IF c = NUL THEN w ELSE Append(w, c)
      BY <2>1, <2>3, WithoutNulAppend
    <3>4. Doubled(Append(w, c)) = Append(Doubled(w), c)
      BY <2>7, DoubledAppend
    <3>5. WithoutNul(Doubled(vc)) = Doubled(WithoutNul(vc))
      BY <2>4, <3>1, <3>2, <3>3, <3>4
    <3> QED BY <2>3, <3>5
  <2> QED BY <2>6, <2>7
<1> HIDE DEF U
<1>3. Seq(Chars) \subseteq U
  BY <1>1, <1>2, TextsInduction
<1> QED BY <1>3 DEF U

(* The literal that the quoter makes of a value. *)
Quoted(t) == Append(<<SQ>> \o Doubled(t), SQ)

LEMMA QuotedType ==
    ASSUME NEW t \in Seq(Chars)
    PROVE  /\ <<SQ>> \o Doubled(t) \in Seq(Chars)
           /\ Quoted(t) \in Seq(Chars)
           /\ Len(Quoted(t)) = Len(Doubled(t)) + 2
           /\ Quoted(t)[1] = SQ /\ Quoted(t)[Len(Doubled(t)) + 2] = SQ
           /\ \A k \in 1..Len(Doubled(t)) : Quoted(t)[k + 1] = Doubled(t)[k]
<1>1. PICK d \in Seq(Chars) : d = Doubled(t)
  BY DoubledType
<1>2. <<SQ>> \in Seq(Chars) /\ Len(<<SQ>>) = 1 /\ <<SQ>>[1] = SQ /\ SQ \in Chars
  BY DEF Chars
<1>3. PICK e \in Seq(Chars) : e = <<SQ>> \o d
  BY <1>2, ConcatProperties
<1>4. /\ Len(e) = Len(d) + 1 /\ e[1] = SQ
      /\ \A k \in 1..Len(d) : e[k + 1] = d[k]
  BY <1>2, <1>3
<1>5. PICK f \in Seq(Chars) : f = Append(e, SQ)
  BY <1>2, AppendProperties
<1>6. /\ Len(f) = Len(e) + 1 /\ f[Len(e) + 1] = SQ
      /\ \A k \in 1..Len(e) : f[k] = e[k]
  BY <1>2, <1>5, AppendProperties
<1>7. /\ Len(d) \in Nat
      /\ \A k \in 1..Len(d) : k + 1 \in 1..Len(e)
      /\ 1 \in 1..Len(e)
  BY <1>4
<1>8. /\ Len(f) = Len(d) + 2
      /\ f[1] = SQ /\ f[Len(d) + 2] = SQ
      /\ \A k \in 1..Len(d) : f[k + 1] = d[k]
  BY <1>4, <1>6, <1>7
<1>9. Quoted(t) = f
  BY <1>1, <1>3, <1>5 DEF Quoted
<1> QED BY <1>1, <1>3, <1>8, <1>9

LEMMA QuotedWithoutNul ==
    ASSUME NEW t \in Seq(Chars)
    PROVE  WithoutNul(Quoted(t)) = Quoted(WithoutNul(t))
<1>1. PICK d \in Seq(Chars) : d = Doubled(t)
  BY DoubledType
<1>2. <<SQ>> \in Seq(Chars) /\ SQ \in Chars /\ SQ # NUL /\ <<>> \in Seq(Chars)
  BY DEF Chars, SQ, NUL
<1>3. PICK e \in Seq(Chars) : e = <<SQ>> \o d
  BY <1>2, ConcatProperties
<1>4. WithoutNul(e) = WithoutNul(<<SQ>>) \o WithoutNul(d)
  BY <1>2, <1>3, WithoutNulConcat
<1>5. WithoutNul(<<SQ>>) = <<SQ>>
  <2>1. Append(<<>>, SQ) = <<SQ>>
    OBVIOUS
  <2>2. WithoutNul(Append(<<>>, SQ)) = Append(WithoutNul(<<>>), SQ)
    BY <1>2, WithoutNulAppend
  <2> QED BY <2>1, <2>2, WithoutNulEmpty
<1>6. WithoutNul(Append(e, SQ)) = Append(WithoutNul(e), SQ)
  BY <1>2, WithoutNulAppend
<1>7. WithoutNul(d) = Doubled(WithoutNul(t))
  BY <1>1, DoubledWithoutNul
<1> QED BY <1>1, <1>3, <1>4, <1>5, <1>6, <1>7 DEF Quoted

-----------------------------------------------------------------------------
(* A literal in a text *)

(* The bytes of t behind the first n are in quotes, or are quotes.          *)
QuotedFrom(t, n) == \A p \in n + 1..Len(t) : t[p] = SQ \/ Inside(t)[p]

(* The end of t is in a literal, or outside of all quotes.                  *)
InLiteral(t) == Open(t, Len(t), SQ) /\ ~Open(t, Len(t), DQ)
InNone(t) == ~Open(t, Len(t), SQ) /\ ~Open(t, Len(t), DQ)

(* Which bytes are in quotes when one more byte is behind them.             *)
LEMMA QuotedFromNext ==
    ASSUME NEW t \in Seq(Chars), NEW n \in 0..Len(t), QuotedFrom(t, n),
           NEW c \in Chars, c = SQ \/ Open(t, Len(t), SQ)
    PROVE  QuotedFrom(Append(t, c), n)
<1>1. PICK u \in Seq(Chars) : u = Append(t, c)
  BY AppendProperties
<1>2. PICK len \in Nat : len = Len(t)
  OBVIOUS
<1>3. /\ Len(u) = len + 1 /\ u[len + 1] = c
      /\ \A p \in 1..len : u[p] = t[p]
  BY <1>1, <1>2, AppendProperties
<1>4. \A p \in 1..len + 1 : Inside(u)[p] = Inside(t)[p]
  <2>1. Len(t) <= Len(u) /\ \A p \in 1..Len(t) : u[p] = t[p]
    BY <1>2, <1>3
  <2> QED BY <1>2, <2>1, InsidePrefix
<1>5. Inside(t)[len + 1] <=> Open(t, len, SQ) \/ Open(t, len, DQ)
  <2>1. len \in 0..Len(t)
    BY <1>2
  <2> QED BY <2>1, InsideOpen
<1>6. ASSUME NEW p \in n + 1..len + 1
      PROVE  u[p] = SQ \/ Inside(u)[p]
  <2>1. CASE p = len + 1
    <3>1. len + 1 \in 1..len + 1
      OBVIOUS
    <3>2. c = SQ \/ Inside(t)[len + 1]
      BY <1>2, <1>5
    <3> QED BY <1>3, <1>4, <2>1, <3>1, <3>2
  <2>2. CASE p # len + 1
    <3>1. p \in 1..len /\ p \in 1..len + 1 /\ p \in n + 1..len
      BY <2>2
    <3>2. t[p] = SQ \/ Inside(t)[p]
      BY <1>2, <3>1 DEF QuotedFrom
    <3> QED BY <1>3, <1>4, <3>1, <3>2
  <2> QED BY <2>1, <2>2
<1> QED BY <1>1, <1>3, <1>6 DEF QuotedFrom

(* A quote begins a literal, and a quote ends it. *)
LEMMA QuoteOpens ==
    ASSUME NEW t \in Seq(Chars)
    PROVE  /\ InNone(t) => InLiteral(Append(t, SQ))
           /\ InLiteral(t) => InNone(Append(t, SQ))
           /\ \A c \in Chars \ {SQ} : InLiteral(t) => InLiteral(Append(t, c))
<1>1. SQ \in Chars /\ SQ # DQ
  BY DEF Chars, SQ, DQ
<1>2. ASSUME NEW c \in Chars
      PROVE  /\ Append(t, c) \in Seq(Chars)
             /\ Open(Append(t, c), Len(Append(t, c)), SQ) <=>
                    IF c = SQ /\ ~Open(t, Len(t), DQ) THEN ~Open(t, Len(t), SQ)
                    ELSE Open(t, Len(t), SQ)
             /\ Open(Append(t, c), Len(Append(t, c)), DQ) <=>
                    IF c = DQ /\ ~Open(t, Len(t), SQ) THEN ~Open(t, Len(t), DQ)
                    ELSE Open(t, Len(t), DQ)
  <2>1. PICK u \in Seq(Chars) : u = Append(t, c)
    BY AppendProperties
  <2> QED BY <2>1, OpenAppend
<1> QED BY <1>1, <1>2 DEF InNone, InLiteral

(* A value with its quotes doubled stays in the literal that was open.      *)
LEMMA DoubledInLiteral ==
    ASSUME NEW t \in Seq(Chars), NEW n \in 0..Len(t), InLiteral(t), QuotedFrom(t, n),
           NEW v \in Seq(Chars)
    PROVE  InLiteral(t \o Doubled(v)) /\ QuotedFrom(t \o Doubled(v), n)
<1> DEFINE U == {x \in Seq(Chars) : /\ InLiteral(t \o Doubled(x))
                                    /\ QuotedFrom(t \o Doubled(x), n)}
<1>1. <<>> \in U
  <2>1. <<>> \in Seq(Chars) /\ t \o <<>> = t
    BY ConcatEmptySeq
  <2> QED BY <2>1, DoubledEmpty
<1>2. ASSUME NEW x \in Seq(Chars), NEW c \in Chars, x \in U
      PROVE  Append(x, c) \in U
  <2>1. PICK d \in Seq(Chars) : d = Doubled(x)
    BY DoubledType
  <2>2. PICK u \in Seq(Chars) : u = t \o d
    BY ConcatProperties
  <2>3. InLiteral(u) /\ QuotedFrom(u, n) /\ n \in 0..Len(u)
    <3>1. Len(u) = Len(t) + Len(d)
      BY <2>2
    <3>2. InLiteral(u) /\ QuotedFrom(u, n)
      BY <1>2, <2>1, <2>2
    <3> QED BY <3>1, <3>2
  <2>4. SQ \in Chars
    BY DEF Chars
  <2>5. CASE c = SQ
    <3>1. PICK w \in Seq(Chars) : w = Append(u, SQ)
      BY <2>4, AppendProperties
    <3>2. InNone(w) /\ QuotedFrom(w, n) /\ n \in 0..Len(w)
      <4>1. Len(w) = Len(u) + 1
        BY <3>1
      <4> QED BY <2>3, <2>4, <3>1, <4>1, QuoteOpens, QuotedFromNext
    <3>3. InLiteral(Append(w, SQ)) /\ QuotedFrom(Append(w, SQ), n)
      BY <2>4, <3>2, QuoteOpens, QuotedFromNext
    <3>4. t \o Doubled(Append(x, c)) = Append(w, SQ)
      <4>1. Doubled(Append(x, c)) = Append(Append(d, SQ), SQ)
        BY <2>1, <2>5, DoubledAppend
      <4>2. t \o Append(Append(d, SQ), SQ) = Append(Append(t \o d, SQ), SQ)
        <5>1. PICK e \in Seq(Chars) : e = Append(d, SQ)
          BY <2>4, AppendProperties
        <5>2. t \o Append(e, SQ) = Append(t \o e, SQ)
          BY <2>4
        <5>3. t \o e = Append(t \o d, SQ)
          BY <2>4, <5>1
        <5> QED BY <5>1, <5>2, <5>3
      <4> QED BY <2>2, <3>1, <4>1, <4>2
    <3> QED BY <3>3, <3>4, AppendProperties
  <2>6. CASE c # SQ
    <3>1. InLiteral(Append(u, c)) /\ QuotedFrom(Append(u, c), n)
      BY <2>3, <2>6, QuoteOpens, QuotedFromNext DEF InLiteral
    <3>2. t \o Doubled(Append(x, c)) = Append(u, c)
      <4>1. Doubled(Append(x, c)) = Append(d, c)
        BY <2>1, <2>6, DoubledAppend
      <4>2. t \o Append(d, c) = Append(t \o d, c)
        OBVIOUS
      <4> QED BY <2>2, <4>1, <4>2
    <3> QED BY <3>1, <3>2, AppendProperties
  <2> QED BY <2>5, <2>6
<1> HIDE DEF U
<1>3. Seq(Chars) \subseteq U
  BY <1>1, <1>2, TextsInduction
<1> QED BY <1>3 DEF U

LEMMA AppendedBetween ==
    ASSUME NEW x \in Seq(Chars), NEW c \in Chars, NEW y \in Seq(Chars)
    PROVE  x \o (<<c>> \o y) = Append(x, c) \o y
<1>1. PICK z \in Seq(Chars) : z = <<c>>
  <2>1. <<c>> \in Seq(Chars)
    OBVIOUS
  <2> QED BY <2>1
<1>2. (x \o z) \o y = x \o (z \o y)
  BY JoinedInAnyOrder
<1>3. x \o <<c>> = Append(x, c)
  BY AppendIsConcat
<1> QED BY <1>1, <1>2, <1>3

(***************************************************************************)
(* Where no region is open, all of a literal but its quotes is in quotes,  *)
(* whatever follows it, and no region is open behind it.                   *)
(***************************************************************************)
LEMMA LiteralInside ==
    ASSUME NEW x \in Seq(Chars), NEW v \in Seq(Chars), NEW y \in Seq(Chars), InNone(x),
           NEW t \in Seq(Chars), t = (x \o Quoted(v)) \o y
    PROVE  \A p \in Len(x) + 1..Len(x) + Len(Quoted(v)) : t[p] = SQ \/ Inside(t)[p]
<1>1. PICK d \in Seq(Chars) : d = Doubled(v)
  BY DoubledType
<1>2. SQ \in Chars /\ <<SQ>> \in Seq(Chars)
  BY DEF Chars
<1>3. PICK e \in Seq(Chars) : e = Append(x, SQ)
  BY <1>2, AppendProperties
<1>4. PICK n \in Nat : n = Len(x)
  OBVIOUS
<1>5. QuotedFrom(x, n) /\ n \in 0..Len(x)
  BY <1>4 DEF QuotedFrom
<1>6. InLiteral(e) /\ QuotedFrom(e, n) /\ n \in 0..Len(e)
  <2>1. Len(e) = n + 1
    BY <1>3, <1>4
  <2> QED BY <1>2, <1>3, <1>5, <2>1, QuoteOpens, QuotedFromNext
<1>7. PICK f \in Seq(Chars) : f = e \o d
  BY ConcatProperties
<1>8. InLiteral(f) /\ QuotedFrom(f, n) /\ n \in 0..Len(f)
  <2>1. Len(f) = Len(e) + Len(d)
    BY <1>7
  <2> QED BY <1>1, <1>6, <1>7, <2>1, DoubledInLiteral
<1>9. PICK g \in Seq(Chars) : g = Append(f, SQ)
  BY <1>2, AppendProperties
<1>10. QuotedFrom(g, n)
  BY <1>2, <1>8, <1>9, QuotedFromNext
<1>11. x \o Quoted(v) = g
  <2>1. x \o Append(<<SQ>> \o d, SQ) = Append(x \o (<<SQ>> \o d), SQ)
    <3>1. PICK z \in Seq(Chars) : z = <<SQ>> \o d
      BY <1>2, ConcatProperties
    <3>2. x \o Append(z, SQ) = Append(x \o z, SQ)
      BY <1>2
    <3> QED BY <3>1, <3>2
  <2>2. x \o (<<SQ>> \o d) = Append(x, SQ) \o d
    BY <1>2, AppendedBetween
  <2> QED BY <1>1, <1>3, <1>7, <1>9, <2>1, <2>2 DEF Quoted
<1>12. Len(x) + Len(Quoted(v)) = Len(g)
  <2>1. Quoted(v) \in Seq(Chars)
    BY QuotedType
  <2>2. Len(x \o Quoted(v)) = Len(x) + Len(Quoted(v))
    BY <2>1
  <2> QED BY <1>11, <2>2
<1>13. Len(g) <= Len(t) /\ \A p \in 1..Len(g) : t[p] = g[p]
  <2>1. t = g \o y
    BY <1>11
  <2> QED BY <2>1
<1>14. \A p \in 1..Len(g) + 1 : Inside(t)[p] = Inside(g)[p]
  BY <1>13, InsidePrefix
<1>15. ASSUME NEW p \in n + 1..Len(g)
       PROVE  t[p] = SQ \/ Inside(t)[p]
  <2>1. p \in 1..Len(g) /\ p \in 1..Len(g) + 1
    OBVIOUS
  <2>2. g[p] = SQ \/ Inside(g)[p]
    BY <1>10 DEF QuotedFrom
  <2> QED BY <1>13, <1>14, <2>1, <2>2
<1> QED BY <1>4, <1>12, <1>15

-----------------------------------------------------------------------------
(* Reading a literal *)

(* What is read from byte q on, given what is read from each later byte.    *)
ReadOn(t, q, read) ==
    IF q > Len(t) THEN <<>>
    ELSE IF t[q] # SQ THEN <<t[q]>> \o read[q + 1]
    ELSE IF q < Len(t) /\ t[q + 1] = SQ THEN <<SQ>> \o read[q + 2]
    ELSE <<>>

(* The same, when all that is read behind q is a sequence of results g, the *)
(* last byte of the text first.                                            *)
ReadBack(t, g) ==
    IF Len(g) \notin 1..Len(t) THEN <<>>
    ELSE IF t[Len(t) + 1 - Len(g)] # SQ THEN <<t[Len(t) + 1 - Len(g)]>> \o g[Len(g)]
    ELSE IF Len(g) > 1 /\ t[Len(t) + 2 - Len(g)] = SQ THEN <<SQ>> \o g[Len(g) - 1]
    ELSE <<>>

LEMMA ReadBackType ==
    ASSUME NEW t \in Seq(Chars), NEW g \in Seq(Seq(Chars))
    PROVE  ReadBack(t, g) \in Seq(Chars)
<1>1. CASE Len(g) \in 1..Len(t)
  <2>1. PICK n \in 1..Len(t) : n = Len(g)
    BY <1>1
  <2>2. g[n] \in Seq(Chars) /\ (n > 1 => g[n - 1] \in Seq(Chars))
    BY <2>1
  <2>3. t[Len(t) + 1 - n] \in Chars /\ SQ \in Chars
    <3>1. Len(t) + 1 - n \in 1..Len(t)
      OBVIOUS
    <3> QED BY <3>1 DEF Chars
  <2>4. \A c \in Chars, v \in Seq(Chars) : <<c>> \o v \in Seq(Chars)
    <3> SUFFICES ASSUME NEW c \in Chars, NEW v \in Seq(Chars) PROVE <<c>> \o v \in Seq(Chars)
      OBVIOUS
    <3>1. <<c>> \in Seq(Chars)
      OBVIOUS
    <3> QED BY <3>1, ConcatProperties
  <2>5. n > 1 \/ n = 1
    OBVIOUS
  <2> QED BY <1>1, <2>1, <2>2, <2>3, <2>4, <2>5, EmptySeq DEF ReadBack
<1>2. CASE Len(g) \notin 1..Len(t)
  BY <1>2, EmptySeq DEF ReadBack
<1> QED BY <1>1, <1>2

(* How a literal is read that begins at byte p of a text of len bytes.      *)
Reading(t, p, len, read) ==
    /\ LiteralAt(t, p) = read[p + 1]
    /\ \A q \in p + 1..len + 1 : read[q] \in Seq(Chars) /\ read[q] = ReadOn(t, q, read)

LEMMA ReadingTable ==
    ASSUME NEW t \in Seq(Chars), NEW p \in 1..Len(t)
    PROVE  \E read : Reading(t, p, Len(t), read)
<1> DEFINE V == Seq(Chars)
           next == [g \in Seq(V) |-> ReadBack(t, g)]
<1>1. PICK len \in Nat : len = Len(t)
  OBVIOUS
<1>2. PICK e \in Seq(V) : /\ Len(e) = len + 1 - p
                          /\ \A k \in 1..(len + 1 - p) : e[k] = next[SubSeq(e, 1, k - 1)]
  <2>1. PICK size \in Nat : size = len + 1 - p
    <3>1. len + 1 - p \in Nat
      BY <1>1
    <3> QED BY <3>1
  <2>2. next \in [Seq(V) -> V]
    BY ReadBackType
  <2> HIDE DEF next, V
  <2>3. HasTable(V, next, size)
    BY <2>2, Table
  <2>4. \E e \in Seq(V) : Len(e) = size /\ \A k \in 1..size : e[k] = next[SubSeq(e, 1, k - 1)]
    BY <2>3 DEF HasTable
  <2> QED BY <2>1, <2>4
<1> DEFINE h == [q \in p + 1..len + 1 |-> e[len + 2 - q]]
<1>3. ASSUME NEW q \in p + 1..len + 1
      PROVE  h[q] = ReadOn(t, q, h)
  <2>1. PICK k \in Nat : k = len + 1 - q
    <3>1. len + 1 - q \in Nat
      OBVIOUS
    <3> QED BY <3>1
  <2>2. /\ k + 1 \in 1..(len + 1 - p) /\ (k + 1) - 1 = k
        /\ h[q] = e[k + 1]
        /\ q = len + 1 - k /\ q + 1 = len + 2 - k
    <3>1. k + 1 = len + 2 - q
      BY <2>1
    <3> QED BY <1>1, <2>1, <3>1
  <2>3. PICK g \in Seq(V) : /\ g = SubSeq(e, 1, k) /\ Len(g) = k
                            /\ \A j \in 1..k : g[j] = e[j]
    <3>1. SubSeq(e, 1, k) \in Seq(V) /\ Len(SubSeq(e, 1, k)) = k
          /\ \A j \in 1..k : SubSeq(e, 1, k)[j] = e[j]
      BY <1>2, <2>2
    <3> QED BY <3>1
  <2>4. h[q] = ReadBack(t, g)
    <3>1. h[q] = next[g]
      BY <1>2, <2>2, <2>3
    <3> QED BY <3>1
  <2>5. q <= len => h[q + 1] = e[k] /\ g[k] = e[k] /\ k \in 1..Len(t)
    <3>1. q <= len => q + 1 \in p + 1..len + 1 /\ len + 2 - (q + 1) = k /\ k \in 1..k
      BY <2>1
    <3>2. q <= len => k \in 1..len
      BY <2>1
    <3>3. q <= len => h[q + 1] = e[k]
      BY <3>1
    <3> QED BY <1>1, <2>3, <3>1, <3>2, <3>3
  <2>6. q < len => h[q + 2] = e[k - 1] /\ g[k - 1] = e[k - 1]
    <3>1. q < len => q + 2 \in p + 1..len + 1 /\ len + 2 - (q + 2) = k - 1 /\ k - 1 \in 1..k
      BY <2>1
    <3> QED BY <2>3, <3>1
  <2>7. /\ q > len <=> k \notin 1..Len(t)
        /\ q < len <=> k > 1
    BY <1>1, <2>1
  <2> HIDE DEF h
  <2>8. CASE q > len
    BY <1>1, <2>3, <2>4, <2>7, <2>8 DEF ReadOn, ReadBack
  <2>9. CASE q <= len
    <3>1. k \in 1..Len(t) /\ Len(t) + 1 - Len(g) = q /\ Len(t) + 2 - Len(g) = q + 1
      BY <1>1, <2>2, <2>3, <2>5, <2>9
    <3>2. ReadBack(t, g) = IF t[q] # SQ THEN <<t[q]>> \o g[k]
                           ELSE IF k > 1 /\ t[q + 1] = SQ THEN <<SQ>> \o g[k - 1]
                           ELSE <<>>
      BY <2>3, <3>1 DEF ReadBack
    <3>3. ReadOn(t, q, h) = IF t[q] # SQ THEN <<t[q]>> \o h[q + 1]
                            ELSE IF q < len /\ t[q + 1] = SQ THEN <<SQ>> \o h[q + 2]
                            ELSE <<>>
      <4>1. ~(q > Len(t))
        BY <1>1, <2>9
      <4> QED BY <1>1, <4>1 DEF ReadOn
    <3> QED BY <2>4, <2>5, <2>6, <2>7, <2>9, <3>2, <3>3
  <2> QED BY <2>8, <2>9
<1>4. h = [q \in p + 1..Len(t) + 1 |-> ReadOn(t, q, h)]
  <2>1. h = [q \in p + 1..len + 1 |-> ReadOn(t, q, h)]
    BY <1>3
  <2> QED BY <1>1, <2>1
<1> HIDE DEF h
<1>5. \E f : f = [q \in p + 1..Len(t) + 1 |->
                     IF q > Len(t) THEN <<>>
                     ELSE IF t[q] # SQ THEN <<t[q]>> \o f[q + 1]
                     ELSE IF q < Len(t) /\ t[q + 1] = SQ THEN <<SQ>> \o f[q + 2]
                     ELSE <<>>]
  BY <1>4, Zenon DEF ReadOn
<1>6. PICK f : /\ LiteralAt(t, p) = f[p + 1]
               /\ f = [q \in p + 1..Len(t) + 1 |->
                     IF q > Len(t) THEN <<>>
                     ELSE IF t[q] # SQ THEN <<t[q]>> \o f[q + 1]
                     ELSE IF q < Len(t) /\ t[q + 1] = SQ THEN <<SQ>> \o f[q + 2]
                     ELSE <<>>]
  BY <1>5, Zenon DEF LiteralAt
<1>7. f = [q \in p + 1..Len(t) + 1 |-> ReadOn(t, q, f)]
  BY <1>6, Zenon DEF ReadOn
<1>8. ASSUME NEW q \in p + 1..len + 1
      PROVE  f[q] = ReadOn(t, q, f)
  BY <1>1, <1>7
<1> DEFINE U == {n \in Nat : n <= len - p => f[len + 1 - n] \in Seq(Chars)}
<1>9. ASSUME NEW n \in Nat, \A m \in 0..(n - 1) : m \in U
      PROVE  n \in U
  <2> SUFFICES ASSUME n <= len - p PROVE f[len + 1 - n] \in Seq(Chars)
    OBVIOUS
  <2>1. PICK q \in p + 1..len + 1 : q = len + 1 - n
    <3>1. len + 1 - n \in p + 1..len + 1
      BY <1>1
    <3> QED BY <3>1
  <2>2. q <= len => t[q] \in Chars /\ f[q + 1] \in Seq(Chars)
    <3> SUFFICES ASSUME q <= len PROVE t[q] \in Chars /\ f[q + 1] \in Seq(Chars)
      OBVIOUS
    <3>1. n - 1 \in 0..(n - 1) /\ n - 1 <= len - p /\ len + 1 - (n - 1) = q + 1
      BY <2>1
    <3>2. f[q + 1] \in Seq(Chars)
      BY <1>9, <3>1
    <3>3. q \in 1..Len(t)
      BY <1>1, <2>1
    <3> QED BY <3>2, <3>3
  <2>3. q < len => f[q + 2] \in Seq(Chars)
    <3> SUFFICES ASSUME q < len PROVE f[q + 2] \in Seq(Chars)
      OBVIOUS
    <3>1. n - 2 \in 0..(n - 1) /\ n - 2 <= len - p /\ len + 1 - (n - 2) = q + 2
      BY <2>1
    <3> QED BY <1>9, <3>1
  <2>4. \A c \in Chars, v \in Seq(Chars) : <<c>> \o v \in Seq(Chars)
    <3> SUFFICES ASSUME NEW c \in Chars, NEW v \in Seq(Chars) PROVE <<c>> \o v \in Seq(Chars)
      OBVIOUS
    <3>1. <<c>> \in Seq(Chars)
      OBVIOUS
    <3> QED BY <3>1, ConcatProperties
  <2>5. SQ \in Chars /\ <<>> \in Seq(Chars)
    BY DEF Chars
  <2>6. ReadOn(t, q, f) \in Seq(Chars)
    <3>1. q > len \/ q <= len
      BY <2>1
    <3> QED BY <1>1, <2>2, <2>3, <2>4, <2>5, <3>1 DEF ReadOn
  <2> QED BY <1>8, <2>1, <2>6
<1> HIDE DEF U
<1>10. Nat \subseteq U
  BY <1>9, NumbersInduction
<1>11. ASSUME NEW q \in p + 1..len + 1
       PROVE  f[q] \in Seq(Chars)
  <2>1. len + 1 - q \in Nat /\ len + 1 - q <= len - p /\ len + 1 - (len + 1 - q) = q
    BY <1>1
  <2> QED BY <1>10, <2>1 DEF U
<1>12. Reading(t, p, len, f)
  BY <1>6, <1>8, <1>11 DEF Reading
<1> QED BY <1>1, <1>12

(* The bytes of d from a on are those of u. *)
Holds(d, a, u) ==
    /\ a + Len(u) <= Len(d)
    /\ \A k \in 1..Len(u) : d[a + k] = u[k]

(***************************************************************************)
(* Reading undoes the quoting: what a value with its quotes doubled is     *)
(* read as is that value, and then what follows is read.                   *)
(***************************************************************************)
LEMMA ReadsDoubled ==
    ASSUME NEW d \in Seq(Chars), NEW a \in 1..Len(d), NEW read, Reading(d, a, Len(d), read),
           NEW v \in Seq(Chars), Holds(d, a, Doubled(v))
    PROVE  read[a + 1] = v \o read[a + 1 + Len(Doubled(v))]
<1> DEFINE U == {x \in Seq(Chars) : Holds(d, a, Doubled(x)) =>
                                       read[a + 1] = x \o read[a + 1 + Len(Doubled(x))]}
<1>1. <<>> \in U
  <2>1. <<>> \in Seq(Chars) /\ a + 1 + Len(<<>>) = a + 1
    OBVIOUS
  <2>2. PICK y \in Seq(Chars) : y = read[a + 1]
    <3>1. a + 1 \in a + 1..Len(d) + 1
      OBVIOUS
    <3> QED BY <3>1 DEF Reading
  <2>3. <<>> \o y = y
    OBVIOUS
  <2> QED BY <2>1, <2>2, <2>3, DoubledEmpty
<1>2. ASSUME NEW x \in Seq(Chars), NEW c \in Chars, x \in U
      PROVE  Append(x, c) \in U
  <2>1. PICK u \in Seq(Chars) : u = Doubled(x)
    BY DoubledType
  <2>2. PICK xc \in Seq(Chars) : xc = Append(x, c)
    BY AppendProperties
  <2>3. PICK w \in Seq(Chars) : w = Doubled(xc)
    BY DoubledType
  <2>4. SQ \in Chars
    BY DEF Chars
  <2>5. ASSUME Holds(d, a, w)
        PROVE  read[a + 1] = xc \o read[a + 1 + Len(w)]
    <3>1. /\ Len(u) < Len(w)
          /\ \A k \in 1..Len(u) : w[k] = u[k]
          /\ c # SQ => Len(w) = Len(u) + 1 /\ w[Len(u) + 1] = c
          /\ c = SQ => /\ Len(w) = Len(u) + 2
                       /\ w[Len(u) + 1] = SQ /\ w[Len(u) + 2] = SQ
      <4>1. CASE c # SQ
        <5>1. w = Append(u, c)
          BY <2>1, <2>2, <2>3, <4>1, DoubledAppend
        <5> QED BY <4>1, <5>1
      <4>2. CASE c = SQ
        <5>1. PICK y \in Seq(Chars) : y = Append(u, SQ)
          BY <2>4, AppendProperties
        <5>2. w = Append(y, SQ)
          BY <2>1, <2>2, <2>3, <4>2, <5>1, DoubledAppend
        <5>3. Len(y) = Len(u) + 1 /\ y[Len(u) + 1] = SQ /\ \A k \in 1..Len(u) : y[k] = u[k]
          BY <2>4, <5>1, AppendProperties
        <5>4. /\ Len(w) = Len(y) + 1 /\ w[Len(y) + 1] = SQ
              /\ \A k \in 1..Len(y) : w[k] = y[k]
          BY <2>4, <5>2, AppendProperties
        <5>5. Len(u) + 1 \in 1..Len(y) /\ \A k \in 1..Len(u) : k \in 1..Len(y)
          BY <5>3
        <5>6. w[Len(u) + 1] = SQ /\ \A k \in 1..Len(u) : w[k] = u[k]
          BY <5>3, <5>4, <5>5
        <5>7. Len(w) = Len(u) + 2 /\ w[Len(u) + 2] = SQ /\ Len(u) < Len(w)
          BY <5>3, <5>4
        <5> QED BY <4>2, <5>6, <5>7
      <4> QED BY <4>1, <4>2
    <3>2. Holds(d, a, u)
      <4>1. a + Len(u) <= Len(d) /\ \A k \in 1..Len(u) : k \in 1..Len(w)
        BY <2>5, <3>1 DEF Holds
      <4> QED BY <2>5, <3>1, <4>1 DEF Holds
    <3>3. PICK q \in a + 1..Len(d) + 1 : q = a + 1 + Len(u)
      <4>1. a + 1 + Len(u) \in a + 1..Len(d) + 1
        BY <3>2 DEF Holds
      <4> QED BY <4>1
    <3>4. read[a + 1] = x \o read[q]
      BY <1>2, <2>1, <3>2, <3>3
    <3>5. read[q] = ReadOn(d, q, read)
      BY DEF Reading
    <3>6. /\ q <= Len(d) /\ d[q] = c
          /\ c # SQ => a + 1 + Len(w) = q + 1
          /\ c = SQ => q < Len(d) /\ d[q + 1] = SQ /\ a + 1 + Len(w) = q + 2
      <4>1. /\ Len(u) + 1 \in 1..Len(w) /\ a + (Len(u) + 1) = q
            /\ c = SQ => Len(u) + 2 \in 1..Len(w) /\ a + (Len(u) + 2) = q + 1
        BY <3>1, <3>3
      <4>2. d[q] = w[Len(u) + 1] /\ (c = SQ => d[q + 1] = w[Len(u) + 2])
        BY <2>5, <4>1 DEF Holds
      <4>3. a + Len(w) <= Len(d)
        BY <2>5 DEF Holds
      <4>4. q <= Len(d) /\ (c # SQ => a + 1 + Len(w) = q + 1)
            /\ (c = SQ => q < Len(d) /\ a + 1 + Len(w) = q + 2)
        <5>1. PICK m \in Nat, n \in Nat, l \in Nat : m = Len(u) /\ n = Len(w) /\ l = Len(d)
          OBVIOUS
        <5>2. m < n /\ a + n <= l /\ q = a + 1 + m
          BY <3>1, <3>3, <4>3, <5>1
        <5>3. CASE c # SQ
          <6>1. n = m + 1
            BY <3>1, <5>1, <5>3
          <6> QED BY <5>1, <5>2, <5>3, <6>1
        <5>4. CASE c = SQ
          <6>1. n = m + 2
            BY <3>1, <5>1, <5>4
          <6> QED BY <5>1, <5>2, <5>4, <6>1
        <5> QED BY <5>3, <5>4
      <4>5. d[q] = c /\ (c = SQ => d[q + 1] = SQ)
        BY <3>1, <4>2
      <4> QED BY <4>4, <4>5
    <3>7. PICK y \in Seq(Chars) : y = read[a + 1 + Len(w)]
      <4>1. a + 1 + Len(w) \in a + 1..Len(d) + 1
        BY <3>3, <3>6
      <4> QED BY <4>1 DEF Reading
    <3>8. read[q] = <<c>> \o y
      <4>1. ~(q > Len(d))
        BY <3>6
      <4>2. c # SQ => ReadOn(d, q, read) = <<c>> \o read[q + 1]
        BY <3>6, <4>1 DEF ReadOn
      <4>3. c = SQ => ReadOn(d, q, read) = <<c>> \o read[q + 2]
        BY <3>6, <4>1 DEF ReadOn
      <4> QED BY <3>5, <3>6, <3>7, <4>2, <4>3
    <3>9. x \o (<<c>> \o y) = xc \o y
      BY <2>2, AppendedBetween
    <3> QED BY <3>4, <3>7, <3>8, <3>9
  <2> QED BY <2>2, <2>3, <2>5
<1> HIDE DEF U
<1>3. Seq(Chars) \subseteq U
  BY <1>1, <1>2, TextsInduction
<1> QED BY <1>3 DEF U

(* So a literal that no quote touches is read as the value it was made of.  *)
LEMMA LiteralRead ==
    ASSUME NEW d \in Seq(Chars), NEW n \in Nat, NEW v \in Seq(Chars), Holds(d, n, Quoted(v)),
           n + Len(Quoted(v)) < Len(d) => d[n + Len(Quoted(v)) + 1] # SQ
    PROVE  d[n + 1] = SQ /\ LiteralAt(d, n + 1) = v
<1>1. PICK w \in Seq(Chars) : w = Doubled(v)
  BY DoubledType
<1>2. PICK l \in Seq(Chars) : l = Quoted(v)
  BY QuotedType
<1>3. /\ Len(l) = Len(w) + 2 /\ l[1] = SQ /\ l[Len(w) + 2] = SQ
      /\ \A k \in 1..Len(w) : l[k + 1] = w[k]
      /\ Len(w) \in Nat
  BY <1>1, <1>2, QuotedType
<1>4. n + Len(w) + 2 <= Len(d) /\ \A k \in 1..Len(w) + 2 : d[n + k] = l[k]
  BY <1>2, <1>3 DEF Holds
<1>5. PICK a \in 1..Len(d) : a = n + 1
  <2>1. n + 1 \in 1..Len(d)
    BY <1>3, <1>4
  <2> QED BY <2>1
<1>6. Holds(d, a, w)
  <2>1. a + Len(w) <= Len(d)
    BY <1>3, <1>4, <1>5
  <2>2. ASSUME NEW k \in 1..Len(w) PROVE d[a + k] = w[k]
    <3>1. a + k = n + (k + 1) /\ k + 1 \in 1..Len(w) + 2
      BY <1>3, <1>5
    <3> QED BY <1>3, <1>4, <3>1
  <2> QED BY <2>1, <2>2 DEF Holds
<1>7. PICK read : Reading(d, a, Len(d), read)
  BY ReadingTable
<1>8. PICK q \in a + 1..Len(d) + 1 : q = a + 1 + Len(w)
  <2>1. a + 1 + Len(w) \in a + 1..Len(d) + 1
    BY <1>3, <1>4, <1>5
  <2> QED BY <2>1
<1>9. read[a + 1] = v \o read[q]
  <2>1. Holds(d, a, Doubled(v))
    BY <1>1, <1>6
  <2>2. read[a + 1] = v \o read[a + 1 + Len(Doubled(v))]
    BY <1>7, <2>1, ReadsDoubled
  <2> QED BY <1>1, <1>8, <2>2
<1>10. read[q] = <<>>
  <2>1. read[q] = ReadOn(d, q, read)
    BY <1>7 DEF Reading
  <2>2. q = n + (Len(w) + 2) /\ Len(w) + 2 \in 1..Len(w) + 2 /\ q <= Len(d)
    BY <1>3, <1>4, <1>5, <1>8
  <2>3. d[q] = SQ
    BY <1>3, <1>4, <2>2
  <2>4. q < Len(d) => d[q + 1] # SQ
    BY <1>2, <1>3, <2>2
  <2>5. ~(q > Len(d))
    BY <2>2
  <2> QED BY <2>1, <2>3, <2>4, <2>5 DEF ReadOn
<1>11. d[n + 1] = SQ
  <2>1. 1 \in 1..Len(w) + 2
    BY <1>3
  <2> QED BY <1>3, <1>4, <2>1
<1>12. v \o <<>> = v
  BY ConcatEmptySeq
<1> QED BY <1>5, <1>7, <1>9, <1>10, <1>11, <1>12 DEF Reading

-----------------------------------------------------------------------------
(* What the quoter has written *)

Quoting ==
    /\ op = "quote" => dst = <<SQ>> \o Doubled(SubSeq(src, 1, i))
    /\ literal # <<>> => literal = Quoted(value)

LiteralInv == TextInv /\ Quoting

LEMMA QuoteStartFollows ==
    ASSUME LiteralInv, NEW text \in Seq(Chars), NEW size, NEW written,
           NEW function \in {"prepare", "strip", "quote"},
           Start(function, text, size, written),
           function = "quote" => written = <<SQ>>
    PROVE  Quoting'
<1>1. /\ op' = function /\ src' = text /\ i' = 0 /\ dst' = written
      /\ literal' = literal /\ value' = value
  BY DEF Start
<1>2. SubSeq(text, 1, 0) = <<>> /\ Doubled(<<>>) = <<>> /\ <<SQ>> \o <<>> = <<SQ>>
  BY DoubledEmpty, SubSeqEmpty
<1>3. op' = "quote" => dst' = <<SQ>> \o Doubled(SubSeq(src', 1, i'))
  BY <1>1, <1>2
<1>4. literal' # <<>> => literal' = Quoted(value')
  BY <1>1 DEF LiteralInv, Quoting
<1> QED BY <1>3, <1>4 DEF Quoting

LEMMA QuoteTurnFollows ==
    ASSUME LiteralInv, QuoteTurn
    PROVE  Quoting'
<1>1. /\ op = "quote" /\ op' = op /\ src' = src /\ i' = i + 1
      /\ literal' = literal /\ value' = value
      /\ src \in Seq(Chars) /\ dst \in Seq(Chars)
      /\ i \in 0..(Len(src) - 1) /\ At(i) = src[i + 1] /\ At(i) \in Chars
  BY ByteAt DEF LiteralInv, TextInv, SqlInv, QuoteTurn, Turn, TypeOK, At
<1>2. PICK c \in Chars : c = src[i + 1]
  BY <1>1
<1>3. PICK u \in Seq(Chars) : u = SubSeq(src, 1, i)
  <2>1. SubSeq(src, 1, i) \in Seq(Chars)
    BY <1>1
  <2> QED BY <2>1
<1>4. SubSeq(src, 1, i + 1) = Append(u, c)
  BY <1>1, <1>2, <1>3
<1>5. PICK d \in Seq(Chars) : d = Doubled(u)
  BY DoubledType
<1>6. dst = <<SQ>> \o d
  BY <1>1, <1>3, <1>5 DEF LiteralInv, Quoting
<1>7. SQ \in Chars /\ <<SQ>> \in Seq(Chars) /\ <<SQ, SQ>> \in Seq(Chars)
  BY DEF Chars
<1>8. dst' = <<SQ>> \o Doubled(Append(u, c))
  <2>1. CASE c = SQ
    <3>1. dst' = dst \o <<SQ, SQ>>
      BY <1>1, <1>2, <2>1 DEF QuoteTurn, Turn
    <3>2. dst \o <<SQ, SQ>> = Append(Append(dst, SQ), SQ)
      BY <1>1, <1>7
    <3>3. Doubled(Append(u, c)) = Append(Append(d, SQ), SQ)
      BY <1>5, <2>1, DoubledAppend
    <3>4. PICK e \in Seq(Chars) : e = Append(d, SQ)
      BY <1>7, AppendProperties
    <3>5. <<SQ>> \o e = Append(dst, SQ)
      BY <1>6, <1>7, <3>4
    <3>6. <<SQ>> \o Append(e, SQ) = Append(<<SQ>> \o e, SQ)
      BY <1>7
    <3> QED BY <3>1, <3>2, <3>3, <3>4, <3>5, <3>6
  <2>2. CASE c # SQ
    <3>1. dst' = dst \o <<c>>
      BY <1>1, <1>2, <2>2 DEF QuoteTurn, Turn
    <3>2. dst \o <<c>> = Append(dst, c)
      BY <1>1, AppendIsConcat
    <3>3. Doubled(Append(u, c)) = Append(d, c)
      BY <1>5, <2>2, DoubledAppend
    <3>4. <<SQ>> \o Append(d, c) = Append(<<SQ>> \o d, c)
      BY <1>7
    <3> QED BY <1>6, <3>1, <3>2, <3>3, <3>4
  <2> QED BY <2>1, <2>2
<1>9. dst' = <<SQ>> \o Doubled(SubSeq(src', 1, i'))
  BY <1>1, <1>4, <1>8
<1>10. literal' # <<>> => literal' = Quoted(value')
  BY <1>1 DEF LiteralInv, Quoting
<1> QED BY <1>9, <1>10 DEF Quoting

LEMMA QuoteReturnFollows ==
    ASSUME LiteralInv, QuoteReturn
    PROVE  Quoting'
<1>1. /\ op = "quote" /\ op' = "quoted" /\ i = Len(src) /\ src \in Seq(Chars)
      /\ literal' = Append(dst, SQ) /\ value' = src
  BY DEF LiteralInv, TextInv, SqlInv, TypeOK, QuoteReturn, Return
<1>2. SubSeq(src, 1, i) = src
  BY <1>1, SubSeqFull
<1>3. literal' = Quoted(value')
  BY <1>1, <1>2 DEF LiteralInv, Quoting, Quoted
<1> QED BY <1>1, <1>3 DEF Quoting

LEMMA LiteralInit == Init => LiteralInv
  BY TextInit DEF Init, LiteralInv, Quoting

LEMMA LiteralStep == LiteralInv /\ [Next]_vars => LiteralInv'
<1> SUFFICES ASSUME LiteralInv, [Next]_vars PROVE LiteralInv'
  OBVIOUS
<1>1. TextInv'
  BY TextStep DEF LiteralInv
<1> SUFFICES Quoting'
  BY <1>1 DEF LiteralInv
<1>2. ASSUME NEW sql \in SqlTexts, PrepareStart(sql) \/ StripStart(sql)
      PROVE  Quoting'
  <2>1. sql \in Seq(Chars)
    BY SqlTextsAreTexts DEF LiteralInv, TextInv, SqlInv
  <2> QED BY <1>2, <2>1, QuoteStartFollows DEF PrepareStart, StripStart
<1>3. ASSUME NEW unquoted \in Values, QuoteStart(unquoted)
      PROVE  Quoting'
  <2>1. unquoted \in Seq(Chars)
    BY TextsAssumption
  <2> QED BY <1>3, <2>1, QuoteStartFollows DEF QuoteStart
<1>4. CASE PrepareTurn \/ PrepareReturn \/ StripTurn \/ StripReturn \/ StripCopies
  <2>1. op' # "quote" /\ literal' = literal /\ value' = value
    BY <1>4 DEF PrepareTurn, PrepareReturn, StripTurn, StripReturn, StripCopies, Turn, Return
  <2> QED BY <2>1 DEF LiteralInv, Quoting
<1>5. CASE QuoteTurn
  BY <1>5, QuoteTurnFollows
<1>6. CASE QuoteReturn
  BY <1>6, QuoteReturnFollows
<1>7. CASE UNCHANGED vars
  BY <1>7 DEF vars, LiteralInv, Quoting
<1> QED BY <1>2, <1>3, <1>4, <1>5, <1>6, <1>7 DEF Next

(* The program's literals are, at every moment, quoted values. *)
THEOREM LiteralInvariance == Spec => []LiteralInv
  BY LiteralInit, LiteralStep, PTL DEF Spec

(* What a text with a literal in it becomes when it is rewritten: wherever  *)
(* no region is open before the literal, it stays as it is, and no quote    *)
(* comes to touch it.                                                      *)
LEMMA LiteralKept ==
    ASSUME NEW x \in Seq(Chars), NEW v \in Seq(Chars), NEW y \in Seq(Chars), InNone(x),
           y # <<>> => y[1] # SQ,
           NEW t \in Seq(Chars), t = (x \o Quoted(v)) \o y,
           NEW d \in Seq(Chars), Imitates(d, t, Len(t))
    PROVE  /\ Holds(d, Len(x), Quoted(v))
           /\ Len(x) + Len(Quoted(v)) < Len(d) => d[Len(x) + Len(Quoted(v)) + 1] # SQ
<1>1. PICK l \in Seq(Chars) : l = Quoted(v)
  BY QuotedType
<1>2. PICK n \in Nat, m \in Nat : n = Len(x) /\ m = Len(l)
  OBVIOUS
<1>3. \A p \in n + 1..n + m : t[p] = SQ \/ Inside(t)[p]
  BY <1>1, <1>2, LiteralInside
<1>4. PICK z \in Seq(Chars) : z = x \o l
  BY ConcatProperties
<1>5. Len(z) = n + m /\ \A k \in 1..m : z[n + k] = l[k]
  BY <1>2, <1>4, JoinedParts
<1>6. t = z \o y
  BY <1>1, <1>4
<1>7. /\ Len(t) = n + m + Len(y)
      /\ \A p \in 1..n + m : t[p] = z[p]
      /\ Len(y) > 0 => t[n + m + 1] = y[1]
  <2>1. /\ Len(t) = Len(z) + Len(y)
        /\ \A p \in 1..Len(z) : t[p] = z[p]
        /\ \A p \in 1..Len(y) : t[Len(z) + p] = y[p]
    BY <1>6, JoinedParts
  <2>2. Len(t) = n + m + Len(y) /\ \A p \in 1..n + m : t[p] = z[p]
    BY <1>5, <2>1
  <2>3. Len(y) > 0 => t[n + m + 1] = y[1]
    <3>1. Len(y) > 0 => 1 \in 1..Len(y)
      OBVIOUS
    <3> QED BY <1>5, <2>1, <3>1
  <2> QED BY <2>2, <2>3
<1>8. /\ Len(d) = Len(t)
      /\ \A p \in 1..Len(t) : \/ d[p] = t[p]
                              \/ d[p] = DOLLAR /\ t[p] = COLON /\ ~Inside(t)[p]
  BY DEF Imitates
<1>9. COLON # SQ /\ DOLLAR # SQ
  BY DEF COLON, SQ, DOLLAR
<1>10. Holds(d, n, l)
  <2>1. n + m <= Len(d)
    BY <1>7, <1>8
  <2>2. ASSUME NEW k \in 1..m PROVE d[n + k] = l[k]
    <3>1. n + k \in 1..Len(t) /\ n + k \in 1..n + m /\ n + k \in n + 1..n + m
      BY <1>7
    <3>2. t[n + k] = l[k]
      BY <1>5, <1>7, <3>1
    <3> QED BY <1>3, <1>8, <1>9, <3>1, <3>2
  <2> QED BY <1>2, <2>1, <2>2 DEF Holds
<1>11. ASSUME n + m < Len(d) PROVE d[n + m + 1] # SQ
  <2>1. Len(y) > 0 /\ n + m + 1 \in 1..Len(t)
    BY <1>7, <1>8, <1>11
  <2>2. t[n + m + 1] # SQ
    BY <1>7, <2>1, EmptySeq
  <2> QED BY <1>8, <1>9, <2>1, <2>2
<1> QED BY <1>1, <1>2, <1>10, <1>11

LEMMA LiteralsKept == LiteralInv => QuotedKept
<1> SUFFICES ASSUME LiteralInv, op \in {"prepared", "stripped"}, literal # <<>>,
                    NEW before \in Fragments, NEW after \in Fragments,
                    src = before \o literal \o after,
                    ~Inside(before)[Len(before) + 1],
                    WithoutNul(after) # <<>> => WithoutNul(after)[1] # SQ
             PROVE  /\ dst[Len(WithoutNul(before)) + 1] = SQ
                    /\ LiteralAt(dst, Len(WithoutNul(before)) + 1) = WithoutNul(value)
  BY DEF QuotedKept
<1>1. /\ src \in Seq(Chars) /\ dst \in Seq(Chars) /\ value \in Seq(Chars)
      /\ before \in Seq(Chars) /\ after \in Seq(Chars) /\ literal \in Seq(Chars)
      /\ op = "prepared" => i = Len(src)
  BY TextsAssumption DEF LiteralInv, TextInv, SqlInv, TypeOK, Finished
<1>2. literal = Quoted(value)
  BY DEF LiteralInv, Quoting
<1>3. PICK x \in Seq(Chars) : x = WithoutNul(before)
  BY <1>1, WithoutNulType
<1>4. PICK v \in Seq(Chars) : v = WithoutNul(value)
  BY <1>1, WithoutNulType
<1>5. PICK y \in Seq(Chars) : y = WithoutNul(after)
  BY <1>1, WithoutNulType
<1>6. PICK t \in Seq(Chars) : t = WithoutNul(src)
  BY <1>1, WithoutNulType
<1>7. t = (x \o Quoted(v)) \o y
  <2>1. PICK z \in Seq(Chars) : z = before \o literal
    BY <1>1, ConcatProperties
  <2>2. WithoutNul(z \o after) = WithoutNul(z) \o y
    BY <1>1, <1>5, WithoutNulConcat
  <2>3. WithoutNul(z) = x \o WithoutNul(literal)
    BY <1>1, <1>3, <2>1, WithoutNulConcat
  <2>4. WithoutNul(literal) = Quoted(v)
    BY <1>1, <1>2, <1>4, QuotedWithoutNul
  <2> QED BY <1>6, <2>1, <2>2, <2>3, <2>4
<1>8. InNone(x)
  <2>1. Len(before) \in 0..Len(before)
    BY <1>1
  <2>2. ~Open(before, Len(before), SQ) /\ ~Open(before, Len(before), DQ)
    BY <1>1, <2>1, InsideOpen
  <2>3. \A q \in {SQ, DQ} : ~Open(x, Len(x), q)
    BY <1>1, <1>3, <2>2, OpenWithoutNul
  <2> QED BY <2>3 DEF InNone
<1>9. Imitates(dst, t, Len(t))
  <2>1. CASE op = "prepared"
    BY <1>1, <1>6, <2>1, KeptEnds DEF LiteralInv, TextInv, Preparing
  <2>2. CASE op = "stripped"
    BY <1>6, <2>2 DEF LiteralInv, TextInv, Stripping, Imitates
  <2> QED BY <2>1, <2>2
<1>10. y # <<>> => y[1] # SQ
  BY <1>5
<1>11. PICK n \in Nat : n = Len(x)
  OBVIOUS
<1>12. /\ Holds(dst, n, Quoted(v))
       /\ n + Len(Quoted(v)) < Len(dst) => dst[n + Len(Quoted(v)) + 1] # SQ
  BY <1>1, <1>7, <1>8, <1>9, <1>10, <1>11, LiteralKept
<1>13. dst[n + 1] = SQ /\ LiteralAt(dst, n + 1) = v
  BY <1>1, <1>12, LiteralRead
<1> QED BY <1>3, <1>4, <1>11, <1>13

(***************************************************************************)
(* Whatever string is quoted, wherever the literal is put that no region   *)
(* of quotes is open and no quote follows: after zstr_prepare() as after   *)
(* zstr_strip_zerobytes(), DuckDB reads that string without its NUL bytes. *)
(***************************************************************************)
THEOREM QuotedKeptHolds == Spec => []QuotedKept
  BY LiteralInvariance, LiteralsKept, PTL
=============================================================================
