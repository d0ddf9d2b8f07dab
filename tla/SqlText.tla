------------------------------- MODULE SqlText -------------------------------
(***************************************************************************)
(* The three loops of duckdb_driver.c that copy SQL text byte by byte into *)
(* a buffer they have allocated: zstr_prepare() rewrites :name to $name    *)
(* for DuckDB, zstr_strip_zerobytes() drops NUL bytes, and the quoter      *)
(* makes a literal of a PHP string.  One step is one turn of a loop.       *)
(***************************************************************************)
EXTENDS Integers, Sequences

CONSTANTS Letters,     \* a-z, A-Z and _
          Others,      \* bytes without a meaning here: digits, blanks, ...
          Texts,       \* SQL texts of the program
          Values,      \* the strings it quotes
          Fragments    \* what it writes before and after a quoted literal

SQ == "'"
DQ == "\""
COLON == ":"
DOLLAR == "$"
NUL == "NUL"

Chars == Letters \cup Others \cup {SQ, DQ, COLON, DOLLAR, NUL}

ASSUME AlphabetAssumption ==
    (Letters \cup Others) \cap {SQ, DQ, COLON, DOLLAR, NUL} = {}

ASSUME TextsAssumption ==
    Texts \subseteq Seq(Chars) /\ Values \subseteq Seq(Chars) /\ Fragments \subseteq Seq(Chars)

VARIABLES op,        \* the function that runs, or the one that has returned
          src,       \* its argument
          i,         \* the bytes of src it has looked at
          dst,       \* the bytes it has written
          alloc,     \* the bytes it has allocated
          in_sq,     \* inside '...'
          in_dq,     \* inside "..."
          literal,   \* the last result of the quoter, <<>> when there is none
          value      \* what it was made of

vars == <<op, src, i, dst, alloc, in_sq, in_dq, literal, value>>

Running == {"prepare", "strip", "quote"}
Returned == {"none", "prepared", "stripped", "quoted"}

TypeOK ==
    /\ op \in Running \cup Returned
    /\ src \in Seq(Chars)
    /\ i \in 0..Len(src)
    /\ dst \in Seq(Chars)
    /\ alloc \in Nat
    /\ in_sq \in BOOLEAN
    /\ in_dq \in BOOLEAN
    /\ literal \in Seq(Chars)
    /\ value \in Seq(Chars)

Init ==
    /\ op = "none"
    /\ src = <<>>
    /\ i = 0
    /\ dst = <<>>
    /\ alloc = 1
    /\ in_sq = FALSE
    /\ in_dq = FALSE
    /\ literal = <<>>
    /\ value = <<>>

(* The byte src[k] of C, counted from 0. *)
At(k) == src[k + 1]

-----------------------------------------------------------------------------
Start(function, text, size, written) ==
    /\ op \in Returned
    /\ op' = function
    /\ src' = text
    /\ i' = 0
    /\ dst' = written
    /\ alloc' = size
    /\ in_sq' = FALSE
    /\ in_dq' = FALSE
    /\ UNCHANGED <<literal, value>>

(* Defect: the byte behind the one at hand is passed over too. *)
TurnSkips(bytes) ==
    /\ dst' = dst \o bytes
    /\ i' = i + 2
    /\ UNCHANGED <<op, src, alloc, literal, value>>

(* The next turn of the loop; bytes is what this turn writes. *)
Turn(bytes) ==
    /\ dst' = dst \o bytes
    /\ i' = i + 1
    /\ UNCHANGED <<op, src, alloc, literal, value>>

(* The loop is over; the terminator follows what has been written. *)
Return(result) ==
    /\ i = Len(src)
    /\ op' = result
    /\ UNCHANGED <<src, i, alloc, in_sq, in_dq>>

(***************************************************************************)
(* The program has a text of its own, or writes one around the literal it  *)
(* got from PDO::quote().                                                  *)
(***************************************************************************)
SqlTexts ==
    IF literal = <<>> THEN Texts
    ELSE {before \o literal \o after : before, after \in Fragments}

(* zstr_prepare() *)
PrepareStart(sql) == Start("prepare", sql, Len(sql) + 1, <<>>)

(* The flags as they are after the byte at i. *)
InSingle(c) == IF c = SQ /\ ~in_dq THEN ~in_sq ELSE in_sq
InDouble(c) == IF c = DQ /\ ~in_sq THEN ~in_dq ELSE in_dq

(* Defect: the byte before the colon is not looked at. *)
StartsNameOrCast ==
    /\ ~in_sq /\ ~in_dq
    /\ At(i) = COLON
    /\ i + 1 < Len(src)
    /\ At(i + 1) \in Letters

(* A colon outside quotes, before a letter and not behind another colon. *)
StartsName ==
    /\ ~in_sq /\ ~in_dq
    /\ At(i) = COLON
    /\ i + 1 < Len(src)
    /\ At(i + 1) \in Letters
    /\ i = 0 \/ At(i - 1) # COLON

(* Defect: NUL bytes are copied. *)
PrepareTurnKeepsNul ==
    /\ op = "prepare" /\ i < Len(src)
    /\ Turn(IF StartsName THEN <<DOLLAR>> ELSE <<At(i)>>)
    /\ in_sq' = InSingle(At(i))
    /\ in_dq' = InDouble(At(i))

PrepareTurn ==
    /\ op = "prepare" /\ i < Len(src)
    /\ \/ At(i) = NUL /\ Turn(<<>>) /\ UNCHANGED <<in_sq, in_dq>>
       \/ /\ At(i) # NUL
          /\ Turn(IF StartsName THEN <<DOLLAR>> ELSE <<At(i)>>)
          /\ in_sq' = InSingle(At(i))
          /\ in_dq' = InDouble(At(i))

PrepareReturn ==
    op = "prepare" /\ Return("prepared") /\ UNCHANGED <<dst, literal, value>>

(* zstr_strip_zerobytes() *)
StripStart(sql) == Start("strip", sql, Len(sql) + 1, <<>>)

(* memchr() finds no NUL: everything is copied at once. *)
StripCopies ==
    /\ op = "strip" /\ i = 0
    /\ \A k \in 1..Len(src) : src[k] # NUL
    /\ dst' = src
    /\ i' = Len(src)
    /\ op' = "stripped"
    /\ UNCHANGED <<src, alloc, in_sq, in_dq, literal, value>>

StripTurn ==
    /\ op = "strip" /\ i < Len(src)
    /\ \E k \in 1..Len(src) : src[k] = NUL
    /\ Turn(IF At(i) = NUL THEN <<>> ELSE <<At(i)>>)
    /\ UNCHANGED <<in_sq, in_dq>>

StripReturn ==
    /\ op = "strip"
    /\ \E k \in 1..Len(src) : src[k] = NUL
    /\ Return("stripped")
    /\ UNCHANGED <<dst, literal, value>>

(* Defect: one byte too few. *)
QuoteStartShort(unquoted) == Start("quote", unquoted, 2 * Len(unquoted) + 2, <<SQ>>)

(* duckdb_handle_quoter() *)
QuoteStart(unquoted) == Start("quote", unquoted, 2 * Len(unquoted) + 3, <<SQ>>)

(* Defect: apostrophes are not doubled. *)
QuoteTurnSingle ==
    /\ op = "quote" /\ i < Len(src)
    /\ Turn(<<At(i)>>)
    /\ UNCHANGED <<in_sq, in_dq>>

QuoteTurn ==
    /\ op = "quote" /\ i < Len(src)
    /\ Turn(IF At(i) = SQ THEN <<SQ, SQ>> ELSE <<At(i)>>)
    /\ UNCHANGED <<in_sq, in_dq>>

QuoteReturn ==
    /\ op = "quote"
    /\ Return("quoted")
    /\ dst' = Append(dst, SQ)
    /\ literal' = Append(dst, SQ)
    /\ value' = src

Next ==
    \/ \E sql \in SqlTexts : PrepareStart(sql) \/ StripStart(sql)
    \/ PrepareTurn \/ PrepareReturn
    \/ StripCopies \/ StripTurn \/ StripReturn
    \/ \E unquoted \in Values : QuoteStart(unquoted)
    \/ QuoteTurn \/ QuoteReturn

Spec == Init /\ [][Next]_vars

-----------------------------------------------------------------------------
(* Properties *)

(***************************************************************************)
(* None of the loops writes past what was allocated for it, the closing    *)
(* quote and the terminator included: however many bytes are NUL, doubled  *)
(* or replaced, len + 1 and 2 * len + 3 bytes are enough.                  *)
(***************************************************************************)
FitsBuffer ==
    /\ Len(dst) + 1 <= alloc
    /\ op = "quote" => Len(dst) + 2 <= alloc

(***************************************************************************)
(* DuckDB gets the text as a C string: no byte that zstr_prepare() and     *)
(* zstr_strip_zerobytes() write ends it early.                             *)
(***************************************************************************)
NoEarlyEnd ==
    op \in {"prepare", "prepared", "strip", "stripped"} =>
        \A k \in 1..Len(dst) : dst[k] # NUL

(* What a loop over t leaves that writes bytes[c] for each byte c. *)
Copied(t, bytes) ==
    LET written[n \in 0..Len(t)] ==
            IF n = 0 THEN <<>> ELSE written[n - 1] \o bytes[t[n]]
    IN  written[Len(t)]

(* The text without its NUL bytes. *)
WithoutNul(t) == Copied(t, [c \in Chars |-> IF c = NUL THEN <<>> ELSE <<c>>])

(* Byte p of t is inside a quoted region: a quote before it that is not    *)
(* itself inside another region opens one, and is not closed before p.     *)
Inside(t) ==
    LET inside[p \in 1..Len(t) + 1] ==
            \E o \in 1..p - 1 :
                /\ t[o] \in {SQ, DQ}
                /\ ~inside[o]
                /\ \A m \in o + 1..p - 1 : t[m] # t[o]
    IN  inside

(* Placeholders of t as its author means them: not in quotes, not a cast. *)
Placeholder(t, p) ==
    /\ t[p] = COLON
    /\ p < Len(t) /\ t[p + 1] \in Letters
    /\ p = 1 \/ t[p - 1] # COLON
    /\ ~Inside(t)[p]

Rewritten(t) == [p \in 1..Len(t) |-> IF Placeholder(t, p) THEN DOLLAR ELSE t[p]]

NulBesideColon(t) ==
    \E p \in 1..Len(t) - 1 : {t[p], t[p + 1]} = {NUL, COLON}

(***************************************************************************)
(* "Strip null bytes and replace :name with $name": the prepared text is   *)
(* the program's text without NUL bytes, with a dollar for the colon of    *)
(* each placeholder, and everything else as it was: casts (::name), lone   *)
(* colons, and all that stands in quotes.  The two rules are applied in    *)
(* one pass, so a NUL beside a colon is excluded.                          *)
(***************************************************************************)
PlaceholdersOnly ==
    op = "prepared" /\ ~NulBesideColon(src) => dst = Rewritten(WithoutNul(src))

(* How SQL reads a literal that begins at byte p: two quotes are one, one   *)
(* quote ends it.                                                          *)
LiteralAt(t, p) ==
    LET read[q \in p + 1..Len(t) + 1] ==
            IF q > Len(t) THEN <<>>
            ELSE IF t[q] # SQ THEN <<t[q]>> \o read[q + 1]
            ELSE IF q < Len(t) /\ t[q + 1] = SQ THEN <<SQ>> \o read[q + 2]
            ELSE <<>>
    IN  read[p + 1]

(***************************************************************************)
(* A value that the program has quoted, wherever it puts the literal in a  *)
(* text for exec() or prepare(), is the value that DuckDB reads, but for   *)
(* NUL bytes: quoting, stripping and rewriting agree on what a literal is. *)
(* A quote that touches the literal would become part of it.               *)
(***************************************************************************)
QuotedKept ==
    op \in {"prepared", "stripped"} /\ literal # <<>> =>
        \A before, after \in Fragments :
            LET first == Len(WithoutNul(before)) + 1 IN
            /\ src = before \o literal \o after
            /\ ~Inside(before)[Len(before) + 1]
            /\ WithoutNul(after) # <<>> => WithoutNul(after)[1] # SQ
            => /\ dst[first] = SQ
               /\ LiteralAt(dst, first) = WithoutNul(value)
=============================================================================
