------------------------------ MODULE MCSqlText ------------------------------
(* SqlText for TLC: every text of up to four bytes, every value of up to    *)
(* two, and fragments that end inside and outside of quotes.               *)
EXTENDS SqlText

UpTo(n, alphabet) == UNION {[1..m -> alphabet] : m \in 0..n}

MCTexts == UpTo(4, {"a", "7", SQ, DQ, COLON, NUL})
MCValues == UpTo(2, {"a", SQ, DQ, COLON, NUL})
MCFragments ==
    { <<>>, <<COLON>>, <<COLON, "a">>, <<"a">>, <<NUL>>, <<DQ>>,
      <<DQ, SQ, DQ>>, <<SQ, COLON, SQ, "7">> }
=============================================================================
