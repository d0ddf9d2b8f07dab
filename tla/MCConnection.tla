---------------------------- MODULE MCConnection -----------------------------
(* Connection for TLC: two coroutines and the code around them.             *)
EXTENDS Connection
=============================================================================
