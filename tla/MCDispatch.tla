----------------------------- MODULE MCDispatch -----------------------------
(* SwooleDispatch for TLC: coroutines and the code outside them share      *)
(* connections, and the connections share fewer workers.                   *)
EXTENDS SwooleDispatch

MCRuntimes == [usleep : BOOLEAN, async : BOOLEAN]
=============================================================================
