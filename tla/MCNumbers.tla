------------------------------ MODULE MCNumbers ------------------------------
(* Numbers for TLC, with words of four bits.                               *)
EXTENDS Numbers
=============================================================================
