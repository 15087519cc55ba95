------------------------------ MODULE MCModelStore ------------------------------
(* Small instances of ModelStore for TLC.  Weights of two chunks can be    *)
(* seen half written; the other files are there, or opened and empty.      *)
EXTENDS ModelStore, TLC

CONSTANTS c1, c2, i1, i2

(* Two commands and an import; a command and two imports. *)
MCCasts == {{c1, c2, i1}, {c1, i1, i2}}

MCChunks == [f \in Files |-> IF f = "dec" THEN 2 ELSE 1]
==============================================================================
