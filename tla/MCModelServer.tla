---------------------------- MODULE MCModelServer ----------------------------
(* Small instances of ModelServer for TLC: the .cfg files give the requests, *)
(* the memory limits and the sizes.                                          *)
EXTENDS ModelServer
==============================================================================
