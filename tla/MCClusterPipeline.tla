--------------------------- MODULE MCClusterPipeline ---------------------------
(* Small instances of ClusterPipeline for TLC. *)
EXTENDS ClusterPipeline, TLC

CONSTANTS a, e   \* two tokens, e is Eos

MCVocab == {a, e}

(* One, two and four tokens: the last fills a context of four.             *)
MCPrompts == {<<a>>, <<e, a>>, <<a, a, e, a>>}

(* One token, for a context of three. *)
MCShortPrompts == {<<a>>}
==============================================================================
