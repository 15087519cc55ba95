----------------------------- MODULE MCLocalDecode -----------------------------
(* Small instances of LocalDecode for TLC. *)
EXTENDS LocalDecode, TLC

CONSTANTS a, e, u   \* token 0, the end of the text, a token outside the model

MCVocab == {a, e}
MCTokens == {a, e, u}

(* One token, an unknown one among three, and one more than fit in a       *)
(* context of four.                                                        *)
MCPrompts == {<<a>>, <<a, u, e>>, <<a, a, e, a, a>>}
==============================================================================
