------------------------------ MODULE LocalDecode ------------------------------
(***************************************************************************)
(* Text generation on one device: generate and generate_stream of          *)
(* core/inference.cpp, called by the handler threads of the server, by the *)
(* chat command and by the benchmark.  Each call has a KVCache of its own; *)
(* the buffers it computes in (tls_x, tls_logits) belong to its thread.    *)
(* Streams run side by side, so their steps interleave.                    *)
(*                                                                         *)
(* A token is walked through the model layer by layer.  As in              *)
(* ClusterPipeline a vector is abstracted to the sequence of tokens it was *)
(* computed from: one token after the embedding, the whole context after a *)
(* layer, and Garbage when slots of the cache do not belong together.      *)
(***************************************************************************)
EXTENDS Integers, Sequences, SequencesExt

CONSTANTS
    Requests, Vocab, Eos, MaxSeq, MaxTokens,  \* as in Decoder
    Zero,       \* token 0
    Tokens,     \* what a tokenizer may return, vocabulary of the model or not
    Prompts,    \* tokenized prompts
    None,       \* what an unused slot of the cache holds
    NLayers,    \* cfg.num_hidden_layers
    Streams     \* values of "the caller passes a callback that may stop"

(* No prompt is empty: every caller of generate and generate_stream looks  *)
(* first (handlers.cpp:561, 805; commands.cpp:538, 629, 868, 932).         *)
ASSUME LocalAssumption ==
    /\ Eos \in Vocab /\ Zero \in Vocab /\ Vocab \subseteq Tokens
    /\ None \notin Tokens
    /\ MaxSeq \in Nat \ {0, 1} /\ MaxTokens \in Nat \ {0}
    /\ NLayers \in Nat \ {0}
    /\ Prompts \subseteq Seq(Tokens) \ {<<>>}
    /\ Streams \subseteq BOOLEAN

Slots == 0 .. MaxSeq - 1
Layers == 1 .. NLayers

Garbage == <<None>>

VARIABLES
    prompt, budget, stream,  \* the arguments
    pc,       \* where the call is
    layer,    \* the loop of model_forward
    x,        \* tls_x of the thread that runs the call
    fed,      \* tokens whose model_forward has returned, one per position
    out,      \* output_tokens
    logits,   \* the logits the last token of `out` was sampled from
    kv,       \* k_cache and v_cache of the call's KVCache
    seqLens   \* its seq_lens

argVars == <<prompt, budget, stream>>
textVars == <<fed, out, logits>>
cacheVars == <<kv, seqLens>>
vars == <<argVars, pc, layer, x, textVars, cacheVars>>

Running == {"embed", "block", "head"}
Ended == {"answered"}

Contexts == Seq(Vocab \cup {None})

TypeOK ==
    /\ prompt \in [Requests -> Prompts]
    /\ budget \in [Requests -> 1 .. MaxTokens]
    /\ stream \in [Requests -> Streams]
    /\ pc \in [Requests -> {"new"} \cup Running \cup Ended]
    /\ layer \in [Requests -> Layers]
    /\ x \in [Requests -> Contexts]
    /\ fed \in [Requests -> Seq(Vocab)]
    /\ out \in [Requests -> Seq(Vocab)]
    /\ logits \in [Requests -> Contexts]
    /\ kv \in [Requests -> [Layers -> [Slots -> Contexts]]]
    /\ seqLens \in [Requests -> [Layers -> 0 .. MaxSeq]]

Init ==
    /\ prompt \in [Requests -> Prompts]
    /\ budget \in [Requests -> 1 .. MaxTokens]
    /\ stream \in [Requests -> Streams]
    /\ pc = [r \in Requests |-> "new"]
    /\ layer = [r \in Requests |-> 1]
    /\ x = [r \in Requests |-> <<>>]
    /\ fed = [r \in Requests |-> <<>>]
    /\ out = [r \in Requests |-> <<>>]
    /\ logits = [r \in Requests |-> <<>>]
    /\ kv = [r \in Requests |-> [l \in Layers |-> [i \in Slots |-> Garbage]]]
    /\ seqLens = [r \in Requests |-> [l \in Layers |-> 0]]

-----------------------------------------------------------------------------
(* The bounds, and the token walked through the model.                     *)

Smaller(a, b) == IF a <= b THEN a ELSE b

(* Mutant of Used: a prompt may fill the cache. *)
Used_Full(r) == Smaller(Len(prompt[r]), MaxSeq)

(* n_prompt: a longer prompt is cut, to leave a slot for one token. *)
Used(r) == Smaller(Len(prompt[r]), MaxSeq - 1)

(* max_tokens after the cap by the KV cache. *)
Room(r) == Smaller(budget[r], MaxSeq - Used(r))

(* Mutant of Embedded: the token is used as it is. *)
Embedded_Raw(t) == t

(* model_forward embeds token 0 for a token that is not in the model. *)
Embedded(t) == IF t \in Vocab THEN t ELSE Zero

Pos(r) == Len(fed[r])

(* The prefill loop, then next_token: the last token of the prompt, which  *)
(* the prefill has fed already, then the tokens sampled.                   *)
TokenAt(r) == IF Pos(r) < Used(r) THEN prompt[r][Pos(r) + 1]
              ELSE IF out[r] = <<>> THEN prompt[r][Used(r)]
              ELSE Last(out[r])

-----------------------------------------------------------------------------

(* A fresh KVCache, whose memory is all zero. *)
Begin(r) ==
    /\ pc[r] = "new"
    /\ pc' = [pc EXCEPT ![r] = "embed"]
    /\ UNCHANGED <<argVars, layer, x, textVars, cacheVars>>

(* Mutant of Embed: tls_x is one buffer for all threads. *)
Embed_SharedBuffer(r) ==
    /\ pc[r] = "embed"
    /\ x' = [q \in Requests |-> <<Embedded(TokenAt(r))>>]
    /\ layer' = [layer EXCEPT ![r] = 1]
    /\ pc' = [pc EXCEPT ![r] = "block"]
    /\ UNCHANGED <<argVars, textVars, cacheVars>>

Embed(r) ==
    /\ pc[r] = "embed"
    /\ x' = [x EXCEPT ![r] = <<Embedded(TokenAt(r))>>]
    /\ layer' = [layer EXCEPT ![r] = 1]
    /\ pc' = [pc EXCEPT ![r] = "block"]
    /\ UNCHANGED <<argVars, textVars, cacheVars>>

(* Mutant of Appended: the last slot is thought to be outside the cache. *)
Appended_OffByOne(r) == IF Pos(r) \in Slots \ {MaxSeq - 1}
                        THEN [kv EXCEPT ![r][layer[r]][Pos(r)] = x[r]]
                        ELSE kv

(* KVCache::append: outside the cache nothing is written and the length of *)
(* the layer stays.                                                        *)
Appended(r) == IF Pos(r) \in Slots THEN [kv EXCEPT ![r][layer[r]][Pos(r)] = x[r]]
               ELSE kv
Lengths(r) == IF Pos(r) \in Slots
              THEN [seqLens EXCEPT ![r][layer[r]] = Pos(r) + 1]
              ELSE seqLens

(* What the heads of layer l see: every slot of the layer up to its        *)
(* length.  The first layer turns tokens into a context, the others expect *)
(* slots computed from the contexts that this one extends.                 *)
Attended(l, slots, n, in) ==
    IF l = 1 THEN [i \in 1 .. n |-> slots[i - 1][1]]
    ELSE IF n = Len(in) /\ \A i \in 1 .. n : slots[i - 1] = SubSeq(in, 1, i)
         THEN in
    ELSE Garbage

(* transformer_block, with attention and its call of append. *)
Block(r) ==
    /\ pc[r] = "block"
    /\ kv' = Appended(r)
    /\ seqLens' = Lengths(r)
    /\ x' = [x EXCEPT ![r] = Attended(layer[r], kv'[r][layer[r]],
                                      seqLens'[r][layer[r]], x[r])]
    /\ \/ /\ layer[r] < NLayers
          /\ layer' = [layer EXCEPT ![r] = @ + 1]
          /\ UNCHANGED pc
       \/ /\ layer[r] = NLayers
          /\ pc' = [pc EXCEPT ![r] = "head"]
          /\ UNCHANGED layer
    /\ UNCHANGED <<argVars, textVars>>

(* Mutant of Prefill: the position does not advance. *)
Prefill_NoAdvance(r) ==
    /\ pc[r] = "head"
    /\ Pos(r) < Used(r)
    /\ pc' = [pc EXCEPT ![r] = "embed"]
    /\ UNCHANGED <<argVars, layer, x, fed, out, logits, cacheVars>>

(* A token of the prompt: its logits are not looked at. *)
Prefill(r) ==
    /\ pc[r] = "head"
    /\ Pos(r) < Used(r)
    /\ fed' = [fed EXCEPT ![r] = Append(@, Embedded(TokenAt(r)))]
    /\ pc' = [pc EXCEPT ![r] = "embed"]
    /\ UNCHANGED <<argVars, layer, x, out, logits, cacheVars>>

(* The head of the model and one round of the decoding loop: any token may *)
(* be sampled; the callback may stop the loop, then Eos, then the bound.   *)
Sample(r, t) ==
    /\ pc[r] = "head"
    /\ Pos(r) >= Used(r)
    /\ fed' = [fed EXCEPT ![r] = Append(@, Embedded(TokenAt(r)))]
    /\ out' = [out EXCEPT ![r] = Append(@, t)]
    /\ logits' = [logits EXCEPT ![r] = x[r]]
    /\ \/ /\ stream[r] \/ t = Eos \/ Len(out'[r]) = Room(r)
          /\ pc' = [pc EXCEPT ![r] = "answered"]
       \/ /\ t # Eos /\ Len(out'[r]) < Room(r)
          /\ pc' = [pc EXCEPT ![r] = "embed"]
    /\ UNCHANGED <<argVars, layer, x, cacheVars>>

-----------------------------------------------------------------------------
Generate(r) == \/ Begin(r) \/ Embed(r) \/ Block(r) \/ Prefill(r)
               \/ \E t \in Vocab : Sample(r, t)

(* Every call has returned; anything else that stops is a deadlock. *)
Finished == /\ \A r \in Requests : pc[r] \in Ended
            /\ UNCHANGED vars

Next == (\E r \in Requests : Generate(r)) \/ Finished

Spec == Init /\ [][Next]_vars

(* A thread that generates goes on generating: it takes no lock. *)
FairSpec == Spec /\ \A r \in Requests : WF_vars(Generate(r))

-----------------------------------------------------------------------------
(* "The workers run the exact same transformer_block chain as              *)
(* single-device inference" (distributed/README.md): both are              *)
(* implementations of Decoder, this one of a prompt cut to the context and *)
(* with the tokens the model does not know replaced.                       *)
used == [r \in Requests |-> [i \in 1 .. Used(r) |-> Embedded(prompt[r][i])]]
state == [r \in Requests |-> CASE pc[r] = "new"      -> "waiting"
                               [] pc[r] \in Running  -> "running"
                               [] OTHER              -> "answered"]
UsedPrompts == {[i \in 1 .. Smaller(Len(p), MaxSeq - 1) |-> Embedded(p[i])] :
                  p \in Prompts}
Device == INSTANCE Decoder WITH prompt <- used, Prompts <- UsedPrompts
RefinesDecoder == Device!Spec

(* KVCache::append never has to refuse a write: prompt and tokens stay in  *)
(* the cache whatever the length of the prompt and max_tokens.             *)
InContext == \A r \in Requests : pc[r] \in Running => Pos(r) \in Slots

(* Between two tokens all layers of a call's cache hold the same           *)
(* positions, and a slot holds what it held when its token was fed: one    *)
(* token in the first layer, the context up to it in the others.           *)
CacheHoldsContext ==
    \A r \in Requests, l \in Layers : pc[r] \in {"embed", "answered"} =>
        /\ seqLens[r][l] = Len(fed[r])
        /\ \A i \in 1 .. Len(fed[r]) :
              kv[r][l][i - 1] = IF l = 1 THEN <<fed[r][i]>>
                                ELSE SubSeq(fed[r], 1, i)

(* Every call returns. *)
EveryCallReturns == \A r \in Requests : pc[r] = "embed" ~> pc[r] = "answered"

(* "If pos >= n: token = sample(logits)" (docs/ARCHITECTURE.md): a token   *)
(* fed at a position after the prompt has been sampled from the logits of  *)
(* the positions before it.                                                *)
SampledBeforeFed ==
    \A r \in Requests :
        pc[r] \in {"block", "head"} /\ Pos(r) >= Used(r) =>
            /\ out[r] # <<>>
            /\ logits[r] = fed[r]
==============================================================================
