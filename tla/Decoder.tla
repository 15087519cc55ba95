------------------------------- MODULE Decoder -------------------------------
(***************************************************************************)
(* What a text generation promises, whoever computes it: one device        *)
(* (generate, generate_stream) or a pipeline of workers (Coordinator::     *)
(* generate).  The model is fed one token per position, first the prompt,  *)
(* then its last token again, then each token it has produced; and every   *)
(* token produced is sampled from the logits of exactly the tokens fed so  *)
(* far.  Logits are abstracted to the sequence of tokens they depend on;   *)
(* any token may be sampled from them.                                     *)
(***************************************************************************)
EXTENDS Integers, Sequences, SequencesExt

CONSTANTS Requests,   \* generations, each of its own prompt
          Vocab,      \* token ids
          Eos,        \* cfg.eos_token_id
          MaxSeq,     \* cfg.max_position_embeddings: slots of a KV cache
          Prompts,    \* tokenized prompts
          MaxTokens   \* largest value of "max_tokens"

VARIABLES prompt,   \* the prompt of each request
          budget,   \* its max_tokens
          stream,   \* a streaming client may go away
          state,    \* "waiting", "running", "answered", "failed", "refused"
          fed,      \* tokens fed so far, one per position
          out,      \* tokens produced
          logits    \* what the last token produced was sampled from

decoderVars == <<prompt, budget, stream, state, fed, out, logits>>

Init ==
    /\ prompt \in [Requests -> Prompts]
    /\ budget \in [Requests -> 1..MaxTokens]
    /\ stream \in [Requests -> BOOLEAN]
    /\ state = [r \in Requests |-> "waiting"]
    /\ fed = [r \in Requests |-> <<>>]
    /\ out = [r \in Requests |-> <<>>]
    /\ logits = [r \in Requests |-> <<>>]

Smaller(a, b) == IF a <= b THEN a ELSE b

(* No token is produced that has no slot in the KV cache.                  *)
Room(r) == Smaller(budget[r], MaxSeq - Len(prompt[r]))

(* The token fed next; the decode loop starts from the last prompt token,  *)
(* which has been fed as part of the prompt already.                       *)
NextInput(r) == IF Len(fed[r]) < Len(prompt[r]) THEN prompt[r][Len(fed[r]) + 1]
                ELSE IF out[r] = <<>> THEN Last(prompt[r])
                ELSE Last(out[r])

Begin(r) ==
    /\ state[r] = "waiting"
    /\ state' = [state EXCEPT ![r] = "running"]
    /\ UNCHANGED <<prompt, budget, stream, fed, out, logits>>

(* A prompt that leaves no room for a token may be refused. *)
Refuse(r) ==
    /\ state[r] = "waiting"
    /\ Len(prompt[r]) >= MaxSeq
    /\ state' = [state EXCEPT ![r] = "refused"]
    /\ UNCHANGED <<prompt, budget, stream, fed, out, logits>>

(* One position of the prompt; its logits are discarded. *)
Prefill(r) ==
    /\ state[r] = "running"
    /\ Len(fed[r]) < Len(prompt[r])
    /\ fed' = [fed EXCEPT ![r] = Append(@, NextInput(r))]
    /\ UNCHANGED <<prompt, budget, stream, state, out, logits>>

(* One token: the last one if it is Eos or there is room for no other, and *)
(* perhaps the last one if the client of a stream has gone.                *)
Decode(r, t) ==
    /\ state[r] = "running"
    /\ Len(fed[r]) >= Len(prompt[r])
    /\ Len(out[r]) < Room(r)
    /\ fed' = [fed EXCEPT ![r] = Append(@, NextInput(r))]
    /\ logits' = [logits EXCEPT ![r] = fed'[r]]
    /\ out' = [out EXCEPT ![r] = Append(@, t)]
    /\ \/ /\ t = Eos \/ Len(out'[r]) = Room(r) \/ stream[r]
          /\ state' = [state EXCEPT ![r] = "answered"]
       \/ /\ t # Eos /\ Len(out'[r]) < Room(r)
          /\ UNCHANGED state
    /\ UNCHANGED <<prompt, budget, stream>>

(* A worker is lost. *)
Fail(r) ==
    /\ state[r] = "running"
    /\ state' = [state EXCEPT ![r] = "failed"]
    /\ UNCHANGED <<prompt, budget, stream, fed, out, logits>>

Next == \E r \in Requests :
            \/ Begin(r) \/ Refuse(r) \/ Prefill(r) \/ Fail(r)
            \/ \E t \in Vocab : Decode(r, t)

Spec == Init /\ [][Next]_decoderVars
==============================================================================
