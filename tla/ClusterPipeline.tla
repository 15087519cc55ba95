--------------------------- MODULE ClusterPipeline ---------------------------
(***************************************************************************)
(* Text generation on a cluster: the coordinator (terllama-cluster) walks  *)
(* each token through the workers (terllama-worker), which hold a slice of *)
(* the layers and their own part of the KV cache.                          *)
(*                                                                         *)
(* A call is sent, executed by the worker under its mutex, and answered;   *)
(* in between the worker may crash or the coordinator's read timeout may   *)
(* expire, and then the call is still executed some time later.  Crashed   *)
(* workers are restarted with their shard (--model, --shard) or empty.     *)
(*                                                                         *)
(* Data are abstracted to what they depend on.  A value on the wire is the *)
(* sequence of tokens it was computed from: a token alone for rank 0, then *)
(* a hidden state, at last the logits.  A KV slot holds the value that was *)
(* appended there, and a hidden state computed from slots that do not      *)
(* belong together is Garbage.                                             *)
(***************************************************************************)
EXTENDS Integers, Sequences, FiniteSets, SequencesExt

CONSTANTS
    Requests, Vocab, Eos, MaxSeq, Prompts, MaxTokens,  \* as in Decoder
    None,         \* no request; what an empty KV slot holds
    NWorkers,     \* --workers, in pipeline order
    Streams,      \* values of the "stream" field
    Batch,        \* tokens a stream decodes and writes at a time (16)
    Preloaded,    \* workers are started with --model and --shard
    MaxCrashes,   \* bound on crashes of workers
    MaxTimeouts   \* bound on expired read timeouts

ASSUME ClusterAssumption ==
    /\ Eos \in Vocab /\ None \notin Vocab /\ None \notin Requests
    /\ MaxSeq \in Nat \ {0} /\ MaxTokens \in Nat \ {0}
    /\ Prompts \subseteq Seq(Vocab) \ {<<>>}
    /\ NWorkers \in Nat \ {0}
    /\ Batch \in Nat \ {0}
    /\ Streams \subseteq BOOLEAN /\ Preloaded \in BOOLEAN
    /\ MaxCrashes \in Nat /\ MaxTimeouts \in Nat

Workers == 1..NWorkers
Slots == 0..(MaxSeq - 1)

(* A value: the tokens it was computed from. *)
Garbage == <<None>>
EmptyCache == [i \in Slots |-> <<None>>]

VARIABLES
    \* ---- the coordinator's handler of each request ----
    prompt, budget, stream,  \* the body, tokenized
    pc,        \* where the handler is
    kind,      \* the call it makes: "reset" or "forward"
    hop,       \* the worker it calls
    val,       \* `cur` in Coordinator::pipeline
    fed, out,  \* tokens walked through the pipeline, tokens produced
    logits,    \* the logits the last token produced was sampled from
    genMutex,  \* holder of gen_mutex_
    buf,       \* tokens of a stream not written yet
    \* ---- the clients ----
    got,       \* tokens whose text has reached the client
    reply,     \* "none", "text" (200), "error" (400, 502) or "done" ([DONE])
    gone,      \* clients of streams that have left: writes to them fail
    \* ---- the workers ----
    worker,    \* "ready", "empty" (no model loaded) or "down"
    kv,        \* KV cache of each worker
    \* ---- the network ----
    late,      \* calls the coordinator has given up and a worker has not seen
    \* ---- history ----
    wiped,     \* workers that lost their cache since their last reset
    damaged,   \* requests that used the cache of such a worker
    crashes, timeouts

bodyVars    == <<prompt, budget, stream>>
clientVars  == <<buf, got, reply, gone>>
requestVars == <<bodyVars, clientVars>>
textVars   == <<fed, out, logits>>
callVars   == <<kind, hop, val>>
workerVars == <<worker, kv, wiped>>
faultVars  == <<crashes, timeouts>>
vars == <<requestVars, pc, callVars, textVars, genMutex, workerVars, late, damaged,
          faultVars>>

(* The generation loop of r runs. *)
Active == {"call", "sent", "replied", "broken"}
Ended == {"answered", "failed", "refused"}

TypeOK ==
    /\ prompt \in [Requests -> Prompts]
    /\ budget \in [Requests -> 1..MaxTokens]
    /\ stream \in [Requests -> Streams]
    /\ pc \in [Requests -> {"new", "lock"} \cup Active \cup Ended]
    /\ kind \in [Requests -> {"reset", "forward"}]
    /\ hop \in [Requests -> Workers]
    /\ val \in [Requests -> Seq(Vocab \cup {None})]
    /\ fed \in [Requests -> Seq(Vocab)]
    /\ out \in [Requests -> Seq(Vocab)]
    /\ logits \in [Requests -> Seq(Vocab \cup {None})]
    /\ genMutex \in Requests \cup {None}
    /\ buf \in [Requests -> Seq(Vocab)] /\ got \in [Requests -> Seq(Vocab)]
    /\ reply \in [Requests -> {"none", "text", "error", "done"}]
    /\ gone \subseteq Requests
    /\ worker \in [Workers -> {"ready", "empty", "down"}]
    /\ kv \in [Workers -> [Slots -> Seq(Vocab \cup {None})]]
    /\ late \subseteq [worker : Workers, kind : {"reset", "forward"}, pos : Nat,
                       val : Seq(Vocab \cup {None})]
    /\ wiped \subseteq Workers /\ damaged \subseteq Requests
    /\ crashes \in Nat /\ timeouts \in Nat

Init ==
    /\ prompt \in [Requests -> Prompts]
    /\ budget \in [Requests -> 1..MaxTokens]
    /\ stream \in [Requests -> Streams]
    /\ pc = [r \in Requests |-> "new"]
    /\ kind = [r \in Requests |-> "reset"]
    /\ hop = [r \in Requests |-> 1]
    /\ val = [r \in Requests |-> <<>>]
    /\ fed = [r \in Requests |-> <<>>]
    /\ out = [r \in Requests |-> <<>>]
    /\ logits = [r \in Requests |-> <<>>]
    /\ genMutex = None
    /\ buf = [r \in Requests |-> <<>>]
    /\ got = [r \in Requests |-> <<>>]
    /\ reply = [r \in Requests |-> "none"]
    /\ gone = {}
    /\ worker = [w \in Workers |-> "ready"]
    /\ kv = [w \in Workers |-> EmptyCache]
    /\ late = {} /\ wiped = {} /\ damaged = {}
    /\ crashes = 0 /\ timeouts = 0

-----------------------------------------------------------------------------
(* What a worker computes. *)

(* handle_forward: append the input at seq_pos, attend over all slots up   *)
(* to it.  The first worker takes tokens, the others hidden states.  A     *)
(* position beyond the cache is not written.                               *)
Appended(w, pos, x) ==
    IF pos \in Slots THEN [kv EXCEPT ![w][pos] = x] ELSE kv

Forwarded(w, pos, x) ==
    LET seen == [i \in 1..(pos + 1) |->
                    IF i = pos + 1 THEN x ELSE kv[w][i - 1]]
    IN  IF w = 1 THEN [i \in 1..(pos + 1) |-> seen[i][1]]
        ELSE IF \A i \in 1..(pos + 1) : seen[i] = SubSeq(x, 1, i) THEN x
        ELSE Garbage

(* handle_reset: a fresh cache; an empty worker has nothing to clear. *)
ResetCache(w) == IF worker[w] = "ready" THEN [kv EXCEPT ![w] = EmptyCache] ELSE kv

-----------------------------------------------------------------------------
(* The coordinator. *)

Smaller(a, b) == IF a <= b THEN a ELSE b

(* max_tokens after the caps of the handler and of generate. *)
Room(r) == Smaller(budget[r], MaxSeq - Len(prompt[r]))

(* The position in the sequence, the KV index on every worker. *)
Pos(r) == Len(fed[r])

(* The token walked through the pipeline at this position. *)
TokenAt(r, pos) == IF pos < Len(prompt[r]) THEN prompt[r][pos + 1]
                   ELSE IF out[r] = <<>> THEN Last(prompt[r])
                   ELSE Last(out[r])

(* A prompt without room for a token is refused by the handler. *)
Arrive(r) ==
    /\ pc[r] = "new"
    /\ \/ /\ Len(prompt[r]) < MaxSeq
          /\ pc' = [pc EXCEPT ![r] = "lock"]
          /\ UNCHANGED reply
       \/ /\ Len(prompt[r]) >= MaxSeq
          /\ pc' = [pc EXCEPT ![r] = "refused"]
          /\ reply' = [reply EXCEPT ![r] = "error"]
    /\ UNCHANGED <<bodyVars, buf, got, gone, callVars, textVars, genMutex,
                   workerVars, late, damaged, faultVars>>

(* Mutant of Acquire: several generations at a time. *)
Acquire_NoMutex(r) ==
    /\ pc[r] = "lock"
    /\ pc' = [pc EXCEPT ![r] = "call"]
    /\ UNCHANGED <<requestVars, callVars, textVars, genMutex, workerVars, late,
                   damaged, faultVars>>

(* generate takes gen_mutex_; first it resets every worker. *)
Acquire(r) ==
    /\ pc[r] = "lock"
    /\ genMutex = None
    /\ genMutex' = r
    /\ pc' = [pc EXCEPT ![r] = "call"]
    /\ UNCHANGED <<requestVars, callVars, textVars, workerVars, late, damaged,
                   faultVars>>

(* Connecting to a dead worker fails. *)
Call(r) ==
    /\ pc[r] = "call"
    /\ pc' = [pc EXCEPT ![r] = IF worker[hop[r]] = "down" THEN "broken"
                               ELSE "sent"]
    /\ UNCHANGED <<requestVars, callVars, textVars, genMutex, workerVars, late,
                   damaged, faultVars>>

(* Mutant of NextWorker: one hop too many. *)
NextWorker_TooFar(r) ==
    /\ pc[r] = "replied"
    /\ hop[r] <= NWorkers
    /\ hop' = [hop EXCEPT ![r] = @ + 1]
    /\ pc' = [pc EXCEPT ![r] = "call"]
    /\ UNCHANGED <<requestVars, kind, val, textVars, genMutex, workerVars, late,
                   damaged, faultVars>>

(* Every worker gets the same call, one after the other. *)
NextWorker(r) ==
    /\ pc[r] = "replied"
    /\ hop[r] < NWorkers
    /\ hop' = [hop EXCEPT ![r] = @ + 1]
    /\ pc' = [pc EXCEPT ![r] = "call"]
    /\ UNCHANGED <<requestVars, kind, val, textVars, genMutex, workerVars, late,
                   damaged, faultVars>>

(* All workers are reset: the first token. *)
BeginPrompt(r) ==
    /\ pc[r] = "replied"
    /\ hop[r] = NWorkers
    /\ kind[r] = "reset"
    /\ kind' = [kind EXCEPT ![r] = "forward"]
    /\ hop' = [hop EXCEPT ![r] = 1]
    /\ val' = [val EXCEPT ![r] = <<TokenAt(r, Pos(r))>>]
    /\ pc' = [pc EXCEPT ![r] = "call"]
    /\ UNCHANGED <<requestVars, textVars, genMutex, workerVars, late, damaged,
                   faultVars>>

(* A token of the prompt has passed all workers; its logits are dropped. *)
Prefill(r) ==
    /\ pc[r] = "replied"
    /\ hop[r] = NWorkers
    /\ kind[r] = "forward"
    /\ Pos(r) < Len(prompt[r])
    /\ fed' = [fed EXCEPT ![r] = Append(@, TokenAt(r, Pos(r)))]
    /\ hop' = [hop EXCEPT ![r] = 1]
    /\ val' = [val EXCEPT ![r] = <<TokenAt(r, Pos(r) + 1)>>]
    /\ pc' = [pc EXCEPT ![r] = "call"]
    /\ UNCHANGED <<requestVars, kind, out, logits, genMutex, workerVars, late,
                   damaged, faultVars>>

(* The callback of a stream buffers t, and writes what it has when that is *)
(* a batch or t is Eos; if the client is gone the write fails.             *)
Flushes(r, t) == stream[r] /\ (Len(buf[r]) + 1 >= Batch \/ t = Eos)
WriteFails(r, t) == Flushes(r, t) /\ r \in gone

OnToken(r, t) ==
    LET text == Append(buf[r], t)
    IN  /\ buf' = [buf EXCEPT ![r] =
                     IF ~stream[r] \/ (Flushes(r, t) /\ r \notin gone) THEN <<>>
                     ELSE text]
        /\ got' = [got EXCEPT ![r] =
                     IF Flushes(r, t) /\ r \notin gone THEN @ \o text ELSE @]

(* The logits of a decoding step: sample t, hand it to the callback, and   *)
(* go on unless its write failed, t is Eos or t is the last one allowed.   *)
Sample(r, t) ==
    /\ pc[r] = "replied"
    /\ hop[r] = NWorkers
    /\ kind[r] = "forward"
    /\ Pos(r) >= Len(prompt[r])
    /\ out' = [out EXCEPT ![r] = Append(@, t)]
    /\ fed' = [fed EXCEPT ![r] = Append(@, TokenAt(r, Pos(r)))]
    /\ logits' = [logits EXCEPT ![r] = val[r]]
    /\ OnToken(r, t)
    /\ \/ /\ t = Eos \/ Len(out'[r]) = Room(r) \/ WriteFails(r, t)
          /\ pc' = [pc EXCEPT ![r] = "answered"]
          /\ genMutex' = None
          /\ UNCHANGED <<hop, val>>
       \/ /\ t # Eos /\ Len(out'[r]) < Room(r) /\ ~WriteFails(r, t)
          /\ pc' = [pc EXCEPT ![r] = "call"]
          /\ hop' = [hop EXCEPT ![r] = 1]
          /\ val' = [val EXCEPT ![r] = <<t>>]
          /\ UNCHANGED genMutex
    /\ UNCHANGED <<bodyVars, reply, gone, kind, workerVars, late, damaged,
                   faultVars>>

(* Mutant of GiveUp: the exception leaves gen_mutex_ locked. *)
GiveUp_KeepsMutex(r) ==
    /\ pc[r] = "broken"
    /\ pc' = [pc EXCEPT ![r] = "failed"]
    /\ UNCHANGED <<requestVars, callVars, textVars, genMutex, workerVars, late,
                   damaged, faultVars>>

(* Any failed call throws out of generate. *)
GiveUp(r) ==
    /\ pc[r] = "broken"
    /\ pc' = [pc EXCEPT ![r] = "failed"]
    /\ genMutex' = None
    /\ UNCHANGED <<requestVars, callVars, textVars, workerVars, late, damaged,
                   faultVars>>

(* Mutant of CloseStream: the exception skips the write of the rest. *)
CloseStream_RestInTry(r) ==
    /\ pc[r] \in {"answered", "failed"}
    /\ stream[r] /\ reply[r] = "none"
    /\ got' = [got EXCEPT ![r] = IF r \in gone \/ pc[r] = "failed" THEN @
                                 ELSE @ \o buf[r]]
    /\ buf' = [buf EXCEPT ![r] = <<>>]
    /\ reply' = [reply EXCEPT ![r] = "done"]
    /\ UNCHANGED <<bodyVars, gone, pc, callVars, textVars, genMutex, workerVars,
                   late, damaged, faultVars>>

(* After generate, without the mutex: the rest of a stream is written,     *)
(* then [DONE], whether generate returned or threw.                        *)
CloseStream(r) ==
    /\ pc[r] \in {"answered", "failed"}
    /\ stream[r] /\ reply[r] = "none"
    /\ got' = [got EXCEPT ![r] = IF r \in gone THEN @ ELSE @ \o buf[r]]
    /\ buf' = [buf EXCEPT ![r] = <<>>]
    /\ reply' = [reply EXCEPT ![r] = "done"]
    /\ UNCHANGED <<bodyVars, gone, pc, callVars, textVars, genMutex, workerVars,
                   late, damaged, faultVars>>

(* Any other request gets all of its text at once, or 502. *)
Respond(r) ==
    /\ pc[r] \in {"answered", "failed"}
    /\ ~stream[r] /\ reply[r] = "none"
    /\ \/ /\ pc[r] = "answered"
          /\ got' = [got EXCEPT ![r] = out[r]]
          /\ reply' = [reply EXCEPT ![r] = "text"]
       \/ /\ pc[r] = "failed"
          /\ reply' = [reply EXCEPT ![r] = "error"]
          /\ UNCHANGED got
    /\ UNCHANGED <<bodyVars, buf, gone, pc, callVars, textVars, genMutex,
                   workerVars, late, damaged, faultVars>>

(* The client of a stream closes the connection. *)
Leave(r) ==
    /\ stream[r] /\ reply[r] = "none" /\ pc[r] # "new"
    /\ gone' = gone \cup {r}
    /\ r \notin gone
    /\ UNCHANGED <<bodyVars, buf, got, reply, pc, callVars, textVars, genMutex,
                   workerVars, late, damaged, faultVars>>

-----------------------------------------------------------------------------
(* The workers and the network. *)

(* handle_reset *)
WorkerReset(r) ==
    LET w == hop[r] IN
    /\ pc[r] = "sent"
    /\ kind[r] = "reset"
    /\ kv' = ResetCache(w)
    /\ wiped' = wiped \ {w}
    /\ pc' = [pc EXCEPT ![r] = "replied"]
    /\ UNCHANGED <<requestVars, callVars, textVars, genMutex, worker, late, damaged,
                   faultVars>>

(* Mutant of WorkerForward: a worker without a model answers 200. *)
WorkerForward_NoLoadCheck(r) ==
    LET w == hop[r] IN
    /\ pc[r] = "sent"
    /\ kind[r] = "forward"
    /\ kv' = Appended(w, Pos(r), val[r])
    /\ val' = [val EXCEPT ![r] = Forwarded(w, Pos(r), @)]
    /\ damaged' = IF w \in wiped THEN damaged \cup {r} ELSE damaged
    /\ pc' = [pc EXCEPT ![r] = "replied"]
    /\ UNCHANGED <<requestVars, kind, hop, textVars, genMutex, worker, wiped, late,
                   faultVars>>

(* handle_forward: without a model it answers 500. *)
WorkerForward(r) ==
    LET w == hop[r] IN
    /\ pc[r] = "sent"
    /\ kind[r] = "forward"
    /\ IF worker[w] = "ready"
       THEN /\ kv' = Appended(w, Pos(r), val[r])
            /\ val' = [val EXCEPT ![r] = Forwarded(w, Pos(r), @)]
            /\ damaged' = IF w \in wiped THEN damaged \cup {r} ELSE damaged
            /\ pc' = [pc EXCEPT ![r] = "replied"]
       ELSE /\ pc' = [pc EXCEPT ![r] = "broken"]
            /\ UNCHANGED <<kv, val, damaged>>
    /\ UNCHANGED <<requestVars, kind, hop, textVars, genMutex, worker, wiped, late,
                   faultVars>>

(* The read timeout expires before the worker has got to the call ... *)
Timeout(r) ==
    /\ timeouts < MaxTimeouts
    /\ pc[r] = "sent"
    /\ pc' = [pc EXCEPT ![r] = "broken"]
    /\ late' = late \cup {[worker |-> hop[r], kind |-> kind[r],
                           pos |-> Pos(r), val |-> val[r]]}
    /\ timeouts' = timeouts + 1
    /\ UNCHANGED <<requestVars, callVars, textVars, genMutex, workerVars, damaged,
                   crashes>>

(* ... which executes it all the same, for nobody. *)
LateCall(c) ==
    /\ c \in late
    /\ late' = late \ {c}
    /\ kv' = IF c.kind = "reset" THEN ResetCache(c.worker)
             ELSE IF worker[c.worker] = "ready"
                  THEN Appended(c.worker, c.pos, c.val)
             ELSE kv
    /\ UNCHANGED <<requestVars, pc, callVars, textVars, genMutex, worker, wiped,
                   damaged, faultVars>>

(* A worker dies, with its cache and the calls it has not answered. *)
Crash(w) ==
    /\ crashes < MaxCrashes
    /\ worker[w] # "down"
    /\ worker' = [worker EXCEPT ![w] = "down"]
    /\ wiped' = wiped \cup {w}
    /\ late' = {c \in late : c.worker # w}
    /\ pc' = [r \in Requests |-> IF pc[r] = "sent" /\ hop[r] = w THEN "broken"
                                 ELSE pc[r]]
    /\ crashes' = crashes + 1
    /\ kv' = [kv EXCEPT ![w] = EmptyCache]
    /\ UNCHANGED <<requestVars, callVars, textVars, genMutex, damaged, timeouts>>

Restart(w) ==
    /\ worker[w] = "down"
    /\ worker' = [worker EXCEPT ![w] = IF Preloaded THEN "ready" ELSE "empty"]
    /\ UNCHANGED <<requestVars, pc, callVars, textVars, genMutex, kv, wiped, late,
                   damaged, faultVars>>

-----------------------------------------------------------------------------
Generate(r) == \/ Acquire(r) \/ Call(r) \/ NextWorker(r) \/ BeginPrompt(r)
               \/ Prefill(r) \/ (\E t \in Vocab : Sample(r, t)) \/ GiveUp(r)
               \/ CloseStream(r) \/ Respond(r)
Serve(r) == WorkerReset(r) \/ WorkerForward(r)

(* All requests are over; anything else that stops is a deadlock.          *)
Finished == /\ \A r \in Requests : reply[r] # "none"
            /\ UNCHANGED vars

Next == \/ \E r \in Requests :
              Arrive(r) \/ Generate(r) \/ Leave(r) \/ Serve(r) \/ Timeout(r)
        \/ \E c \in late : LateCall(c)
        \/ \E w \in Workers : Crash(w) \/ Restart(w)
        \/ Finished

Spec == Init /\ [][Next]_vars

(* The coordinator's threads run, and a worker answers the calls it gets   *)
(* unless it dies first.                                                   *)
Fairness == \A r \in Requests : WF_vars(Generate(r)) /\ WF_vars(Serve(r))
FairSpec == Spec /\ Fairness

-----------------------------------------------------------------------------
(* "A correct cluster produces bit-identical logits to terllama serve"     *)
(* (distributed/README.md): whatever the interleaving of requests, crashes *)
(* and restarts, the pipeline is an implementation of Decoder.             *)
state == [r \in Requests |->
            CASE pc[r] \in {"new", "lock"} -> "waiting"
              [] pc[r] \in Active          -> "running"
              [] OTHER                     -> pc[r]]
Device == INSTANCE Decoder
RefinesDecoder == Device!Spec

(* Every token is sampled from the logits of exactly the tokens fed: each  *)
(* worker's cache holds this request and nothing else, "Fresh request:     *)
(* clear KV on every worker" (Coordinator::generate).                      *)
LogitsExact == \A r \in Requests : out[r] # <<>> => logits[r] = fed[r]

(* "On worker failure the coordinator returns 502": a request that used a  *)
(* worker which had lost its cache on the way, or one of whose calls       *)
(* failed, gets an error or is still to get its answer.  A stream is left  *)
(* out: its status 200 is sent before the first call, and CloseStream ends *)
(* it with [DONE] all the same, against that sentence.                     *)
WorkerFailureAnswers502 == \A r \in Requests :
    ~stream[r] /\ (r \in damaged \/ pc[r] \in {"broken", "failed"}) =>
        reply[r] \in {"none", "error"}

(* What the clients see.  A stream whose client has not left carries every *)
(* token produced, once and in order, even if a worker was lost on the     *)
(* way, and only a client that left cuts a generation short; any other     *)
(* request gets the whole text of a generation that ran to its end, or no  *)
(* text at all.                                                            *)
Complete(r) == Last(out[r]) = Eos \/ Len(out[r]) = Room(r)
GetsText(r) ==
    /\ IsPrefix(got[r], out[r])
    /\ stream[r] /\ r \notin gone =>
         /\ out[r] = got[r] \o buf[r]
         /\ Len(buf[r]) < Batch
    /\ pc[r] = "answered" /\ r \notin gone => Complete(r)
    /\ reply[r] = "text" => got[r] = out[r] /\ Complete(r)
    /\ reply[r] = "error" => got[r] = <<>>
ClientGetsText == \A r \in Requests : GetsText(r)

(* gen_mutex_ is released on every path, and every request is answered,    *)
(* whatever became of the workers and of the clients before it.            *)
EveryRequestEnds == \A r \in Requests : pc[r] = "lock" ~> reply[r] # "none"
==============================================================================
