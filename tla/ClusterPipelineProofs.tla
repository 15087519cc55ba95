------------------------ MODULE ClusterPipelineProofs ------------------------
(***************************************************************************)
(* Proofs about ClusterPipeline, for any number of workers, requests and   *)
(* tokens, any prompts, batches and length of the context: what the        *)
(* clients read is what was generated, a generation that used a lost cache *)
(* is not answered, and without expired time-outs the pipeline implements  *)
(* Decoder, whichever workers crash.                                       *)
(***************************************************************************)
EXTENDS ClusterPipeline, TLAPS

-----------------------------------------------------------------------------
(* Types and lengths.                                                      *)

\* The tokens values are made of.
Items == Vocab \cup {None}

\* What is computed with is not empty.
Values ==
    /\ \A w \in Workers : \A i \in Slots : kv[w][i] # <<>>
    /\ \A r \in Requests : kind[r] = "forward" => val[r] # <<>>
    /\ \A c \in late : c.kind = "forward" => c.val # <<>>

\* How the lengths of the texts go together.
Lengthwise(r) ==
    /\ \/ out[r] = <<>> /\ Len(fed[r]) <= Len(prompt[r])
       \/ out[r] # <<>> /\ Len(fed[r]) = Len(prompt[r]) + Len(out[r])
    /\ pc[r] \in {"new", "lock", "refused"} =>
          kind[r] = "reset" /\ hop[r] = 1 /\ out[r] = <<>>
    /\ kind[r] = "reset" => fed[r] = <<>>
    /\ pc[r] \in {"lock"} \cup Active =>
          Len(prompt[r]) < MaxSeq /\ Len(out[r]) < Room(r)

Lengths == \A r \in Requests : Lengthwise(r)

Inv == TypeOK /\ Values /\ Lengths

\* A prompt has a token, and the last of a text is one of its tokens.
LEMMA Texts ==
  ASSUME TypeOK, NEW r \in Requests
  PROVE  /\ prompt[r] \in Seq(Vocab) /\ Len(prompt[r]) \in Nat
         /\ Len(prompt[r]) >= 1 /\ Last(prompt[r]) \in Vocab
         /\ fed[r] \in Seq(Vocab) /\ Len(fed[r]) \in Nat
         /\ out[r] \in Seq(Vocab) /\ Len(out[r]) \in Nat
         /\ out[r] # <<>> => Last(out[r]) \in Vocab /\ Len(out[r]) >= 1
         /\ buf[r] \in Seq(Vocab) /\ got[r] \in Seq(Vocab)
<1>1. prompt[r] \in Seq(Vocab) /\ prompt[r] # <<>>
  BY ClusterAssumption DEF TypeOK
<1>2. Len(prompt[r]) \in Nat /\ Len(prompt[r]) >= 1
  BY <1>1
<1>3. Last(prompt[r]) \in Vocab
  BY <1>1, <1>2 DEF Last
<1>4. /\ fed[r] \in Seq(Vocab) /\ Len(fed[r]) \in Nat
      /\ out[r] \in Seq(Vocab) /\ Len(out[r]) \in Nat
      /\ buf[r] \in Seq(Vocab) /\ got[r] \in Seq(Vocab)
  BY DEF TypeOK
<1>5. out[r] # <<>> => Last(out[r]) \in Vocab /\ Len(out[r]) >= 1
  BY <1>4 DEF Last
<1> QED
  BY <1>1, <1>2, <1>3, <1>4, <1>5

\* The token on its way is one of the vocabulary.
LEMMA TokenKnown ==
  ASSUME TypeOK, NEW r \in Requests, NEW n \in Nat
  PROVE  TokenAt(r, n) \in Vocab
<1>1. CASE n < Len(prompt[r])
  <2>1. n + 1 \in 1 .. Len(prompt[r])
    BY <1>1, Texts
  <2> QED
    BY <1>1, <2>1, Texts DEF TokenAt
<1>2. CASE ~(n < Len(prompt[r]))
  BY <1>2, Texts DEF TokenAt
<1> QED
  BY <1>1, <1>2

\* There is room for an answer.
LEMMA RoomThere ==
  ASSUME TypeOK, NEW r \in Requests, Len(prompt[r]) < MaxSeq
  PROVE  /\ Room(r) \in Nat /\ Room(r) >= 1
         /\ Room(r) <= MaxSeq - Len(prompt[r])
<1>1. budget[r] \in Nat /\ budget[r] >= 1
  BY ClusterAssumption DEF TypeOK
<1>2. MaxSeq \in Nat
  BY ClusterAssumption
<1> QED
  BY <1>1, <1>2, Texts DEF Room, Smaller

\* A generation that runs stays in the context.
LEMMA InsideContext ==
  ASSUME TypeOK, NEW r \in Requests, Lengthwise(r), pc[r] \in Active
  PROVE  Pos(r) \in Slots /\ Pos(r) \in Nat /\ Pos(r) = Len(fed[r])
<1>1. Len(prompt[r]) < MaxSeq /\ Len(out[r]) < Room(r)
  BY DEF Lengthwise
<1>2. MaxSeq \in Nat
  BY ClusterAssumption
<1>3. Len(fed[r]) \in Nat /\ Len(fed[r]) < MaxSeq
  <2>1. CASE out[r] = <<>>
    <3>1. Len(fed[r]) <= Len(prompt[r])
      BY <2>1, Texts DEF Lengthwise
    <3> QED
      BY <3>1, <1>1, <1>2, Texts
  <2>2. CASE out[r] # <<>>
    <3>1. Len(fed[r]) = Len(prompt[r]) + Len(out[r])
      BY <2>2 DEF Lengthwise
    <3>2. Len(prompt[r]) \in Nat /\ Len(out[r]) \in Nat
      BY Texts
    <3>3. Room(r) \in Nat /\ Room(r) <= MaxSeq - Len(prompt[r])
      BY <1>1, RoomThere
    <3> DEFINE p == Len(prompt[r])
               o == Len(out[r])
               m == Room(r)
    <3>4. p \in Nat /\ o \in Nat /\ m \in Nat /\ o < m /\ m <= MaxSeq - p
      BY <3>2, <3>3, <1>1
    <3>5. Len(fed[r]) = p + o
      BY <3>1
    <3> HIDE DEF p, o, m
    <3>6. p + o \in Nat /\ p + o < MaxSeq
      BY <3>4, <1>2
    <3> QED
      BY <3>5, <3>6
  <2> QED
    BY <2>1, <2>2
<1> QED
  BY <1>2, <1>3 DEF Pos, Slots

\* What a worker computes is a value, and not an empty one.
LEMMA ForwardedType ==
  ASSUME TypeOK, Values, NEW w \in Workers, NEW n \in Slots,
         NEW v \in Seq(Items), v # <<>>
  PROVE  Forwarded(w, n, v) \in Seq(Items) /\ Forwarded(w, n, v) # <<>>
<1> DEFINE seen == [i \in 1 .. (n + 1) |-> IF i = n + 1 THEN v ELSE kv[w][i - 1]]
<1>1. n \in Nat /\ MaxSeq \in Nat /\ n < MaxSeq
  BY ClusterAssumption DEF Slots
<1>2. \A i \in 1 .. (n + 1) : seen[i] \in Seq(Items) /\ seen[i] # <<>>
  <2> SUFFICES ASSUME NEW i \in 1 .. (n + 1)
               PROVE  seen[i] \in Seq(Items) /\ seen[i] # <<>>
    OBVIOUS
  <2>1. CASE i = n + 1
    BY <2>1
  <2>2. CASE i # n + 1
    <3>1. i - 1 \in Slots
      BY <2>2, <1>1 DEF Slots
    <3>2. kv[w][i - 1] \in Seq(Items) /\ kv[w][i - 1] # <<>>
      BY <3>1 DEF TypeOK, Values, Items
    <3> QED
      BY <2>2, <3>2
  <2> QED
    BY <2>1, <2>2
<1>3. CASE w = 1
  <2>1. Forwarded(w, n, v) = [i \in 1 .. (n + 1) |-> seen[i][1]]
    BY <1>3 DEF Forwarded
  <2>2. \A i \in 1 .. (n + 1) : seen[i][1] \in Items
    <3> SUFFICES ASSUME NEW i \in 1 .. (n + 1) PROVE seen[i][1] \in Items
      OBVIOUS
    <3> DEFINE x == seen[i]
    <3>1. x \in Seq(Items) /\ x # <<>>
      BY <1>2
    <3> HIDE DEF x, seen
    <3>2. x[1] \in Items
      BY <3>1
    <3> QED
      BY <3>2 DEF x
  <2> HIDE DEF seen
  <2>3. [i \in 1 .. (n + 1) |-> seen[i][1]] \in Seq(Items)
    BY <2>2, <1>1
  <2>4. Len([i \in 1 .. (n + 1) |-> seen[i][1]]) = n + 1
    BY <1>1
  <2> QED
    BY <1>1, <2>1, <2>3, <2>4
<1>4. CASE w # 1
  <2>1. Garbage \in Seq(Items) /\ Garbage # <<>>
    BY DEF Garbage, Items
  <2>2. Forwarded(w, n, v) = v \/ Forwarded(w, n, v) = Garbage
    BY <1>4 DEF Forwarded
  <2> QED
    BY <2>1, <2>2
<1> QED
  BY <1>3, <1>4

\* A worker's cache after it has appended to it, and after a reset.
LEMMA CacheType ==
  ASSUME TypeOK, Values, NEW w \in Workers
  PROVE  /\ \A n : \A v \in Seq(Items) : v # <<>> =>
              /\ Appended(w, n, v) \in [Workers -> [Slots -> Seq(Items)]]
              /\ \A u \in Workers : \A i \in Slots : Appended(w, n, v)[u][i] # <<>>
         /\ ResetCache(w) \in [Workers -> [Slots -> Seq(Items)]]
         /\ \A u \in Workers : \A i \in Slots : ResetCache(w)[u][i] # <<>>
         /\ [kv EXCEPT ![w] = EmptyCache] \in [Workers -> [Slots -> Seq(Items)]]
         /\ \A u \in Workers : \A i \in Slots :
               [kv EXCEPT ![w] = EmptyCache][u][i] # <<>>
<1>1. /\ kv \in [Workers -> [Slots -> Seq(Items)]]
      /\ \A u \in Workers : \A i \in Slots : kv[u][i] # <<>>
  BY DEF TypeOK, Values, Items
<1>2. /\ EmptyCache \in [Slots -> Seq(Items)]
      /\ \A i \in Slots : EmptyCache[i] # <<>>
  BY DEF EmptyCache, Items
<1>3. ASSUME NEW n, NEW v \in Seq(Items), v # <<>>
      PROVE  /\ Appended(w, n, v) \in [Workers -> [Slots -> Seq(Items)]]
             /\ \A u \in Workers : \A i \in Slots : Appended(w, n, v)[u][i] # <<>>
  BY <1>1, <1>3 DEF Appended
<1>4. /\ [kv EXCEPT ![w] = EmptyCache] \in [Workers -> [Slots -> Seq(Items)]]
      /\ \A u \in Workers : \A i \in Slots :
            [kv EXCEPT ![w] = EmptyCache][u][i] # <<>>
  BY <1>1, <1>2
<1>5. /\ ResetCache(w) \in [Workers -> [Slots -> Seq(Items)]]
      /\ \A u \in Workers : \A i \in Slots : ResetCache(w)[u][i] # <<>>
  BY <1>1, <1>4 DEF ResetCache
<1> QED
  BY <1>3, <1>4, <1>5

\* A request whose texts do not change keeps its lengths.
LEMMA LengthsFrame ==
  ASSUME NEW q \in Requests, Lengthwise(q),
         prompt' = prompt, budget' = budget, kind'[q] = kind[q],
         fed'[q] = fed[q], out'[q] = out[q],
         \/ pc'[q] = pc[q] /\ hop'[q] = hop[q]
         \/ /\ pc[q] \in {"lock"} \cup Active
            /\ pc'[q] \in Active \cup {"answered", "failed"}
         \/ pc[q] \in Active /\ pc'[q] \in Active
  PROVE  Lengthwise(q)'
<1>1. Room(q)' = Room(q)
  BY DEF Room, Smaller
<1> QED
  BY <1>1 DEF Lengthwise, Active

-----------------------------------------------------------------------------
(* Every step keeps the types and the lengths.                             *)

LEMMA InitInv == Init => Inv
<1> SUFFICES ASSUME Init PROVE Inv
  OBVIOUS
<1> USE ClusterAssumption
<1>1. 1 \in Workers
  BY DEF Workers
<1>2. EmptyCache \in [Slots -> Seq(Items)] /\ \A i \in Slots : EmptyCache[i] # <<>>
  BY DEF EmptyCache, Items
<1>3. TypeOK
  BY <1>1, <1>2 DEF Init, TypeOK, Items, Active, Ended
<1>4. Values
  BY <1>2 DEF Init, Values
<1>5. ASSUME NEW r \in Requests PROVE Lengthwise(r)
  <2>1. /\ pc[r] = "new" /\ kind[r] = "reset" /\ hop[r] = 1
        /\ fed[r] = <<>> /\ out[r] = <<>>
    BY DEF Init
  <2>2. Len(prompt[r]) \in Nat
    BY <1>3, Texts
  <2> QED
    BY <2>1, <2>2 DEF Lengthwise, Active
<1> QED
  BY <1>3, <1>4, <1>5 DEF Inv, Lengths

\* Steps that change neither texts nor caches.
LEMMA PlainInv ==
  ASSUME Inv, NEW r \in Requests,
         Acquire(r) \/ Call(r) \/ GiveUp(r) \/ CloseStream(r) \/ Respond(r)
            \/ Leave(r)
  PROVE  Inv'
<1>1. /\ prompt' = prompt /\ budget' = budget /\ stream' = stream
      /\ kind' = kind /\ hop' = hop /\ val' = val
      /\ fed' = fed /\ out' = out /\ logits' = logits
      /\ worker' = worker /\ kv' = kv /\ wiped' = wiped
      /\ late' = late /\ damaged' = damaged
      /\ crashes' = crashes /\ timeouts' = timeouts
  BY DEF Acquire, Call, GiveUp, CloseStream, Respond, Leave, requestVars, bodyVars,
         clientVars, callVars, textVars, workerVars, faultVars
<1>2. /\ pc' \in [Requests -> {"new", "lock"} \cup Active \cup Ended]
      /\ \A q \in Requests :
            \/ pc'[q] = pc[q]
            \/ /\ pc[q] \in {"lock"} \cup Active
               /\ pc'[q] \in Active \cup {"answered", "failed"}
  BY DEF Inv, TypeOK, Acquire, Call, GiveUp, CloseStream, Respond, Leave,
         Active, Ended
<1>3. genMutex' \in Requests \cup {None}
  BY DEF Inv, TypeOK, Acquire, Call, GiveUp, CloseStream, Respond, Leave
<1>4. /\ buf' \in [Requests -> Seq(Vocab)] /\ got' \in [Requests -> Seq(Vocab)]
      /\ reply' \in [Requests -> {"none", "text", "error", "done"}]
      /\ gone' \subseteq Requests
  <2>1. CASE Acquire(r) \/ Call(r) \/ GiveUp(r)
    BY <2>1 DEF Inv, TypeOK, Acquire, Call, GiveUp, requestVars, clientVars
  <2>2. CASE CloseStream(r)
    <3>1. got[r] \o buf[r] \in Seq(Vocab) /\ <<>> \in Seq(Vocab)
      BY Texts DEF Inv
    <3> QED
      BY <2>2, <3>1 DEF Inv, TypeOK, CloseStream
  <2>3. CASE Respond(r)
    <3>1. out[r] \in Seq(Vocab)
      BY Texts DEF Inv
    <3> QED
      BY <2>3, <3>1 DEF Inv, TypeOK, Respond
  <2>4. CASE Leave(r)
    BY <2>4 DEF Inv, TypeOK, Leave
  <2> QED
    BY <2>1, <2>2, <2>3, <2>4
<1>5. TypeOK'
  BY <1>1, <1>2, <1>3, <1>4 DEF Inv, TypeOK
<1>6. Values'
  BY <1>1 DEF Inv, Values
<1>7. Lengths'
  BY <1>1, <1>2, LengthsFrame DEF Inv, Lengths
<1> QED
  BY <1>5, <1>6, <1>7 DEF Inv

\* A request arrives.
LEMMA ArriveInv ==
  ASSUME Inv, NEW r \in Requests, Arrive(r)
  PROVE  Inv'
<1>1. TypeOK'
  BY DEF Inv, TypeOK, Arrive, bodyVars, callVars, textVars, workerVars, faultVars,
         Ended
<1>2. Values'
  BY DEF Inv, Values, Arrive, callVars, workerVars
<1>3. Lengthwise(r)'
  <2>1. /\ prompt' = prompt /\ budget' = budget /\ kind' = kind /\ hop' = hop
        /\ fed' = fed /\ out' = out
        /\ pc[r] = "new"
        /\ \/ pc'[r] = "lock" /\ Len(prompt[r]) < MaxSeq
           \/ pc'[r] = "refused"
    BY DEF Inv, TypeOK, Arrive, bodyVars, callVars, textVars
  <2>2. /\ Lengthwise(r) /\ kind[r] = "reset" /\ hop[r] = 1 /\ out[r] = <<>>
        /\ fed[r] = <<>>
    BY <2>1 DEF Inv, Lengths, Lengthwise
  <2>3. Room(r)' = Room(r)
    BY <2>1 DEF Room, Smaller
  <2>4. Len(out[r]) = 0
    BY <2>2
  <2>5. Len(prompt[r]) < MaxSeq => Len(out[r]) < Room(r)
    BY <2>4, RoomThere DEF Inv
  <2> QED
    BY <2>1, <2>2, <2>3, <2>5 DEF Lengthwise, Active
<1>4. ASSUME NEW q \in Requests, q # r PROVE Lengthwise(q)'
  BY <1>4, LengthsFrame
     DEF Inv, TypeOK, Lengths, Arrive, bodyVars, callVars, textVars
<1> QED
  BY <1>1, <1>2, <1>3, <1>4 DEF Inv, Lengths

\* The next worker, and the first token.
LEMMA HopInv ==
  ASSUME Inv, NEW r \in Requests, NextWorker(r) \/ BeginPrompt(r)
  PROVE  Inv'
<1>0. TokenAt(r, Pos(r)) \in Vocab
  BY TokenKnown, Texts DEF Inv, Pos
<1>1. /\ hop' \in [Requests -> Workers]
      /\ kind' \in [Requests -> {"reset", "forward"}]
      /\ val' \in [Requests -> Seq(Items)]
      /\ \A q \in Requests : kind'[q] = "forward" => val'[q] # <<>>
  <2>1. CASE NextWorker(r)
    <3>1. hop[r] \in 1 .. NWorkers /\ hop[r] < NWorkers /\ NWorkers \in Nat
      BY <2>1, ClusterAssumption DEF Inv, TypeOK, NextWorker, Workers
    <3>2. hop[r] + 1 \in Workers
      BY <3>1 DEF Workers
    <3> QED
      BY <2>1, <3>2 DEF Inv, TypeOK, Values, NextWorker, Items
  <2>2. CASE BeginPrompt(r)
    <3>1. 1 \in Workers
      BY ClusterAssumption DEF Workers
    <3>2. <<TokenAt(r, Pos(r))>> \in Seq(Items) /\ <<TokenAt(r, Pos(r))>> # <<>>
      BY <1>0 DEF Items
    <3> QED
      BY <2>2, <3>1, <3>2 DEF Inv, TypeOK, Values, BeginPrompt, Items
  <2> QED
    BY <2>1, <2>2
<1>2. TypeOK'
  BY <1>1 DEF Inv, TypeOK, NextWorker, BeginPrompt, requestVars, bodyVars,
              clientVars, textVars, workerVars, faultVars, Active, Items
<1>3. Values'
  BY <1>1 DEF Inv, Values, NextWorker, BeginPrompt, workerVars
<1>4. Lengthwise(r)'
  <2>1. /\ prompt' = prompt /\ budget' = budget /\ fed' = fed /\ out' = out
        /\ pc[r] = "replied" /\ pc'[r] = "call"
        /\ kind'[r] = kind[r] \/ kind'[r] = "forward"
    BY DEF Inv, TypeOK, NextWorker, BeginPrompt, requestVars, bodyVars, textVars
  <2>2. Lengthwise(r)
    BY DEF Inv, Lengths
  <2>3. Room(r)' = Room(r)
    BY <2>1 DEF Room, Smaller
  <2> QED
    BY <2>1, <2>2, <2>3 DEF Lengthwise, Active
<1>5. ASSUME NEW q \in Requests, q # r PROVE Lengthwise(q)'
  BY <1>5, LengthsFrame DEF Inv, TypeOK, Lengths, NextWorker, BeginPrompt,
                            requestVars, bodyVars, textVars
<1> QED
  BY <1>2, <1>3, <1>4, <1>5 DEF Inv, Lengths

\* A token of the prompt has passed.
LEMMA PrefillInv ==
  ASSUME Inv, NEW r \in Requests, Prefill(r)
  PROVE  Inv'
<1>0. /\ TokenAt(r, Pos(r)) \in Vocab /\ TokenAt(r, Pos(r) + 1) \in Vocab
      /\ 1 \in Workers
  BY TokenKnown, Texts, ClusterAssumption DEF Inv, Pos, Workers
<1>1. /\ Append(fed[r], TokenAt(r, Pos(r))) \in Seq(Vocab)
      /\ Len(Append(fed[r], TokenAt(r, Pos(r)))) = Len(fed[r]) + 1
      /\ <<TokenAt(r, Pos(r) + 1)>> \in Seq(Items)
      /\ <<TokenAt(r, Pos(r) + 1)>> # <<>>
  BY <1>0, Texts DEF Inv, Items
<1>2. TypeOK'
  BY <1>0, <1>1 DEF Inv, TypeOK, Prefill, requestVars, bodyVars, clientVars,
                    workerVars, faultVars, Active, Items
<1>3. Values'
  BY <1>1 DEF Inv, TypeOK, Values, Prefill, workerVars
<1>4. Lengthwise(r)'
  <2>1. /\ prompt' = prompt /\ budget' = budget /\ out' = out
        /\ fed'[r] = Append(fed[r], TokenAt(r, Pos(r)))
        /\ pc[r] = "replied" /\ pc'[r] = "call"
        /\ kind[r] = "forward" /\ kind'[r] = "forward"
        /\ Len(fed[r]) < Len(prompt[r])
    BY DEF Inv, TypeOK, Prefill, requestVars, bodyVars, Pos
  <2>2. Lengthwise(r)
    BY DEF Inv, Lengths
  <2>3. Room(r)' = Room(r)
    BY <2>1 DEF Room, Smaller
  <2>4. Len(fed'[r]) = Len(fed[r]) + 1 /\ Len(fed[r]) \in Nat
        /\ Len(prompt[r]) \in Nat /\ Len(out[r]) \in Nat
    BY <1>1, <2>1, Texts DEF Inv
  <2> DEFINE f == Len(fed[r])
             p == Len(prompt[r])
             o == Len(out[r])
  <2>5. /\ f \in Nat /\ p \in Nat /\ o \in Nat /\ f < p
        /\ out[r] = <<>> \/ f = p + o
        /\ Len(fed'[r]) = f + 1
    BY <2>1, <2>2, <2>4 DEF Lengthwise
  <2> HIDE DEF f, p, o
  <2>6. out[r] = <<>> /\ f + 1 <= p
    BY <2>5
  <2>7. out[r] = <<>> /\ Len(fed'[r]) <= Len(prompt[r])
    BY <2>5, <2>6 DEF p
  <2> QED
    BY <2>1, <2>2, <2>3, <2>7 DEF Lengthwise, Active
<1>5. ASSUME NEW q \in Requests, q # r PROVE Lengthwise(q)'
  BY <1>5, LengthsFrame DEF Inv, TypeOK, Lengths, Prefill, requestVars, bodyVars
<1> QED
  BY <1>2, <1>3, <1>4, <1>5 DEF Inv, Lengths

\* What sampling a token changes for its request.
LEMMA SampleEffect ==
  ASSUME Inv, NEW r \in Requests, NEW t \in Vocab, Sample(r, t)
  PROVE  /\ prompt' = prompt /\ budget' = budget /\ stream' = stream
         /\ pc[r] = "replied" /\ kind[r] = "forward" /\ kind' = kind
         /\ Len(fed[r]) = Len(prompt[r]) + Len(out[r])
         /\ TokenAt(r, Pos(r)) \in Vocab
         /\ fed' = [fed EXCEPT ![r] = Append(@, TokenAt(r, Pos(r)))]
         /\ out' = [out EXCEPT ![r] = Append(@, t)]
         /\ fed'[r] \in Seq(Vocab) /\ Len(fed'[r]) = Len(fed[r]) + 1
         /\ out'[r] \in Seq(Vocab) /\ Len(out'[r]) = Len(out[r]) + 1
         /\ out'[r] # <<>>
<1>1. /\ prompt' = prompt /\ budget' = budget /\ stream' = stream
      /\ pc[r] = "replied" /\ kind[r] = "forward" /\ kind' = kind
      /\ Len(fed[r]) >= Len(prompt[r])
      /\ fed' = [fed EXCEPT ![r] = Append(@, TokenAt(r, Pos(r)))]
      /\ out' = [out EXCEPT ![r] = Append(@, t)]
  BY DEF Sample, bodyVars, Pos
<1>2. TokenAt(r, Pos(r)) \in Vocab
  BY TokenKnown, Texts DEF Inv, Pos
<1>3. /\ fed'[r] \in Seq(Vocab) /\ Len(fed'[r]) = Len(fed[r]) + 1
      /\ out'[r] \in Seq(Vocab) /\ Len(out'[r]) = Len(out[r]) + 1
      /\ out'[r] # <<>>
  <2>1. fed[r] \in Seq(Vocab) /\ out[r] \in Seq(Vocab)
    BY Texts DEF Inv
  <2>2. /\ fed'[r] = Append(fed[r], TokenAt(r, Pos(r)))
        /\ out'[r] = Append(out[r], t)
    BY <1>1 DEF Inv, TypeOK
  <2> QED
    BY <1>2, <2>1, <2>2
<1>4. Len(fed[r]) = Len(prompt[r]) + Len(out[r])
  <2>1. CASE out[r] = <<>>
    <3>1. Len(fed[r]) <= Len(prompt[r]) /\ Len(out[r]) = 0
      BY <2>1 DEF Inv, Lengths, Lengthwise
    <3> QED
      BY <3>1, <1>1, Texts DEF Inv
  <2>2. CASE out[r] # <<>>
    BY <2>2 DEF Inv, Lengths, Lengthwise
  <2> QED
    BY <2>1, <2>2
<1> QED
  BY <1>1, <1>2, <1>3, <1>4

\* A token of the answer.
LEMMA SampleInv ==
  ASSUME Inv, NEW r \in Requests, NEW t \in Vocab, Sample(r, t)
  PROVE  Inv'
<1>1. /\ fed' \in [Requests -> Seq(Vocab)] /\ out' \in [Requests -> Seq(Vocab)]
  BY SampleEffect DEF Inv, TypeOK
<1>2. buf' \in [Requests -> Seq(Vocab)] /\ got' \in [Requests -> Seq(Vocab)]
  <2>1. /\ Append(buf[r], t) \in Seq(Vocab) /\ <<>> \in Seq(Vocab)
        /\ got[r] \o Append(buf[r], t) \in Seq(Vocab)
    <3>1. Append(buf[r], t) \in Seq(Vocab) /\ got[r] \in Seq(Vocab)
      BY Texts DEF Inv
    <3> QED
      BY <3>1
  <2>2. /\ buf' = [buf EXCEPT ![r] =
                     IF ~stream[r] \/ (Flushes(r, t) /\ r \notin gone) THEN <<>>
                     ELSE Append(buf[r], t)]
        /\ got' = [got EXCEPT ![r] =
                     IF Flushes(r, t) /\ r \notin gone THEN @ \o Append(buf[r], t)
                     ELSE @]
    BY DEF Sample, OnToken
  <2> QED
    BY <2>1, <2>2 DEF Inv, TypeOK
<1>3. /\ hop' \in [Requests -> Workers]
      /\ val' \in [Requests -> Seq(Items)] /\ val'[r] # <<>>
      /\ \A q \in Requests : val'[q] = val[q] \/ q = r
      /\ pc' \in [Requests -> {"new", "lock"} \cup Active \cup Ended]
      /\ genMutex' \in Requests \cup {None}
  <2>1. 1 \in Workers /\ <<t>> \in Seq(Items) /\ <<t>> # <<>>
    BY ClusterAssumption DEF Workers, Items
  <2>2. val[r] # <<>>
    BY SampleEffect DEF Inv, Values
  <2>3. \/ /\ pc' = [pc EXCEPT ![r] = "answered"] /\ genMutex' = None
           /\ UNCHANGED <<hop, val>>
        \/ /\ pc' = [pc EXCEPT ![r] = "call"] /\ hop' = [hop EXCEPT ![r] = 1]
           /\ val' = [val EXCEPT ![r] = <<t>>] /\ UNCHANGED genMutex
    BY DEF Sample
  <2>4. /\ pc \in [Requests -> {"new", "lock"} \cup Active \cup Ended]
        /\ hop \in [Requests -> Workers] /\ val \in [Requests -> Seq(Items)]
        /\ genMutex \in Requests \cup {None}
    BY DEF Inv, TypeOK, Items
  <2>5. CASE /\ pc' = [pc EXCEPT ![r] = "answered"] /\ genMutex' = None
             /\ UNCHANGED <<hop, val>>
    BY <2>2, <2>4, <2>5 DEF Ended
  <2>6. CASE /\ pc' = [pc EXCEPT ![r] = "call"] /\ hop' = [hop EXCEPT ![r] = 1]
             /\ val' = [val EXCEPT ![r] = <<t>>] /\ UNCHANGED genMutex
    BY <2>1, <2>4, <2>6 DEF Active
  <2> QED
    BY <2>3, <2>5, <2>6
<1>4. logits' \in [Requests -> Seq(Items)]
  BY DEF Inv, TypeOK, Sample, Items
<1>5. /\ prompt' = prompt /\ budget' = budget /\ stream' = stream
      /\ kind' = kind /\ reply' = reply /\ gone' = gone
      /\ worker' = worker /\ kv' = kv /\ wiped' = wiped
      /\ late' = late /\ damaged' = damaged
      /\ crashes' = crashes /\ timeouts' = timeouts
  BY DEF Sample, bodyVars, workerVars, faultVars
<1>6. TypeOK'
  BY <1>1, <1>2, <1>3, <1>4, <1>5 DEF Inv, TypeOK, Items
<1>7. Values'
  BY <1>3, <1>5 DEF Inv, Values
<1>8. Lengthwise(r)'
  <2> DEFINE f == Len(fed[r])
             p == Len(prompt[r])
             o == Len(out[r])
  <2>1. /\ f = p + o /\ Len(fed'[r]) = f + 1 /\ Len(out'[r]) = o + 1
        /\ f \in Nat /\ p \in Nat /\ o \in Nat
    BY SampleEffect, Texts DEF Inv
  <2> HIDE DEF f, p, o
  <2>2. Len(fed'[r]) = p + Len(out'[r])
    BY <2>1
  <2>3. Room(r)' = Room(r) /\ prompt'[r] = prompt[r]
    BY <1>5 DEF Room, Smaller
  <2>4. /\ pc'[r] = "answered" \/ (pc'[r] = "call" /\ Len(out'[r]) < Room(r))
        /\ pc[r] \in Active
    BY SampleEffect DEF Sample, Inv, TypeOK, Active
  <2>5. Len(prompt[r]) < MaxSeq
    BY <2>4 DEF Inv, Lengths, Lengthwise
  <2> QED
    BY <1>5, <2>2, <2>3, <2>4, <2>5, SampleEffect DEF Lengthwise, p, Active
<1>9. ASSUME NEW q \in Requests, q # r PROVE Lengthwise(q)'
  <2>1. /\ fed'[q] = fed[q] /\ out'[q] = out[q] /\ pc'[q] = pc[q]
        /\ hop'[q] = hop[q]
    BY <1>9, SampleEffect DEF Inv, TypeOK, Sample
  <2> QED
    BY <1>5, <2>1, LengthsFrame DEF Inv, Lengths
<1> QED
  BY <1>6, <1>7, <1>8, <1>9 DEF Inv, Lengths

\* A worker answers.
LEMMA ServeInv ==
  ASSUME Inv, NEW r \in Requests, Serve(r)
  PROVE  Inv'
<1>0. /\ pc[r] = "sent" /\ hop[r] \in Workers /\ val[r] \in Seq(Items)
      /\ kind[r] = "forward" => val[r] # <<>>
      /\ Pos(r) \in Slots
  BY InsideContext DEF Inv, TypeOK, Values, Lengths, Serve, WorkerReset,
                       WorkerForward, Items, Active
<1>1. /\ prompt' = prompt /\ budget' = budget /\ stream' = stream
      /\ kind' = kind /\ hop' = hop
      /\ fed' = fed /\ out' = out /\ logits' = logits
      /\ buf' = buf /\ got' = got /\ reply' = reply /\ gone' = gone
      /\ worker' = worker /\ late' = late /\ genMutex' = genMutex
      /\ crashes' = crashes /\ timeouts' = timeouts
  BY DEF Serve, WorkerReset, WorkerForward, requestVars, bodyVars, clientVars,
         callVars, textVars, workerVars, faultVars
<1>2. /\ pc' \in [Requests -> {"new", "lock"} \cup Active \cup Ended]
      /\ pc'[r] \in Active
      /\ \A q \in Requests : q # r => pc'[q] = pc[q]
      /\ wiped' \subseteq Workers /\ damaged' \subseteq Requests
  <2>1. pc' = [pc EXCEPT ![r] = "replied"] \/ pc' = [pc EXCEPT ![r] = "broken"]
    BY DEF Serve, WorkerReset, WorkerForward
  <2>2. wiped' \subseteq wiped /\ damaged' \subseteq damaged \cup {r}
    BY DEF Serve, WorkerReset, WorkerForward
  <2> QED
    BY <2>1, <2>2 DEF Inv, TypeOK, Active
<1>3. /\ kv' \in [Workers -> [Slots -> Seq(Items)]]
      /\ \A w \in Workers : \A i \in Slots : kv'[w][i] # <<>>
  <2>1. CASE WorkerReset(r)
    BY <1>0, <2>1, CacheType DEF WorkerReset, Inv
  <2>2. CASE WorkerForward(r) /\ worker[hop[r]] = "ready"
    <3>1. val[r] # <<>> /\ kv' = Appended(hop[r], Pos(r), val[r])
      BY <1>0, <2>2 DEF WorkerForward
    <3> QED
      BY <1>0, <3>1, CacheType DEF Inv
  <2>3. CASE WorkerForward(r) /\ worker[hop[r]] # "ready"
    BY <2>3 DEF WorkerForward, Inv, TypeOK, Values, Items
  <2> QED
    BY <2>1, <2>2, <2>3 DEF Serve
<1>4. /\ val' \in [Requests -> Seq(Items)]
      /\ \A q \in Requests : kind[q] = "forward" => val'[q] # <<>>
  <2>1. CASE WorkerReset(r)
    BY <2>1 DEF WorkerReset, callVars, Inv, TypeOK, Values, Items
  <2>2. CASE WorkerForward(r) /\ worker[hop[r]] = "ready"
    <3>1. /\ val[r] # <<>>
          /\ val' = [val EXCEPT ![r] = Forwarded(hop[r], Pos(r), val[r])]
      BY <1>0, <2>2 DEF WorkerForward
    <3>2. /\ Forwarded(hop[r], Pos(r), val[r]) \in Seq(Items)
          /\ Forwarded(hop[r], Pos(r), val[r]) # <<>>
      BY <1>0, <3>1, ForwardedType DEF Inv
    <3> QED
      BY <3>1, <3>2 DEF Inv, TypeOK, Values, Items
  <2>3. CASE WorkerForward(r) /\ worker[hop[r]] # "ready"
    BY <2>3 DEF WorkerForward, Inv, TypeOK, Values, Items
  <2> QED
    BY <2>1, <2>2, <2>3 DEF Serve
<1>5. TypeOK'
  BY <1>1, <1>2, <1>3, <1>4 DEF Inv, TypeOK, Items
<1>6. Values'
  BY <1>1, <1>3, <1>4 DEF Inv, Values
<1>7. ASSUME NEW q \in Requests PROVE Lengthwise(q)'
  BY <1>0, <1>1, <1>2, LengthsFrame DEF Inv, Lengths, Active
<1> QED
  BY <1>5, <1>6, <1>7 DEF Inv, Lengths

\* A call is given up, and one given up is executed.
LEMMA LateInv ==
  ASSUME Inv,
         \/ \E r \in Requests : Timeout(r)
         \/ \E c \in late : LateCall(c)
  PROVE  Inv'
<1>1. /\ prompt' = prompt /\ budget' = budget /\ stream' = stream
      /\ kind' = kind /\ hop' = hop /\ val' = val
      /\ fed' = fed /\ out' = out /\ logits' = logits
      /\ buf' = buf /\ got' = got /\ reply' = reply /\ gone' = gone
      /\ worker' = worker /\ wiped' = wiped /\ damaged' = damaged
      /\ genMutex' = genMutex /\ crashes' = crashes
  BY DEF Timeout, LateCall, requestVars, bodyVars, clientVars, callVars,
         textVars, workerVars, faultVars
<1>2. /\ pc' \in [Requests -> {"new", "lock"} \cup Active \cup Ended]
      /\ \A q \in Requests : pc'[q] = pc[q]
                             \/ (pc[q] \in Active /\ pc'[q] \in Active)
      /\ timeouts' \in Nat
  <2>1. ASSUME NEW r \in Requests, Timeout(r)
        PROVE  /\ pc' \in [Requests -> {"new", "lock"} \cup Active \cup Ended]
               /\ \A q \in Requests : pc'[q] = pc[q]
                                      \/ (pc[q] \in Active /\ pc'[q] \in Active)
               /\ timeouts' \in Nat
    BY <2>1 DEF Inv, TypeOK, Timeout, Active
  <2>2. ASSUME NEW c \in late, LateCall(c) PROVE pc' = pc /\ timeouts' = timeouts
    BY <2>2 DEF LateCall, faultVars
  <2> QED
    BY <2>1, <2>2 DEF Inv, TypeOK
<1>3. /\ late' \subseteq [worker : Workers, kind : {"reset", "forward"}, pos : Nat,
                          val : Seq(Items)]
      /\ \A c \in late' : c.kind = "forward" => c.val # <<>>
  <2>1. ASSUME NEW r \in Requests, Timeout(r)
        PROVE  /\ late' \subseteq [worker : Workers, kind : {"reset", "forward"},
                                   pos : Nat, val : Seq(Items)]
               /\ \A c \in late' : c.kind = "forward" => c.val # <<>>
    <3> DEFINE d == [worker |-> hop[r], kind |-> kind[r],
                     pos |-> Pos(r), val |-> val[r]]
    <3>1. Pos(r) \in Nat
      BY Texts DEF Inv, Pos
    <3>2. /\ d \in [worker : Workers, kind : {"reset", "forward"}, pos : Nat,
                    val : Seq(Items)]
          /\ d.kind = "forward" => d.val # <<>>
      BY <3>1 DEF Inv, TypeOK, Values, Items
    <3>3. late' = late \cup {d}
      BY <2>1 DEF Timeout
    <3> HIDE DEF d
    <3> QED
      BY <3>2, <3>3 DEF Inv, TypeOK, Values, Items
  <2>2. ASSUME NEW c \in late, LateCall(c) PROVE late' \subseteq late
    BY <2>2 DEF LateCall
  <2> QED
    BY <2>1, <2>2 DEF Inv, TypeOK, Values, Items
<1>4. /\ kv' \in [Workers -> [Slots -> Seq(Items)]]
      /\ \A w \in Workers : \A i \in Slots : kv'[w][i] # <<>>
  <2>1. ASSUME NEW r \in Requests, Timeout(r) PROVE kv' = kv
    BY <2>1 DEF Timeout, workerVars
  <2>2. ASSUME NEW c \in late, LateCall(c)
        PROVE  \/ kv' = kv \/ kv' = ResetCache(c.worker)
               \/ c.kind = "forward" /\ kv' = Appended(c.worker, c.pos, c.val)
    BY <2>2 DEF LateCall, Inv, TypeOK
  <2>3. ASSUME NEW c \in late
        PROVE  /\ c.worker \in Workers /\ c.val \in Seq(Items)
               /\ c.kind = "forward" => c.val # <<>>
    BY DEF Inv, TypeOK, Values, Items
  <2>4. /\ kv \in [Workers -> [Slots -> Seq(Items)]]
        /\ \A w \in Workers : \A i \in Slots : kv[w][i] # <<>>
    BY DEF Inv, TypeOK, Values, Items
  <2> QED
    <3>1. CASE \E r \in Requests : Timeout(r)
      BY <2>1, <2>4, <3>1
    <3>2. ASSUME NEW c \in late, LateCall(c)
          PROVE  /\ kv' \in [Workers -> [Slots -> Seq(Items)]]
                 /\ \A w \in Workers : \A i \in Slots : kv'[w][i] # <<>>
      <4>1. CASE kv' = kv
        BY <2>4, <4>1
      <4>2. CASE kv' = ResetCache(c.worker)
        BY <2>3, <4>2, CacheType DEF Inv
      <4>3. CASE c.kind = "forward" /\ kv' = Appended(c.worker, c.pos, c.val)
        <5>1. c.worker \in Workers /\ c.val \in Seq(Items) /\ c.val # <<>>
          BY <2>3, <4>3
        <5> QED
          BY <4>3, <5>1, CacheType DEF Inv
      <4> QED
        BY <2>2, <3>2, <4>1, <4>2, <4>3
    <3> QED
      BY <3>1, <3>2
<1>5. TypeOK'
  BY <1>1, <1>2, <1>3, <1>4 DEF Inv, TypeOK, Items
<1>6. Values'
  BY <1>1, <1>3, <1>4 DEF Inv, Values
<1>7. ASSUME NEW q \in Requests PROVE Lengthwise(q)'
  BY <1>1, <1>2, LengthsFrame DEF Inv, Lengths
<1> QED
  BY <1>5, <1>6, <1>7 DEF Inv, Lengths

\* A worker dies or starts again.
LEMMA CrashStepInv ==
  ASSUME Inv, NEW w \in Workers, Crash(w) \/ Restart(w)
  PROVE  Inv'
<1>1. /\ prompt' = prompt /\ budget' = budget /\ stream' = stream
      /\ kind' = kind /\ hop' = hop /\ val' = val
      /\ fed' = fed /\ out' = out /\ logits' = logits
      /\ buf' = buf /\ got' = got /\ reply' = reply /\ gone' = gone
      /\ genMutex' = genMutex /\ damaged' = damaged /\ timeouts' = timeouts
      /\ late' \subseteq late
      /\ kv' = kv \/ kv' = [kv EXCEPT ![w] = EmptyCache]
  BY DEF Crash, Restart, requestVars, bodyVars, clientVars, callVars,
         textVars, workerVars, faultVars
<1>2. /\ pc' \in [Requests -> {"new", "lock"} \cup Active \cup Ended]
      /\ \A q \in Requests : pc'[q] = pc[q]
                             \/ (pc[q] \in Active /\ pc'[q] \in Active)
      /\ worker' \in [Workers -> {"ready", "empty", "down"}]
      /\ wiped' \subseteq Workers /\ crashes' \in Nat
  <2>1. CASE Crash(w)
    <3>1. pc' = [r \in Requests |-> IF pc[r] = "sent" /\ hop[r] = w THEN "broken"
                                   ELSE pc[r]]
      BY <2>1 DEF Crash
    <3>2. /\ worker' = [worker EXCEPT ![w] = "down"] /\ wiped' = wiped \cup {w}
          /\ crashes' = crashes + 1
      BY <2>1 DEF Crash
    <3>3. pc \in [Requests -> {"new", "lock"} \cup Active \cup Ended]
      BY DEF Inv, TypeOK
    <3>4. \A q \in Requests : pc'[q] = pc[q]
                              \/ (pc[q] \in Active /\ pc'[q] \in Active)
      BY <3>1 DEF Active
    <3>5. pc' \in [Requests -> {"new", "lock"} \cup Active \cup Ended]
      BY <3>1, <3>3 DEF Active
    <3> QED
      BY <3>2, <3>4, <3>5 DEF Inv, TypeOK
  <2>2. CASE Restart(w)
    BY <2>2 DEF Inv, TypeOK, Restart, faultVars
  <2> QED
    BY <2>1, <2>2
<1>3. /\ kv' \in [Workers -> [Slots -> Seq(Items)]]
      /\ \A u \in Workers : \A i \in Slots : kv'[u][i] # <<>>
  <2>1. CASE kv' = kv
    BY <2>1 DEF Inv, TypeOK, Values, Items
  <2>2. CASE kv' = [kv EXCEPT ![w] = EmptyCache]
    BY <2>2, CacheType DEF Inv
  <2> QED
    BY <1>1, <2>1, <2>2
<1>4. TypeOK'
  BY <1>1, <1>2, <1>3 DEF Inv, TypeOK, Items
<1>5. Values'
  BY <1>1, <1>3 DEF Inv, Values
<1>6. ASSUME NEW q \in Requests PROVE Lengthwise(q)'
  BY <1>1, <1>2, LengthsFrame DEF Inv, Lengths
<1> QED
  BY <1>4, <1>5, <1>6 DEF Inv, Lengths

\* A step of the coordinator, of a worker or of the network.
LEMMA StepInv == Inv /\ [Next]_vars => Inv'
<1> SUFFICES ASSUME Inv, [Next]_vars PROVE Inv'
  OBVIOUS
<1>1. ASSUME NEW r \in Requests,
             Arrive(r) \/ Generate(r) \/ Leave(r) \/ Serve(r) \/ Timeout(r)
      PROVE  Inv'
  <2>1. CASE Arrive(r)
    BY <2>1, ArriveInv
  <2>2. CASE Generate(r)
    BY <2>2, PlainInv, HopInv, PrefillInv, SampleInv DEF Generate
  <2>3. CASE Leave(r)
    BY <2>3, PlainInv
  <2>4. CASE Serve(r)
    BY <2>4, ServeInv
  <2>5. CASE Timeout(r)
    BY <2>5, LateInv
  <2> QED
    BY <1>1, <2>1, <2>2, <2>3, <2>4, <2>5
<1>2. ASSUME NEW c \in late, LateCall(c) PROVE Inv'
  BY <1>2, LateInv
<1>3. ASSUME NEW w \in Workers, Crash(w) \/ Restart(w) PROVE Inv'
  BY <1>3, CrashStepInv
<1>4. CASE UNCHANGED vars
  <2>1. TypeOK'
    BY <1>4 DEF Inv, TypeOK, vars, requestVars, bodyVars, clientVars, callVars,
                textVars, workerVars, faultVars
  <2>2. Values'
    BY <1>4 DEF Inv, Values, vars, callVars, workerVars
  <2>3. ASSUME NEW q \in Requests PROVE Lengthwise(q)'
    BY <1>4, LengthsFrame DEF Inv, Lengths, vars, requestVars, bodyVars,
                              callVars, textVars
  <2> QED
    BY <2>1, <2>2, <2>3 DEF Inv, Lengths
<1> QED
  BY <1>1, <1>2, <1>3, <1>4 DEF Next, Finished

\* The inductive invariant.
LEMMA Invariant == Spec => []Inv
  BY InitInv, StepInv, PTL DEF Spec

\* Tokens, values, positions and workers stay what they are, and a position is
\* one of the KV cache, however the crashes and the late calls fall.
THEOREM ClusterTypes == Spec => []TypeOK
<1>1. Inv => TypeOK
  BY DEF Inv
<1> QED
  BY <1>1, Invariant, PTL

-----------------------------------------------------------------------------
(* What the clients get.                                                   *)

\* What a client has goes with where its request is.
Client(r) ==
    /\ r \in gone => stream[r]
    /\ reply[r] # "none" => pc[r] \in Ended
    /\ pc[r] = "refused" => got[r] = <<>>
    /\ pc[r] \in {"new", "lock"} => got[r] = <<>> /\ buf[r] = <<>>
    /\ ~stream[r] => buf[r] = <<>> /\ (reply[r] = "none" => got[r] = <<>>)
    /\ reply[r] = "text" => ~stream[r] /\ pc[r] = "answered"
    /\ reply[r] = "done" => stream[r]

ClientInv == \A r \in Requests : GetsText(r) /\ Client(r)

\* A text and nothing.
LEMMA Whole ==
  ASSUME NEW s \in Seq(Vocab)
  PROVE  s \o <<>> = s /\ IsPrefix(s, s) /\ IsPrefix(<<>>, s)
<1>1. Len(s) \in Nat /\ SubSeq(s, 1, Len(s)) = s /\ Len(<<>>) = 0
  OBVIOUS
<1>2. SubSeq(<<>>, 1, 0) = <<>> /\ SubSeq(s, 1, 0) = <<>>
  OBVIOUS
<1>3. s \o <<>> = s
  OBVIOUS
<1> QED
  BY <1>1, <1>2, <1>3 DEF IsPrefix

\* A text, and what follows it.
LEMMA Joined ==
  ASSUME NEW s \in Seq(Vocab), NEW b \in Seq(Vocab)
  PROVE  s \o b \in Seq(Vocab) /\ IsPrefix(s, s \o b)
<1>1. s \o b \in Seq(Vocab) /\ Len(s) \in Nat /\ Len(b) \in Nat
  OBVIOUS
<1>2. SubSeq(s \o b, 1, Len(s)) = s /\ SubSeq(s, 1, Len(s)) = s
  BY <1>1
<1> QED
  BY <1>1, <1>2 DEF IsPrefix

\* A text that grows by a token.
LEMMA Grown ==
  ASSUME NEW s \in Seq(Vocab), NEW b \in Seq(Vocab), NEW t \in Vocab
  PROVE  /\ s \o Append(b, t) = Append(s \o b, t)
         /\ IsPrefix(s, b) => IsPrefix(s, Append(b, t))
         /\ Append(b, t) \in Seq(Vocab) /\ Append(b, t) # <<>>
         /\ Last(Append(b, t)) = t
<1>1. Len(s) \in Nat /\ Len(b) \in Nat /\ s \o b \in Seq(Vocab)
  OBVIOUS
<1>2. s \o Append(b, t) = Append(s \o b, t)
  <2>1. Append(b, t) \in Seq(Vocab) /\ Append(s \o b, t) \in Seq(Vocab)
    BY <1>1
  <2>2. /\ Len(s \o Append(b, t)) = Len(s) + Len(b) + 1
        /\ Len(Append(s \o b, t)) = Len(s) + Len(b) + 1
    BY <1>1, <2>1
  <2>3. ASSUME NEW i \in 1 .. Len(s) + Len(b) + 1
        PROVE  (s \o Append(b, t))[i] = Append(s \o b, t)[i]
    BY <1>1, <2>1
  <2> QED
    BY <2>1, <2>2, <2>3
<1>3. IsPrefix(s, b) => IsPrefix(s, Append(b, t))
  <2> SUFFICES ASSUME IsPrefix(s, b) PROVE IsPrefix(s, Append(b, t))
    OBVIOUS
  <2>1. Len(s) <= Len(b) /\ SubSeq(s, 1, Len(s)) = SubSeq(b, 1, Len(s))
    BY DEF IsPrefix
  <2>2. SubSeq(Append(b, t), 1, Len(s)) = SubSeq(b, 1, Len(s))
    BY <1>1, <2>1
  <2>3. Len(Append(b, t)) = Len(b) + 1
    OBVIOUS
  <2> QED
    BY <1>1, <2>1, <2>2, <2>3 DEF IsPrefix
<1>4. Append(b, t) \in Seq(Vocab) /\ Append(b, t) # <<>>
  OBVIOUS
<1>5. Last(Append(b, t)) = t
  BY DEF Last
<1> QED
  BY <1>2, <1>3, <1>4, <1>5

\* A request a step leaves alone, but for where its generation is.
LEMMA ClientFrame ==
  ASSUME NEW q \in Requests, GetsText(q), Client(q),
         prompt' = prompt, budget' = budget, stream' = stream,
         out'[q] = out[q], got'[q] = got[q], buf'[q] = buf[q],
         reply'[q] = reply[q], q \in gone' <=> q \in gone,
         \/ pc'[q] = pc[q]
         \/ /\ pc[q] \in {"lock"} \cup Active
            /\ pc'[q] \in Active \cup {"failed"}
  PROVE  GetsText(q)' /\ Client(q)'
<1>1. Complete(q)' = Complete(q)
  BY DEF Complete, Room, Smaller
<1>2. GetsText(q)'
  BY <1>1 DEF GetsText, Active
<1>3. Client(q)'
  BY DEF Client, Active, Ended
<1> QED
  BY <1>2, <1>3

LEMMA InitClient == Init => ClientInv
<1> SUFFICES ASSUME Init, NEW r \in Requests PROVE GetsText(r) /\ Client(r)
  BY DEF ClientInv
<1>1. /\ pc[r] = "new" /\ got[r] = <<>> /\ out[r] = <<>> /\ buf[r] = <<>>
      /\ reply[r] = "none" /\ gone = {}
  BY DEF Init
<1>2. <<>> \in Seq(Vocab) /\ Eos \in Vocab /\ Len(<<>>) < Batch
  BY ClusterAssumption
<1>3. IsPrefix(got[r], out[r]) /\ got[r] \o buf[r] = out[r]
  BY <1>1, <1>2, Whole, Joined, Grown
<1> QED
  BY <1>1, <1>2, <1>3 DEF GetsText, Client

\* A token of the answer, for its client.
LEMMA SampleClient ==
  ASSUME Inv, ClientInv, NEW r \in Requests, NEW t \in Vocab, Sample(r, t)
  PROVE  ClientInv'
<1>1. /\ prompt' = prompt /\ budget' = budget /\ stream' = stream
      /\ reply' = reply /\ gone' = gone
      /\ pc[r] = "replied" /\ reply[r] = "none"
      /\ out'[r] = Append(out[r], t)
  BY SampleEffect DEF Sample, ClientInv, Client, Ended, Inv, TypeOK
<1>2. /\ out[r] \in Seq(Vocab) /\ got[r] \in Seq(Vocab) /\ buf[r] \in Seq(Vocab)
      /\ <<>> \in Seq(Vocab)
  BY Texts DEF Inv
<1>3. /\ buf'[r] = IF ~stream[r] \/ (Flushes(r, t) /\ r \notin gone) THEN <<>>
                   ELSE Append(buf[r], t)
      /\ got'[r] = IF Flushes(r, t) /\ r \notin gone
                   THEN got[r] \o Append(buf[r], t) ELSE got[r]
  BY DEF Sample, OnToken, Inv, TypeOK
<1>4. /\ IsPrefix(got'[r], out'[r])
      /\ stream[r] /\ r \notin gone =>
           out'[r] = got'[r] \o buf'[r] /\ Len(buf'[r]) < Batch
      /\ ~stream[r] => buf'[r] = <<>> /\ got'[r] = <<>>
  <2>0. Append(out[r], t) \in Seq(Vocab) /\ Len(<<>>) < Batch
    BY <1>2, ClusterAssumption
  <2>prefix. IsPrefix(got[r], out[r]) => IsPrefix(got[r], Append(out[r], t))
    BY <1>2, Grown
  <2>joined. got[r] \o Append(buf[r], t) = Append(got[r] \o buf[r], t)
    BY <1>2, Grown
  <2>1. CASE ~stream[r]
    <3>1. got'[r] = <<>> /\ buf'[r] = <<>>
      BY <1>1, <1>3, <2>1 DEF Flushes, ClientInv, Client
    <3> QED
      BY <1>1, <2>0, <2>1, <3>1, Whole, Joined, Grown
  <2>2. CASE stream[r] /\ r \in gone
    <3>1. got'[r] = got[r] /\ IsPrefix(got[r], out[r])
      BY <1>3, <2>2 DEF ClientInv, GetsText
    <3> QED
      BY <1>1, <2>prefix, <2>2, <3>1
  <2>3. CASE stream[r] /\ r \notin gone
    <3>1. /\ out[r] = got[r] \o buf[r]
          /\ out'[r] = got[r] \o Append(buf[r], t)
      BY <1>1, <2>joined, <2>3 DEF ClientInv, GetsText
    <3>2. CASE Flushes(r, t)
      <4>1. got'[r] = out'[r] /\ buf'[r] = <<>>
        BY <1>3, <2>3, <3>1, <3>2
      <4> QED
        BY <1>1, <2>0, <2>3, <4>1, Whole, Joined, Grown
    <3>3. CASE ~Flushes(r, t)
      <4>1. got'[r] = got[r] /\ buf'[r] = Append(buf[r], t)
        BY <1>3, <2>3, <3>3
      <4>2. Len(buf'[r]) = Len(buf[r]) + 1 /\ Len(buf[r]) \in Nat
            /\ buf'[r] \in Seq(Vocab)
        BY <1>2, <4>1
      <4>3. Len(buf'[r]) < Batch
        BY <2>3, <3>3, <4>2, ClusterAssumption DEF Flushes
      <4> QED
        BY <1>2, <2>3, <3>1, <4>1, <4>2, <4>3, Joined
    <3> QED
      BY <3>2, <3>3
  <2> QED
    BY <2>1, <2>2, <2>3
<1>5. \/ /\ pc'[r] = "answered"
         /\ t = Eos \/ Len(out'[r]) = Room(r) \/ r \in gone
      \/ pc'[r] = "call"
  BY DEF Sample, WriteFails, Inv, TypeOK
<1>6. Last(out'[r]) = t /\ Room(r)' = Room(r)
  BY <1>1, <1>2, Whole, Joined, Grown DEF Room, Smaller
<1>7. GetsText(r)' /\ Client(r)'
  <2>1. pc'[r] = "answered" /\ r \notin gone' => Complete(r)'
    BY <1>1, <1>5, <1>6 DEF Complete
  <2>2. GetsText(r)'
    BY <1>1, <1>4, <2>1 DEF GetsText
  <2>3. Client(r)'
    BY <1>1, <1>4, <1>5 DEF ClientInv, Client, Ended
  <2> QED
    BY <2>2, <2>3
<1>8. ASSUME NEW q \in Requests, q # r PROVE GetsText(q)' /\ Client(q)'
  <2>1. /\ out'[q] = out[q] /\ got'[q] = got[q] /\ buf'[q] = buf[q]
        /\ pc'[q] = pc[q]
    BY <1>8, SampleEffect DEF Sample, OnToken, Inv, TypeOK
  <2> QED
    BY <1>1, <2>1, ClientFrame DEF ClientInv
<1> QED
  BY <1>7, <1>8 DEF ClientInv

\* The end of a response.
LEMMA ReplyClient ==
  ASSUME Inv, ClientInv, NEW r \in Requests,
         Arrive(r) \/ CloseStream(r) \/ Respond(r) \/ Leave(r)
  PROVE  ClientInv'
<1>0. /\ prompt' = prompt /\ budget' = budget /\ stream' = stream
      /\ out' = out
      /\ out[r] \in Seq(Vocab) /\ got[r] \in Seq(Vocab) /\ buf[r] \in Seq(Vocab)
      /\ <<>> \in Seq(Vocab) /\ Eos \in Vocab /\ Len(<<>>) < Batch
      /\ Complete(r)' = Complete(r)
      /\ GetsText(r) /\ Client(r)
  <2>1. /\ prompt' = prompt /\ budget' = budget /\ stream' = stream
        /\ out' = out
    BY DEF Arrive, CloseStream, Respond, Leave, bodyVars, textVars
  <2>2. Complete(r)' = Complete(r)
    BY <2>1 DEF Complete, Room, Smaller
  <2>3. /\ out[r] \in Seq(Vocab) /\ got[r] \in Seq(Vocab)
        /\ buf[r] \in Seq(Vocab) /\ <<>> \in Seq(Vocab)
    BY Texts DEF Inv
  <2>4. Eos \in Vocab /\ Len(<<>>) < Batch
    BY ClusterAssumption
  <2>5. GetsText(r) /\ Client(r)
    BY DEF ClientInv
  <2> QED
    BY <2>1, <2>2, <2>3, <2>4, <2>5
<1>1. GetsText(r)' /\ Client(r)'
  <2>1. CASE Arrive(r)
    <3>1. /\ pc[r] = "new" /\ got' = got /\ buf' = buf /\ gone' = gone
          /\ \/ pc'[r] = "lock" /\ reply' = reply
             \/ pc'[r] = "refused" /\ reply'[r] = "error"
      BY <2>1 DEF Arrive, Inv, TypeOK
    <3>2. got[r] = <<>> /\ buf[r] = <<>> /\ reply[r] = "none"
      BY <1>0, <3>1 DEF Client, Ended, Inv, TypeOK
    <3> QED
      BY <1>0, <3>1, <3>2 DEF GetsText, Client, Ended
  <2>2. CASE CloseStream(r)
    <3>1. /\ stream[r] /\ pc' = pc /\ gone' = gone /\ pc[r] \in {"answered", "failed"}
          /\ got'[r] = IF r \in gone THEN got[r] ELSE got[r] \o buf[r]
          /\ buf'[r] = <<>> /\ reply'[r] = "done"
      BY <2>2 DEF CloseStream, Inv, TypeOK
    <3>2. r \notin gone => got'[r] = out[r]
      BY <1>0, <3>1 DEF GetsText
    <3>3. IsPrefix(got'[r], out[r])
      BY <1>0, <3>1, <3>2, Whole, Joined, Grown DEF GetsText
    <3>4. r \notin gone => out[r] = got'[r] \o buf'[r]
      BY <1>0, <3>1, <3>2, Whole, Joined, Grown
    <3> QED
      BY <1>0, <3>1, <3>3, <3>4 DEF GetsText, Client, Ended
  <2>3. CASE Respond(r)
    <3>1. /\ ~stream[r] /\ reply[r] = "none" /\ pc' = pc /\ gone' = gone /\ buf' = buf
          /\ \/ pc[r] = "answered" /\ got'[r] = out[r] /\ reply'[r] = "text"
             \/ pc[r] = "failed" /\ got'[r] = got[r] /\ reply'[r] = "error"
      BY <2>3 DEF Respond, Inv, TypeOK
    <3>2. r \notin gone /\ got[r] = <<>> /\ buf[r] = <<>>
      BY <1>0, <3>1 DEF Client
    <3>3. pc[r] = "answered" => Complete(r)
      BY <1>0, <3>2 DEF GetsText
    <3>4. IsPrefix(got'[r], out[r])
      BY <1>0, <3>1, Whole, Joined, Grown DEF GetsText
    <3> QED
      BY <1>0, <3>1, <3>2, <3>3, <3>4 DEF GetsText, Client, Ended
  <2>4. CASE Leave(r)
    <3>1. /\ stream[r] /\ r \in gone' /\ pc' = pc /\ got' = got /\ buf' = buf
          /\ reply' = reply
      BY <2>4 DEF Leave
    <3> QED
      BY <1>0, <3>1 DEF GetsText, Client
  <2> QED
    BY <2>1, <2>2, <2>3, <2>4
<1>2. ASSUME NEW q \in Requests, q # r PROVE GetsText(q)' /\ Client(q)'
  <2>1. /\ got'[q] = got[q] /\ buf'[q] = buf[q] /\ pc'[q] = pc[q]
        /\ reply'[q] = reply[q]
        /\ q \in gone' <=> q \in gone
    BY <1>2 DEF Arrive, CloseStream, Respond, Leave, Inv, TypeOK
  <2> QED
    BY <1>0, <2>1, ClientFrame DEF ClientInv
<1> QED
  BY <1>1, <1>2 DEF ClientInv

\* All other steps leave the clients alone.
LEMMA WalkClient ==
  ASSUME Inv, ClientInv,
         UNCHANGED <<prompt, budget, stream, out, got, buf, reply, gone>>,
         \A q \in Requests :
            \/ pc'[q] = pc[q]
            \/ /\ pc[q] \in {"lock"} \cup Active
               /\ pc'[q] \in Active \cup {"failed"}
  PROVE  ClientInv'
  BY ClientFrame DEF ClientInv

\* Those steps.
LEMMA WalkEffect ==
  ASSUME Inv,
         \/ \E r \in Requests :
               \/ Acquire(r) \/ Call(r) \/ NextWorker(r) \/ BeginPrompt(r)
               \/ Prefill(r) \/ GiveUp(r) \/ Serve(r) \/ Timeout(r)
         \/ \E c \in late : LateCall(c)
         \/ \E w \in Workers : Crash(w) \/ Restart(w)
         \/ UNCHANGED vars
  PROVE  /\ UNCHANGED <<prompt, budget, stream, out, got, buf, reply, gone, logits>>
         /\ \A q \in Requests :
               \/ pc'[q] = pc[q]
               \/ /\ pc[q] \in {"lock"} \cup Active
                  /\ pc'[q] \in Active \cup {"failed"}
<1>1. UNCHANGED <<prompt, budget, stream, out, got, buf, reply, gone, logits>>
  BY DEF Acquire, Call, NextWorker, BeginPrompt, Prefill, GiveUp, Serve,
         WorkerReset, WorkerForward, Timeout, LateCall, Crash, Restart, vars,
         requestVars, bodyVars, clientVars, textVars
<1>2. ASSUME NEW r \in Requests,
             \/ Acquire(r) \/ Call(r) \/ NextWorker(r) \/ BeginPrompt(r)
             \/ Prefill(r) \/ GiveUp(r) \/ Serve(r) \/ Timeout(r)
      PROVE  \A q \in Requests :
               \/ pc'[q] = pc[q]
               \/ /\ pc[q] \in {"lock"} \cup Active
                  /\ pc'[q] \in Active \cup {"failed"}
  <2>1. \E p \in Active \cup {"failed"} : pc' = [pc EXCEPT ![r] = p]
    BY <1>2 DEF Acquire, Call, NextWorker, BeginPrompt, Prefill, GiveUp, Serve,
                WorkerReset, WorkerForward, Timeout, Active
  <2>2. pc[r] \in {"lock"} \cup Active
    BY <1>2 DEF Acquire, Call, NextWorker, BeginPrompt, Prefill, GiveUp, Serve,
                WorkerReset, WorkerForward, Timeout, Active
  <2> QED
    BY <2>1, <2>2 DEF Inv, TypeOK
<1>3. ASSUME NEW w \in Workers, Crash(w)
      PROVE  \A q \in Requests :
               \/ pc'[q] = pc[q]
               \/ pc[q] \in Active /\ pc'[q] \in Active
  BY <1>3 DEF Crash, Active
<1>4. ASSUME \/ \E c \in late : LateCall(c)
             \/ \E w \in Workers : Restart(w)
             \/ UNCHANGED vars
      PROVE  pc' = pc
  BY <1>4 DEF LateCall, Restart, vars
<1> QED
  BY <1>1, <1>2, <1>3, <1>4

\* The parts of a step.
LEMMA Steps ==
  ASSUME [Next]_vars
  PROVE  \/ \E r \in Requests :
               \/ Arrive(r) \/ CloseStream(r) \/ Respond(r) \/ Leave(r)
         \/ \E r \in Requests : \E t \in Vocab : Sample(r, t)
         \/ \E r \in Requests :
               \/ Acquire(r) \/ Call(r) \/ NextWorker(r) \/ BeginPrompt(r)
               \/ Prefill(r) \/ GiveUp(r) \/ Serve(r) \/ Timeout(r)
         \/ \E c \in late : LateCall(c)
         \/ \E w \in Workers : Crash(w) \/ Restart(w)
         \/ UNCHANGED vars
  BY DEF Next, Generate, Finished

LEMMA StepClient == Inv /\ ClientInv /\ [Next]_vars => ClientInv'
<1> SUFFICES ASSUME Inv, ClientInv, [Next]_vars PROVE ClientInv'
  OBVIOUS
<1> QED
  BY Steps, ReplyClient, SampleClient, WalkEffect, WalkClient

\* A client that stays gets every token produced, once and in order, also when
\* a worker was lost on the way, and a text that was not cut short; any other
\* has the beginning of one, or nothing: the tokens a stream buffers are written
\* on every way out of generate.
THEOREM ClientsGetText == Spec => []ClientGetsText
<1>1. ClientInv => ClientGetsText
  BY DEF ClientInv, ClientGetsText
<1> QED
  BY <1>1, Invariant, InitClient, StepClient, PTL DEF Spec

-----------------------------------------------------------------------------
(* Workers that are started without a model stay without one.              *)

\* Workers that are ready have not crashed: their caches are of this run.
CrashInv ==
    /\ damaged = {}
    /\ \A w \in Workers : worker[w] = "ready" => w \notin wiped

LEMMA InitCrash == Init => CrashInv
  BY DEF Init, CrashInv

LEMMA StepCrash ==
  ASSUME ~Preloaded
  PROVE  Inv /\ CrashInv /\ [Next]_vars => CrashInv'
<1> SUFFICES ASSUME Inv, CrashInv, [Next]_vars PROVE CrashInv'
  OBVIOUS
<1>1. ASSUME damaged' = damaged, UNCHANGED <<worker, wiped>> PROVE CrashInv'
  BY <1>1 DEF CrashInv
<1>2. ASSUME NEW r \in Requests,
             \/ Arrive(r) \/ CloseStream(r) \/ Respond(r) \/ Leave(r)
             \/ \E t \in Vocab : Sample(r, t)
             \/ Acquire(r) \/ Call(r) \/ NextWorker(r) \/ BeginPrompt(r)
             \/ Prefill(r) \/ GiveUp(r) \/ Timeout(r)
      PROVE  CrashInv'
  BY <1>1, <1>2 DEF Arrive, CloseStream, Respond, Leave, Sample, Acquire, Call,
                    NextWorker, BeginPrompt, Prefill, GiveUp, Timeout, workerVars
<1>3. ASSUME NEW r \in Requests, Serve(r) PROVE CrashInv'
  <2>1. worker' = worker /\ wiped' \subseteq wiped
    BY <1>3 DEF Serve, WorkerReset, WorkerForward
  <2>2. damaged' = damaged
    BY <1>3 DEF Serve, WorkerReset, WorkerForward, CrashInv, Inv, TypeOK
  <2> QED
    BY <2>1, <2>2 DEF CrashInv
<1>4. ASSUME NEW c \in late, LateCall(c) PROVE CrashInv'
  BY <1>1, <1>4 DEF LateCall
<1>5. ASSUME NEW w \in Workers, Crash(w) \/ Restart(w) PROVE CrashInv'
  <2>1. /\ damaged' = damaged
        /\ \/ worker' = [worker EXCEPT ![w] = "down"] /\ wiped' = wiped \cup {w}
           \/ worker' = [worker EXCEPT ![w] = "empty"] /\ wiped' = wiped
    BY <1>5 DEF Crash, Restart
  <2> QED
    BY <2>1 DEF CrashInv, Inv, TypeOK
<1>6. CASE UNCHANGED vars
  BY <1>1, <1>6 DEF vars, workerVars
<1> QED
  BY <1>2, <1>3, <1>4, <1>5, <1>6, Steps

\* When workers are started without a model, one that died and came back answers
\* no call before it is given its shard again: a request that is not a stream
\* and used its cache, or lost a call, gets an error if it gets an answer.
THEOREM LostCacheIsNotUsed ==
  ASSUME ~Preloaded
  PROVE  Spec => []WorkerFailureAnswers502
<1>1. Inv /\ ClientInv /\ CrashInv => WorkerFailureAnswers502
  <2> SUFFICES ASSUME Inv, ClientInv, CrashInv, NEW r \in Requests, ~stream[r],
                      r \in damaged \/ pc[r] \in {"broken", "failed"}
               PROVE  reply[r] \in {"none", "error"}
    BY DEF WorkerFailureAnswers502
  <2>1. pc[r] \in {"broken", "failed"}
    BY DEF CrashInv
  <2>2. reply[r] \in {"none", "text", "error", "done"}
    BY DEF Inv, TypeOK
  <2>3. Client(r)
    BY DEF ClientInv
  <2> QED
    BY <2>1, <2>2, <2>3 DEF Client
<1> QED
  BY <1>1, Invariant, InitClient, StepClient, InitCrash, StepCrash, PTL DEF Spec

-----------------------------------------------------------------------------
(* What the caches hold.                                                   *)

\* A generation runs while its request holds the mutex, and no other does.
Mutex == \A r \in Requests : pc[r] \in Active <=> genMutex = r

\* The tokens fed with the one on its way, and the workers that have had it.
Token(r) == TokenAt(r, Pos(r))
Walked(r) == Append(fed[r], Token(r))
Passed(r) == IF pc[r] = "replied" THEN hop[r] ELSE hop[r] - 1

\* What slot i of worker w holds after the tokens s have been fed.
Slot(w, s, i) == IF w = 1 THEN <<s[i + 1]>> ELSE SubSeq(s, 1, i + 1)

\* The caches hold the tokens fed, and those of the workers passed the token
\* on its way as well.  What they hold after that does not matter.
Cached(r) ==
    /\ \A w \in Workers : worker[w] = "ready" =>
          \A i \in 0 .. Pos(r) - 1 : kv[w][i] = Slot(w, fed[r], i)
    /\ pc[r] # "broken" =>
          /\ \A w \in Workers : worker[w] = "ready" /\ w <= Passed(r) =>
                kv[w][Pos(r)] = Slot(w, Walked(r), Pos(r))
          /\ val[r] = IF Passed(r) = 0 THEN <<Token(r)>> ELSE Walked(r)

Walking(r) == pc[r] \in Active /\ kind[r] = "forward"

CacheInv ==
    /\ Mutex /\ late = {}
    /\ \A r \in Requests : Walking(r) => Cached(r)

\* The text with the token on its way.
LEMMA WalkedText ==
  ASSUME TypeOK, NEW r \in Requests
  PROVE  /\ Token(r) \in Vocab /\ fed[r] \in Seq(Vocab)
         /\ Pos(r) = Len(fed[r]) /\ Pos(r) \in Nat
         /\ Walked(r) \in Seq(Vocab) /\ Walked(r) # <<>>
         /\ Len(Walked(r)) = Pos(r) + 1
         /\ Walked(r)[Pos(r) + 1] = Token(r)
         /\ SubSeq(Walked(r), 1, Pos(r) + 1) = Walked(r)
         /\ \A w : \A i \in 0 .. Pos(r) - 1 : Slot(w, Walked(r), i) = Slot(w, fed[r], i)
<1> DEFINE s == fed[r]
           e == Token(r)
           n == Len(s)
<1>1. s \in Seq(Vocab) /\ n \in Nat /\ e \in Vocab
  BY Texts, TokenKnown DEF Token, Pos
<1> HIDE DEF s, e
<1>2. /\ Append(s, e) \in Seq(Vocab) /\ Append(s, e) # <<>>
      /\ Len(Append(s, e)) = n + 1 /\ Append(s, e)[n + 1] = e
      /\ \A j \in 1 .. n : Append(s, e)[j] = s[j]
  BY <1>1
<1>3. SubSeq(Append(s, e), 1, n + 1) = Append(s, e)
  BY <1>1, <1>2
<1>4. \A j \in 1 .. n : SubSeq(Append(s, e), 1, j) = SubSeq(s, 1, j)
  BY <1>1, <1>2
<1>5. ASSUME NEW w, NEW i \in 0 .. n - 1
      PROVE  Slot(w, Append(s, e), i) = Slot(w, s, i)
  <2>1. i + 1 \in 1 .. n
    BY <1>1
  <2> QED
    BY <2>1, <1>2, <1>4 DEF Slot
<1> QED
  BY <1>1, <1>2, <1>3, <1>5 DEF s, e, Walked, Pos

\* What a request's caches are to it does not change with other requests.
LEMMA CacheFrame ==
  ASSUME NEW r \in Requests, Walking(r) => Cached(r), Walking(r)' => Walking(r),
         UNCHANGED <<prompt, fed, out, val, kind>>,
         Passed(r)' = Passed(r), pc'[r] # "broken" => pc[r] # "broken",
         \A w \in Workers : worker'[w] = "ready" =>
            worker[w] = "ready" /\ kv'[w] = kv[w]
  PROVE  Walking(r)' => Cached(r)'
<1>1. /\ Pos(r)' = Pos(r) /\ Token(r)' = Token(r) /\ Walked(r)' = Walked(r)
  BY DEF Pos, Token, TokenAt, Walked
<1> QED
  BY <1>1 DEF Cached, Slot

\* Taking and giving back the mutex.
LEMMA StepMutex ==
  ASSUME Inv, Mutex, [Next]_vars
  PROVE  Mutex'
<1>0. None \notin Requests /\ pc \in [Requests -> {"new", "lock"} \cup Active \cup Ended]
  BY ClusterAssumption DEF Inv, TypeOK
<1>1. ASSUME genMutex' = genMutex,
             \A q \in Requests : pc'[q] \in Active <=> pc[q] \in Active
      PROVE  Mutex'
  BY <1>1 DEF Mutex
<1>2. ASSUME NEW r \in Requests,
             Arrive(r) \/ CloseStream(r) \/ Respond(r) \/ Leave(r)
      PROVE  Mutex'
  <2>1. /\ genMutex' = genMutex
        /\ \A q \in Requests : pc'[q] = pc[q]
                               \/ (pc[q] = "new" /\ pc'[q] \in {"lock", "refused"})
    BY <1>0, <1>2 DEF Arrive, CloseStream, Respond, Leave
  <2> QED
    BY <1>1, <2>1 DEF Active
<1>3. ASSUME NEW r \in Requests, NEW t \in Vocab, Sample(r, t) PROVE Mutex'
  <2>1. /\ pc[r] = "replied"
        /\ \/ pc' = [pc EXCEPT ![r] = "answered"] /\ genMutex' = None
           \/ pc' = [pc EXCEPT ![r] = "call"] /\ genMutex' = genMutex
    BY <1>3 DEF Sample
  <2>2. genMutex = r
    BY <2>1 DEF Mutex, Active
  <2> QED
    BY <1>0, <2>1, <2>2 DEF Mutex, Active
<1>4. ASSUME NEW r \in Requests, Acquire(r) PROVE Mutex'
  BY <1>0, <1>4 DEF Acquire, Mutex, Active
<1>5. ASSUME NEW r \in Requests, GiveUp(r) PROVE Mutex'
  <2>1. genMutex = r
    BY <1>5 DEF GiveUp, Mutex, Active
  <2> QED
    BY <1>0, <1>5, <2>1 DEF GiveUp, Mutex, Active
<1>6. ASSUME NEW r \in Requests,
             \/ Call(r) \/ NextWorker(r) \/ BeginPrompt(r) \/ Prefill(r)
             \/ Serve(r) \/ Timeout(r)
      PROVE  Mutex'
  <2>1. genMutex' = genMutex /\ pc[r] \in Active
    BY <1>6 DEF Call, NextWorker, BeginPrompt, Prefill, Serve, WorkerReset,
                WorkerForward, Timeout, Active
  <2>2. \E p \in Active : pc' = [pc EXCEPT ![r] = p]
    BY <1>6 DEF Call, NextWorker, BeginPrompt, Prefill, Serve, WorkerReset,
                WorkerForward, Timeout, Active
  <2>3. \A q \in Requests : pc'[q] = pc[q] \/ (q = r /\ pc'[q] \in Active)
    BY <1>0, <2>2
  <2> QED
    BY <1>1, <2>1, <2>3
<1>7. ASSUME NEW c \in late, LateCall(c) PROVE Mutex'
  BY <1>1, <1>7 DEF LateCall
<1>8. ASSUME NEW w \in Workers, Crash(w) \/ Restart(w) PROVE Mutex'
  <2>1. genMutex' = genMutex
    BY <1>8 DEF Crash, Restart
  <2>2. \A q \in Requests : pc'[q] = pc[q] \/ (pc[q] = "sent" /\ pc'[q] = "broken")
    BY <1>8 DEF Crash, Restart
  <2> QED
    BY <1>1, <2>1, <2>2 DEF Active
<1>9. CASE UNCHANGED vars
  BY <1>1, <1>9 DEF vars
<1> QED
  BY <1>2, <1>3, <1>4, <1>5, <1>6, <1>7, <1>8, <1>9, Steps

\* While a generation runs, the others wait or are over.
LEMMA OneWalks ==
  ASSUME Mutex, NEW r \in Requests, pc[r] \in Active,
         NEW q \in Requests, q # r
  PROVE  ~(pc[q] \in Active)
  BY DEF Mutex

\* A worker appends the value it was sent, and passes the text on.
LEMMA ForwardCache ==
  ASSUME Inv, CacheInv, NEW r \in Requests, WorkerForward(r),
         worker[hop[r]] = "ready"
  PROVE  Cached(r)'
<1> DEFINE w == hop[r]
           n == Pos(r)
           s == Walked(r)
<1>1. /\ pc[r] = "sent" /\ kind[r] = "forward" /\ w \in Workers
      /\ kv' = Appended(w, n, val[r])
      /\ val' = [val EXCEPT ![r] = Forwarded(w, n, val[r])]
      /\ pc' = [pc EXCEPT ![r] = "replied"]
      /\ UNCHANGED <<prompt, hop, fed, out, worker>>
  BY DEF WorkerForward, Inv, TypeOK, requestVars, bodyVars, textVars
<1>2. /\ n \in Slots /\ n \in Nat /\ n = Len(fed[r])
      /\ MaxSeq \in Nat /\ NWorkers \in Nat
  BY <1>1, InsideContext, ClusterAssumption DEF Inv, Lengths, Active
<1>3. /\ s \in Seq(Vocab) /\ Len(s) = n + 1 /\ SubSeq(s, 1, n + 1) = s
      /\ s[n + 1] = Token(r)
      /\ \A u : \A i \in 0 .. n - 1 : Slot(u, s, i) = Slot(u, fed[r], i)
  BY WalkedText DEF Inv
<1>4. /\ \A u \in Workers : worker[u] = "ready" =>
            \A i \in 0 .. n - 1 : kv[u][i] = Slot(u, fed[r], i)
      /\ \A u \in Workers : worker[u] = "ready" /\ u <= w - 1 =>
            kv[u][n] = Slot(u, s, n)
      /\ val[r] = IF w - 1 = 0 THEN <<Token(r)>> ELSE s
  BY <1>1 DEF CacheInv, Walking, Active, Cached, Passed
<1>5. val[r] = Slot(w, s, n)
  <2>1. w \in 1 .. NWorkers
    BY <1>1 DEF Workers
  <2>2. CASE w = 1
    BY <1>3, <1>4, <2>2 DEF Slot
  <2>3. CASE w # 1
    <3>1. w - 1 # 0
      BY <1>2, <2>1, <2>3
    <3> QED
      BY <1>3, <1>4, <2>3, <3>1 DEF Slot
  <2> QED
    BY <2>2, <2>3
<1>6. kv \in [Workers -> [Slots -> Seq(Items)]]
  BY DEF Inv, TypeOK, Items
<1>7. /\ kv'[w][n] = val[r]
      /\ \A i \in 0 .. n - 1 : kv'[w][i] = kv[w][i]
      /\ \A u \in Workers : u # w => kv'[u] = kv[u]
  <2>1. kv' = [kv EXCEPT ![w][n] = val[r]]
    BY <1>1, <1>2 DEF Appended
  <2>2. \A i \in 0 .. n - 1 : i \in Slots /\ i # n
    BY <1>2 DEF Slots
  <2> QED
    BY <1>1, <1>2, <1>6, <2>1, <2>2
<1>8. /\ Pos(r)' = n /\ Token(r)' = Token(r) /\ Walked(r)' = s
      /\ Passed(r)' = w /\ pc'[r] = "replied"
  BY <1>1 DEF Pos, Token, TokenAt, Walked, Passed, Inv, TypeOK
<1>9. Forwarded(w, n, val[r]) = s
  <2> DEFINE seen == [i \in 1 .. (n + 1) |-> IF i = n + 1 THEN val[r]
                                             ELSE kv[w][i - 1]]
  <2>1. \A i \in 1 .. (n + 1) : seen[i] = Slot(w, s, i - 1)
    <3> SUFFICES ASSUME NEW i \in 1 .. (n + 1) PROVE seen[i] = Slot(w, s, i - 1)
      OBVIOUS
    <3>1. CASE i = n + 1
      <4>1. i - 1 = n
        BY <1>2, <3>1
      <4> QED
        BY <1>5, <3>1, <4>1
    <3>2. CASE i # n + 1
      <4>1. i - 1 \in 0 .. n - 1
        BY <1>2, <3>2
      <4>2. kv[w][i - 1] = Slot(w, fed[r], i - 1)
        BY <1>1, <1>4, <4>1
      <4>3. Slot(w, fed[r], i - 1) = Slot(w, s, i - 1)
        BY <1>3, <4>1
      <4> QED
        BY <3>2, <4>2, <4>3
    <3> QED
      BY <3>1, <3>2
  <2>2. CASE w = 1
    <3>1. Forwarded(w, n, val[r]) = [i \in 1 .. (n + 1) |-> seen[i][1]]
      BY <2>2 DEF Forwarded
    <3> HIDE DEF seen, s, n
    <3>2. \A i \in 1 .. (n + 1) : seen[i][1] = s[i]
      <4> SUFFICES ASSUME NEW i \in 1 .. (n + 1) PROVE seen[i][1] = s[i]
        OBVIOUS
      <4>1. seen[i] = <<s[i - 1 + 1]>> /\ i - 1 + 1 = i
        BY <1>2, <2>1, <2>2 DEF Slot
      <4> QED
        BY <4>1
    <3>3. [i \in 1 .. (n + 1) |-> seen[i][1]] = [i \in 1 .. (n + 1) |-> s[i]]
      BY <3>2
    <3>4. [i \in 1 .. (n + 1) |-> s[i]] = s
      BY <1>3
    <3> QED
      BY <3>1, <3>3, <3>4
  <2>3. CASE w # 1
    <3>1. val[r] = s
      BY <1>3, <1>5, <2>3 DEF Slot
    <3>2. \A i \in 1 .. (n + 1) : seen[i] = SubSeq(s, 1, i)
      <4> SUFFICES ASSUME NEW i \in 1 .. (n + 1) PROVE seen[i] = SubSeq(s, 1, i)
        OBVIOUS
      <4> HIDE DEF seen, s, n
      <4>1. seen[i] = SubSeq(s, 1, i - 1 + 1) /\ i - 1 + 1 = i
        BY <1>2, <2>1, <2>3 DEF Slot
      <4> QED
        BY <4>1
    <3> QED
      BY <2>3, <3>1, <3>2 DEF Forwarded
  <2> QED
    BY <2>2, <2>3
<1>10. val'[r] = s
  BY <1>1, <1>9 DEF Inv, TypeOK
<1>11. ASSUME NEW u \in Workers, worker'[u] = "ready"
       PROVE  /\ \A i \in 0 .. n - 1 : kv'[u][i] = Slot(u, fed'[r], i)
              /\ u <= w => kv'[u][n] = Slot(u, s, n)
  <2>1. worker[u] = "ready" /\ fed' = fed
    BY <1>1, <1>11
  <2>2. CASE u = w
    BY <1>4, <1>5, <1>7, <2>1, <2>2
  <2>3. CASE u # w
    <3>1. u <= w => u <= w - 1
      <4>1. u \in 1 .. NWorkers /\ w \in 1 .. NWorkers
        BY <1>1 DEF Workers
      <4> HIDE DEF w
      <4> QED
        BY <1>2, <2>3, <4>1
    <3>2. kv'[u] = kv[u]
      BY <1>7, <2>3
    <3> QED
      BY <1>4, <2>1, <3>1, <3>2
  <2> QED
    BY <2>2, <2>3
<1>12. w # 0
  BY <1>1 DEF Workers
<1>13. /\ \A u \in Workers : worker'[u] = "ready" =>
             \A i \in 0 .. n - 1 : kv'[u][i] = Slot(u, fed'[r], i)
       /\ \A u \in Workers : worker'[u] = "ready" /\ u <= w =>
             kv'[u][n] = Slot(u, s, n)
       /\ val'[r] = IF w = 0 THEN <<Token(r)>> ELSE s
  BY <1>10, <1>11, <1>12
<1> HIDE DEF w, n, s
<1> QED
  BY <1>8, <1>13 DEF Cached, Slot

\* The next token: what was on its way is part of the text.
LEMMA NextTokenCache ==
  ASSUME Inv, CacheInv, NEW r \in Requests,
         pc[r] = "replied", kind[r] = "forward", hop[r] = NWorkers,
         fed'[r] = Walked(r), UNCHANGED <<worker, kv>>,
         pc'[r] = "call", hop'[r] = 1, val'[r] = <<Token(r)'>>
  PROVE  Cached(r)'
<1> DEFINE n == Pos(r)
           s == Walked(r)
<1>1. /\ n \in Nat /\ Len(s) = n + 1
      /\ \A u : \A i \in 0 .. n - 1 : Slot(u, s, i) = Slot(u, fed[r], i)
  BY WalkedText DEF Inv
<1>2. /\ \A u \in Workers : worker[u] = "ready" =>
            \A i \in 0 .. n - 1 : kv[u][i] = Slot(u, fed[r], i)
      /\ \A u \in Workers : worker[u] = "ready" /\ u <= NWorkers =>
            kv[u][n] = Slot(u, s, n)
  BY DEF CacheInv, Walking, Active, Cached, Passed
<1>3. \A u \in Workers : u <= NWorkers
  BY ClusterAssumption DEF Workers
<1>4. Pos(r)' = n + 1 /\ Passed(r)' = 0
  BY <1>1 DEF Pos, Passed
<1>5. \A u \in Workers : worker[u] = "ready" =>
         \A i \in 0 .. n : kv[u][i] = Slot(u, s, i)
  <2> SUFFICES ASSUME NEW u \in Workers, worker[u] = "ready", NEW i \in 0 .. n
               PROVE  kv[u][i] = Slot(u, s, i)
    OBVIOUS
  <2>1. CASE i = n
    BY <1>2, <1>3, <2>1
  <2>2. CASE i # n
    <3>1. i \in 0 .. n - 1
      BY <1>1, <2>2
    <3> QED
      BY <1>1, <1>2, <3>1
  <2> QED
    BY <2>1, <2>2
<1>6. (n + 1) - 1 = n
  BY <1>1
<1>7. \A u \in Workers : worker'[u] = "ready" =>
         \A i \in 0 .. Pos(r)' - 1 : kv'[u][i] = Slot(u, fed'[r], i)
  BY <1>4, <1>5, <1>6
<1>8. \A u \in Workers : ~(u <= Passed(r)')
  BY <1>4, ClusterAssumption DEF Workers
<1> HIDE DEF n, s
<1> QED
  BY <1>4, <1>7, <1>8 DEF Cached, Slot

\* The first token of the prompt.
LEMMA BeginCache ==
  ASSUME Inv, NEW r \in Requests, BeginPrompt(r)
  PROVE  Cached(r)'
<1>1. /\ fed[r] = <<>> /\ fed' = fed /\ out' = out /\ prompt' = prompt
      /\ pc'[r] = "call" /\ hop'[r] = 1 /\ val'[r] = <<Token(r)>>
  BY DEF BeginPrompt, Inv, TypeOK, Lengths, Lengthwise, requestVars, bodyVars,
         textVars, Token
<1>2. Pos(r)' = 0 /\ Token(r)' = Token(r) /\ Passed(r)' = 0
  BY <1>1 DEF Pos, Token, TokenAt, Passed
<1>3. \A u \in Workers : ~(u <= 0)
  BY ClusterAssumption DEF Workers
<1> QED
  BY <1>1, <1>2, <1>3 DEF Cached

LEMMA InitCache == Init => CacheInv
<1> SUFFICES ASSUME Init PROVE CacheInv
  OBVIOUS
<1>1. \A r \in Requests : pc[r] = "new" /\ genMutex # r
  BY ClusterAssumption DEF Init
<1> QED
  BY <1>1 DEF Init, CacheInv, Mutex, Walking, Active

\* Without expired time-outs no call is late, and without a model in a worker
\* that was started again its cache is not used.
LEMMA StepCache ==
  ASSUME ~Preloaded, MaxTimeouts = 0
  PROVE  Inv /\ CacheInv /\ [Next]_vars => CacheInv'
<1> SUFFICES ASSUME Inv, CacheInv, [Next]_vars PROVE CacheInv'
  OBVIOUS
<1>0. Mutex' /\ pc \in [Requests -> {"new", "lock"} \cup Active \cup Ended]
  BY StepMutex DEF CacheInv, Inv, TypeOK
<1>same. ASSUME late' = {},
             \A q \in Requests : /\ Walking(q)' => Walking(q)
                                 /\ Passed(q)' = Passed(q)
                                 /\ pc'[q] # "broken" => pc[q] # "broken",
             UNCHANGED <<prompt, fed, out, val, kind>>,
             \A w \in Workers : worker'[w] = "ready" =>
                worker[w] = "ready" /\ kv'[w] = kv[w]
      PROVE  CacheInv'
  BY <1>0, <1>same, CacheFrame DEF CacheInv
<1>one. ASSUME NEW r \in Requests, pc[r] \in Active, late' = {},
             \A q \in Requests : q # r => pc'[q] = pc[q],
             Walking(r)' => Cached(r)'
      PROVE  CacheInv'
  <2>1. ASSUME NEW q \in Requests, q # r PROVE ~Walking(q)'
    BY <1>one, <2>1, OneWalks DEF CacheInv, Walking
  <2> QED
    BY <1>0, <1>one, <2>1 DEF CacheInv
<1>1. ASSUME NEW r \in Requests,
             Arrive(r) \/ CloseStream(r) \/ Respond(r) \/ Leave(r)
      PROVE  CacheInv'
  <2>1. /\ late' = {} /\ UNCHANGED <<prompt, fed, out, val, kind, worker, kv, hop>>
        /\ pc' = pc \/ (pc[r] = "new" /\ \E p \in {"lock", "refused"} :
                                            pc' = [pc EXCEPT ![r] = p])
    BY <1>1 DEF Arrive, CloseStream, Respond, Leave, bodyVars, textVars, callVars,
                workerVars, CacheInv
  <2>2. \A q \in Requests :
           pc'[q] = pc[q] \/ (pc[q] = "new" /\ pc'[q] \in {"lock", "refused"})
    BY <1>0, <2>1
  <2>3. \A q \in Requests : /\ Walking(q)' => Walking(q)
                            /\ Passed(q)' = Passed(q)
                            /\ pc'[q] # "broken" => pc[q] # "broken"
    BY <2>1, <2>2 DEF Walking, Passed, Active
  <2> QED
    BY <1>same, <2>1, <2>3
<1>2. ASSUME NEW r \in Requests, NEW t \in Vocab, Sample(r, t) PROVE CacheInv'
  <2>1. /\ pc[r] = "replied" /\ kind[r] = "forward" /\ hop[r] = NWorkers
        /\ late' = {} /\ UNCHANGED <<prompt, worker, kv>>
        /\ fed'[r] = Walked(r) /\ out'[r] = Append(out[r], t)
        /\ Len(fed'[r]) = Len(fed[r]) + 1 /\ Len(fed[r]) >= Len(prompt[r])
        /\ out'[r] # <<>>
    BY <1>2, SampleEffect DEF Sample, Inv, TypeOK, CacheInv, workerVars, Walked,
                              Token, Pos
  <2>2. /\ \A q \in Requests : q # r => pc'[q] = pc[q]
        /\ \/ pc'[r] = "answered"
           \/ pc'[r] = "call" /\ hop'[r] = 1 /\ val'[r] = <<t>>
    BY <1>2 DEF Sample, Inv, TypeOK
  <2>3. Token(r)' = t
    <3>1. Last(out'[r]) = t
      BY <2>1, Texts, Grown DEF Inv
    <3>2. ~(Len(fed'[r]) < Len(prompt'[r]))
      <4> DEFINE f == Len(fed[r])
                 p == Len(prompt[r])
      <4>1. f \in Nat /\ p \in Nat /\ f >= p /\ Len(fed'[r]) = f + 1
            /\ prompt'[r] = prompt[r]
        BY <2>1, Texts DEF Inv
      <4> HIDE DEF f, p
      <4>2. ~(f + 1 < p)
        BY <4>1
      <4> QED
        BY <4>1, <4>2 DEF p
    <3> QED
      BY <2>1, <3>1, <3>2 DEF Token, TokenAt, Pos
  <2>4. Walking(r)' => Cached(r)'
    <3>1. CASE pc'[r] = "answered"
      BY <3>1 DEF Walking, Active
    <3>2. CASE pc'[r] = "call" /\ hop'[r] = 1 /\ val'[r] = <<t>>
      BY <2>1, <2>3, <3>2, NextTokenCache
    <3> QED
      BY <2>2, <3>1, <3>2
  <2>5. pc[r] \in Active
    BY <2>1 DEF Active
  <2> QED
    BY <1>one, <2>1, <2>2, <2>4, <2>5
<1>3. ASSUME NEW r \in Requests, Prefill(r) PROVE CacheInv'
  <2>1. /\ pc[r] = "replied" /\ kind[r] = "forward" /\ hop[r] = NWorkers
        /\ late' = {} /\ UNCHANGED <<prompt, out, worker, kv>>
        /\ fed'[r] = Walked(r) /\ pc'[r] = "call" /\ hop'[r] = 1
        /\ val'[r] = <<TokenAt(r, Pos(r) + 1)>>
        /\ \A q \in Requests : q # r => pc'[q] = pc[q]
    BY <1>3 DEF Prefill, Inv, TypeOK, CacheInv, requestVars, bodyVars, workerVars,
                Walked, Token
  <2>2. Pos(r)' = Pos(r) + 1
    BY <2>1, WalkedText DEF Pos, Inv
  <2>3. Token(r)' = TokenAt(r, Pos(r) + 1)
    BY <2>1, <2>2 DEF Token, TokenAt
  <2>4. Cached(r)' /\ pc[r] \in Active
    BY <2>1, <2>3, NextTokenCache DEF Active
  <2> QED
    BY <1>one, <2>1, <2>4
<1>4. ASSUME NEW r \in Requests, BeginPrompt(r) PROVE CacheInv'
  <2>1. /\ pc[r] \in Active /\ late' = {}
        /\ \A q \in Requests : q # r => pc'[q] = pc[q]
    BY <1>4 DEF BeginPrompt, Inv, TypeOK, CacheInv, Active
  <2> QED
    BY <1>4, <1>one, <2>1, BeginCache
<1>5. ASSUME NEW r \in Requests, WorkerForward(r), worker[hop[r]] = "ready"
      PROVE  CacheInv'
  <2>1. /\ pc[r] \in Active /\ late' = {}
        /\ \A q \in Requests : q # r => pc'[q] = pc[q]
    BY <1>5 DEF WorkerForward, Inv, TypeOK, CacheInv, Active
  <2> QED
    BY <1>5, <1>one, <2>1, ForwardCache
<1>6. ASSUME NEW r \in Requests, Acquire(r) PROVE CacheInv'
  <2>1. /\ late' = {} /\ UNCHANGED <<prompt, fed, out, val, kind, worker, kv, hop>>
        /\ pc[r] = "lock" /\ pc' = [pc EXCEPT ![r] = "call"] /\ kind[r] = "reset"
    BY <1>6 DEF Acquire, CacheInv, requestVars, bodyVars, textVars, callVars,
                workerVars, Inv, Lengths, Lengthwise
  <2>2. \A q \in Requests : pc'[q] = pc[q] \/ (q = r /\ pc[q] = "lock"
                                               /\ pc'[q] = "call")
    BY <1>0, <2>1
  <2>3. \A q \in Requests : /\ Walking(q)' => Walking(q)
                            /\ Passed(q)' = Passed(q)
                            /\ pc'[q] # "broken" => pc[q] # "broken"
    BY <2>1, <2>2 DEF Walking, Passed
  <2> QED
    BY <1>same, <2>1, <2>3
<1>7. ASSUME NEW r \in Requests,
             Call(r) \/ GiveUp(r)
                \/ (WorkerForward(r) /\ worker[hop[r]] # "ready")
      PROVE  CacheInv'
  <2>1. /\ late' = {} /\ UNCHANGED <<prompt, fed, out, val, kind, worker, kv, hop>>
        /\ \/ pc[r] \in {"call", "sent"} /\ pc' = [pc EXCEPT ![r] = "broken"]
           \/ pc[r] = "call" /\ pc' = [pc EXCEPT ![r] = "sent"]
           \/ pc[r] = "broken" /\ pc' = [pc EXCEPT ![r] = "failed"]
    BY <1>7 DEF Call, GiveUp, WorkerForward, CacheInv, requestVars, bodyVars,
                textVars, callVars, workerVars
  <2>2. pc[r] \in Active /\ \A q \in Requests : q # r => pc'[q] = pc[q]
    BY <1>0, <2>1 DEF Active
  <2>3. Walking(r)' => Cached(r)'
    <3>1. CASE pc'[r] = "failed"
      BY <3>1 DEF Walking, Active
    <3>2. CASE pc'[r] # "failed"
      <4>1. /\ pc[r] \in {"call", "sent"} /\ pc'[r] \in {"sent", "broken"}
        BY <1>0, <2>1, <3>2
      <4>2. /\ Walking(r)' => Walking(r) /\ Passed(r)' = Passed(r)
            /\ pc'[r] # "broken" => pc[r] # "broken"
        BY <2>1, <4>1 DEF Walking, Passed, Active
      <4> QED
        BY <2>1, <4>2, CacheFrame DEF CacheInv
    <3> QED
      BY <3>1, <3>2
  <2> QED
    BY <1>one, <2>1, <2>2, <2>3
<1>8. ASSUME NEW r \in Requests, NextWorker(r) PROVE CacheInv'
  <2>1. /\ late' = {} /\ UNCHANGED <<prompt, fed, out, val, kind, worker, kv>>
        /\ pc[r] = "replied" /\ pc' = [pc EXCEPT ![r] = "call"]
        /\ hop' = [hop EXCEPT ![r] = @ + 1]
    BY <1>8 DEF NextWorker, CacheInv, requestVars, bodyVars, textVars, workerVars
  <2>2. /\ pc[r] \in Active /\ \A q \in Requests : q # r => pc'[q] = pc[q]
        /\ pc'[r] = "call" /\ hop'[r] = hop[r] + 1
    BY <1>0, <2>1 DEF Active, Inv, TypeOK
  <2>3. Passed(r)' = Passed(r)
    <3>1. hop[r] \in 1 .. NWorkers
      BY DEF Inv, TypeOK, Workers
    <3>2. (hop[r] + 1) - 1 = hop[r]
      BY <3>1
    <3> QED
      BY <2>1, <2>2, <3>2 DEF Passed
  <2>4. Walking(r)' => Cached(r)'
    BY <2>1, <2>2, <2>3, CacheFrame DEF CacheInv, Walking
  <2> QED
    BY <1>one, <2>1, <2>2, <2>4
<1>9. ASSUME NEW r \in Requests, WorkerReset(r) PROVE CacheInv'
  <2>1. /\ late' = {} /\ pc[r] \in Active /\ kind'[r] = "reset"
        /\ \A q \in Requests : q # r => pc'[q] = pc[q]
    BY <1>9 DEF WorkerReset, CacheInv, callVars, Active, Inv, TypeOK
  <2>2. ~Walking(r)'
    BY <2>1 DEF Walking
  <2> QED
    BY <1>one, <2>1, <2>2
<1>10. ASSUME NEW r \in Requests PROVE ~Timeout(r)
  BY DEF Timeout, Inv, TypeOK
<1>11. ASSUME NEW c \in late PROVE FALSE
  BY DEF CacheInv
<1>12. ASSUME NEW w \in Workers, Crash(w) \/ Restart(w) PROVE CacheInv'
  <2>1. late' = {} /\ UNCHANGED <<prompt, fed, out, val, kind, hop>>
    BY <1>12 DEF Crash, Restart, CacheInv, requestVars, bodyVars, textVars, callVars
  <2>2. \A q \in Requests : pc'[q] = pc[q] \/ (pc[q] = "sent" /\ pc'[q] = "broken")
    BY <1>12 DEF Crash, Restart
  <2>3. \A u \in Workers : worker'[u] = "ready" =>
           worker[u] = "ready" /\ kv'[u] = kv[u]
    <3>1. CASE Crash(w)
      BY <3>1 DEF Crash, Inv, TypeOK
    <3>2. CASE Restart(w)
      BY <3>2 DEF Restart, Inv, TypeOK
    <3> QED
      BY <1>12, <3>1, <3>2
  <2>4. \A q \in Requests : /\ Walking(q)' => Walking(q)
                            /\ Passed(q)' = Passed(q)
                            /\ pc'[q] # "broken" => pc[q] # "broken"
    BY <2>1, <2>2 DEF Walking, Passed, Active
  <2> QED
    BY <1>same, <2>1, <2>3, <2>4
<1>13. CASE UNCHANGED vars
  <2>1. /\ late' = {}
        /\ UNCHANGED <<prompt, fed, out, val, kind, worker, kv, hop, pc>>
    BY <1>13 DEF vars, requestVars, bodyVars, textVars, callVars, workerVars, CacheInv
  <2> QED
    BY <1>same, <2>1 DEF Walking, Passed
<1> QED
  BY <1>1, <1>2, <1>3, <1>4, <1>5, <1>6, <1>7, <1>8, <1>9, <1>10, <1>11, <1>12,
     <1>13, Steps DEF Serve

-----------------------------------------------------------------------------
(* The refinement of Decoder.                                              *)

\* What a value of pc is to Decoder.
Seen(p) == CASE p \in {"new", "lock"} -> "waiting"
             [] p \in Active          -> "running"
             [] OTHER                 -> p

\* Decoder's state is that of pc, and follows it.
LEMMA SeenState ==
  /\ state = [r \in Requests |-> Seen(pc[r])]
  /\ state' = [r \in Requests |-> Seen(pc'[r])]
<1>1. state = [r \in Requests |-> Seen(pc[r])]
  BY DEF state, Seen
<1>2. state' = [r \in Requests |-> Seen(pc'[r])]
  BY DEF state, Seen
<1> QED
  BY <1>1, <1>2

\* A step of pc is one of Decoder's state.
LEMMA SeenStep ==
  ASSUME TypeOK, NEW r \in Requests, NEW p, pc' = [pc EXCEPT ![r] = p]
  PROVE  state' = [state EXCEPT ![r] = Seen(p)] /\ state[r] = Seen(pc[r])
<1>1. pc'[r] = p /\ \A q \in Requests \ {r} : pc'[q] = pc[q]
  BY DEF TypeOK
<1>2. /\ DOMAIN state = Requests
      /\ \A q \in Requests : state[q] = Seen(pc[q])
      /\ state' = [q \in Requests |-> Seen(pc'[q])]
  BY SeenState
<1>3. \A q \in Requests \ {r} : Seen(pc'[q]) = state[q]
  BY <1>1, <1>2
<1>4. state = [q \in Requests |-> state[q]]
  BY <1>2, SeenState
<1> QED
  BY <1>1, <1>2, <1>3, <1>4

\* A step that Decoder sees none of.
LEMMA SeenStutter ==
  ASSUME UNCHANGED <<prompt, budget, stream, fed, out, logits>>,
         \A q \in Requests : Seen(pc'[q]) = Seen(pc[q])
  PROVE  UNCHANGED Device!decoderVars
<1>1. state' = state
  BY SeenState
<1> QED
  BY <1>1 DEF Device!decoderVars

\* Both feed the same token next, and have the same room.
LEMMA SameInput ==
  ASSUME TypeOK, NEW r \in Requests
  PROVE  Device!NextInput(r) = Token(r) /\ Device!Room(r) = Room(r)
<1>1. Device!Last(prompt[r]) = Last(prompt[r]) /\ Device!Last(out[r]) = Last(out[r])
  BY DEF Last, Device!Last
<1> QED
  BY <1>1 DEF Device!NextInput, Device!Room, Device!Smaller, Token, TokenAt, Pos,
              Room, Smaller

\* Initial states map to initial states.
LEMMA InitRefines == Init => Device!Init
<1> SUFFICES ASSUME Init PROVE Device!Init
  OBVIOUS
<1>1. state = [r \in Requests |-> "waiting"]
  <2>1. \A r \in Requests : pc[r] = "new"
    BY DEF Init
  <2>2. \A r \in Requests : Seen(pc[r]) = "waiting"
    BY <2>1 DEF Seen, Active
  <2> QED
    BY <2>2, SeenState
<1>2. stream \in [Requests -> BOOLEAN]
  BY ClusterAssumption DEF Init
<1> QED
  BY <1>1, <1>2 DEF Init, Device!Init

\* A request that arrives waits, or is refused.
LEMMA ArriveRefines ==
  ASSUME TypeOK, NEW r \in Requests, Arrive(r)
  PROVE  Device!Refuse(r) \/ UNCHANGED Device!decoderVars
<1>1. /\ pc[r] = "new" /\ UNCHANGED <<prompt, budget, stream, fed, out, logits>>
      /\ \/ pc' = [pc EXCEPT ![r] = "lock"]
         \/ Len(prompt[r]) >= MaxSeq /\ pc' = [pc EXCEPT ![r] = "refused"]
  BY DEF Arrive, bodyVars, textVars
<1>2. /\ Seen("new") = "waiting" /\ Seen("lock") = "waiting"
      /\ Seen("refused") = "refused"
  BY DEF Seen, Active
<1>3. CASE pc' = [pc EXCEPT ![r] = "lock"]
  <2>1. \A q \in Requests : pc'[q] = pc[q] \/ (q = r /\ pc'[q] = "lock")
    BY <1>3 DEF TypeOK
  <2> QED
    BY <1>1, <1>2, <2>1, SeenStutter
<1>4. CASE Len(prompt[r]) >= MaxSeq /\ pc' = [pc EXCEPT ![r] = "refused"]
  <2>1. state[r] = "waiting" /\ state' = [state EXCEPT ![r] = Seen("refused")]
    BY <1>1, <1>2, <1>4, SeenStep
  <2> QED
    BY <1>1, <1>2, <1>4, <2>1 DEF Device!Refuse
<1> QED
  BY <1>1, <1>3, <1>4

\* The holder of the mutex begins, and a failed call fails.
LEMMA MutexRefines ==
  ASSUME TypeOK, NEW r \in Requests
  PROVE  /\ Acquire(r) => Device!Begin(r)
         /\ GiveUp(r) => Device!Fail(r)
<1>1. /\ Seen("lock") = "waiting" /\ Seen("call") = "running"
      /\ Seen("broken") = "running" /\ Seen("failed") = "failed"
  BY DEF Seen, Active
<1>2. ASSUME Acquire(r) PROVE Device!Begin(r)
  <2>1. /\ pc[r] = "lock" /\ pc' = [pc EXCEPT ![r] = "call"]
        /\ UNCHANGED <<prompt, budget, stream, fed, out, logits>>
    BY <1>2 DEF Acquire, requestVars, bodyVars, textVars
  <2>2. state[r] = "waiting" /\ state' = [state EXCEPT ![r] = Seen("call")]
    BY <1>1, <2>1, SeenStep
  <2> QED
    BY <1>1, <2>1, <2>2 DEF Device!Begin
<1>3. ASSUME GiveUp(r) PROVE Device!Fail(r)
  <2>1. /\ pc[r] = "broken" /\ pc' = [pc EXCEPT ![r] = "failed"]
        /\ UNCHANGED <<prompt, budget, stream, fed, out, logits>>
    BY <1>3 DEF GiveUp, requestVars, bodyVars, textVars
  <2>2. state[r] = "running" /\ state' = [state EXCEPT ![r] = Seen("failed")]
    BY <1>1, <2>1, SeenStep
  <2> QED
    BY <1>1, <2>1, <2>2 DEF Device!Fail
<1> QED
  BY <1>2, <1>3

\* A token of the prompt.
LEMMA PrefillRefines ==
  ASSUME TypeOK, NEW r \in Requests, Prefill(r)
  PROVE  Device!Prefill(r)
<1>1. /\ pc[r] = "replied" /\ pc' = [pc EXCEPT ![r] = "call"]
      /\ Len(fed[r]) < Len(prompt[r])
      /\ fed' = [fed EXCEPT ![r] = Append(@, Token(r))]
      /\ UNCHANGED <<prompt, budget, stream, out, logits>>
  BY DEF Prefill, requestVars, bodyVars, Pos, Token
<1>2. Seen("replied") = "running" /\ Seen("call") = "running"
  BY DEF Seen, Active
<1>3. state[r] = "running" /\ state' = [state EXCEPT ![r] = "running"]
  BY <1>1, <1>2, SeenStep
<1>4. state' = state
  BY <1>3, SeenState
<1> QED
  BY <1>1, <1>3, <1>4, SameInput DEF Device!Prefill

\* A token of the answer: the last worker's value is the text it is sampled from.
LEMMA SampleRefines ==
  ASSUME Inv, ClientInv, CacheInv, NEW r \in Requests, NEW t \in Vocab, Sample(r, t)
  PROVE  Device!Decode(r, t)
<1>1. /\ pc[r] = "replied" /\ kind[r] = "forward" /\ hop[r] = NWorkers
      /\ Len(fed[r]) >= Len(prompt[r])
      /\ fed' = [fed EXCEPT ![r] = Append(@, Token(r))]
      /\ out' = [out EXCEPT ![r] = Append(@, t)]
      /\ logits' = [logits EXCEPT ![r] = val[r]]
      /\ UNCHANGED <<prompt, budget, stream>>
      /\ pc[r] \in Active
  BY DEF Sample, bodyVars, Pos, Token, Active
<1>2. \/ /\ t = Eos \/ Len(out'[r]) = Room(r) \/ stream[r]
         /\ pc' = [pc EXCEPT ![r] = "answered"]
      \/ /\ t # Eos /\ Len(out'[r]) < Room(r)
         /\ pc' = [pc EXCEPT ![r] = "call"]
  BY DEF Sample, WriteFails, Flushes
<1>3. Device!NextInput(r) = Token(r) /\ Device!Room(r) = Room(r)
  BY SameInput DEF Inv
<1>4. fed'[r] = Walked(r) /\ val[r] = Walked(r)
  <2>1. Passed(r) = NWorkers /\ NWorkers # 0
    BY <1>1, ClusterAssumption DEF Passed
  <2> QED
    BY <1>1, <2>1 DEF CacheInv, Walking, Cached, Walked, Inv, TypeOK
<1>5. Len(out[r]) < Room(r)
  BY <1>1 DEF Inv, Lengths, Lengthwise
<1>6. /\ Seen("replied") = "running" /\ Seen("call") = "running"
      /\ Seen("answered") = "answered"
  BY DEF Seen, Active
<1>7. state[r] = "running"
  BY <1>1, <1>6, SeenState
<1>8. \/ /\ t = Eos \/ Len(out'[r]) = Room(r) \/ stream[r]
         /\ state' = [state EXCEPT ![r] = "answered"]
      \/ /\ t # Eos /\ Len(out'[r]) < Room(r)
         /\ state' = state
  <2>1. CASE /\ t = Eos \/ Len(out'[r]) = Room(r) \/ stream[r]
             /\ pc' = [pc EXCEPT ![r] = "answered"]
    <3>1. state' = [state EXCEPT ![r] = Seen("answered")]
      BY <2>1, SeenStep DEF Inv
    <3> QED
      BY <1>6, <2>1, <3>1
  <2>2. CASE /\ t # Eos /\ Len(out'[r]) < Room(r)
             /\ pc' = [pc EXCEPT ![r] = "call"]
    <3>1. state' = [state EXCEPT ![r] = Seen("call")]
      BY <2>2, SeenStep DEF Inv
    <3>2. state' = [state EXCEPT ![r] = state[r]]
      BY <1>6, <1>7, <3>1
    <3>3. state' = state
      BY <3>2, SeenState
    <3> QED
      BY <2>2, <3>3
  <2> QED
    BY <1>2, <2>1, <2>2
<1>9. logits' = [logits EXCEPT ![r] = fed'[r]]
  BY <1>1, <1>4
<1> QED
  BY <1>1, <1>3, <1>5, <1>7, <1>8, <1>9 DEF Device!Decode

\* Decoder does not see calls, replies and crashes.
LEMMA WalkRefines ==
  ASSUME Inv,
         \/ \E r \in Requests :
               \/ CloseStream(r) \/ Respond(r) \/ Leave(r)
               \/ Call(r) \/ NextWorker(r) \/ BeginPrompt(r)
               \/ Serve(r) \/ Timeout(r)
         \/ \E c \in late : LateCall(c)
         \/ \E w \in Workers : Crash(w) \/ Restart(w)
         \/ UNCHANGED vars
  PROVE  UNCHANGED Device!decoderVars
<1>1. UNCHANGED <<prompt, budget, stream, fed, out, logits>>
  BY DEF CloseStream, Respond, Leave, Call, NextWorker, BeginPrompt, Serve,
         WorkerReset, WorkerForward, Timeout, LateCall, Crash, Restart, vars,
         requestVars, bodyVars, textVars
<1>2. pc \in [Requests -> {"new", "lock"} \cup Active \cup Ended]
  BY DEF Inv, TypeOK
<1>3. ASSUME NEW r \in Requests,
             \/ Call(r) \/ NextWorker(r) \/ BeginPrompt(r)
             \/ Serve(r) \/ Timeout(r)
      PROVE  \A q \in Requests : pc'[q] = pc[q]
                                 \/ (pc[q] \in Active /\ pc'[q] \in Active)
  <2>1. \E p \in Active : pc' = [pc EXCEPT ![r] = p]
    BY <1>3 DEF Call, NextWorker, BeginPrompt, Serve, WorkerReset, WorkerForward,
                Timeout, Active
  <2>2. pc[r] \in Active
    BY <1>3 DEF Call, NextWorker, BeginPrompt, Serve, WorkerReset, WorkerForward,
                Timeout, Active
  <2> QED
    BY <1>2, <2>1, <2>2
<1>4. ASSUME \/ \E r \in Requests : CloseStream(r) \/ Respond(r) \/ Leave(r)
             \/ \E c \in late : LateCall(c)
             \/ \E w \in Workers : Restart(w)
             \/ UNCHANGED vars
      PROVE  pc' = pc
  BY <1>4 DEF CloseStream, Respond, Leave, LateCall, Restart, vars
<1>5. ASSUME NEW w \in Workers, Crash(w)
      PROVE  \A q \in Requests : pc'[q] = pc[q]
                                 \/ (pc[q] \in Active /\ pc'[q] \in Active)
  BY <1>5 DEF Crash, Active
<1>6. \A q \in Requests : pc'[q] = pc[q] \/ (pc[q] \in Active /\ pc'[q] \in Active)
  BY <1>3, <1>4, <1>5
<1>7. \A q \in Requests : Seen(pc'[q]) = Seen(pc[q])
  BY <1>6 DEF Seen, Active
<1> QED
  BY <1>1, <1>7, SeenStutter

\* Every step is a step of Decoder or none.
LEMMA StepRefines ==
  Inv /\ ClientInv /\ CacheInv /\ [Next]_vars => [Device!Next]_(Device!decoderVars)
<1> SUFFICES ASSUME Inv, ClientInv, CacheInv, [Next]_vars
             PROVE  [Device!Next]_(Device!decoderVars)
  OBVIOUS
<1>0. TypeOK
  BY DEF Inv
<1>1. ASSUME NEW r \in Requests, Arrive(r)
      PROVE  [Device!Next]_(Device!decoderVars)
  BY <1>0, <1>1, ArriveRefines DEF Device!Next
<1>2. ASSUME NEW r \in Requests, Acquire(r) \/ GiveUp(r)
      PROVE  [Device!Next]_(Device!decoderVars)
  BY <1>0, <1>2, MutexRefines DEF Device!Next
<1>3. ASSUME NEW r \in Requests, Prefill(r)
      PROVE  [Device!Next]_(Device!decoderVars)
  BY <1>0, <1>3, PrefillRefines DEF Device!Next
<1>4. ASSUME NEW r \in Requests, NEW t \in Vocab, Sample(r, t)
      PROVE  [Device!Next]_(Device!decoderVars)
  BY <1>4, SampleRefines DEF Device!Next
<1> QED
  BY <1>1, <1>2, <1>3, <1>4, Steps, WalkRefines

\* A cluster computes what one device would: while no call is given up before
\* it is executed, and workers that died come back without a model, every token
\* is sampled from the logits of exactly the tokens fed so far, whatever
\* requests overlap and whichever workers crash on the way.
THEOREM ImplementsDecoder ==
  ASSUME ~Preloaded, MaxTimeouts = 0
  PROVE  Spec => RefinesDecoder
  BY Invariant, InitClient, StepClient, InitCache, StepCache, InitRefines,
     StepRefines, PTL DEF Spec, RefinesDecoder, Device!Spec
=============================================================================
