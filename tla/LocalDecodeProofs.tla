--------------------------- MODULE LocalDecodeProofs ---------------------------
(***************************************************************************)
(* Proofs about LocalDecode: positions stay in the cache, the cache holds  *)
(* the context, and LocalDecode implements Decoder, for any number of      *)
(* calls, layers and tokens, and any prompts and context length.           *)
(***************************************************************************)
EXTENDS LocalDecode, TLAPS

-----------------------------------------------------------------------------
(* The inductive invariant, one call at a time.                            *)

\* The token fed next, and the tokens fed with it.
Token(r) == Embedded(TokenAt(r))
Text(r) == Append(fed[r], Token(r))

\* How the lengths of the texts go together.
Lengthwise(r) ==
    /\ \/ out[r] = <<>> /\ Len(fed[r]) <= Used(r)
       \/ out[r] # <<>> /\ Len(fed[r]) = Used(r) + Len(out[r])
    /\ pc[r] = "new" => fed[r] = <<>> /\ out[r] = <<>>
    /\ pc[r] \in Running => Len(out[r]) < Room(r)

\* What the slot of position i holds after the tokens s have been fed.
Slot(l, s, i) == IF l = 1 THEN <<s[i]>> ELSE SubSeq(s, 1, i)

\* A layer's cache after the tokens s.
Holds(r, l, s) ==
    /\ seqLens[r][l] = Len(s)
    /\ \A i \in 1 .. Len(s) : kv[r][l][i - 1] = Slot(l, s, i)

\* What the layers' caches and x hold at each point of a call.
Cached(r) ==
    /\ pc[r] \in {"new", "embed", "answered"} =>
          \A l \in Layers : Holds(r, l, fed[r])
    /\ pc[r] = "block" =>
          /\ \A l \in Layers : l < layer[r] => Holds(r, l, Text(r))
          /\ \A l \in Layers : ~(l < layer[r]) => Holds(r, l, fed[r])
          /\ x[r] = IF layer[r] = 1 THEN <<Token(r)>> ELSE Text(r)
    /\ pc[r] = "head" =>
          /\ \A l \in Layers : Holds(r, l, Text(r))
          /\ x[r] = Text(r)

CallInv == \A r \in Requests : Lengthwise(r) /\ Cached(r)

-----------------------------------------------------------------------------
(* Facts about the constants, the operators and sequences.                 *)

\* The bounds of a call leave at least one slot and one token.
LEMMA Bounds ==
  ASSUME TypeOK, NEW r \in Requests
  PROVE  /\ Used(r) \in Nat /\ Used(r) >= 1 /\ Used(r) <= Len(prompt[r])
         /\ Used(r) <= MaxSeq - 1
         /\ Room(r) \in Nat /\ Room(r) >= 1 /\ Room(r) <= MaxSeq - Used(r)
         /\ prompt[r] \in Seq(Tokens) /\ Len(prompt[r]) \in Nat
         /\ Len(prompt[r]) >= 1
<1>1. prompt[r] \in Seq(Tokens) /\ prompt[r] # <<>>
  BY LocalAssumption DEF TypeOK
<1>2. Len(prompt[r]) \in Nat /\ Len(prompt[r]) >= 1
  BY <1>1
<1>3. budget[r] \in Nat /\ budget[r] >= 1
  BY LocalAssumption DEF TypeOK
<1>4. MaxSeq \in Nat /\ MaxSeq >= 2
  BY LocalAssumption
<1> QED
  BY <1>1, <1>2, <1>3, <1>4 DEF Used, Room, Smaller

\* The token fed next is one of the vocabulary.
LEMMA TokenKnown ==
  ASSUME TypeOK, NEW r \in Requests
  PROVE  Token(r) \in Vocab
<1> QED
  BY LocalAssumption DEF Token, Embedded

\* Appending to a text keeps its prefixes.
LEMMA Appending ==
  ASSUME NEW S, NEW s \in Seq(S), NEW e \in S
  PROVE  /\ Append(s, e) \in Seq(S)
         /\ Len(s) \in Nat
         /\ Len(Append(s, e)) = Len(s) + 1
         /\ Append(s, e)[Len(s) + 1] = e
         /\ \A i \in 1 .. Len(s) : Append(s, e)[i] = s[i]
         /\ \A i \in 1 .. Len(s) : SubSeq(Append(s, e), 1, i) = SubSeq(s, 1, i)
         /\ SubSeq(Append(s, e), 1, Len(s) + 1) = Append(s, e)
<1>1. /\ Append(s, e) \in Seq(S) /\ Len(s) \in Nat
      /\ Len(Append(s, e)) = Len(s) + 1
      /\ Append(s, e)[Len(s) + 1] = e
      /\ \A i \in 1 .. Len(s) : Append(s, e)[i] = s[i]
  OBVIOUS
<1>2. ASSUME NEW i \in 1 .. Len(s)
      PROVE  SubSeq(Append(s, e), 1, i) = SubSeq(s, 1, i)
  BY <1>1
<1>3. SubSeq(Append(s, e), 1, Len(s) + 1) = Append(s, e)
  BY <1>1
<1> QED
  BY <1>1, <1>2, <1>3

\* A running call is inside the context.
LEMMA InsideContext ==
  ASSUME TypeOK, NEW r \in Requests, Lengthwise(r), pc[r] \in Running
  PROVE  Pos(r) \in Slots /\ Pos(r) = Len(fed[r]) /\ Pos(r) \in Nat
<1>1. fed[r] \in Seq(Vocab) /\ out[r] \in Seq(Vocab)
  BY DEF TypeOK
<1>2. Len(fed[r]) \in Nat /\ Len(out[r]) \in Nat
  BY <1>1
<1>3. MaxSeq \in Nat
  BY LocalAssumption
<1>4. Len(fed[r]) <= Used(r) + Len(out[r])
  BY <1>2, Bounds DEF Lengthwise
<1> QED
  BY <1>2, <1>3, <1>4, Bounds DEF Lengthwise, Pos, Slots

\* A call whose part of the state does not change keeps its invariant.
LEMMA Frame ==
  ASSUME NEW q \in Requests,
         Lengthwise(q), Cached(q),
         prompt' = prompt, budget' = budget,
         pc'[q] = pc[q], layer'[q] = layer[q], x'[q] = x[q],
         fed'[q] = fed[q], out'[q] = out[q],
         kv'[q] = kv[q], seqLens'[q] = seqLens[q]
  PROVE  Lengthwise(q)' /\ Cached(q)'
<1>1. Used(q)' = Used(q) /\ Room(q)' = Room(q)
  BY DEF Used, Room, Smaller
<1>2. Token(q)' = Token(q) /\ Text(q)' = Text(q)
  BY <1>1 DEF Token, Text, TokenAt, Pos, Embedded
<1>3. Lengthwise(q)'
  BY <1>1 DEF Lengthwise
<1>4. ASSUME NEW l, NEW s
      PROVE  Holds(q, l, s)' <=> Holds(q, l, s)
  BY DEF Holds, Slot
<1>5. Cached(q)'
  BY <1>2, <1>4 DEF Cached
<1> QED
  BY <1>3, <1>5

-----------------------------------------------------------------------------
(* One step of one call.                                                   *)

\* The initial state.
LEMMA InitInv == Init => TypeOK /\ CallInv
<1> SUFFICES ASSUME Init PROVE TypeOK /\ CallInv
  OBVIOUS
<1> USE LocalAssumption
<1>1. TypeOK
  <2>1. MaxSeq \in Nat /\ NLayers \in Nat \ {0}
    OBVIOUS
  <2>2. Garbage \in Contexts
    BY DEF Garbage, Contexts
  <2>3. 1 \in Layers
    BY <2>1 DEF Layers
  <2> QED
    BY <2>1, <2>2, <2>3 DEF Init, TypeOK, Contexts
<1>2. ASSUME NEW r \in Requests PROVE Lengthwise(r)
  <2>1. pc[r] = "new" /\ fed[r] = <<>> /\ out[r] = <<>>
    BY DEF Init
  <2>2. Used(r) >= 0
    BY <1>1, Bounds
  <2> QED
    BY <2>1, <2>2 DEF Lengthwise, Running
<1>3. ASSUME NEW r \in Requests PROVE Cached(r)
  <2>1. pc[r] = "new" /\ fed[r] = <<>> /\ \A l \in Layers : seqLens[r][l] = 0
    BY DEF Init
  <2> QED
    BY <2>1 DEF Cached, Holds
<1> QED
  BY <1>1, <1>2, <1>3 DEF CallInv

\* The start of a call.
LEMMA BeginInv ==
  ASSUME TypeOK, CallInv, NEW r \in Requests, Begin(r)
  PROVE  TypeOK' /\ CallInv'
<1>1. TypeOK'
  BY DEF TypeOK, Begin, argVars, textVars, cacheVars, Running, Ended
<1>2. Lengthwise(r)' /\ Cached(r)'
  <2>1. /\ pc[r] = "new" /\ pc'[r] = "embed" /\ fed'[r] = fed[r]
        /\ out'[r] = out[r] /\ kv' = kv /\ seqLens' = seqLens
        /\ prompt' = prompt /\ budget' = budget
    BY DEF TypeOK, Begin, argVars, textVars, cacheVars
  <2>2. fed[r] = <<>> /\ out[r] = <<>> /\ \A l \in Layers : Holds(r, l, fed[r])
    BY <2>1 DEF CallInv, Lengthwise, Cached
  <2>3. Used(r)' = Used(r) /\ Room(r)' = Room(r)
    BY <2>1 DEF Used, Room, Smaller
  <2>4. Lengthwise(r)'
    BY <2>1, <2>2, <2>3, Bounds DEF Lengthwise
  <2>5. \A l \in Layers : Holds(r, l, fed[r])'
    BY <2>1, <2>2 DEF Holds, Slot
  <2> QED
    BY <2>1, <2>4, <2>5 DEF Cached
<1>3. ASSUME NEW q \in Requests, q # r PROVE Lengthwise(q)' /\ Cached(q)'
  BY <1>3, Frame DEF TypeOK, CallInv, Begin, argVars, textVars, cacheVars
<1> QED
  BY <1>1, <1>2, <1>3 DEF CallInv

\* The embedding.
LEMMA EmbedInv ==
  ASSUME TypeOK, CallInv, NEW r \in Requests, Embed(r)
  PROVE  TypeOK' /\ CallInv'
<1>0. <<Token(r)>> \in Contexts /\ 1 \in Layers
  BY TokenKnown, LocalAssumption DEF Contexts, Layers
<1>1. TypeOK'
  BY <1>0 DEF TypeOK, Embed, argVars, textVars, cacheVars, Running, Ended, Token
<1>2. Lengthwise(r)' /\ Cached(r)'
  <2>1. /\ pc[r] = "embed" /\ pc'[r] = "block" /\ fed' = fed /\ out' = out
        /\ layer'[r] = 1 /\ x'[r] = <<Token(r)>>
        /\ kv' = kv /\ seqLens' = seqLens
        /\ prompt' = prompt /\ budget' = budget
    BY DEF TypeOK, Embed, argVars, textVars, cacheVars, Token
  <2>2. Token(r)' = Token(r) /\ Used(r)' = Used(r) /\ Room(r)' = Room(r)
    BY <2>1 DEF Used, Room, Smaller, Token, TokenAt, Embedded, Pos
  <2>3. Lengthwise(r)'
    BY <2>1, <2>2 DEF CallInv, Lengthwise, Running
  <2>4. \A l \in Layers : Holds(r, l, fed[r])
    BY <2>1 DEF CallInv, Cached
  <2>5. \A l \in Layers : Holds(r, l, fed[r])'
    BY <2>1, <2>4 DEF Holds, Slot
  <2>6. \A l \in Layers : ~(l < 1)
    BY DEF Layers
  <2> QED
    BY <2>1, <2>2, <2>3, <2>5, <2>6 DEF Cached
<1>3. ASSUME NEW q \in Requests, q # r PROVE Lengthwise(q)' /\ Cached(q)'
  BY <1>3, Frame DEF TypeOK, CallInv, Embed, argVars, textVars, cacheVars
<1> QED
  BY <1>1, <1>2, <1>3 DEF CallInv

\* What a layer's cache holds once the slot of the token in flight is written.
LEMMA SlotWritten ==
  ASSUME TypeOK, NEW r \in Requests, NEW l \in Layers,
         Holds(r, l, fed[r]),
         Pos(r) \in Slots,
         kv'[r][l] = [kv[r][l] EXCEPT ![Pos(r)] =
                         IF l = 1 THEN <<Token(r)>> ELSE Text(r)],
         seqLens'[r][l] = Pos(r) + 1
  PROVE  /\ seqLens'[r][l] = Len(Text(r))
         /\ \A i \in 1 .. Len(Text(r)) : kv'[r][l][i - 1] = Slot(l, Text(r), i)
<1> DEFINE n == Len(fed[r])
<1>1. fed[r] \in Seq(Vocab) /\ Token(r) \in Vocab
  BY TokenKnown DEF TypeOK
<1>2. n \in Nat /\ Len(Text(r)) = n + 1 /\ Pos(r) = n
  BY <1>1, Appending DEF Text, Pos
<1>3. kv[r][l] \in [Slots -> Contexts]
  BY DEF TypeOK
<1>8. /\ \A i \in 1 .. n : Text(r)[i] = fed[r][i]
      /\ \A i \in 1 .. n : SubSeq(Text(r), 1, i) = SubSeq(fed[r], 1, i)
      /\ Text(r)[n + 1] = Token(r)
      /\ SubSeq(Text(r), 1, n + 1) = Text(r)
  <2> DEFINE f == fed[r]
             e == Token(r)
  <2>1. f \in Seq(Vocab) /\ e \in Vocab
    BY <1>1
  <2> HIDE DEF f, e
  <2>2. /\ \A i \in 1 .. Len(f) : Append(f, e)[i] = f[i]
        /\ \A i \in 1 .. Len(f) : SubSeq(Append(f, e), 1, i) = SubSeq(f, 1, i)
        /\ Append(f, e)[Len(f) + 1] = e
        /\ SubSeq(Append(f, e), 1, Len(f) + 1) = Append(f, e)
    BY <2>1, Appending
  <2> QED
    BY <2>2 DEF Text, f, e
<1>4. ASSUME NEW i \in 1 .. n PROVE kv'[r][l][i - 1] = Slot(l, Text(r), i)
  <2>1. i - 1 # Pos(r) /\ i - 1 \in Slots
    BY <1>2, LocalAssumption DEF Slots
  <2>2. kv'[r][l][i - 1] = kv[r][l][i - 1]
    BY <2>1, <1>3
  <2>3. Slot(l, Text(r), i) = Slot(l, fed[r], i)
    BY <1>8 DEF Slot
  <2> QED
    BY <2>2, <2>3 DEF Holds
<1>5. kv'[r][l][n] = Slot(l, Text(r), n + 1)
  <2>1. kv'[r][l][n] = IF l = 1 THEN <<Token(r)>> ELSE Text(r)
    BY <1>2, <1>3
  <2>2. Slot(l, Text(r), n + 1) = IF l = 1 THEN <<Token(r)>> ELSE Text(r)
    BY <1>8 DEF Slot
  <2> QED
    BY <2>1, <2>2
<1>6. ASSUME NEW i \in 1 .. n + 1 PROVE i \in 1 .. n \/ i = n + 1
  BY <1>2
<1>7. ASSUME NEW i \in 1 .. n + 1 PROVE kv'[r][l][i - 1] = Slot(l, Text(r), i)
  <2>1. CASE i \in 1 .. n
    BY <2>1, <1>4
  <2>2. CASE i = n + 1
    <3>1. i - 1 = n
      BY <2>2, <1>2
    <3> QED
      BY <2>2, <3>1, <1>5
  <2> QED
    BY <2>1, <2>2, <1>6
<1> QED
  BY <1>2, <1>7

\* What attention makes of a layer's cache.
LEMMA AttendedText ==
  ASSUME NEW l \in Layers, NEW s \in Seq(Vocab), NEW slots,
         Len(s) >= 1,
         \A i \in 1 .. Len(s) : slots[i - 1] = Slot(l, s, i)
  PROVE  Attended(l, slots, Len(s), IF l = 1 THEN <<s[Len(s)]>> ELSE s) = s
<1>1. CASE l = 1
  <2>1. \A i \in 1 .. Len(s) : slots[i - 1][1] = s[i]
    BY <1>1 DEF Slot
  <2>2. [i \in 1 .. Len(s) |-> slots[i - 1][1]] = [i \in 1 .. Len(s) |-> s[i]]
    BY <2>1
  <2>3. [i \in 1 .. Len(s) |-> s[i]] = s
    OBVIOUS
  <2> QED
    BY <1>1, <2>2, <2>3 DEF Attended
<1>2. CASE l # 1
  <2>1. \A i \in 1 .. Len(s) : slots[i - 1] = SubSeq(s, 1, i)
    BY <1>2 DEF Slot
  <2> QED
    BY <1>2, <2>1 DEF Attended
<1> QED
  BY <1>1, <1>2

\* One layer: what changes for the call.
LEMMA BlockEffect ==
  ASSUME TypeOK, CallInv, NEW r \in Requests, Block(r)
  PROVE  /\ Pos(r) \in Slots
         /\ kv' = [kv EXCEPT ![r][layer[r]][Pos(r)] = x[r]]
         /\ seqLens' = [seqLens EXCEPT ![r][layer[r]] = Pos(r) + 1]
         /\ x' = [x EXCEPT ![r] = Text(r)]
         /\ seqLens'[r][layer[r]] = Len(Text(r))
         /\ \A i \in 1 .. Len(Text(r)) :
               kv'[r][layer[r]][i - 1] = Slot(layer[r], Text(r), i)
         /\ Text(r) \in Seq(Vocab)
<1> DEFINE l == layer[r]
<1>1. pc[r] = "block" /\ pc[r] \in Running /\ l \in Layers
  BY DEF Block, Running, TypeOK
<1>2. Pos(r) \in Slots /\ Pos(r) = Len(fed[r]) /\ Pos(r) \in Nat
  BY <1>1, InsideContext DEF CallInv
<1>3. /\ kv' = [kv EXCEPT ![r][l][Pos(r)] = x[r]]
      /\ seqLens' = [seqLens EXCEPT ![r][l] = Pos(r) + 1]
  BY <1>2 DEF Block, Appended, Lengths
<1>4. /\ x[r] = IF l = 1 THEN <<Token(r)>> ELSE Text(r)
      /\ Holds(r, l, fed[r])
  <2>1. ~(l < l)
    BY <1>1, LocalAssumption DEF Layers
  <2> QED
    BY <1>1, <2>1 DEF CallInv, Cached
<1>5. /\ kv'[r][l] = [kv[r][l] EXCEPT ![Pos(r)] = x[r]]
      /\ seqLens'[r][l] = Pos(r) + 1
  BY <1>1, <1>3 DEF TypeOK
<1>6. /\ seqLens'[r][l] = Len(Text(r))
      /\ \A i \in 1 .. Len(Text(r)) : kv'[r][l][i - 1] = Slot(l, Text(r), i)
  BY <1>1, <1>2, <1>4, <1>5, SlotWritten
<1>7. /\ Text(r) \in Seq(Vocab) /\ Len(Text(r)) >= 1
      /\ Text(r)[Len(Text(r))] = Token(r)
  <2>1. fed[r] \in Seq(Vocab) /\ Token(r) \in Vocab
    BY TokenKnown DEF TypeOK
  <2> QED
    BY <2>1, Appending DEF Text
<1>8. x' = [x EXCEPT ![r] = Attended(l, kv'[r][l], seqLens'[r][l], x[r])]
  BY DEF Block
<1>9. Attended(l, kv'[r][l], Len(Text(r)),
               IF l = 1 THEN <<Text(r)[Len(Text(r))]>> ELSE Text(r)) = Text(r)
  BY <1>1, <1>6, <1>7, AttendedText
<1>10. Attended(l, kv'[r][l], seqLens'[r][l], x[r]) = Text(r)
  BY <1>4, <1>6, <1>7, <1>9
<1> QED
  BY <1>2, <1>3, <1>6, <1>7, <1>8, <1>10

\* One layer keeps the types, ...
LEMMA BlockType ==
  ASSUME TypeOK, CallInv, NEW r \in Requests, Block(r)
  PROVE  TypeOK'
<1> USE LocalAssumption
<1>1. /\ Pos(r) \in Slots /\ layer[r] \in Layers
      /\ x[r] \in Contexts /\ Text(r) \in Contexts
  <2>1. Seq(Vocab) \subseteq Contexts
    BY DEF Contexts
  <2> QED
    BY <2>1, BlockEffect DEF TypeOK
<1>2. Pos(r) + 1 \in 0 .. MaxSeq
  BY <1>1 DEF Slots
<1>3. kv' \in [Requests -> [Layers -> [Slots -> Contexts]]]
  <2>1. kv' = [kv EXCEPT ![r][layer[r]][Pos(r)] = x[r]]
    BY BlockEffect
  <2>2. [kv[r][layer[r]] EXCEPT ![Pos(r)] = x[r]] \in [Slots -> Contexts]
    BY <1>1 DEF TypeOK
  <2> QED
    BY <1>1, <2>1, <2>2 DEF TypeOK
<1>4. seqLens' \in [Requests -> [Layers -> 0 .. MaxSeq]]
  <2>1. seqLens' = [seqLens EXCEPT ![r][layer[r]] = Pos(r) + 1]
    BY BlockEffect
  <2> QED
    BY <1>1, <1>2, <2>1 DEF TypeOK
<1>5. x' \in [Requests -> Contexts]
  <2>1. x' = [x EXCEPT ![r] = Text(r)]
    BY BlockEffect
  <2> QED
    BY <1>1, <2>1 DEF TypeOK
<1>6. layer' \in [Requests -> Layers]
  <2>1. \/ layer[r] < NLayers /\ layer' = [layer EXCEPT ![r] = @ + 1]
        \/ layer' = layer
    BY DEF Block
  <2>2. layer[r] < NLayers => layer[r] + 1 \in Layers
    BY <1>1 DEF Layers
  <2> QED
    BY <2>1, <2>2 DEF TypeOK
<1>7. pc' \in [Requests -> {"new"} \cup Running \cup Ended]
  BY DEF Block, TypeOK, Running, Ended
<1> QED
  BY <1>3, <1>4, <1>5, <1>6, <1>7 DEF TypeOK, Block, argVars, textVars

\* ... and the invariant of its call.
LEMMA BlockCall ==
  ASSUME TypeOK, CallInv, NEW r \in Requests, Block(r)
  PROVE  Lengthwise(r)' /\ Cached(r)'
<1>0. PICK d \in Layers : d = layer[r]
  BY DEF TypeOK
<1>1. /\ pc[r] = "block" /\ fed' = fed /\ out' = out
      /\ prompt' = prompt /\ budget' = budget /\ d \in Layers
  BY <1>0 DEF Block, argVars, textVars, TypeOK
<1>2. pc'[r] \in {"block", "head"}
  BY <1>1 DEF Block, TypeOK
<1>3. /\ Token(r)' = Token(r) /\ Text(r)' = Text(r)
      /\ Used(r)' = Used(r) /\ Room(r)' = Room(r)
  BY <1>1 DEF Used, Room, Smaller, Token, Text, TokenAt, Embedded, Pos
<1>4. Lengthwise(r)'
  BY <1>1, <1>2, <1>3 DEF CallInv, Lengthwise, Running
<1>5. /\ \A l \in Layers : l < d => Holds(r, l, Text(r))
      /\ \A l \in Layers : ~(l < d) => Holds(r, l, fed[r])
  BY <1>0, <1>1 DEF CallInv, Cached
<1>6. /\ kv' = [kv EXCEPT ![r][d][Pos(r)] = x[r]]
      /\ seqLens' = [seqLens EXCEPT ![r][d] = Pos(r) + 1]
      /\ x'[r] = Text(r)
      /\ seqLens'[r][d] = Len(Text(r))
      /\ \A i \in 1 .. Len(Text(r)) : kv'[r][d][i - 1] = Slot(d, Text(r), i)
  BY <1>0, BlockEffect DEF TypeOK
<1>7. ASSUME NEW l \in Layers, l # d
      PROVE  kv'[r][l] = kv[r][l] /\ seqLens'[r][l] = seqLens[r][l]
  BY <1>6, <1>7 DEF TypeOK
<1>8. ASSUME NEW l \in Layers, l < d PROVE Holds(r, l, Text(r))'
  <2>1. l # d
    BY <1>8, <1>1 DEF Layers
  <2> QED
    BY <2>1, <1>1, <1>3, <1>5, <1>7, <1>8 DEF Holds, Slot
<1>9. Holds(r, d, Text(r))'
  BY <1>1, <1>3, <1>6 DEF Holds, Slot
<1>10. CASE d < NLayers
  <2>1. pc'[r] = "block" /\ layer'[r] = d + 1
    BY <1>0, <1>1, <1>10, LocalAssumption DEF Block, TypeOK, Layers
  <2>2. ASSUME NEW l \in Layers, l < d + 1 PROVE Holds(r, l, Text(r))'
    <3>1. l < d \/ l = d
      BY <2>2, <1>1 DEF Layers
    <3> QED
      BY <3>1, <1>8, <1>9
  <2>3. ASSUME NEW l \in Layers, ~(l < d + 1) PROVE Holds(r, l, fed[r])'
    <3>1. ~(l < d) /\ l # d
      BY <2>3, <1>1 DEF Layers
    <3> QED
      BY <3>1, <1>1, <1>5, <1>7 DEF Holds, Slot
  <2>4. layer'[r] # 1
    BY <2>1, <1>1 DEF Layers
  <2>5. Cached(r)'
    BY <2>1, <2>2, <2>3, <2>4, <1>3, <1>6 DEF Cached
  <2> QED
    BY <2>5, <1>4
<1>11. CASE d = NLayers
  <2>1. pc'[r] = "head"
    BY <1>0, <1>1, <1>11, LocalAssumption DEF Block, TypeOK, Layers
  <2>2. ASSUME NEW l \in Layers PROVE Holds(r, l, Text(r))'
    <3>1. l < d \/ l = d
      BY <1>11, LocalAssumption DEF Layers
    <3> QED
      BY <3>1, <1>8, <1>9
  <2>3. Cached(r)'
    BY <2>1, <2>2, <1>3, <1>6 DEF Cached
  <2> QED
    BY <2>3, <1>4
<1> QED
  BY <1>1, <1>10, <1>11, LocalAssumption DEF Layers

\* One layer, for all calls.
LEMMA BlockInv ==
  ASSUME TypeOK, CallInv, NEW r \in Requests, Block(r)
  PROVE  TypeOK' /\ CallInv'
<1>1. TypeOK'
  BY BlockType
<1>2. Lengthwise(r)' /\ Cached(r)'
  BY BlockCall
<1>3. ASSUME NEW q \in Requests, q # r PROVE Lengthwise(q)' /\ Cached(q)'
  <2>1. Lengthwise(q) /\ Cached(q)
    BY DEF CallInv
  <2>2. /\ kv' = [kv EXCEPT ![r][layer[r]][Pos(r)] = x[r]]
        /\ seqLens' = [seqLens EXCEPT ![r][layer[r]] = Pos(r) + 1]
        /\ x' = [x EXCEPT ![r] = Text(r)]
    BY BlockEffect
  <2>3. kv'[q] = kv[q] /\ seqLens'[q] = seqLens[q] /\ x'[q] = x[q]
    BY <1>3, <2>2 DEF TypeOK
  <2>4. /\ prompt' = prompt /\ budget' = budget /\ fed' = fed /\ out' = out
        /\ pc'[q] = pc[q] /\ layer'[q] = layer[q]
    BY <1>3 DEF TypeOK, Block, argVars, textVars
  <2> QED
    BY <2>1, <2>3, <2>4, Frame
<1> QED
  BY <1>1, <1>2, <1>3 DEF CallInv

\* When a token has been through all layers it becomes part of the text.
LEMMA TextFed ==
  ASSUME TypeOK, CallInv, NEW r \in Requests, pc[r] = "head",
         fed' = [fed EXCEPT ![r] = Append(@, Embedded(TokenAt(r)))],
         kv' = kv, seqLens' = seqLens
  PROVE  /\ fed' \in [Requests -> Seq(Vocab)]
         /\ fed'[r] = Text(r) /\ Len(fed'[r]) = Len(fed[r]) + 1
         /\ \A l \in Layers : Holds(r, l, fed[r])'
<1>1. fed[r] \in Seq(Vocab) /\ Token(r) \in Vocab
  BY TokenKnown DEF TypeOK
<1>2. fed'[r] = Text(r) /\ fed' = [fed EXCEPT ![r] = Text(r)]
  BY DEF TypeOK, Text, Token
<1>3. Text(r) \in Seq(Vocab) /\ Len(Text(r)) = Len(fed[r]) + 1
  BY <1>1, Appending DEF Text
<1>4. \A l \in Layers : Holds(r, l, Text(r))
  BY DEF CallInv, Cached
<1>5. \A l \in Layers : Holds(r, l, fed[r])'
  BY <1>2, <1>4 DEF Holds, Slot
<1> QED
  BY <1>2, <1>3, <1>5 DEF TypeOK

\* The prefill.
LEMMA PrefillInv ==
  ASSUME TypeOK, CallInv, NEW r \in Requests, Prefill(r)
  PROVE  TypeOK' /\ CallInv'
<1>1. /\ pc[r] = "head" /\ pc' = [pc EXCEPT ![r] = "embed"]
      /\ Pos(r) < Used(r)
      /\ fed' = [fed EXCEPT ![r] = Append(@, Embedded(TokenAt(r)))]
      /\ out' = out /\ kv' = kv /\ seqLens' = seqLens
      /\ prompt' = prompt /\ budget' = budget
      /\ stream' = stream /\ layer' = layer /\ x' = x /\ logits' = logits
  BY DEF Prefill, argVars, cacheVars
<1>2. /\ fed' \in [Requests -> Seq(Vocab)] /\ Len(fed'[r]) = Len(fed[r]) + 1
      /\ \A l \in Layers : Holds(r, l, fed[r])'
  BY <1>1, TextFed
<1>3. TypeOK'
  BY <1>1, <1>2 DEF TypeOK, Running, Ended
<1>4. Lengthwise(r)'
  <2>1. Used(r)' = Used(r) /\ Room(r)' = Room(r)
    BY <1>1 DEF Used, Room, Smaller
  <2>2. fed[r] \in Seq(Vocab) /\ out[r] \in Seq(Vocab)
    BY DEF TypeOK
  <2>3. Len(fed[r]) \in Nat /\ Len(out[r]) \in Nat /\ Used(r) \in Nat
    BY <2>2, Bounds
  <2>4. Lengthwise(r) /\ Len(fed[r]) < Used(r)
    BY <1>1 DEF CallInv, Pos
  <2>5. out[r] = <<>> /\ Len(out[r]) < Room(r)
    BY <1>1, <2>3, <2>4 DEF Lengthwise, Running
  <2>6. pc'[r] = "embed" /\ out'[r] = out[r]
    BY <1>1 DEF TypeOK
  <2> QED
    BY <1>2, <2>1, <2>3, <2>4, <2>5, <2>6 DEF Lengthwise, Running
<1>5. Cached(r)'
  <2>1. pc'[r] = "embed"
    BY <1>1 DEF TypeOK
  <2> QED
    BY <2>1, <1>2 DEF Cached
<1>6. ASSUME NEW q \in Requests, q # r PROVE Lengthwise(q)' /\ Cached(q)'
  BY <1>1, <1>6, Frame DEF TypeOK, CallInv
<1> QED
  BY <1>3, <1>4, <1>5, <1>6 DEF CallInv

\* One round of the decoding loop.
LEMMA SampleInv ==
  ASSUME TypeOK, CallInv, NEW r \in Requests, NEW t \in Vocab, Sample(r, t)
  PROVE  TypeOK' /\ CallInv'
<1>1. /\ pc[r] = "head" /\ Pos(r) >= Used(r)
      /\ fed' = [fed EXCEPT ![r] = Append(@, Embedded(TokenAt(r)))]
      /\ out' = [out EXCEPT ![r] = Append(@, t)]
      /\ logits' = [logits EXCEPT ![r] = x[r]]
      /\ kv' = kv /\ seqLens' = seqLens
      /\ prompt' = prompt /\ budget' = budget
      /\ stream' = stream /\ layer' = layer /\ x' = x
  BY DEF Sample, argVars, cacheVars
<1>2. /\ fed' \in [Requests -> Seq(Vocab)] /\ Len(fed'[r]) = Len(fed[r]) + 1
      /\ \A l \in Layers : Holds(r, l, fed[r])'
  BY <1>1, TextFed
<1>3. \/ pc' = [pc EXCEPT ![r] = "answered"]
      \/ /\ pc' = [pc EXCEPT ![r] = "embed"]
         /\ Len(out'[r]) < Room(r)
  BY DEF Sample
<1>4. /\ out[r] \in Seq(Vocab) /\ out' \in [Requests -> Seq(Vocab)]
      /\ out'[r] = Append(out[r], t)
  BY <1>1 DEF TypeOK
<1>5. TypeOK'
  BY <1>1, <1>2, <1>3, <1>4 DEF TypeOK, Running, Ended
<1>6. Lengthwise(r)'
  <2>1. Used(r)' = Used(r) /\ Room(r)' = Room(r)
    BY <1>1 DEF Used, Room, Smaller
  <2>2. fed[r] \in Seq(Vocab)
    BY DEF TypeOK
  <2>3. /\ Len(fed[r]) \in Nat /\ Len(out[r]) \in Nat /\ Used(r) \in Nat
        /\ out'[r] # <<>> /\ Len(out'[r]) = Len(out[r]) + 1
        /\ out[r] = <<>> => Len(out[r]) = 0
    BY <1>4, <2>2, Bounds
  <2>4. Lengthwise(r) /\ Len(fed[r]) >= Used(r)
    BY <1>1 DEF CallInv, Pos
  <2>5. Len(fed'[r]) = Used(r) + Len(out'[r])
    BY <1>2, <2>3, <2>4 DEF Lengthwise
  <2>6. pc'[r] # "new" /\ (pc'[r] \in Running => Len(out'[r]) < Room(r))
    BY <1>3 DEF TypeOK, Running
  <2> QED
    BY <2>1, <2>3, <2>5, <2>6 DEF Lengthwise
<1>7. Cached(r)'
  <2>1. pc'[r] \in {"embed", "answered"}
    BY <1>3 DEF TypeOK
  <2> QED
    BY <2>1, <1>2 DEF Cached
<1>8. ASSUME NEW q \in Requests, q # r PROVE Lengthwise(q)' /\ Cached(q)'
  <2>1. /\ pc'[q] = pc[q] /\ layer'[q] = layer[q] /\ x'[q] = x[q]
        /\ fed'[q] = fed[q] /\ out'[q] = out[q]
        /\ kv'[q] = kv[q] /\ seqLens'[q] = seqLens[q]
    BY <1>1, <1>3, <1>8 DEF TypeOK
  <2> QED
    BY <1>1, <2>1, Frame DEF CallInv
<1> QED
  BY <1>5, <1>6, <1>7, <1>8 DEF CallInv

\* Every step keeps the invariant.
LEMMA StepInv == TypeOK /\ CallInv /\ [Next]_vars => TypeOK' /\ CallInv'
<1> SUFFICES ASSUME TypeOK, CallInv, [Next]_vars
             PROVE  TypeOK' /\ CallInv'
  OBVIOUS
<1>1. ASSUME NEW r \in Requests, Generate(r) PROVE TypeOK' /\ CallInv'
  BY <1>1, BeginInv, EmbedInv, BlockInv, PrefillInv, SampleInv DEF Generate
<1>2. ASSUME UNCHANGED vars PROVE TypeOK' /\ CallInv'
  <2>1. TypeOK'
    BY <1>2 DEF TypeOK, vars, argVars, textVars, cacheVars
  <2>2. ASSUME NEW q \in Requests PROVE Lengthwise(q)' /\ Cached(q)'
    BY <1>2, Frame DEF CallInv, vars, argVars, textVars, cacheVars
  <2> QED
    BY <2>1, <2>2 DEF CallInv
<1> QED
  BY <1>1, <1>2 DEF Next, Finished

-----------------------------------------------------------------------------
(* Theorems.                                                               *)

\* Types and the caches' contents are invariants.
LEMMA Invariant == Spec => [](TypeOK /\ CallInv)
  BY InitInv, StepInv, PTL DEF Spec

\* Every variable keeps its type: no token outside the vocabulary is fed, and
\* no layer's length ever exceeds the cache.
THEOREM LocalTypes == Spec => []TypeOK
  BY Invariant, PTL

\* KVCache::append never has to refuse a write, whatever the length of the
\* prompt and max_tokens.
THEOREM PositionsInContext == Spec => []InContext
<1>1. TypeOK /\ CallInv => InContext
  BY InsideContext DEF CallInv, InContext
<1> QED
  BY <1>1, Invariant, PTL

\* Between two tokens every layer of a call's cache holds the tokens fed and
\* nothing else, however many calls run beside it.
THEOREM CacheIsContext == Spec => []CacheHoldsContext
<1>1. TypeOK /\ CallInv => CacheHoldsContext
  <2> SUFFICES ASSUME TypeOK, CallInv, NEW r \in Requests, NEW l \in Layers,
                      pc[r] \in {"embed", "answered"}
               PROVE  /\ seqLens[r][l] = Len(fed[r])
                      /\ \A i \in 1 .. Len(fed[r]) :
                            kv[r][l][i - 1] = IF l = 1 THEN <<fed[r][i]>>
                                              ELSE SubSeq(fed[r], 1, i)
    BY DEF CacheHoldsContext
  <2>1. Holds(r, l, fed[r])
    BY DEF CallInv, Cached
  <2> QED
    BY <2>1 DEF Holds, Slot
<1> QED
  BY <1>1, Invariant, PTL

-----------------------------------------------------------------------------
(* The refinement of Decoder.                                              *)

\* Decoder's prompt is the part of the prompt that is used, as it is embedded.
LEMMA UsedText ==
  ASSUME TypeOK, NEW r \in Requests
  PROVE  /\ used[r] \in Seq(Vocab) /\ Len(used[r]) = Used(r)
         /\ \A i \in 1 .. Used(r) : used[r][i] = Embedded(prompt[r][i])
<1>1. used[r] = [i \in 1 .. Used(r) |-> Embedded(prompt[r][i])]
  BY DEF used
<1>2. \A i \in 1 .. Used(r) : Embedded(prompt[r][i]) \in Vocab
  BY LocalAssumption DEF Embedded
<1> QED
  BY <1>1, <1>2, Bounds

\* Both feed the same token next.
LEMMA SameInput ==
  ASSUME TypeOK, CallInv, NEW r \in Requests
  PROVE  Device!NextInput(r) = Token(r)
<1>1. /\ Len(used[r]) = Used(r) /\ Used(r) \in Nat /\ Used(r) >= 1
      /\ \A i \in 1 .. Used(r) : used[r][i] = Embedded(prompt[r][i])
  BY UsedText, Bounds
<1>2. Len(fed[r]) \in Nat /\ fed[r] \in Seq(Vocab) /\ out[r] \in Seq(Vocab)
  BY DEF TypeOK
<1>3. CASE Len(fed[r]) < Used(r)
  <2>1. Len(fed[r]) + 1 \in 1 .. Used(r)
    BY <1>1, <1>2, <1>3
  <2> QED
    BY <1>1, <1>3, <2>1 DEF Device!NextInput, Token, TokenAt, Pos
<1>4. CASE ~(Len(fed[r]) < Used(r)) /\ out[r] = <<>>
  <2>1. Used(r) \in 1 .. Used(r)
    BY <1>1
  <2>2. Device!Last(used[r]) = Embedded(prompt[r][Used(r)])
    BY <1>1, <2>1 DEF Device!Last
  <2> QED
    BY <1>1, <1>4, <2>2 DEF Device!NextInput, Token, TokenAt, Pos
<1>5. CASE ~(Len(fed[r]) < Used(r)) /\ out[r] # <<>>
  <2>1. Last(out[r]) \in Vocab /\ Device!Last(out[r]) = Last(out[r])
    BY <1>2, <1>5 DEF Last, Device!Last
  <2> QED
    BY <1>1, <1>5, <2>1 DEF Device!NextInput, Token, TokenAt, Pos, Embedded
<1> QED
  BY <1>3, <1>4, <1>5

\* Both have the same room.
LEMMA SameRoom ==
  ASSUME TypeOK, NEW r \in Requests
  PROVE  Device!Room(r) = Room(r)
<1>1. Len(used[r]) = Used(r)
  BY UsedText
<1> QED
  BY <1>1 DEF Device!Room, Device!Smaller, Room, Smaller

\* What a value of pc is to Decoder.
Seen(p) == CASE p = "new"      -> "waiting"
             [] p \in Running -> "running"
             [] OTHER         -> "answered"

\* Decoder's state is that of pc, and follows it.
LEMMA SeenState ==
  /\ state = [r \in Requests |-> Seen(pc[r])]
  /\ state' = [r \in Requests |-> Seen(pc'[r])]
<1>1. state = [r \in Requests |-> Seen(pc[r])]
  BY DEF state, Seen
<1>2. state' = [r \in Requests |-> Seen(pc'[r])]
  BY DEF state, Seen
<1> QED
  BY <1>1, <1>2

\* A step of pc is one of Decoder's state.
LEMMA SeenStep ==
  ASSUME TypeOK, NEW r \in Requests, NEW p, pc' = [pc EXCEPT ![r] = p]
  PROVE  state' = [state EXCEPT ![r] = Seen(p)] /\ state[r] = Seen(pc[r])
<1>1. pc'[r] = p /\ \A q \in Requests \ {r} : pc'[q] = pc[q]
  BY DEF TypeOK
<1>2. /\ DOMAIN state = Requests
      /\ \A q \in Requests : state[q] = Seen(pc[q])
      /\ state' = [q \in Requests |-> Seen(pc'[q])]
  BY SeenState
<1>3. \A q \in Requests \ {r} : Seen(pc'[q]) = state[q]
  BY <1>1, <1>2
<1>4. state = [q \in Requests |-> state[q]]
  BY <1>2, SeenState
<1> QED
  BY <1>1, <1>2, <1>3, <1>4

\* The prompt Decoder sees never changes.
LEMMA UsedFixed ==
  ASSUME prompt' = prompt
  PROVE  used' = used /\ \A r \in Requests : Used(r)' = Used(r)
  BY DEF used, Used, Smaller, Embedded

\* Initial states map to initial states.
LEMMA InitRefines == Init => Device!Init
<1> SUFFICES ASSUME Init PROVE Device!Init
  OBVIOUS
<1>1. TypeOK
  BY InitInv
<1>2. used \in [Requests -> UsedPrompts]
  <2>1. ASSUME NEW r \in Requests PROVE used[r] \in UsedPrompts
    BY <1>1, <2>1 DEF TypeOK, used, Used, UsedPrompts
  <2> QED
    BY <2>1 DEF used
<1>3. state = [r \in Requests |-> "waiting"]
  <2>1. \A r \in Requests : pc[r] = "new"
    BY DEF Init
  <2>2. \A r \in Requests : Seen(pc[r]) = "waiting"
    BY <2>1 DEF Seen, Running
  <2> QED
    BY <2>2, SeenState
<1>4. stream \in [Requests -> BOOLEAN]
  BY LocalAssumption DEF Init
<1> QED
  BY <1>2, <1>3, <1>4 DEF Init, Device!Init

\* A call that begins begins for Decoder.
LEMMA BeginRefines ==
  ASSUME TypeOK, NEW r \in Requests, Begin(r)
  PROVE  Device!Begin(r)
<1>1. pc[r] = "new" /\ pc' = [pc EXCEPT ![r] = "embed"]
  BY DEF Begin
<1>2. /\ prompt' = prompt /\ budget' = budget /\ stream' = stream
      /\ fed' = fed /\ out' = out /\ logits' = logits
  BY DEF Begin, argVars, textVars
<1>3. Seen("new") = "waiting" /\ Seen("embed") = "running"
  BY DEF Seen, Running
<1>4. state[r] = "waiting" /\ state' = [state EXCEPT ![r] = "running"]
  BY <1>1, <1>3, SeenStep
<1> QED
  BY <1>2, <1>4, UsedFixed DEF Device!Begin

\* Decoder does not see a token walk through the layers.
LEMMA WalkStutters ==
  ASSUME TypeOK, NEW r \in Requests, Embed(r) \/ Block(r)
  PROVE  UNCHANGED Device!decoderVars
<1>1. /\ prompt' = prompt /\ budget' = budget /\ stream' = stream
      /\ fed' = fed /\ out' = out /\ logits' = logits
  BY DEF Embed, Block, argVars, textVars
<1>2. \A q \in Requests :
         pc'[q] = pc[q] \/ (pc[q] \in Running /\ pc'[q] \in Running)
  BY DEF TypeOK, Embed, Block, Running
<1>3. \A q \in Requests : Seen(pc'[q]) = Seen(pc[q])
  BY <1>2 DEF Seen, Running
<1>4. state' = state
  BY <1>3, SeenState
<1> QED
  BY <1>1, <1>4, UsedFixed DEF Device!decoderVars

\* A token of the prompt.
LEMMA PrefillRefines ==
  ASSUME TypeOK, CallInv, NEW r \in Requests, Prefill(r)
  PROVE  Device!Prefill(r)
<1>1. /\ pc[r] = "head" /\ pc' = [pc EXCEPT ![r] = "embed"]
      /\ Len(fed[r]) < Used(r)
      /\ fed' = [fed EXCEPT ![r] = Append(@, Token(r))]
      /\ prompt' = prompt /\ budget' = budget /\ stream' = stream
      /\ out' = out /\ logits' = logits
  BY DEF Prefill, argVars, Pos, Token
<1>2. Seen("head") = "running" /\ Seen("embed") = "running"
  BY DEF Seen, Running
<1>3. state[r] = "running" /\ state' = [state EXCEPT ![r] = "running"]
  BY <1>1, <1>2, SeenStep
<1>4. state' = state
  BY <1>3, SeenState
<1>5. Len(used[r]) = Used(r) /\ Device!NextInput(r) = Token(r)
  BY UsedText, SameInput
<1> QED
  BY <1>1, <1>3, <1>4, <1>5, UsedFixed DEF Device!Prefill

\* A token of the answer: what is left in x is the context it is sampled from.
LEMMA SampleRefines ==
  ASSUME TypeOK, CallInv, NEW r \in Requests, NEW t \in Vocab, Sample(r, t)
  PROVE  Device!Decode(r, t)
<1>1. /\ pc[r] = "head" /\ Len(fed[r]) >= Used(r)
      /\ fed' = [fed EXCEPT ![r] = Append(@, Token(r))]
      /\ out' = [out EXCEPT ![r] = Append(@, t)]
      /\ logits' = [logits EXCEPT ![r] = x[r]]
      /\ prompt' = prompt /\ budget' = budget /\ stream' = stream
  BY DEF Sample, argVars, Pos, Token
<1>2. \/ /\ stream[r] \/ t = Eos \/ Len(out'[r]) = Room(r)
         /\ pc' = [pc EXCEPT ![r] = "answered"]
      \/ /\ t # Eos /\ Len(out'[r]) < Room(r)
         /\ pc' = [pc EXCEPT ![r] = "embed"]
  BY DEF Sample
<1>3. Len(used[r]) = Used(r) /\ Device!NextInput(r) = Token(r)
      /\ Device!Room(r) = Room(r)
  BY UsedText, SameInput, SameRoom
<1>4. fed'[r] = Text(r) /\ x[r] = Text(r)
  BY <1>1 DEF TypeOK, Text, CallInv, Cached
<1>5. Len(out[r]) < Room(r)
  BY <1>1 DEF CallInv, Lengthwise, Running
<1>6. Seen("head") = "running" /\ Seen("embed") = "running"
      /\ Seen("answered") = "answered"
  BY DEF Seen, Running
<1>7. state[r] = "running"
  BY <1>1, <1>6, SeenState
<1>8. \/ /\ t = Eos \/ Len(out'[r]) = Room(r) \/ stream[r]
         /\ state' = [state EXCEPT ![r] = "answered"]
      \/ /\ t # Eos /\ Len(out'[r]) < Room(r)
         /\ state' = state
  <2>1. CASE pc' = [pc EXCEPT ![r] = "answered"]
    <3>0. state' = [state EXCEPT ![r] = Seen("answered")]
      BY <2>1, SeenStep
    <3>1. state' = [state EXCEPT ![r] = "answered"]
      BY <3>0, <1>6
    <3>2. pc'[r] = "answered"
      BY <2>1 DEF TypeOK
    <3>3. pc' # [pc EXCEPT ![r] = "embed"]
      BY <3>2 DEF TypeOK
    <3> QED
      BY <1>2, <3>1, <3>3
  <2>2. CASE /\ t # Eos /\ Len(out'[r]) < Room(r)
             /\ pc' = [pc EXCEPT ![r] = "embed"]
    <3>1. pc' = [pc EXCEPT ![r] = "embed"]
      BY <2>2
    <3>2. state' = [state EXCEPT ![r] = Seen("embed")]
      BY <3>1, SeenStep
    <3>3. state' = [state EXCEPT ![r] = state[r]]
      BY <3>2, <1>6, <1>7
    <3>4. state' = state
      BY <3>3, SeenState
    <3> QED
      BY <2>2, <3>4
  <2> QED
    BY <1>2, <2>1, <2>2
<1>9. logits' = [logits EXCEPT ![r] = fed'[r]]
  BY <1>1, <1>4
<1>10. used' = used
  BY <1>1, UsedFixed
<1> QED
  BY <1>1, <1>3, <1>5, <1>7, <1>8, <1>9, <1>10 DEF Device!Decode

\* Every step is a step of Decoder or none.
LEMMA StepRefines ==
  TypeOK /\ CallInv /\ [Next]_vars => [Device!Next]_(Device!decoderVars)
<1> SUFFICES ASSUME TypeOK, CallInv, [Next]_vars
             PROVE  [Device!Next]_(Device!decoderVars)
  OBVIOUS
<1>1. ASSUME NEW r \in Requests, Generate(r)
      PROVE  [Device!Next]_(Device!decoderVars)
  <2>1. CASE Begin(r)
    BY <2>1, BeginRefines DEF Device!Next
  <2>2. CASE Embed(r) \/ Block(r)
    BY <2>2, WalkStutters
  <2>3. CASE Prefill(r)
    BY <2>3, PrefillRefines DEF Device!Next
  <2>4. ASSUME NEW t \in Vocab, Sample(r, t)
        PROVE  [Device!Next]_(Device!decoderVars)
    BY <2>4, SampleRefines DEF Device!Next
  <2> QED
    BY <1>1, <2>1, <2>2, <2>3, <2>4 DEF Generate
<1>2. ASSUME UNCHANGED vars PROVE UNCHANGED Device!decoderVars
  <2>1. /\ prompt' = prompt /\ budget' = budget /\ stream' = stream
        /\ pc' = pc /\ fed' = fed /\ out' = out /\ logits' = logits
    BY <1>2 DEF vars, argVars, textVars
  <2>2. state' = state
    BY <2>1, SeenState
  <2> QED
    BY <2>1, <2>2, UsedFixed DEF Device!decoderVars
<1> QED
  BY <1>1, <1>2 DEF Next, Finished

\* Generation on one device does what Decoder promises: the prompt is fed, cut
\* to the context, then its last token again and the tokens produced, and every
\* token is sampled from the logits of exactly the tokens fed so far.
THEOREM ImplementsDecoder == Spec => RefinesDecoder
  BY Invariant, InitRefines, StepRefines, PTL DEF Spec, RefinesDecoder, Device!Spec
=============================================================================
