----------------------------- MODULE ModelFiles -----------------------------
(***************************************************************************)
(* How a Hugging Face checkpoint becomes a model directory, and what a     *)
(* process gets when it loads one, whole or as a shard.                    *)
(*                                                                         *)
(* convert/export.cpp writes model_decomposed.bin, a sequence of records   *)
(* named after the linear layers, and model_extra.bin, the config followed *)
(* by the embedding and the norms.  loader.h reads both on one device,     *)
(* distributed/shard_loader.h reads a slice of them on a worker, and       *)
(* gguf_loader.cpp reads a GGUF file instead.                              *)
(*                                                                         *)
(* Weights are not modelled, their shapes and byte lengths are: the        *)
(* readers decide by them.  The exception is one weight of the embedding,  *)
(* which is followed from type to type.  A layer is named <<kind, index>>. *)
(***************************************************************************)
EXTENDS GgufFile
LOCAL INSTANCE SequencesExt

\* A checkpoint: the numbers of its config.json, those below 0 as 0, the head
\* size its projections were built with, which of the usual variations it has, the --terms it is
\* converted with, the types of its tensors in general and of its projections,
\* and 16 bits of its embedding.
Checkpoint ==
    [layers : Nat \ {0}, vocab : Nat \ {0}, hidden : Nat \ {0}, inter : Nat,
     heads : Nat \ {0}, kv : Nat \ {0}, headDim : Nat, context : Nat,
     fusedQkv : BOOLEAN, fusedMlp : BOOLEAN, tied : BOOLEAN,
     qkNorm : BOOLEAN, preNorms : BOOLEAN, terms : Nat \ {0},
     dtype : {"F32", "F16", "BF16", "F8"}, projections : {"same", "F8"},
     weight : Bits16]

\* The projections of a transformer layer.
Projected(c) ==
    {"o_proj", "down_proj"}
    \cup (IF c.fusedQkv THEN {"qkv_proj"} ELSE {"q_proj", "k_proj", "v_proj"})
    \cup (IF c.fusedMlp THEN {"gate_up_proj"} ELSE {"gate_proj", "up_proj"})

\* parse_safetensors skips the tensors of a type it does not know.
Parses(type) == type \in {"F32", "F16", "BF16"}

\* The tensors of a transformer layer that the converter gets.
Tensors(c) ==
    (IF c.projections = "same" THEN Projected(c) ELSE {})
    \cup (IF c.qkNorm THEN {"q_norm", "k_norm"} ELSE {})

\* Their shapes, <<rows, columns>>.
Shape(c, kind) ==
    CASE kind = "q_proj" -> <<c.heads * c.headDim, c.hidden>>
      [] kind \in {"k_proj", "v_proj"} -> <<c.kv * c.headDim, c.hidden>>
      [] kind = "qkv_proj" -> <<(c.heads + 2 * c.kv) * c.headDim, c.hidden>>
      [] kind = "o_proj" -> <<c.hidden, c.heads * c.headDim>>
      [] kind \in {"gate_proj", "up_proj"} -> <<c.inter, c.hidden>>
      [] kind = "down_proj" -> <<c.hidden, c.inter>>
      [] kind \in {"q_norm", "k_norm"} -> <<c.headDim, c.headDim>>
      [] kind = "lm_head" -> <<c.vocab, c.hidden>>

LmHead == <<"lm_head", -1>>

IntMax == 2147483647       \* the most an int holds

-----------------------------------------------------------------------------
(* Conversion: enumerate_linears, convert_model, write_decomposed.         *)

Submodules == <<"q_proj", "k_proj", "v_proj", "o_proj",
                "gate_proj", "up_proj", "down_proj">>

\* What stands for a submodule in a layer: its own tensor, a fused qkv_proj in
\* the place of q_proj, or nothing at all.
Linear(c, sub) ==
    IF sub = "q_proj" /\ "qkv_proj" \in Tensors(c) THEN <<"qkv_proj">>
    ELSE IF sub \in Tensors(c) THEN <<sub>>
    ELSE <<>>

\* The linears of a layer, as enumerate_linears goes through them.
LayerLinears(c) ==
    FlattenSeq([s \in DOMAIN Submodules |-> Linear(c, Submodules[s])])

QK == 128     \* qk, the weights of a block

\* Lengths are counted in units of four bytes.  A container has a header and,
\* in each term, a float after the codes of every block.
BlocksLen(c, rows, cols) ==
    1 + c.terms * (1 + rows * ((cols + QK - 1) \div QK) * (QK \div 16 + 1))

\* The bounds of what is modelled: numbers, and the bytes of a container or a
\* norm, that an int holds, and an embedding of less than 2^32 numbers.
SizesBounded(c) ==
    /\ {c.layers, c.vocab, c.inter, c.heads, c.kv, c.heads * c.headDim,
        c.kv * c.headDim, c.context, c.terms} \subseteq 0 .. IntMax
    /\ {c.hidden, c.headDim} \subseteq 0 .. IntMax \div 4
    /\ c.vocab \div 2 < IntMax \div c.hidden
    /\ \A kind \in Projected(c) \ {"qkv_proj", "gate_up_proj"} :
          BlocksLen(c, Shape(c, kind)[1], Shape(c, kind)[2]) <= IntMax \div 4

\* The rows of floats in a raw record; a norm is a vector.
Height(c, kind) == IF kind \in {"q_norm", "k_norm"} THEN 1 ELSE Shape(c, kind)[1]

\* write_decomposed casts the bytes to a uint32_t, which starts again with 2^30
\* of these units.  The product is taken by halves, which ints hold.
LenLimit == 1073741824
RawLen(c, kind) ==
    LET rows == Height(c, kind)
        cols == Shape(c, kind)[2]
    IN  (2 * ((rows * (cols \div 2)) % (LenLimit \div 2)) + rows * (cols % 2)) % LenLimit

\* The length is the record's, not a rest of it.
RawFits(c, kind) ==
    \/ kind \in {"q_norm", "k_norm"} \/ Height(c, kind) = 0
    \/ Shape(c, kind)[2] <= (LenLimit - 1) \div Height(c, kind)

Raw == 1
Container == 2

RawRecord(c, name) ==
    [name |-> name, type |-> Raw, rows |-> Shape(c, name[1])[1],
     cols |-> Shape(c, name[1])[2], len |-> RawLen(c, name[1]),
     fits |-> RawFits(c, name[1]), terms |-> 0]

BlocksRecord(c, name) ==
    LET shape == Shape(c, name[1])
    IN  [name |-> name, type |-> Container, rows |-> shape[1],
         cols |-> shape[2], len |-> BlocksLen(c, shape[1], shape[2]),
         fits |-> TRUE, terms |-> c.terms]

\* The head size the exporter computes.
ConfigHeadDim(c) == c.hidden \div c.heads

\* A fused qkv_proj is split by the rows that head size gives.
FusedRowsMatch(c) ==
    Shape(c, "qkv_proj")[1] = (c.heads + 2 * c.kv) * ConfigHeadDim(c)

\* The records a linear layer becomes.
Records(c, name) ==
    CASE name[1] = "qkv_proj" ->
           [p \in 1 .. 3 |-> RawRecord(c, <<Submodules[p], name[2]>>)]
      [] name[1] = "lm_head" -> <<RawRecord(c, name)>>
      [] OTHER -> <<BlocksRecord(c, name)>>

\* The norms of the queries and keys, all q_norms before all k_norms.
NormRecords(c) ==
    LET of(kind) == [i \in 1 .. c.layers |-> RawRecord(c, <<kind, i - 1>>)]
    IN  IF c.qkNorm THEN of("q_norm") \o of("k_norm") ELSE <<>>

\* The records of layer i.
LayerRecords(c, i) ==
    FlattenSeq([k \in DOMAIN LayerLinears(c) |->
                   Records(c, <<LayerLinears(c)[k], i>>)])

\* Mutant: the norm of the first layer is left out.
Decomposed_NormsShort(c) ==
    FlattenSeq([i \in 1 .. c.layers |-> LayerRecords(c, i - 1)])
    \o Records(c, LmHead)
    \o (IF c.qkNorm THEN Tail(NormRecords(c)) ELSE <<>>)

\* model_decomposed.bin: the layers, the head, the norms.
Decomposed(c) ==
    FlattenSeq([i \in 1 .. c.layers |-> LayerRecords(c, i - 1)])
    \o Records(c, LmHead)
    \o NormRecords(c)

\* convert_model ends with 0: it gets an embedding, the rows of a fused
\* projection match, and write_extra finds the norms of every layer.
Converts(c) ==
    /\ Parses(c.dtype)
    /\ "qkv_proj" \in Tensors(c) => FusedRowsMatch(c)
    /\ c.preNorms

\* The weight of the embedding that is written to model_extra.bin.
ConvertedWeight(c) ==
    CASE c.dtype = "F16" -> f16_to_f32(c.weight)
      [] c.dtype = "BF16" -> bf16_to_f32(c.weight)
      [] OTHER -> Exact(c.dtype, c.weight)

-----------------------------------------------------------------------------
(* Reading model_decomposed.bin.                                           *)

\* sniff_als_layout: the u32 after the columns is the type in its low byte and
\* the low 24 bits of the length above it, of which two are always zero; at most
\* 32 is read as the term count of the old layout.
LowBits(r) == r.len % 4194304

IsOldLayout(r) == LowBits(r) = 0 /\ r.type <= 32

\* After a record that is read as one of the old layout, or whose length is the
\* rest that 32 bits leave, a reader is lost in its data.
Loses(r) == IsOldLayout(r) \/ ~r.fits

\* The last record a reader finds: the first that it gets lost in.
LastFound(file) ==
    IF \E k \in DOMAIN file : Loses(file[k])
    THEN CHOOSE k \in DOMAIN file :
            Loses(file[k]) /\ \A j \in 1 .. k - 1 : ~Loses(file[j])
    ELSE Len(file)

\* A layer in memory.  Of the old layout come bit planes, here planes of
\* whatever bytes follow; the reader leaves num_terms at 0 with them.
Parsed(r) ==
    [name |-> r.name, rows |-> r.rows, cols |-> r.cols,
     as |-> IF IsOldLayout(r) THEN "planes"
            ELSE IF r.type # Raw THEN "blocks"
            ELSE IF r.fits THEN "raw" ELSE "cut",
     terms |-> IF IsOldLayout(r) THEN 0 ELSE r.terms]

\* The layers of a file whose names a reader keeps.
ReadLayers(file, kept) ==
    LET seen == SubSeq(file, 1, LastFound(file))
        mine == Where(seen, LAMBDA r : r.name \in kept)
    IN  [k \in DOMAIN mine |-> Parsed(mine[k])]

\* parse_layer_type_data throws for a container of more than 32 terms, which
\* convert_model writes when it is told to, if the reader finds it.
ReadThrows(file, kept) ==
    \E k \in 1 .. LastFound(file) :
        file[k].terms > 32 /\ ~IsOldLayout(file[k]) /\ file[k].name \in kept

\* Lost in its data, the reader takes it for records, and may throw as well.
ReadMayThrow(dir) ==
    dir.format = "als" /\ LastFound(dir.file) < Len(dir.file)

-----------------------------------------------------------------------------
(* Loading a directory: a checkpoint and, converted or as GGUF, its file.  *)

\* What the converters of other projects make of a checkpoint, which differs
\* in the types and entries of style.
GgufOf(c, style) ==
    LET kv(prefix, name, type, value) ==
            [key |-> <<prefix, name>>, type |-> type, elem |-> "none",
             value |-> value]
        flags == [key |-> <<"arch", "pattern">>, type |-> "ARRAY",
                  elem |-> "BOOL", value |-> c.layers]
        shaped(name, kind, type) ==
            [name |-> name, type |-> type,
             dims |-> <<Shape(c, kind)[2], Shape(c, kind)[1]>>]
        norm(name) == [name |-> name, type |-> "F32", dims |-> <<c.hidden>>]
        subs == Where(TensorOf, LAMBDA p : p[2] \in Projected(c))
        block(i) ==
            <<norm(<<"attn_norm", i>>), norm(<<"ffn_norm", i>>)>>
            \o (IF style.projections # "I2_S" THEN <<>> ELSE
                 <<norm(<<"attn_sub_norm", i>>), norm(<<"ffn_sub_norm", i>>)>>)
            \o [k \in DOMAIN subs |->
                   shaped(<<subs[k][1], i>>, subs[k][2], style.projections)]
    IN  [version |-> style.version,
         weight |-> c.weight,
         metadata |->
            <<kv("general", "architecture", "STRING", "arch")>>
            \o (IF style.flags THEN <<flags>> ELSE <<>>)
            \o <<kv("arch", "block_count", "UINT32", c.layers),
                 kv("arch", "context_length", "UINT32", c.context),
                 kv("arch", "embedding_length", "UINT32", c.hidden),
                 kv("arch", "feed_forward_length", "UINT32", c.inter),
                 kv("arch", "attention.head_count", "UINT32", c.heads)>>
            \o (IF c.kv = c.heads THEN <<>> ELSE
                 <<kv("arch", "attention.head_count_kv", "UINT32", c.kv)>>)
            \o <<kv("tokenizer.ggml", "eos_token_id", style.eos, 2)>>,
         tensors |->
            <<shaped(<<"token_embd", -1>>, "lm_head", style.embedding),
              norm(<<"output_norm", -1>>)>>
            \o (IF c.tied THEN <<>>
                ELSE <<shaped(<<"output", -1>>, "lm_head", style.output)>>)
            \o FlattenSeq([i \in 1 .. c.layers |-> block(i - 1)])]

Names(c) == {<<k, i>> : k \in {"q_proj", "k_proj", "v_proj", "o_proj",
    "gate_proj", "up_proj", "down_proj", "q_norm", "k_norm"},
    i \in 0 .. c.layers - 1}

Least(a, b) == IF a <= b THEN a ELSE b

ContextLimit == 1000000

\* Mutant: only the context is looked at.
ConfigThrows_Context(c) == c.context = 0 \/ c.context > ContextLimit

\* load_config: the numbers of model_extra.bin, the context capped.  It throws
\* for a context of 0 or of more than a million, which the converter writes, as
\* it does an intermediate size of 0 and fewer dimensions than heads.
ConfigThrows(c) ==
    \/ c.context = 0 \/ c.context > ContextLimit
    \/ c.inter = 0 \/ ConfigHeadDim(c) = 0

load_config(c) ==
    [vocab |-> c.vocab, hidden |-> c.hidden, inter |-> c.inter,
     layers |-> c.layers, heads |-> c.heads, kv |-> c.kv,
     context |-> Least(c.context, 4096)]

\* A directory; loads is FALSE when its numbers, or the GGUF file, are refused.
AlsDirectory(c) ==
    [format |-> "als", ckpt |-> c, file |-> Decomposed(c), loads |-> ~ConfigThrows(c)]

GgufDirectory(c, style) ==
    LET file == GgufOf(c, style)
    IN  [format |-> "gguf", ckpt |-> c, file |-> file, loads |-> GgufLoads(file)]

Config(dir) ==
    IF dir.format = "gguf" THEN GgufConfig(dir.file) ELSE load_config(dir.ckpt)

\* The head size is corrected by the rows of layer 0's q_proj, when loaded.
HeadDim(dir, list) ==
    LET q == {k \in DOMAIN list : list[k].name = <<"q_proj", 0>>}
    IN  IF dir.format = "als" /\ q # {}
        THEN list[CHOOSE k \in q : TRUE].rows \div dir.ckpt.heads
        ELSE ConfigHeadDim(Config(dir))

\* load_embedding makes a vector of vocab * hidden numbers, an int: from 2^31
\* on it is negative, and the vector throws length_error.
EmbeddingThrows(c) == c.vocab > IntMax \div c.hidden

\* load_final_norm seeks to 36 + vocab * hidden * 4 in an int, here in units
\* of four bytes: 32 bits are exceeded from 2^29 on.
Wrapped(words) == ((words + 536870912) % 1073741824) - 536870912

FinalNormAt(c) == 9 + c.vocab * c.hidden

\* Before the file's begin nothing is read, elsewhere numbers of the embedding.
FinalNorm(dir) ==
    IF dir.format = "gguf" THEN GgufFinalNorm(dir.file)
    ELSE LET read == Wrapped(FinalNormAt(dir.ckpt))
         IN  IF read = FinalNormAt(dir.ckpt) THEN "weights"
             ELSE IF read < 0 THEN "zeros" ELSE "others"

\* The layers whose query and key norms were lifted out of the layer list.
Lifted(list) ==
    {list[k].name : k \in {j \in DOMAIN list :
        list[j].name[1] \in {"q_norm", "k_norm"} /\ list[j].as = "raw"}}

Unlifted(list) ==
    Where(list, LAMBDA l : l.name[1] \notin {"q_norm", "k_norm"})

Model(dir, list) ==
    [config |-> Config(dir), headDim |-> HeadDim(dir, list),
     weight |-> IF dir.format = "gguf" THEN GgufWeight(dir.file)
                ELSE ConvertedWeight(dir.ckpt),
     norms |-> Lifted(list), layers |-> Unlifted(list),
     embedding |-> "weights", finalNorm |-> FinalNorm(dir)]

DeviceThrows(dir) ==
    \/ ~dir.loads
    \/ /\ dir.format = "als"
       /\ \/ EmbeddingThrows(dir.ckpt)
          \/ ReadThrows(dir.file, Names(dir.ckpt) \cup {LmHead})

load_model_from(dir) ==
    Model(dir, IF dir.format = "gguf" THEN GgufLayers(dir.file)
               ELSE ReadLayers(dir.file, Names(dir.ckpt) \cup {LmHead}))

\* The names of a slice [s, e).
Slice(c, s, e) == {n \in Names(c) : s <= n[2] /\ n[2] < e}

\* Mutants: the end of the range is kept too; the head goes to the first.
Kept_Closed(c, spec) ==
    Slice(c, spec.start_layer, spec.end_layer + 1)
    \cup (IF spec.is_last THEN {LmHead} ELSE {})

Kept_HeadFirst(c, spec) ==
    Slice(c, spec.start_layer, spec.end_layer)
    \cup (IF spec.is_first THEN {LmHead} ELSE {})

Kept(c, spec) ==
    Slice(c, spec.start_layer, spec.end_layer)
    \cup (IF spec.is_last THEN {LmHead} ELSE {})

\* load_model_shard.  A range outside the model throws, but not for GGUF.
ShardThrows(dir, spec) ==
    \/ ~dir.loads
    \/ /\ dir.format = "als"
       /\ \/ spec.end_layer < spec.start_layer
          \/ spec.end_layer > dir.ckpt.layers
          \/ spec.is_first /\ EmbeddingThrows(dir.ckpt)
          \/ ReadThrows(dir.file, Kept(dir.ckpt, spec))

\* The flags it is given decide on embedding and final norm, of GGUF both stay.
Embeds(dir, spec) == dir.format = "gguf" \/ spec.is_first

\* Mutant: the final norm goes with the embedding.
Normalizes_First(dir, spec) == Embeds(dir, spec)

Normalizes(dir, spec) == dir.format = "gguf" \/ spec.is_last

load_model_shard(dir, spec) ==
    LET kept == Kept(dir.ckpt, spec)
        model == Model(dir,
              IF dir.format = "gguf"
              THEN Where(GgufLayers(dir.file), LAMBDA l : l.name \in kept)
              ELSE ReadLayers(dir.file, kept))
    IN  [model EXCEPT !.embedding = IF Embeds(dir, spec) THEN @ ELSE "none",
                      !.finalNorm = IF Normalizes(dir, spec) THEN @ ELSE "none"]

\* The flags a worker keeps are derived from the range, whatever it was sent.
OwnSpec(c, spec) ==
    [spec EXCEPT !.is_first = (spec.start_layer = 0),
                 !.is_last = (spec.end_layer = c.layers)]

-----------------------------------------------------------------------------
(* What a forward pass looks up.                                           *)

LayerNames(model) == {model.layers[k].name : k \in DOMAIN model.layers}

Needed(s, e) ==
    {<<Submodules[k], i>> : k \in DOMAIN Submodules, i \in s .. e - 1}

\* model_forward finds every layer; without an lm_head it uses the embedding.
RunsOnDevice(c, model) == Needed(0, c.layers) \subseteq LayerNames(model)

\* handle_forward of the worker of a shard: the last one needs an lm_head.
RunsOnWorker(spec, model) ==
    /\ Needed(spec.start_layer, spec.end_layer) \subseteq LayerNames(model)
    /\ spec.is_last => LmHead \in LayerNames(model)
=============================================================================
