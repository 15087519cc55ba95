------------------------------ MODULE GgufFile ------------------------------
(***************************************************************************)
(* Reading a GGUF file (gguf_loader.cpp).                                  *)
(*                                                                         *)
(* A file is its metadata, entries of a key, a type and a value, and its   *)
(* tensors; weights are left out.  A key is <<architecture, name>>, <<"",  *)
(* name>> when it is not qualified; tensors and layers are named <<kind,   *)
(* layer>>.                                                                *)
(***************************************************************************)
EXTENDS Halves, Sequences
LOCAL INSTANCE SequencesExt

\* The entries of a list at some places, and those that pass a test, in order:
\* SelectSeq as a recursive function, of which there are proofs.
Picked(list, places) ==
    LET upTo[k \in 0 .. Len(list)] ==
            IF k = 0 THEN <<>>
            ELSE upTo[k - 1] \o (IF k \in places THEN <<list[k]>> ELSE <<>>)
    IN  upTo[Len(list)]

Where(list, Test(_)) == Picked(list, {k \in DOMAIN list : Test(list[k])})

IntTypes == {"UINT8", "INT8", "UINT16", "INT16", "UINT32", "INT32", "UINT64",
             "INT64", "BOOL"}

\* The arrays that are kept, with the type they must have; others are skipped.
TokenizerArrays == {<<"tokens", "STRING">>, <<"scores", "FLOAT32">>,
                    <<"types", "INT32">>}

\* The reader finds the end of an entry: the skip takes four bytes for a bool
\* and for an array.
InStep(kv) ==
    \/ kv.type # "ARRAY"
    \/ <<kv.key[2], kv.elem>> \in TokenizerArrays
    \/ kv.elem \notin {"BOOL", "ARRAY"}
    \/ kv.value = 0

\* parse_gguf_internal: after an array whose end it misses the reader takes
\* values for keys, and what it finds is nothing that was written.
Lost(file) == \E k \in DOMAIN file.metadata : ~InStep(file.metadata[k])

Metadata(file) ==
    IF Lost(file)
    THEN SubSeq(file.metadata, 1,
                CHOOSE k \in DOMAIN file.metadata :
                    /\ ~InStep(file.metadata[k])
                    /\ \A j \in 1 .. k - 1 : InStep(file.metadata[j]))
    ELSE file.metadata

TensorInfos(file) == IF Lost(file) THEN <<>> ELSE file.tensors

\* The header: the magic number, and a version of at most 3.
Valid(file) == file.version <= 3

-----------------------------------------------------------------------------
(* Metadata.                                                               *)

\* The entries of a map: the last value of a key replaces the others.
Entries(file, types, key) ==
    Where(Metadata(file), LAMBDA kv : kv.key = key /\ kv.type \in types)

LastValue(found, default) == IF found = <<>> THEN default ELSE Last(found).value

arch(file) ==
    LastValue(Entries(file, {"STRING"}, <<"general", "architecture">>), "qwen3")

\* get_int: a number of the architecture, else one without it.
get_int(file, name, default) ==
    LastValue(Entries(file, IntTypes, <<arch(file), name>>),
              LastValue(Entries(file, IntTypes, <<"", name>>), default))

head_count(file) ==
    get_int(file, "attention.head_count", get_int(file, "head_count", 0))

\* Only an entry of type INT32 sets it.
eos_token_id(file) ==
    LastValue(Entries(file, {"INT32"}, <<"tokenizer.ggml", "eos_token_id">>), -1)

-----------------------------------------------------------------------------
(* Tensors.                                                                *)

\* find_tensor: the first of this name, if there is one.
find_tensor(file, name) ==
    LET found == Where(TensorInfos(file), LAMBDA t : t.name = name)
    IN  IF found = <<>> THEN <<>> ELSE <<found[1]>>

Has(file, name) == find_tensor(file, name) # <<>>
Tensor(file, name) == find_tensor(file, name)[1]

\* extract_f32_tensor knows these types; of any other it makes nothing.
Extracts(tensor) == tensor.type \in {"F32", "F16", "Q2_0", "TQ2_0"}

\* A norm: the first tensor that is there, even if nothing comes of it; ones
\* when there is none.
Norm(file, names) ==
    LET there == Where(names, LAMBDA n : Has(file, n))
    IN  IF there = <<>> THEN "ones"
        ELSE IF Extracts(Tensor(file, there[1])) THEN "weights" ELSE "none"

\* convert_q2_0_to_layer: type 36 are codes without a scale, and anything else
\* is read as blocks of Q2_0, whatever it is.
ConvertedAs(tensor) ==
    IF tensor.type \in {"Q2_0", "TQ2_0", "I2_S"} THEN "blocks" ELSE "misread"

\* dims[0] are the columns.
Layer(name, tensor, as) ==
    [name |-> name, as |-> as, terms |-> IF as = "raw" THEN 0 ELSE 1,
     rows |-> tensor.dims[2], cols |-> tensor.dims[1]]

\* add_q2_layer for a layer: what is not there is logged and left out.
TensorOf ==
    << <<"attn_q", "q_proj">>, <<"attn_k", "k_proj">>, <<"attn_v", "v_proj">>,
       <<"attn_output", "o_proj">>, <<"ffn_gate", "gate_proj">>,
       <<"ffn_up", "up_proj">>, <<"ffn_down", "down_proj">> >>

\* Mutant: the projections are mapped without their layer.
BlockLayers_First(file, i) ==
    LET there == Where(TensorOf, LAMBDA p : Has(file, <<p[1], 0>>))
    IN  [k \in DOMAIN there |->
            LET t == Tensor(file, <<there[k][1], 0>>)
            IN  Layer(<<there[k][2], 0>>, t, ConvertedAs(t))]

BlockLayers(file, i) ==
    LET there == Where(TensorOf, LAMBDA p : Has(file, <<p[1], i>>))
    IN  [k \in DOMAIN there |->
            LET t == Tensor(file, <<there[k][1], i>>)
            IN  Layer(<<there[k][2], i>>, t, ConvertedAs(t))]

\* lm_head is raw when it is not quantized, and may be missing.
HeadLayers(file) ==
    IF ~Has(file, <<"output", -1>>) THEN <<>>
    ELSE LET t == Tensor(file, <<"output", -1>>)
         IN  <<Layer(<<"lm_head", -1>>, t,
                     IF t.type \in {"F32", "F16"} THEN "raw"
                     ELSE ConvertedAs(t))>>

-----------------------------------------------------------------------------
(* load_gguf_model.                                                        *)

\* The model's numbers; there is no bound on the context.
GgufConfig(file) ==
    [vocab |-> Tensor(file, <<"token_embd", -1>>).dims[2],
     hidden |-> get_int(file, "embedding_length", 0),
     inter |-> get_int(file, "feed_forward_length", 0),
     layers |-> get_int(file, "block_count", 0),
     heads |-> head_count(file),
     kv |-> get_int(file, "attention.head_count_kv", head_count(file)),
     context |-> get_int(file, "context_length", 2048)]

\* It returns a model.  Without a number of heads it divides by zero.
GgufLoads(file) ==
    /\ Valid(file)
    /\ get_int(file, "embedding_length", 0) # 0
    /\ Has(file, <<"token_embd", -1>>)
    /\ head_count(file) # 0
    /\ Extracts(Tensor(file, <<"token_embd", -1>>))

GgufLayers(file) ==
    FlattenSeq([i \in 1 .. get_int(file, "block_count", 0) |->
                   BlockLayers(file, i - 1)])
    \o HeadLayers(file)

\* A weight of the embedding; of a block, its code and the block's scale.
GgufWeight(file) ==
    IF Tensor(file, <<"token_embd", -1>>).type = "F32"
    THEN Exact("F32", file.weight) ELSE fp16_to_fp32(file.weight)

GgufFinalNorm(file) ==
    Norm(file, << <<"token_embd_norm", -1>>, <<"output_norm", -1>> >>)

\* The norms of layer i; those BitNet adds are ones in other models.
GgufNorms(file, i) ==
    [kind \in {"attn_norm", "ffn_norm", "attn_sub_norm", "ffn_sub_norm"} |->
        Norm(file, << <<kind, i>> >>)]
=============================================================================
