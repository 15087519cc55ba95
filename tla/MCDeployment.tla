---------------------------- MODULE MCDeployment ----------------------------
(* Deployments on four workers: every split of a plain model by the RAM of   *)
(* the workers, and each variation of a checkpoint in each way of starting.  *)
EXTENDS Deployment

MCLayerCounts == {3, 4, 5, 6, 7}
MCRams == {0, 1, 2, 3, 5}
MCModelSizes == {0, 3, 8}
\* Of five layers: a pipeline, one that ends early, and two that do not chain.
MCHeld == <<{<<0, 1>>}, {<<1, 2>>, <<0, 1>>}, {<<2, 3>>}, {<<3, 4>>, <<3, 5>>}>>

Plain == [layers |-> 4, vocab |-> 1000, hidden |-> 64, inter |-> 200,
          heads |-> 4, kv |-> 2, headDim |-> 16, context |-> 2048,
          fusedQkv |-> FALSE, fusedMlp |-> FALSE, tied |-> FALSE,
          qkNorm |-> FALSE, preNorms |-> TRUE, terms |-> 12,
          dtype |-> "BF16", projections |-> "same", weight |-> 15360]

\* Qwen3, Phi-3 and the same with one of its two fusions, OLMo 2, a head of
\* 2^24 bytes, an embedding of 2^29 - 8 numbers, of 2^30 + 2^15, with norms behind
\* the head and without, and of 2^31 + 2^15; too many terms, also behind a q_proj
\* of 2^24 bytes, an o_proj of 7 * 2^24 bytes; long contexts and none, no
\* intermediate size, more heads than dimensions; all or only the projections in
\* FP8.
Variations ==
    {[Plain EXCEPT !.tied = TRUE],
     [Plain EXCEPT !.qkNorm = TRUE, !.headDim = 32],
     [Plain EXCEPT !.fusedQkv = TRUE, !.fusedMlp = TRUE],
     [Plain EXCEPT !.fusedQkv = TRUE],
     [Plain EXCEPT !.fusedQkv = TRUE, !.headDim = 32],
     [Plain EXCEPT !.preNorms = FALSE],
     [Plain EXCEPT !.vocab = 65536],
     [Plain EXCEPT !.vocab = 65536, !.qkNorm = TRUE],
     [Plain EXCEPT !.vocab = 67108863, !.hidden = 8, !.headDim = 2],
     [Plain EXCEPT !.vocab = 32769, !.hidden = 32768],
     [Plain EXCEPT !.vocab = 32769, !.hidden = 32768, !.qkNorm = TRUE],
     [Plain EXCEPT !.vocab = 65537, !.hidden = 32768],
     [Plain EXCEPT !.terms = 33],
     [Plain EXCEPT !.terms = 33, !.fusedQkv = TRUE, !.hidden = 2048, !.headDim = 512],
     [Plain EXCEPT !.inter = 0],
     [Plain EXCEPT !.hidden = 3, !.headDim = 1],
     [Plain EXCEPT !.hidden = 1087412, !.inter = 128, !.terms = 3, !.vocab = 3],
     [Plain EXCEPT !.context = 40960],
     [Plain EXCEPT !.context = 1048576],
     [Plain EXCEPT !.context = 0],
     [Plain EXCEPT !.kv = 4],
     [Plain EXCEPT !.dtype = "F8"],
     [Plain EXCEPT !.projections = "F8"]}

\* 0, subnormals from the smallest to the largest and around those a GGUF file
\* keeps, the smallest normal number, 1, infinity and NaN, some of them negative.
Weighted ==
    {[Plain EXCEPT !.dtype = "F16", !.weight = w] :
        w \in {0, 1, 31, 32, 32831, 64, 33280, 1023, 1024, 48128, 31744, 31745}}
    \cup
    {[Plain EXCEPT !.dtype = "BF16", !.weight = w] : w \in {0, 32769, 127, 128, 65408}}
    \cup
    {[Plain EXCEPT !.dtype = "F32"]}

\* What this program's makers publish, the same with halves and other
\* quantizations, BitNet, files of llama.cpp, and a version to come.
Q2(embedding) == [version |-> 3, flags |-> FALSE, eos |-> "INT32",
                  embedding |-> embedding, output |-> "F16", projections |-> "Q2_0"]

MCStyles ==
    "gguf" :> Q2("F32") @@
    "halves" :> [Q2("F16") EXCEPT !.output = "Q2_0"] @@
    "bitnet" :> [Q2("F16") EXCEPT !.projections = "I2_S"] @@
    "llama" :> [Q2("F16") EXCEPT !.eos = "UINT32", !.projections = "Q4_K"] @@
    "gemma" :> [Q2("F16") EXCEPT !.flags = TRUE] @@
    "small" :> [Q2("Q6_K") EXCEPT !.eos = "UINT32"] @@
    "ternary" :> [Q2("TQ2_0") EXCEPT !.projections = "TQ2_0"] @@
    "next" :> [Q2("F32") EXCEPT !.version = 4]

EvenRam == [i \in Nodes |-> 5]

Job(ckpt, format, way, rams, bytes, experts) ==
    [ckpt |-> ckpt, format |-> format, way |-> way, ram |-> rams,
     size |-> bytes, experts |-> experts]

MCDeployments ==
    {Job([Plain EXCEPT !.layers = l], "als", "daemon", r, s, 0) :
        l \in {3, 4, 6, 7}, r \in [Nodes -> {0, 1, 2, 5}], s \in MCModelSizes}
    \cup
    {Job(Plain, "als", "bare", r, 3, 0) : r \in [Nodes -> {0, 1, 5}]}
    \cup
    {Job(c, f, w, EvenRam, 3, 0) : c \in Variations, f \in {"als", "gguf"},
                                   w \in {"daemon", "bare"}}
    \cup
    {Job([Plain EXCEPT !.layers = 5], f, "manual", EvenRam, 3, 0) : f \in {"als", "gguf"}}
    \cup
    {Job(c, f, "mote", EvenRam, 3, e) : c \in Variations \cup {Plain},
                                        f \in {"als", "gguf"}, e \in 0 .. 3}
    \cup
    {Job(c, f, "mote", EvenRam, 3, 1) : c \in Weighted, f \in {"als", "halves"}}
    \cup
    {Job(Plain, f, w, EvenRam, 3, 1) : f \in DOMAIN MCStyles, w \in {"bare", "mote"}}

\* A checkpoint whose lm_head has 2^24 bytes, and one with 256000.
MCHeads ==
    {Job([Plain EXCEPT !.vocab = v], "als", "bare", EvenRam, 3, 0) :
        v \in {1000, 65536}}
=============================================================================
