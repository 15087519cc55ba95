----------------------------- MODULE Deployment -----------------------------
(***************************************************************************)
(* From a checkpoint to what runs it: `terllama convert`, and then either  *)
(* mote-build or a cluster.  A cluster is                                  *)
(*                                                                         *)
(*   "daemon"   planned by the node daemon from the RAM its peers          *)
(*              advertise, one terllama-worker --shard per node, and then  *)
(*              the coordinator;                                           *)
(*   "manual"   workers started by hand, with or without a shard, of this  *)
(*              model or of another;                                       *)
(*   "bare"     workers without a shard.                                   *)
(*                                                                         *)
(* Coordinator::start asks every worker for its health, adopts the shards  *)
(* they hold when these make up the model, and else plans with             *)
(* compute_shards (Partitioner) and has each worker load its shard.        *)
(* Workers may die while this goes on.                                     *)
(***************************************************************************)
EXTENDS Partitioner, MoteFile, TLC

CONSTANTS
    Deployments,  \* the deployments to look at: records, see MCDeployment
    Styles,       \* GGUF files by name: the types and entries they differ in
    Held,         \* of each worker, the shards <<start, end>> it may be started with
    None,         \* no shard; no answer yet
    NoShard,      \* the answer of a worker without a shard
    Dead,         \* a worker process that is gone
    MaxDeaths     \* bound: workers that die

ASSUME DeploymentAssumption ==
    /\ MaxDeaths \in Nat
    /\ Held \in [Nodes -> SUBSET (Nat \X Nat)]
    /\ \A j \in Deployments :
          /\ j.ckpt \in Checkpoint /\ j.ckpt.layers \in LayerCounts
          /\ j.ram \in [Nodes -> Rams] /\ j.size \in ModelSizes
          /\ j.way = "daemon" \/ j.size \in Rams
          /\ j.experts \in Nat
          /\ j.format = "als" \/ j.format \in DOMAIN Styles
    /\ \A f \in DOMAIN Styles : Styles[f].version \in Nat /\ Styles[f].flags \in BOOLEAN
    /\ None # NoShard /\ None # Dead
    /\ {None, NoShard} \cap Shard = {}
    /\ {None, Dead} \cap [spec : Shard, here : BOOLEAN] = {}

VARIABLES
    job,      \* the deployment: checkpoint, "als" or a style, way, experts
    stage,    \* where it is
    workers,  \* of each worker: Dead, None, or what it loaded
    answers,  \* pre[]: what the workers said when asked for their health
    plan,     \* the coordinator's shards, by worker
    pushed    \* the number of shards it has had loaded

worldVars == <<workers, answers, plan, pushed>>
deployVars == <<job, stage, worldVars, vars>>

\* The model directories, those of each deployment and of the same model with
\* a layer more, and the models a device loads from them.
More(c) == [c EXCEPT !.layers = @ + 1]

Sources ==
    UNION {{<<j.ckpt, j.format>>, <<More(j.ckpt), j.format>>} : j \in Deployments}

Directory(s) ==
    IF s[2] = "als" THEN AlsDirectory(s[1]) ELSE GgufDirectory(s[1], Styles[s[2]])

Directories == [s \in Sources |-> Directory(s)]

Models ==
    [s \in Sources |-> IF DeviceThrows(Directories[s]) THEN None
                       ELSE load_model_from(Directories[s])]

\* None stands for no model and is none.
ASSUME NoneIsNoModel ==
    \A s \in Sources :
        ~DeviceThrows(Directories[s]) => load_model_from(Directories[s]) # None

\* The sizes that ModelFiles is right for.
ASSUME SourcesBounded == \A s \in Sources : SizesBounded(s[1])

\* The directories a reader may get lost in, and those whose model mote-build
\* can take apart.
Treacherous == {s \in Sources : ReadMayThrow(Directories[s])}
Separable ==
    {s \in Sources : Models[s] # None /\ DenseFound(s[1], Models[s])}

Source == <<job.ckpt, job.format>>
Dir == Directories[Source]
OtherDir == Directories[<<More(job.ckpt), job.format>>]
CkptOf(here) == IF here THEN job.ckpt ELSE More(job.ckpt)
DeviceModel == Models[Source]

Asked == {i \in Nodes : answers[i] # None}

SpecOf(s, e, c) == [start_layer |-> s, end_layer |-> e,
                   is_first |-> s = 0, is_last |-> e = c.layers]

-----------------------------------------------------------------------------

\* ram and size are the arguments of compute_shards.  The coordinator takes
\* the size of the model for the RAM of a worker that reports none.
DeployInit ==
    /\ job \in Deployments
    /\ layers = job.ckpt.layers
    /\ size = job.size
    /\ ram = [i \in Nodes |-> IF job.way # "daemon" /\ job.ram[i] = 0
                              THEN job.size ELSE job.ram[i]]
    /\ phase = "floors" /\ at = 1 /\ start = 0 /\ remaining = 0
    /\ result = [i \in Nodes |-> 0] /\ rest = [i \in Nodes |-> 0]
    /\ given = {} /\ shards = <<>>
    /\ stage = IF job.format = "als" THEN "convert" ELSE "directory"
    /\ workers = [i \in Nodes |-> None]
    /\ answers = [i \in Nodes |-> None]
    /\ plan = <<>>
    /\ pushed = 0

Stage(from, to) == stage = from /\ stage' = to /\ UNCHANGED <<job, vars>>

Convert ==
    /\ Stage("convert", IF Converts(job.ckpt) THEN "directory" ELSE "failed")
    /\ UNCHANGED worldVars

-----------------------------------------------------------------------------
(* mote-build and mote-list.                                               *)

\* It fails when the model cannot be loaded or taken apart, perhaps without an
\* expert, when the progress message reads expert_gate[0] of nothing, and when
\* the file it writes cannot be opened, which may always happen.
MoteBuild ==
    /\ job.way = "mote"
    /\ stage = "directory"
    /\ \/ Source \in Separable /\ Stage("directory", "mote")
       \/ Stage("directory", "failed")
    /\ UNCHANGED worldVars

\* What it makes, and the file it writes.
Made == MoteLayers(job.ckpt, DeviceModel, job.experts)
MoteBytes == MoteFields(job.experts, Made)

-----------------------------------------------------------------------------
(* Workers.                                                                *)

\* What load_model_shard leaves a worker with: the range it was given and the
\* flags derived from it; here is TRUE when it was loaded from Dir.
Loaded(spec, here) ==
    [spec |-> OwnSpec(CkptOf(here), spec), here |-> here]

\* terllama-worker --model --shard: the range must lie within the model.
Preloads(s, e, here) ==
    LET c == CkptOf(here)
    IN  /\ s < c.layers /\ e <= c.layers /\ s < e
        /\ ~ShardThrows(IF here THEN Dir ELSE OtherDir, SpecOf(s, e, c))

ByHand ==
    /\ job.way = "manual"
    /\ Stage("directory", "directory")
    /\ \E i \in Nodes, here \in BOOLEAN : \E held \in Held[i] :
          /\ workers[i] = None
          /\ Preloads(held[1], held[2], here)
          /\ workers' = [workers EXCEPT ![i] =
                Loaded(SpecOf(held[1], held[2], CkptOf(here)), here)]
    /\ UNCHANGED <<answers, plan, pushed>>

\* The coordinator is started, with workers that have no shard or some do.
CoordinatorStarts ==
    /\ job.way \in {"manual", "bare"}
    /\ Stage("directory", "health")
    /\ UNCHANGED worldVars

\* The node daemon starts the worker of the next part of its plan; one that
\* does not come up ends the start.
DaemonSpawns ==
    /\ job.way = "daemon"
    /\ phase = "planned"
    /\ \E i \in Nodes :
          /\ workers[i] = None
          /\ \A j \in 1 .. i - 1 : workers[j] # None
          /\ LET up == Preloads(shards[i].start_layer, shards[i].end_layer, TRUE)
             IN  \/ /\ up
                    /\ Stage("planning", IF i = N THEN "health" ELSE "planning")
                    /\ workers' = [workers EXCEPT ![i] = Loaded(shards[i], TRUE)]
                 \/ /\ ~up \/ Source \in Treacherous
                    /\ Stage("planning", "failed")
                    /\ UNCHANGED workers
    /\ UNCHANGED <<answers, plan, pushed>>

WorkerDies ==
    /\ stage \in {"health", "config", "planning", "push"}
    /\ Cardinality({i \in Nodes : workers[i] = Dead}) < MaxDeaths
    /\ \E i \in Nodes :
          /\ job.way = "daemon" => workers[i] # None
          /\ workers[i] # Dead
          /\ workers' = [workers EXCEPT ![i] = Dead]
    /\ UNCHANGED <<job, stage, answers, plan, pushed, vars>>

-----------------------------------------------------------------------------
(* Coordinator::start.                                                     *)

\* get_health of the next worker.
Health ==
    \E i \in Nodes \ Asked :
        /\ \A j \in 1 .. i - 1 : j \in Asked
        /\ IF workers[i] = Dead
           THEN Stage("health", "failed") /\ UNCHANGED answers
           ELSE /\ Stage("health", IF i = N THEN "config" ELSE "health")
                /\ answers' = [answers EXCEPT ![i] =
                       IF workers[i] = None THEN NoShard ELSE workers[i].spec]
        /\ UNCHANGED <<workers, plan, pushed>>

\* Mutant: the end of the plan is not compared with the model.
ValidPlan_AnyEnd ==
    /\ \A i \in Nodes : answers[i] # NoShard
    /\ \A i \in Nodes :
          answers[i].start_layer = IF i = 1 THEN 0 ELSE answers[i - 1].end_layer

\* The shards the workers hold make up the model: valid_plan.
ValidPlan ==
    /\ \A i \in Nodes : answers[i] # NoShard
    /\ \A i \in Nodes :
          answers[i].start_layer = IF i = 1 THEN 0 ELSE answers[i - 1].end_layer
    /\ answers[N].end_layer = job.ckpt.layers

\* The coordinator needs the numbers of the model only, of GGUF it reads all.
HasConfig == Dir.loads

NoConfig ==
    /\ ~HasConfig
    /\ Stage("config", "failed")
    /\ UNCHANGED worldVars

Adopt ==
    /\ Stage("config", "serving")
    /\ HasConfig /\ ValidPlan
    /\ plan' = answers
    /\ UNCHANGED <<workers, answers, pushed>>

NoPlan ==
    /\ Stage("config", "planning")
    /\ HasConfig /\ ~ValidPlan
    /\ UNCHANGED worldVars

\* The daemon plans before there are workers, the coordinator after Health.
\* It takes a directory for a model by its model_extra.bin.
DaemonPlans ==
    /\ job.way = "daemon"
    /\ Stage("directory", IF job.format = "als" THEN "planning" ELSE "failed")
    /\ UNCHANGED worldVars

\* One step of compute_shards.
Planning ==
    /\ stage = "planning"
    /\ Next
    /\ UNCHANGED <<job, stage, worldVars>>

PlanFails ==
    /\ phase \in Ended \ {"planned"}
    /\ Stage("planning", "failed")
    /\ UNCHANGED worldVars

Planned ==
    /\ job.way # "daemon"
    /\ phase = "planned"
    /\ Stage("planning", "push")
    /\ plan' = shards
    /\ UNCHANGED <<workers, answers, pushed>>

\* post_load of the next worker, and handle_load there: a worker keeps what it
\* had when the load throws.
Push ==
    /\ stage = "push"
    /\ pushed < N
    /\ \E i \in {pushed + 1}, dir \in {Dir} : \E throws \in {ShardThrows(dir, plan[i])} :
          \/ /\ workers[i] # Dead /\ ~throws
             /\ Stage("push", "push")
             /\ workers' = [workers EXCEPT ![i] = Loaded(plan[i], TRUE)]
             /\ pushed' = i
          \/ /\ workers[i] = Dead \/ throws \/ Source \in Treacherous
             /\ Stage("push", "failed")
             /\ UNCHANGED <<workers, pushed>>
    /\ UNCHANGED <<answers, plan>>

Serve ==
    /\ pushed = N
    /\ Stage("push", "serving")
    /\ UNCHANGED worldVars

Steps ==
    \/ Convert \/ MoteBuild
    \/ ByHand \/ CoordinatorStarts \/ DaemonPlans \/ DaemonSpawns
    \/ Health \/ NoConfig \/ Adopt \/ NoPlan
    \/ Planning \/ PlanFails \/ Planned
    \/ Push \/ Serve

DeployNext == Steps \/ WorkerDies

\* The tools and the coordinator run on; nothing makes a worker die.
DeploySpec == DeployInit /\ [][DeployNext]_deployVars /\ WF_deployVars(Steps)

-----------------------------------------------------------------------------
(* Properties.                                                             *)

\* The range of every variable, those of compute_shards included.
DeployTypeOK ==
    /\ TypeOK
    /\ job.ckpt \in Checkpoint
    /\ stage \in {"convert", "directory", "mote", "planning", "health",
                  "config", "push", "serving", "failed"}
    /\ workers \in [Nodes -> {None, Dead} \cup [spec : Shard, here : BOOLEAN]]
    /\ answers \in [Nodes -> {None, NoShard} \cup Shard]
    /\ plan \in Seq(Shard)
    /\ pushed \in 0 .. N

\* The workers that are alive, and whether all are and loaded this model.
Elements(seq) == {seq[k] : k \in DOMAIN seq}

Alive == {i \in Nodes : workers[i] # Dead}
AllHere == \A i \in Nodes : i \in Alive /\ workers[i].here

ShardModel(i) == load_model_shard(Dir, plan[i])

\* What a model has, and that it has no layer twice.
Having(model) == LayerNames(model) \cup model.norms
NoneTwice(model) == Len(model.layers) = Cardinality(LayerNames(model))

\* A cluster that serves is a pipeline over all layers of the coordinator's
\* model, its workers have what the coordinator thinks they have, and a plan
\* of the daemon was adopted as it was.  That the first embeds and the last
\* has the head is so when the workers loaded this model: which one they
\* loaded is not compared.
ServingIsPipeline ==
    stage = "serving" =>
        /\ Len(plan) = N
        /\ plan[1].start_layer = 0 /\ plan[N].end_layer = job.ckpt.layers
        /\ \A i \in 1 .. N - 1 : plan[i].end_layer = plan[i + 1].start_layer
        /\ \A i \in Alive : workers[i] # None /\ workers[i].spec = plan[i]
        /\ AllHere => \A i \in Nodes : /\ plan[i].is_first <=> i = 1
                                       /\ plan[i].is_last <=> i = N
        /\ job.way = "daemon" => plan = shards /\ pushed = 0

\* Together the shards hold the model of one device: each of its layers, and
\* each norm of queries and keys, is on exactly one worker.  The worker whose
\* range begins the model embeds and the one whose range ends it normalizes,
\* though what they keep for it is decided by the flags they were given.
ShardsMakeTheModel ==
    stage = "serving" /\ AllHere =>
        LET has(i) == Having(ShardModel(i))
        IN  /\ UNION {has(i) : i \in Nodes} = Having(DeviceModel)
            /\ \A i, j \in Nodes : i # j => has(i) \cap has(j) = {}
            /\ \A i \in Nodes :
                  /\ NoneTwice(ShardModel(i))
                  /\ plan[i].start_layer = 0 =>
                        ShardModel(i).embedding = DeviceModel.embedding
                  /\ plan[i].end_layer = job.ckpt.layers =>
                        ShardModel(i).finalNorm = DeviceModel.finalNorm

\* When a cluster of this model computes what a device computes: its workers
\* find their layers, and use the head size of the device.  The exceptions
\* are a GGUF model without output.weight, whose last worker has no head, and
\* a converted model whose head size is not hidden / heads, which only the
\* worker of layer 0 finds out.  A single worker has what a device has, and
\* yet fails when the reader was lost before lm_head, which a device replaces.
ClusterComputesAsDevice ==
    stage = "serving" /\ AllHere /\ RunsOnDevice(job.ckpt, DeviceModel) =>
        ((\A i \in Nodes : /\ RunsOnWorker(plan[i], ShardModel(i))
                           /\ ShardModel(i).headDim = DeviceModel.headDim)
         <=> IF job.format # "als" THEN ~job.ckpt.tied
             ELSE IF N = 1 THEN LmHead \in LayerNames(DeviceModel)
             ELSE job.ckpt.headDim = ConfigHeadDim(job.ckpt))

\* The projections that have tensors of their own.
Kinds(c) ==
    {Submodules[k] : k \in DOMAIN Submodules}
    \ (IF c.fusedMlp THEN {"gate_proj", "up_proj"} ELSE {})

\* Those a converted file has records of.
KeptKinds(c) == IF c.projections = "F8" THEN {} ELSE Kinds(c)

\* A model has all of a converted checkpoint, each layer in its form.
Whole(c, model) ==
    /\ LayerNames(model) = {LmHead} \cup (KeptKinds(c) \X (0 .. c.layers - 1))
    /\ Len(model.layers) = Cardinality(LayerNames(model))
    /\ model.norms = (IF c.qkNorm THEN {"q_norm", "k_norm"} ELSE {})
                        \X (0 .. c.layers - 1)
    /\ \A l \in Elements(model.layers) :
          (l.as = "raw") <=>
             \/ l.name = LmHead
             \/ c.fusedQkv /\ l.name[1] \in {"q_proj", "k_proj", "v_proj"}
    /\ "q_proj" \in KeptKinds(c) => model.headDim = c.headDim
    /\ model.finalNorm = "weights"

\* A record whose length is neither taken for the old layout nor cut off.
Legible(r) == LowBits(r) # 0 /\ r.fits

ReadConverted(c, file, model) ==
    /\ Whole(c, model) <=> /\ \A k \in DOMAIN file : Legible(file[k])
                          /\ c.vocab * c.hidden + 9 < 536870912
    /\ model.config = [load_config(c) EXCEPT !.context = Least(c.context, 4096)]
    /\ model.weight = Exact(c.dtype, c.weight) <=>
          /\ ~(c.dtype = "F16" /\ Subnormal(Half(c.weight)))
          /\ ~(c.dtype = "BF16" /\ Subnormal(Brain(c.weight)))

ReadGguf(c, file, style, model) ==
    LET kept == Kinds(c) \ (IF c.fusedQkv THEN {"q_proj", "k_proj", "v_proj"} ELSE {})
    IN  /\ LayerNames(model) = (IF c.tied THEN {} ELSE {LmHead})
                                  \cup (kept \X (0 .. c.layers - 1))
        /\ Len(model.layers) = Cardinality(LayerNames(model))
        /\ \A l \in Elements(model.layers) :
              l.name # LmHead =>
                  (l.as = "blocks" <=> style.projections \in {"Q2_0", "TQ2_0", "I2_S"})
        /\ \A i \in 0 .. c.layers - 1 :
              LET norms == GgufNorms(file, i)
              IN  /\ {norms["attn_norm"], norms["ffn_norm"]} = {"weights"}
                  /\ \A k \in {"attn_sub_norm", "ffn_sub_norm"} :
                        norms[k] = IF style.projections = "I2_S" THEN "weights" ELSE "ones"
        /\ model.config = [load_config(c) EXCEPT !.context = c.context]
        /\ eos_token_id(file) = 2 <=> style.eos = "INT32"
        /\ model.weight = Exact(IF style.embedding = "F32" THEN "F32" ELSE "F16", c.weight) <=>
              \/ style.embedding = "F32" \/ ~Subnormal(Half(c.weight))
              \/ Half(c.weight).man \in 32 .. 63

ConvertedLoads(c, file, model) ==
    /\ model = None <=>
          \/ c.context \notin 1 .. ContextLimit
          \/ c.inter = 0 \/ c.hidden < c.heads
          \/ c.vocab > IntMax \div c.hidden
          \/ /\ c.terms > 32
             /\ \E k \in DOMAIN file :
                   /\ file[k].type = Container
                   /\ \A j \in 1 .. k : Legible(file[j])
    /\ model # None =>
          /\ ReadConverted(c, file, model)
          /\ RunsOnDevice(c, model) <=>
                /\ ~c.fusedMlp /\ c.projections = "same"
                /\ \A k \in DOMAIN file : ~Legible(file[k]) =>
                      \A j \in k + 1 .. Len(file) : file[j].name[1] \notin Kinds(c)

StyleLoads(c, file, style, model) ==
    /\ model = None <=> \/ style.version > 3 \/ style.flags
                        \/ style.embedding \notin {"F32", "F16", "Q2_0", "TQ2_0"}
    /\ model # None => ReadGguf(c, file, style, model)

\* What a device loads is the checkpoint: its numbers, each projection, head
\* and norm of queries and keys in its form, and the weight.
\* Converted, these are written and cannot be read: a context of 0 or of more
\* than a million, an intermediate size of 0, fewer dimensions than heads, an
\* embedding of 2^31 numbers, and containers of more than 32 terms, unless the
\* reader was lost before.  The other exceptions are: a context of more than
\* 4096, which is capped; a record whose length has 24 low zero bits or more
\* than 32 bits, behind which nothing is read, not even the projections a
\* forward pass needs; an embedding of 2^29 numbers, which hides the final norm;
\* projections of a type that is not parsed and a gate and up that are one
\* tensor, which are left out; and subnormal weights of type F16 and BF16.
\* (A reader that got lost may also throw at what it finds: see Treacherous.)
\* As GGUF they are: a later version, an array of flags and an embedding of
\* another quantization, which fail the load; a head size that is not hidden /
\* heads; an end-of-text id that is no INT32; projections in another
\* quantization, which are read as Q2_0; fused tensors; a subnormal half, unless
\* its leading bit is the one at which the wrong scale is right.  Its context is
\* not capped.
LoadsAsConverted ==
    stage = "directory" =>
        IF job.format = "als" THEN ConvertedLoads(job.ckpt, Dir.file, DeviceModel)
        ELSE StyleLoads(job.ckpt, Dir.file, Styles[job.format], DeviceModel)

ReadAsMade(made, read) ==
    /\ Len(read) = job.ckpt.layers
    /\ \A i \in DOMAIN made :
          /\ read[i].experts = job.experts
          /\ read[i].router = made[i].router
          /\ read[i].routed = made[i].routed
          /\ read[i].name = made[i].name \o <<"gate_proj">>
          /\ \A p \in 1 .. 3 :
                read[i].shared[p] = made[i].shared[p]
                    <=> Cardinality(made[i].shared[p].terms) <= 1

\* What mote-list reads is what mote-build made, for any number of layers and
\* experts: the shapes, the router, and of the routed experts every term.  The
\* shared expert, meant to be the original layer, keeps its first term only,
\* and "gate_proj" is appended to the name again.
MoteRoundTrip == stage = "mote" => ReadAsMade(Made, load_mote_layers(MoteBytes))

\* What a comment of the reader says: the layout is sniffed per layer.  Every
\* record is read as the type it was written with.
LayoutRecognized ==
    stage = "directory" => \A k \in DOMAIN Dir.file : ~IsOldLayout(Dir.file[k])

\* Every deployment ends: served, built or failed.
DeploymentEnds == <>(stage \in {"serving", "mote", "failed"})
=============================================================================
