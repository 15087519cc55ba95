-------------------------- MODULE DeploymentProofs --------------------------
(***************************************************************************)
(* Proofs about Deployment: whatever the model, however its workers are    *)
(* started and whichever of them die, a cluster that serves is a pipeline, *)
(* its shards are the model of one device, which has what was written, it  *)
(* computes what a device computes, both but for the named exceptions, and *)
(* mote-list reads what mote-build wrote.  They rest on those about        *)
(* Partitioner, whose steps are the stage "planning".                      *)
(*                                                                         *)
(* The second half is about data: sequences built by recursion (Picked,    *)
(* FlattenSeq, MoteFields), the files made of them and what their readers  *)
(* get.  A recursive function is met by the one Recursion constructs, and  *)
(* PrefixInduction shows the two equal.                                    *)
(***************************************************************************)
EXTENDS Deployment, PartitionerProofs
LOCAL INSTANCE SequencesExt

-----------------------------------------------------------------------------
(* The inductive invariant.                                                *)

\* compute_shards, wherever the deployment is.
PlanInv ==
    /\ job \in Deployments /\ layers = job.ckpt.layers
    /\ AllocInv /\ Served /\ Cut /\ TwinInv

\* A worker that has a shard.
Holds(i) == workers[i] \notin {None, Dead}

\* A worker holds at least a layer, and its flags are those of its range when
\* it loaded this model.
HeldInv ==
    \A i \in Nodes : Holds(i) =>
        /\ workers[i].spec.start_layer < workers[i].spec.end_layer
        /\ workers[i].here =>
              /\ workers[i].spec.is_first <=> workers[i].spec.start_layer = 0
              /\ workers[i].spec.is_last <=> workers[i].spec.end_layer = layers

\* Until shards are pushed, a worker that is alive holds what it said.
AnswersInv ==
    /\ \A i \in Nodes : answers[i] \in Shard =>
          answers[i].start_layer < answers[i].end_layer
    /\ stage \in {"convert", "directory", "mote"} =>
          \A i \in Nodes : answers[i] = None
    /\ stage \in {"health", "config"} =>
          \A i \in Nodes : answers[i] # None /\ workers[i] # Dead =>
              answers[i] = IF workers[i] = None THEN NoShard ELSE workers[i].spec
    /\ stage = "config" => \A i \in Nodes : answers[i] # None
    /\ stage \notin {"push", "serving", "failed"} => pushed = 0

\* The workers of a daemon hold, and say that they hold, its plan.
DaemonInv ==
    job.way = "daemon" =>
        /\ stage # "push" /\ pushed = 0
        /\ stage = "planning" => \A i \in Nodes : answers[i] = None
        /\ stage \in {"health", "config", "serving"} =>
              phase = "planned" /\ \A i \in Nodes : workers[i] # None
        /\ phase # "planned" => \A i \in Nodes : workers[i] = None
        /\ \A i \in Nodes : Holds(i) => workers[i].spec = shards[i]
        /\ \A i \in Nodes : answers[i] # None => answers[i] = shards[i]

\* The shards pushed so far are those of the plan.
PushInv ==
    stage = "push" =>
        /\ phase = "planned" /\ plan = shards
        /\ \A i \in 1 .. pushed :
              workers[i] # Dead => workers[i] # None /\ workers[i].spec = plan[i]

DeployInv ==
    /\ DeployTypeOK /\ PlanInv
    /\ HeldInv /\ AnswersInv /\ DaemonInv /\ PushInv
    /\ ServingIsPipeline

-----------------------------------------------------------------------------
(* Plans and ranges.                                                       *)

\* The values of workers and answers that are no shards are told from them.
LEMMA Distinct ==
  /\ None # NoShard /\ None # Dead
  /\ None \notin Shard /\ NoShard \notin Shard
  /\ None \notin [spec : Shard, here : BOOLEAN]
  /\ Dead \notin [spec : Shard, here : BOOLEAN]
BY DeploymentAssumption

\* A worker that has a shard has one of this or of another model.
LEMMA HeldType ==
  ASSUME DeployTypeOK, NEW i \in Nodes, Holds(i)
  PROVE  /\ workers[i] \in [spec : Shard, here : BOOLEAN]
         /\ workers[i].spec \in Shard /\ workers[i].here \in BOOLEAN
<1>1. workers[i] \in [spec : Shard, here : BOOLEAN]
  BY DEF DeployTypeOK, Holds
<1> QED
  BY <1>1

\* OwnSpec corrects two flags of a shard.
LEMMA OwnSpecFacts ==
  ASSUME NEW c, NEW spec \in Shard
  PROVE  /\ OwnSpec(c, spec) \in Shard
         /\ OwnSpec(c, spec).start_layer = spec.start_layer
         /\ OwnSpec(c, spec).end_layer = spec.end_layer
         /\ OwnSpec(c, spec).is_first <=> spec.start_layer = 0
         /\ OwnSpec(c, spec).is_last <=> spec.end_layer = c.layers
<1> DEFINE first == spec.start_layer = 0
           last == spec.end_layer = c.layers
<1>1. first \in BOOLEAN /\ last \in BOOLEAN
  OBVIOUS
<1>2. OwnSpec(c, spec) = [spec EXCEPT !.is_first = first, !.is_last = last]
  BY DEF OwnSpec
<1> HIDE DEF first, last
<1>3. /\ OwnSpec(c, spec) \in Shard
      /\ OwnSpec(c, spec).start_layer = spec.start_layer
      /\ OwnSpec(c, spec).end_layer = spec.end_layer
      /\ OwnSpec(c, spec).is_first = first
      /\ OwnSpec(c, spec).is_last = last
  BY <1>1, <1>2 DEF Shard
<1> QED
  BY <1>3 DEF first, last

\* Shards that agree in all they say are equal.
LEMMA ShardsEqual ==
  ASSUME NEW a \in Shard, NEW b \in Shard,
         a.start_layer = b.start_layer, a.end_layer = b.end_layer,
         a.is_first <=> b.is_first, a.is_last <=> b.is_last
  PROVE  a = b
<1>1. /\ a.is_first \in BOOLEAN /\ b.is_first \in BOOLEAN
      /\ a.is_last \in BOOLEAN /\ b.is_last \in BOOLEAN
  BY DEF Shard
<1>2. a.is_first = b.is_first /\ a.is_last = b.is_last
  BY <1>1
<1> QED
  BY <1>2 DEF Shard

\* The shards of a finished plan are those a worker takes them for.
LEMMA PlannedShards ==
  ASSUME PlanInv, phase = "planned"
  PROVE  /\ shards \in [Nodes -> Shard] /\ Len(shards) = N
         /\ PlanIsPipeline
         /\ \A i \in Nodes : /\ shards[i].start_layer < shards[i].end_layer
                             /\ OwnSpec(job.ckpt, shards[i]) = shards[i]
<1>1. PlanIsPipeline /\ Len(shards) = N /\ shards \in Seq(Shard)
  BY CutIsPipeline DEF PlanInv, AllocInv, TypeOK, Cut
<1>2. shards \in [Nodes -> Shard]
  BY <1>1, LenProperties DEF Nodes
<1>3. ASSUME NEW i \in Nodes
      PROVE  /\ shards[i].start_layer < shards[i].end_layer
             /\ OwnSpec(job.ckpt, shards[i]) = shards[i]
  <2>1. shards[i].start_layer < shards[i].end_layer
    BY <1>1 DEF PlanIsPipeline
  <2>2. /\ shards[i].is_first <=> shards[i].start_layer = 0
        /\ shards[i].is_last <=> shards[i].end_layer = job.ckpt.layers
    BY <1>1 DEF PlanInv, Cut, Nodes
  <2>3. shards[i] \in Shard
    BY <1>2
  <2>4. OwnSpec(job.ckpt, shards[i]) = shards[i]
    BY <2>2, <2>3, OwnSpecFacts, ShardsEqual
  <2> QED BY <2>1, <2>4
<1> QED
  BY <1>1, <1>2, <1>3

\* In a chain of ranges that are not empty only the first begins at 0 and only
\* the last ends where the chain does.
LEMMA Chains ==
  ASSUME NEW f \in [Nodes -> Shard],
         f[1].start_layer = 0,
         \A i \in Nodes : f[i].start_layer < f[i].end_layer,
         \A i \in Nodes : i # 1 => f[i].start_layer = f[i - 1].end_layer
  PROVE  \A i \in Nodes : /\ f[i].start_layer = 0 <=> i = 1
                          /\ f[i].end_layer = f[N].end_layer <=> i = N
<1> DEFINE S(i) == f[i].start_layer
           E(i) == f[i].end_layer
<1>1. \A i \in Nodes : S(i) \in Nat /\ E(i) \in Nat /\ S(i) < E(i)
  BY DEF Shard
<1>2. \A i \in Nodes : i # 1 => S(i) = E(i - 1) /\ i - 1 \in Nodes
  BY NodeCount DEF Nodes
<1>3. S(1) = 0
  OBVIOUS
<1> HIDE DEF S, E
<1> DEFINE P == {k \in 0 .. N : \A i \in Nodes : i < k => E(i) < E(k)}
<1>4. 0 \in P
  BY NodeCount DEF Nodes
<1>5. ASSUME NEW k \in 1 .. N, k - 1 \in P PROVE k \in P
  <2>1. ASSUME NEW i \in Nodes, i < k PROVE E(i) < E(k)
    <3>1. k \in Nodes /\ k # 1 /\ k - 1 \in Nodes /\ i <= k - 1
      BY <2>1, NodeCount DEF Nodes
    <3>2. E(k - 1) < E(k)
      BY <1>1, <1>2, <3>1
    <3>3. CASE i = k - 1
      BY <3>2, <3>3
    <3>4. CASE i # k - 1
      <4>1. i < k - 1
        BY <3>1, <3>4 DEF Nodes
      <4>2. E(i) < E(k - 1)
        BY <1>5, <4>1
      <4> QED BY <1>1, <3>1, <3>2, <4>2
    <3> QED BY <3>3, <3>4
  <2> QED BY <2>1
<1>6. N \in P
  <2> HIDE DEF P
  <2>1. 0 .. N \subseteq P
    BY <1>4, <1>5, NodeCount, PrefixInduction
  <2> QED BY <2>1, NodeCount
<1>7. ASSUME NEW i \in Nodes
      PROVE  (S(i) = 0 <=> i = 1) /\ (E(i) = E(N) <=> i = N)
  <2>1. i # 1 => S(i) # 0
    BY <1>1, <1>2
  <2>2. i # N => i < N
    BY NodeCount DEF Nodes
  <2>3. i # N => E(i) < E(N)
    BY <1>6, <2>2
  <2>4. N \in Nodes
    BY NodeCount DEF Nodes
  <2> QED BY <1>1, <1>3, <2>1, <2>3, <2>4
<1> QED
  BY <1>7 DEF S, E

-----------------------------------------------------------------------------
(* Initial states and compute_shards.                                      *)

\* A deployment begins where compute_shards may begin.
LEMMA InitDeploy == DeployInit => DeployInv
<1> SUFFICES ASSUME DeployInit PROVE DeployInv
  OBVIOUS
<1>1. /\ job \in Deployments /\ job.ckpt \in Checkpoint
      /\ job.ckpt.layers \in LayerCounts /\ job.ram \in [Nodes -> Rams]
      /\ job.size \in ModelSizes /\ (job.way = "daemon" \/ job.size \in Rams)
  BY DeploymentAssumption DEF DeployInit
<1>2. ram \in [Nodes -> Rams]
  BY <1>1 DEF DeployInit
<1>3. Init
  BY <1>1, <1>2 DEF DeployInit, Init
<1>4. PlanInv
  BY <1>1, <1>3, InitAlloc DEF PlanInv, Init, DeployInit, Served, Cut, TwinInv, TwinsShareAlike
<1>5. DeployTypeOK
  <2>1. plan \in Seq(Shard)
    BY DEF DeployInit
  <2> QED BY <1>1, <1>4, <2>1, NodeCount DEF DeployTypeOK, DeployInit, PlanInv, AllocInv
<1>6. HeldInv /\ AnswersInv /\ DaemonInv /\ PushInv /\ ServingIsPipeline
  BY Distinct DEF HeldInv, AnswersInv, DaemonInv, PushInv, ServingIsPipeline,
                  Holds, DeployInit
<1> QED
  BY <1>4, <1>5, <1>6 DEF DeployInv

\* compute_shards goes on, or is left alone.
LEMMA PlanStep == PlanInv /\ [DeployNext]_deployVars => PlanInv'
<1> SUFFICES ASSUME PlanInv, [DeployNext]_deployVars PROVE PlanInv'
  OBVIOUS
<1>1. job' = job /\ [Next]_vars
  <2>1. CASE Planning
    BY <2>1 DEF Planning
  <2>2. CASE DeployNext /\ ~Planning
    BY <2>2 DEF DeployNext, Steps, Stage, Convert, MoteBuild, ByHand,
                CoordinatorStarts, DaemonPlans, DaemonSpawns, Health, NoConfig,
                Adopt, NoPlan, PlanFails, Planned, Push, Serve, WorkerDies
  <2>3. CASE UNCHANGED deployVars
    BY <2>3 DEF deployVars
  <2> QED BY <2>1, <2>2, <2>3
<1>2. layers' = layers
  BY <1>1 DEF Next, TooFewLayers, Floors, Spread, SpreadEnds, AtLeastOne,
              AtLeastOneEnds, MakeShard, InsufficientRam, Return, inputs, vars
<1>3. AllocInv' /\ Served' /\ Cut' /\ TwinInv'
  BY <1>1, FloorsAlloc, SpreadAlloc, AtLeastOneAlloc, OtherAlloc, ServedStep,
     CutStep, TwinStep DEF PlanInv, Next
<1> QED
  BY <1>1, <1>2, <1>3 DEF PlanInv

-----------------------------------------------------------------------------
(* The steps that leave the world alone.                                   *)

\* compute_shards itself: a plan that is made stays as it is.
LEMMA PlanningKeeps == DeployInv /\ Planning /\ PlanInv' => DeployInv'
<1> SUFFICES ASSUME DeployInv, Planning, PlanInv' PROVE DeployInv'
  OBVIOUS
<1>1. /\ stage = "planning" /\ stage' = "planning" /\ job' = job /\ Next
      /\ workers' = workers /\ answers' = answers /\ plan' = plan /\ pushed' = pushed
  BY DEF Planning, worldVars
<1>2. phase # "planned" /\ layers' = layers
  BY <1>1 DEF Next, TooFewLayers, Floors, Spread, SpreadEnds, AtLeastOne,
              AtLeastOneEnds, MakeShard, InsufficientRam, Return, inputs
<1>3. DeployTypeOK'
  BY <1>1 DEF DeployInv, DeployTypeOK, PlanInv, AllocInv
<1>4. HeldInv' /\ AnswersInv' /\ PushInv' /\ ServingIsPipeline'
  BY <1>1, <1>2 DEF DeployInv, HeldInv, AnswersInv, PushInv, ServingIsPipeline, Holds
<1>5. DaemonInv'
  BY <1>1, <1>2 DEF DeployInv, DaemonInv, Holds
<1> QED
  BY <1>3, <1>4, <1>5 DEF DeployInv

\* From stage to stage, with workers, answers and plan as they are.
LEMMA QuietSteps ==
  ASSUME DeployInv, PlanInv',
         \/ Convert \/ MoteBuild \/ CoordinatorStarts \/ DaemonPlans
         \/ NoConfig \/ NoPlan \/ PlanFails
  PROVE  DeployInv'
<1>1. UNCHANGED <<job, vars, worldVars>>
  BY DEF Convert, MoteBuild, CoordinatorStarts, DaemonPlans, NoConfig, NoPlan,
         PlanFails, Stage
<1>2. /\ job' = job /\ layers' = layers /\ phase' = phase /\ shards' = shards
      /\ workers' = workers /\ answers' = answers /\ plan' = plan /\ pushed' = pushed
  BY <1>1 DEF vars, worldVars, inputs
<1>3. /\ \/ stage' = "failed"
         \/ stage \in {"convert", "directory"} /\ stage' \in {"directory", "mote"}
         \/ stage = "directory" /\ stage' = "health" /\ job.way # "daemon"
         \/ stage = "directory" /\ stage' = "planning" /\ job.way = "daemon"
         \/ stage = "config" /\ stage' = "planning" /\ job.way # "daemon"
  <2>1. CASE NoPlan
    <3>1. stage = "config" /\ stage' = "planning" /\ ~ValidPlan
      BY <2>1 DEF NoPlan, Stage
    <3>2. ASSUME job.way = "daemon" PROVE FALSE
      <4>1. phase = "planned" /\ \A i \in Nodes : answers[i] = shards[i]
        BY <3>1, <3>2 DEF DeployInv, DaemonInv, AnswersInv
      <4>2. PlanIsPipeline /\ \A i \in Nodes : shards[i] \in Shard
        BY <4>1, PlannedShards DEF DeployInv
      <4>3. N \in Nodes /\ 1 \in Nodes
            /\ \A i \in Nodes : i # 1 => i - 1 \in Nodes /\ i - 1 < N /\ (i - 1) + 1 = i
        BY NodeCount DEF Nodes
      <4>4. /\ shards[1].start_layer = 0 /\ shards[N].end_layer = job.ckpt.layers
            /\ \A i \in Nodes : i # 1 => shards[i].start_layer = shards[i - 1].end_layer
        BY <4>1, <4>2, <4>3 DEF PlanIsPipeline, DeployInv, PlanInv
      <4>5. \A i \in Nodes : answers[i] # NoShard
        BY <4>1, <4>2, Distinct
      <4>6. \A i \in Nodes : answers[i].start_layer = IF i = 1 THEN 0 ELSE answers[i - 1].end_layer
        BY <4>1, <4>3, <4>4
      <4>7. answers[N].end_layer = job.ckpt.layers
        BY <4>1, <4>3, <4>4
      <4> QED BY <3>1, <4>5, <4>6, <4>7 DEF ValidPlan
    <3> QED BY <3>1, <3>2
  <2>2. CASE ~NoPlan
    BY <2>2 DEF Convert, MoteBuild, CoordinatorStarts, DaemonPlans, NoConfig,
                PlanFails, Stage
  <2> QED BY <2>1, <2>2
<1>4. DeployTypeOK'
  BY <1>2, <1>3 DEF DeployInv, DeployTypeOK, PlanInv, AllocInv
<1>5. HeldInv' /\ PushInv' /\ ServingIsPipeline'
  BY <1>2, <1>3 DEF DeployInv, HeldInv, PushInv, ServingIsPipeline, Holds
<1>6. AnswersInv'
  BY <1>2, <1>3 DEF DeployInv, AnswersInv
<1>7. DaemonInv'
  BY <1>2, <1>3 DEF DeployInv, DaemonInv, AnswersInv, Holds
<1> QED
  BY <1>4, <1>5, <1>6, <1>7 DEF DeployInv

-----------------------------------------------------------------------------
(* The workers come and go.                                                *)

\* What a worker has loaded, whatever it was given.
LEMMA LoadedFacts ==
  ASSUME NEW spec \in Shard, NEW here \in BOOLEAN,
         spec.start_layer < spec.end_layer, layers = job.ckpt.layers
  PROVE  LET w == Loaded(spec, here)
         IN  /\ w \in [spec : Shard, here : BOOLEAN]
             /\ w # None /\ w # Dead
             /\ w.spec = OwnSpec(CkptOf(here), spec) /\ w.here = here
             /\ w.spec.start_layer < w.spec.end_layer
             /\ w.here => /\ w.spec.is_first <=> w.spec.start_layer = 0
                          /\ w.spec.is_last <=> w.spec.end_layer = layers
<1> DEFINE w == Loaded(spec, here)
<1>1. w = [spec |-> OwnSpec(CkptOf(here), spec), here |-> here]
  BY DEF Loaded
<1>2. OwnSpec(CkptOf(here), spec) \in Shard
  BY OwnSpecFacts
<1>3. w \in [spec : Shard, here : BOOLEAN] /\ w # None /\ w # Dead
  BY <1>1, <1>2, Distinct
<1>4. w.spec = OwnSpec(CkptOf(here), spec) /\ w.here = here
  BY <1>1
<1>5. here => CkptOf(here).layers = layers
  BY DEF CkptOf
<1>6. /\ w.spec.start_layer < w.spec.end_layer
      /\ w.spec.is_first <=> w.spec.start_layer = 0
      /\ w.here => (w.spec.is_last <=> w.spec.end_layer = layers)
  BY <1>4, <1>5, OwnSpecFacts
<1> QED
  BY <1>3, <1>4, <1>6

\* A worker is started by hand.
LEMMA ByHandKeeps == DeployInv /\ ByHand /\ PlanInv' => DeployInv'
<1> SUFFICES ASSUME DeployInv, ByHand, PlanInv' PROVE DeployInv'
  OBVIOUS
<1>1. PICK i \in Nodes, here \in BOOLEAN : \E held \in Held[i] :
          /\ workers[i] = None
          /\ Preloads(held[1], held[2], here)
          /\ workers' = [workers EXCEPT ![i] =
                Loaded(SpecOf(held[1], held[2], CkptOf(here)), here)]
  BY DEF ByHand
<1>2. PICK held \in Held[i] :
          /\ Preloads(held[1], held[2], here)
          /\ workers' = [workers EXCEPT ![i] =
                Loaded(SpecOf(held[1], held[2], CkptOf(here)), here)]
  BY <1>1
<1>3. /\ job.way = "manual" /\ stage = "directory" /\ stage' = "directory"
      /\ UNCHANGED <<job, layers, phase, shards, answers, plan, pushed>>
  BY DEF ByHand, Stage, vars, inputs
<1> DEFINE spec == SpecOf(held[1], held[2], CkptOf(here))
           w == Loaded(spec, here)
<1>4. held[1] \in Nat /\ held[2] \in Nat
  <2>1. Held[i] \in SUBSET (Nat \X Nat)
    BY DeploymentAssumption
  <2> QED BY <2>1
<1>5. spec \in Shard /\ spec.start_layer < spec.end_layer
  <2>1. held[1] < held[2]
    BY <1>2 DEF Preloads
  <2> QED BY <1>4, <2>1 DEF SpecOf, Shard
<1> HIDE DEF spec
<1>6. /\ w \in [spec : Shard, here : BOOLEAN]
      /\ w.spec.start_layer < w.spec.end_layer
      /\ w.here => /\ w.spec.is_first <=> w.spec.start_layer = 0
                   /\ w.spec.is_last <=> w.spec.end_layer = layers
  BY <1>5, LoadedFacts DEF DeployInv, PlanInv
<1>7. workers' = [workers EXCEPT ![i] = w]
  BY <1>2 DEF spec
<1> HIDE DEF w
<1>8. DeployTypeOK'
  BY <1>3, <1>6, <1>7 DEF DeployInv, DeployTypeOK, PlanInv, AllocInv
<1>9. HeldInv'
  BY <1>3, <1>6, <1>7 DEF DeployInv, DeployTypeOK, HeldInv, Holds
<1>10. AnswersInv' /\ DaemonInv' /\ PushInv' /\ ServingIsPipeline'
  BY <1>3 DEF DeployInv, AnswersInv, DaemonInv, PushInv, ServingIsPipeline
<1> QED
  BY <1>8, <1>9, <1>10 DEF DeployInv

\* A daemon starts the worker of the next part of its plan.
LEMMA DaemonSpawnsKeeps == DeployInv /\ DaemonSpawns /\ PlanInv' => DeployInv'
<1> SUFFICES ASSUME DeployInv, DaemonSpawns, PlanInv' PROVE DeployInv'
  OBVIOUS
<1>1. /\ job.way = "daemon" /\ phase = "planned" /\ stage = "planning"
      /\ UNCHANGED <<job, layers, phase, shards, answers, plan, pushed>>
  BY DEF DaemonSpawns, Stage, vars, inputs
<1>2. PICK i \in Nodes :
          /\ workers[i] = None
          /\ \A j \in 1 .. i - 1 : workers[j] # None
          /\ \/ /\ stage' = IF i = N THEN "health" ELSE "planning"
                /\ workers' = [workers EXCEPT ![i] = Loaded(shards[i], TRUE)]
             \/ stage' = "failed" /\ UNCHANGED workers
  BY DEF DaemonSpawns, Stage
<1> DEFINE w == Loaded(shards[i], TRUE)
<1>3. /\ shards[i] \in Shard
      /\ shards[i].start_layer < shards[i].end_layer
      /\ OwnSpec(job.ckpt, shards[i]) = shards[i]
  BY <1>1, PlannedShards DEF DeployInv
<1>4. /\ w \in [spec : Shard, here : BOOLEAN] /\ w # None
      /\ w.spec = shards[i]
      /\ w.spec.start_layer < w.spec.end_layer
      /\ w.here => /\ w.spec.is_first <=> w.spec.start_layer = 0
                   /\ w.spec.is_last <=> w.spec.end_layer = layers
  BY <1>3, LoadedFacts DEF DeployInv, PlanInv, CkptOf
<1> HIDE DEF w
<1>5. CASE stage' = "failed" /\ UNCHANGED workers
  <2>1. DeployTypeOK' /\ HeldInv'
    BY <1>1, <1>5 DEF DeployInv, DeployTypeOK, PlanInv, AllocInv, HeldInv, Holds
  <2>2. AnswersInv' /\ DaemonInv' /\ PushInv' /\ ServingIsPipeline'
    BY <1>1, <1>5 DEF DeployInv, AnswersInv, DaemonInv, PushInv, ServingIsPipeline, Holds
  <2> QED BY <2>1, <2>2 DEF DeployInv
<1>6. CASE /\ stage' = IF i = N THEN "health" ELSE "planning"
           /\ workers' = [workers EXCEPT ![i] = w]
  <2>1. DeployTypeOK'
    BY <1>1, <1>4, <1>6 DEF DeployInv, DeployTypeOK, PlanInv, AllocInv
  <2>2. HeldInv'
    BY <1>1, <1>4, <1>6 DEF DeployInv, DeployTypeOK, HeldInv, Holds
  <2>3. AnswersInv' /\ PushInv' /\ ServingIsPipeline'
    BY <1>1, <1>6 DEF DeployInv, AnswersInv, DaemonInv, PushInv, ServingIsPipeline
  <2>4. ASSUME stage' = "health" PROVE \A j \in Nodes : workers'[j] # None
    <3>1. i = N
      BY <1>6, <2>4
    <3>2. \A j \in Nodes : j = i \/ j \in 1 .. i - 1
      BY <3>1, NodeCount DEF Nodes
    <3> QED BY <1>2, <1>4, <1>6, <3>2 DEF DeployInv, DeployTypeOK
  <2>5. \A j \in Nodes : workers'[j] \notin {None, Dead} => workers'[j].spec = shards[j]
    BY <1>1, <1>4, <1>6 DEF DeployInv, DeployTypeOK, DaemonInv, Holds
  <2>6. DaemonInv'
    BY <1>1, <1>6, <2>4, <2>5 DEF DeployInv, DaemonInv, Holds
  <2> QED BY <2>1, <2>2, <2>3, <2>6 DEF DeployInv
<1> QED
  BY <1>2, <1>5, <1>6 DEF w

\* A worker dies: nothing is said of the dead.
LEMMA DeathKeeps == DeployInv /\ WorkerDies /\ PlanInv' => DeployInv'
<1> SUFFICES ASSUME DeployInv, WorkerDies, PlanInv' PROVE DeployInv'
  OBVIOUS
<1>1. PICK i \in Nodes : /\ job.way = "daemon" => workers[i] # None
                         /\ workers' = [workers EXCEPT ![i] = Dead]
  BY DEF WorkerDies
<1>2. /\ stage \in {"health", "config", "planning", "push"} /\ stage' = stage
      /\ UNCHANGED <<job, layers, phase, shards, answers, plan, pushed>>
  BY DEF WorkerDies, vars, inputs
<1>3. DeployTypeOK'
  BY <1>1, <1>2 DEF DeployInv, DeployTypeOK, PlanInv, AllocInv
<1>4. \A j \in Nodes : workers'[j] = IF j = i THEN Dead ELSE workers[j]
  BY <1>1 DEF DeployInv, DeployTypeOK
<1>5. HeldInv'
  BY <1>2, <1>4 DEF DeployInv, HeldInv, Holds
<1>6. AnswersInv'
  BY <1>2, <1>4 DEF DeployInv, AnswersInv
<1>7. DaemonInv'
  BY <1>1, <1>2, <1>4, Distinct DEF DeployInv, DaemonInv, Holds
<1>8. PushInv' /\ ServingIsPipeline'
  <2>1. pushed \in 0 .. N
    BY DEF DeployInv, DeployTypeOK
  <2>2. 1 .. pushed \subseteq Nodes
    BY <2>1, NodeCount DEF Nodes
  <2> QED BY <1>2, <1>4, <2>2 DEF DeployInv, PushInv, ServingIsPipeline
<1> QED
  BY <1>3, <1>5, <1>6, <1>7, <1>8 DEF DeployInv

-----------------------------------------------------------------------------
(* Coordinator::start.                                                     *)

\* A worker is asked for its health.
LEMMA HealthKeeps == DeployInv /\ Health /\ PlanInv' => DeployInv'
<1> SUFFICES ASSUME DeployInv, Health, PlanInv' PROVE DeployInv'
  OBVIOUS
<1>1. PICK i \in Nodes \ Asked :
        /\ \A j \in 1 .. i - 1 : j \in Asked
        /\ \/ /\ workers[i] = Dead /\ stage' = "failed" /\ UNCHANGED answers
           \/ /\ workers[i] # Dead
              /\ stage' = IF i = N THEN "config" ELSE "health"
              /\ answers' = [answers EXCEPT ![i] =
                     IF workers[i] = None THEN NoShard ELSE workers[i].spec]
  BY DEF Health, Stage
<1>2. /\ stage = "health"
      /\ UNCHANGED <<job, layers, phase, shards, workers, plan, pushed>>
  BY DEF Health, Stage, vars, inputs
<1>3. CASE workers[i] = Dead /\ stage' = "failed" /\ UNCHANGED answers
  <2>1. DeployTypeOK' /\ HeldInv'
    BY <1>2, <1>3 DEF DeployInv, DeployTypeOK, PlanInv, AllocInv, HeldInv, Holds
  <2>2. AnswersInv' /\ DaemonInv' /\ PushInv' /\ ServingIsPipeline'
    BY <1>2, <1>3 DEF DeployInv, AnswersInv, DaemonInv, PushInv, ServingIsPipeline, Holds
  <2> QED BY <2>1, <2>2 DEF DeployInv
<1>4. CASE /\ workers[i] # Dead
           /\ stage' = IF i = N THEN "config" ELSE "health"
           /\ answers' = [answers EXCEPT ![i] =
                  IF workers[i] = None THEN NoShard ELSE workers[i].spec]
  <2> DEFINE a == IF workers[i] = None THEN NoShard ELSE workers[i].spec
  <2>1. /\ a \in {NoShard} \cup Shard /\ a # None
        /\ a \in Shard => a.start_layer < a.end_layer
        /\ a \in Shard => workers[i] # None /\ a = workers[i].spec
    <3>1. CASE workers[i] = None
      BY <3>1, Distinct
    <3>2. CASE workers[i] # None
      <4>1. Holds(i)
        BY <1>4, <3>2 DEF Holds
      <4>2. workers[i].spec \in Shard /\ workers[i].spec.start_layer < workers[i].spec.end_layer
        BY <4>1, HeldType DEF DeployInv, HeldInv
      <4> QED BY <3>2, <4>2, Distinct
    <3> QED BY <3>1, <3>2
  <2>2. /\ answers' = [answers EXCEPT ![i] = a]
        /\ \A j \in Nodes : answers'[j] = IF j = i THEN a ELSE answers[j]
    BY <1>4 DEF DeployInv, DeployTypeOK
  <2>3. a = IF workers[i] = None THEN NoShard ELSE workers[i].spec
    OBVIOUS
  <2> HIDE DEF a
  <2>4. DeployTypeOK'
    BY <1>2, <1>4, <2>1, <2>2 DEF DeployInv, DeployTypeOK, PlanInv, AllocInv
  <2>5. HeldInv' /\ PushInv' /\ ServingIsPipeline'
    BY <1>2, <1>4 DEF DeployInv, HeldInv, Holds, PushInv, ServingIsPipeline
  <2>6. ASSUME stage' = "config" PROVE \A j \in Nodes : answers'[j] # None
    <3>1. i = N
      BY <1>4, <2>6
    <3>2. \A j \in Nodes : j = i \/ j \in 1 .. i - 1
      BY <3>1, NodeCount DEF Nodes
    <3>3. \A j \in 1 .. i - 1 : answers[j] # None
      BY <1>1 DEF Asked
    <3> QED BY <2>1, <2>2, <3>2, <3>3
  <2>7. AnswersInv'
    BY <1>2, <1>4, <2>1, <2>2, <2>3, <2>6 DEF DeployInv, AnswersInv
  <2>8. DaemonInv'
    <3> SUFFICES ASSUME job.way = "daemon" PROVE DaemonInv'
      BY <1>2 DEF DaemonInv
    <3>1. phase = "planned" /\ (\A j \in Nodes : workers[j] # None) /\ pushed = 0
      BY <1>2 DEF DeployInv, DaemonInv
    <3>2. a = shards[i]
      BY <1>4, <2>3, <3>1 DEF DeployInv, DaemonInv, Holds
    <3> QED BY <1>2, <1>4, <2>2, <3>1, <3>2 DEF DeployInv, DaemonInv, Holds
  <2> QED BY <2>4, <2>5, <2>7, <2>8 DEF DeployInv
<1> QED
  BY <1>1, <1>3, <1>4

\* What the workers hold is adopted as the plan.
LEMMA AdoptKeeps == DeployInv /\ Adopt /\ PlanInv' => DeployInv'
<1> SUFFICES ASSUME DeployInv, Adopt, PlanInv' PROVE DeployInv'
  OBVIOUS
<1>1. /\ stage = "config" /\ stage' = "serving" /\ plan' = answers /\ ValidPlan
      /\ UNCHANGED <<job, layers, phase, shards, workers, answers, pushed>>
  BY DEF Adopt, Stage, vars, inputs
<1>2. answers \in [Nodes -> Shard]
  <2>1. \A i \in Nodes : answers[i] \in Shard
    BY <1>1 DEF ValidPlan, DeployInv, DeployTypeOK, AnswersInv
  <2> QED BY <2>1 DEF DeployInv, DeployTypeOK
<1>3. /\ answers[1].start_layer = 0 /\ answers[N].end_layer = layers
      /\ \A i \in Nodes : i # 1 => answers[i].start_layer = answers[i - 1].end_layer
      /\ \A i \in Nodes : answers[i].start_layer < answers[i].end_layer
  <2>1. 1 \in Nodes
    BY NodeCount DEF Nodes
  <2> QED BY <1>1, <1>2, <2>1 DEF ValidPlan, DeployInv, PlanInv, AnswersInv
<1>4. \A i \in Nodes : workers[i] # Dead => Holds(i) /\ workers[i].spec = answers[i]
  BY <1>1, <1>2, Distinct DEF DeployInv, AnswersInv, Holds
<1>5. answers \in Seq(Shard) /\ Len(answers) = N
  <2>1. N \in Nat
    BY NodeCount
  <2>2. answers \in [1 .. N -> Shard]
    BY <1>2 DEF Nodes
  <2> QED BY <2>1, <2>2, SeqDef
<1>6. DeployTypeOK'
  BY <1>1, <1>5 DEF DeployInv, DeployTypeOK, PlanInv, AllocInv
<1>7. HeldInv' /\ AnswersInv' /\ PushInv'
  BY <1>1 DEF DeployInv, HeldInv, Holds, AnswersInv, PushInv
<1>8. DaemonInv'
  BY <1>1 DEF DeployInv, DaemonInv, Holds
<1>9. ASSUME \A i \in Nodes : workers[i] # Dead /\ workers[i].here, NEW i \in Nodes
      PROVE  (answers[i].is_first <=> i = 1) /\ (answers[i].is_last <=> i = N)
  <2>1. /\ answers[i].is_first <=> answers[i].start_layer = 0
        /\ answers[i].is_last <=> answers[i].end_layer = layers
    BY <1>4, <1>9 DEF DeployInv, HeldInv
  <2>2. /\ answers[i].start_layer = 0 <=> i = 1
        /\ answers[i].end_layer = answers[N].end_layer <=> i = N
    BY <1>2, <1>3, Chains
  <2> QED BY <1>3, <2>1, <2>2
<1>10. job.way = "daemon" => answers = shards /\ pushed = 0
  <2> SUFFICES ASSUME job.way = "daemon" PROVE answers = shards /\ pushed = 0
    OBVIOUS
  <2>1. phase = "planned" /\ pushed = 0 /\ \A i \in Nodes : answers[i] = shards[i]
    BY <1>1, <1>2, Distinct DEF DeployInv, DaemonInv
  <2>2. shards \in [Nodes -> Shard]
    BY <2>1, PlannedShards DEF DeployInv
  <2> QED BY <1>2, <2>1, <2>2
<1>11. ServingIsPipeline'
  <2>1. \A i \in 1 .. N - 1 : answers[i].end_layer = answers[i + 1].start_layer
    <3> SUFFICES ASSUME NEW i \in 1 .. N - 1
                 PROVE  answers[i].end_layer = answers[i + 1].start_layer
      OBVIOUS
    <3>1. i + 1 \in Nodes /\ i + 1 # 1 /\ (i + 1) - 1 = i
      BY NodeCount DEF Nodes
    <3>2. answers[i + 1].start_layer = answers[(i + 1) - 1].end_layer
      BY <1>3, <3>1
    <3> QED BY <3>1, <3>2
  <2>2. \A i \in Alive : workers[i] # None /\ workers[i].spec = answers[i]
    BY <1>4 DEF Alive, Holds
  <2>3. AllHere => \A i \in Nodes : workers[i] # Dead /\ workers[i].here
    BY DEF AllHere, Alive
  <2>4. Alive' = Alive /\ AllHere' = AllHere
    BY <1>1 DEF Alive, AllHere
  <2>5. job.ckpt.layers = layers
    BY DEF DeployInv, PlanInv
  <2> QED
    BY <1>1, <1>3, <1>5, <1>9, <1>10, <2>1, <2>2, <2>3, <2>4, <2>5 DEF ServingIsPipeline
<1> QED
  BY <1>6, <1>7, <1>8, <1>11 DEF DeployInv

\* The coordinator takes the plan of compute_shards.
LEMMA PlannedKeeps == DeployInv /\ Planned /\ PlanInv' => DeployInv'
<1> SUFFICES ASSUME DeployInv, Planned, PlanInv' PROVE DeployInv'
  OBVIOUS
<1>1. /\ stage = "planning" /\ stage' = "push" /\ plan' = shards
      /\ phase = "planned" /\ job.way # "daemon"
      /\ UNCHANGED <<job, layers, phase, shards, workers, answers, pushed>>
  BY DEF Planned, Stage, vars, inputs
<1>2. pushed = 0
  BY <1>1 DEF DeployInv, AnswersInv
<1>3. DeployTypeOK'
  BY <1>1 DEF DeployInv, DeployTypeOK, PlanInv, AllocInv, TypeOK
<1>4. PushInv'
  BY <1>1, <1>2 DEF PushInv
<1>5. HeldInv' /\ AnswersInv' /\ DaemonInv' /\ ServingIsPipeline'
  BY <1>1 DEF DeployInv, HeldInv, Holds, AnswersInv, DaemonInv, ServingIsPipeline
<1> QED
  BY <1>3, <1>4, <1>5 DEF DeployInv

\* A shard is pushed; a worker that does not load it ends the start.
LEMMA PushKeeps == DeployInv /\ Push /\ PlanInv' => DeployInv'
<1> SUFFICES ASSUME DeployInv, Push, PlanInv' PROVE DeployInv'
  OBVIOUS
<1> DEFINE i == pushed + 1
           w == Loaded(plan[i], TRUE)
<1>1. /\ stage = "push" /\ pushed < N
      /\ UNCHANGED <<job, layers, phase, shards, answers, plan>>
  BY DEF Push, Stage, vars, inputs
<1>2. \/ /\ workers[i] # Dead /\ stage' = "push"
         /\ workers' = [workers EXCEPT ![i] = w] /\ pushed' = i
      \/ stage' = "failed" /\ UNCHANGED <<workers, pushed>>
  BY DEF Push, Stage
<1>3. /\ phase = "planned" /\ plan = shards /\ job.way # "daemon"
      /\ pushed \in 0 .. N /\ i \in Nodes /\ i \in 1 .. N
  BY <1>1, NodeCount DEF DeployInv, DeployTypeOK, PushInv, DaemonInv, Nodes
<1>4. /\ w \in [spec : Shard, here : BOOLEAN] /\ w # None /\ w # Dead
      /\ w.spec = plan[i]
      /\ w.spec.start_layer < w.spec.end_layer
      /\ w.here => /\ w.spec.is_first <=> w.spec.start_layer = 0
                   /\ w.spec.is_last <=> w.spec.end_layer = layers
  <2>1. /\ plan[i] \in Shard /\ plan[i].start_layer < plan[i].end_layer
        /\ OwnSpec(job.ckpt, plan[i]) = plan[i]
    BY <1>3, PlannedShards DEF DeployInv
  <2> QED BY <2>1, LoadedFacts DEF DeployInv, PlanInv, CkptOf
<1>5. i = pushed + 1
  OBVIOUS
<1> HIDE DEF w, i
<1>6. CASE stage' = "failed" /\ UNCHANGED <<workers, pushed>>
  <2>1. DeployTypeOK' /\ HeldInv'
    BY <1>1, <1>6 DEF DeployInv, DeployTypeOK, PlanInv, AllocInv, HeldInv, Holds
  <2>2. AnswersInv' /\ DaemonInv' /\ PushInv' /\ ServingIsPipeline'
    BY <1>1, <1>3, <1>6 DEF DeployInv, AnswersInv, DaemonInv, PushInv, ServingIsPipeline
  <2> QED BY <2>1, <2>2 DEF DeployInv
<1>7. CASE /\ stage' = "push" /\ pushed' = i
           /\ workers' = [workers EXCEPT ![i] = w]
  <2>1. \A j \in Nodes : workers'[j] = IF j = i THEN w ELSE workers[j]
    BY <1>7 DEF DeployInv, DeployTypeOK
  <2>2. DeployTypeOK'
    <3>1. i \in 0 .. N
      BY <1>3
    <3> QED BY <1>1, <1>4, <1>7, <3>1 DEF DeployInv, DeployTypeOK, PlanInv, AllocInv
  <2>3. HeldInv'
    BY <1>1, <1>4, <2>1 DEF DeployInv, HeldInv, Holds
  <2>4. AnswersInv' /\ DaemonInv' /\ ServingIsPipeline'
    BY <1>1, <1>3, <1>7 DEF DeployInv, AnswersInv, DaemonInv, ServingIsPipeline
  <2>5. PushInv'
    <3>1. ASSUME NEW j \in 1 .. i, workers'[j] # Dead
          PROVE  workers'[j] # None /\ workers'[j].spec = plan[j]
      <4>1. j \in Nodes /\ (j = i \/ j \in 1 .. pushed)
        BY <1>3, <1>5, NodeCount DEF Nodes
      <4> QED BY <1>1, <1>4, <2>1, <3>1, <4>1 DEF DeployInv, PushInv
    <3> QED BY <1>1, <1>3, <1>7, <3>1 DEF PushInv
  <2> QED BY <2>2, <2>3, <2>4, <2>5 DEF DeployInv
<1> QED
  BY <1>2, <1>6, <1>7 DEF w, i

\* All shards are pushed.
LEMMA ServeKeeps == DeployInv /\ Serve /\ PlanInv' => DeployInv'
<1> SUFFICES ASSUME DeployInv, Serve, PlanInv' PROVE DeployInv'
  OBVIOUS
<1>1. /\ stage = "push" /\ stage' = "serving" /\ pushed = N
      /\ UNCHANGED <<job, layers, phase, shards, workers, answers, plan, pushed>>
  BY DEF Serve, Stage, vars, inputs, worldVars
<1>2. /\ phase = "planned" /\ plan = shards /\ job.way # "daemon"
      /\ job.ckpt.layers = layers
      /\ \A i \in Nodes : workers[i] # Dead =>
            workers[i] # None /\ workers[i].spec = plan[i]
  BY <1>1 DEF DeployInv, PlanInv, PushInv, DaemonInv, Nodes
<1>3. /\ Len(shards) = N /\ PlanIsPipeline
      /\ \A i \in Nodes : shards[i] \in Shard
  BY <1>2, PlannedShards DEF DeployInv
<1>4. DeployTypeOK'
  BY <1>1 DEF DeployInv, DeployTypeOK, PlanInv, AllocInv
<1>5. HeldInv' /\ AnswersInv' /\ DaemonInv' /\ PushInv'
  BY <1>1, <1>2 DEF DeployInv, HeldInv, Holds, AnswersInv, DaemonInv, PushInv
<1>6. ServingIsPipeline'
  <2>1. \A i \in 1 .. N - 1 : i \in Nodes /\ i < N
    BY NodeCount DEF Nodes
  <2>2. Alive' = Alive /\ \A i \in Alive : i \in Nodes /\ workers[i] # Dead
    BY <1>1 DEF Alive
  <2> QED BY <1>1, <1>2, <1>3, <2>1, <2>2 DEF ServingIsPipeline, PlanIsPipeline
<1> QED
  BY <1>4, <1>5, <1>6 DEF DeployInv

-----------------------------------------------------------------------------
(* The theorems.                                                           *)

\* Every step keeps the invariant.
LEMMA DeployStep == DeployInv /\ [DeployNext]_deployVars => DeployInv'
<1> SUFFICES ASSUME DeployInv, [DeployNext]_deployVars PROVE DeployInv'
  OBVIOUS
<1>1. PlanInv'
  BY PlanStep DEF DeployInv
<1>2. CASE UNCHANGED deployVars
  <2>1. /\ UNCHANGED <<job, stage, workers, answers, plan, pushed, layers, phase, shards>>
    BY <1>2 DEF deployVars, worldVars, vars, inputs
  <2>2. DeployTypeOK'
    BY <1>1, <2>1 DEF DeployInv, DeployTypeOK, PlanInv, AllocInv
  <2>3. HeldInv' /\ AnswersInv' /\ DaemonInv' /\ PushInv'
    BY <2>1 DEF DeployInv, HeldInv, AnswersInv, DaemonInv, PushInv, Holds
  <2>4. ServingIsPipeline'
    BY <2>1 DEF DeployInv, ServingIsPipeline, Alive, AllHere
  <2> QED BY <1>1, <2>2, <2>3, <2>4 DEF DeployInv
<1>3. CASE DeployNext
  BY <1>1, <1>3, PlanningKeeps, QuietSteps, ByHandKeeps, DaemonSpawnsKeeps,
     DeathKeeps, HealthKeeps, AdoptKeeps, PlannedKeeps, PushKeeps, ServeKeeps
     DEF DeployNext, Steps
<1> QED
  BY <1>2, <1>3

\* It holds in every state (DeployInit, DeployNext).
LEMMA DeployInvariant == DeploySpec => []DeployInv
BY InitDeploy, DeployStep, PTL DEF DeploySpec

\* Every variable keeps its range, and allocations never become negative,
\* from the conversion to the serving cluster (Coordinator::start, the daemon).
THEOREM DeploymentTypes == DeploySpec => []DeployTypeOK
<1>1. DeployInv => DeployTypeOK
  BY DEF DeployInv
<1> QED
  BY <1>1, DeployInvariant, PTL

\* What Coordinator::start serves, be it adopted or pushed, is a pipeline over
\* all layers of its model and is what its living workers hold, for any number
\* of workers, whatever they were started with and whichever of them die.
THEOREM ServesPipelines == DeploySpec => []ServingIsPipeline
<1>1. DeployInv => ServingIsPipeline
  BY DEF DeployInv
<1> QED
  BY <1>1, DeployInvariant, PTL

\* compute_shards keeps its promises where the coordinator and the daemon
\* call it: its plans are pipelines, its loops stay inside their arrays, its
\* allocation adds up, its exception is never thrown, and workers that report
\* the same RAM differ by a layer at most.
THEOREM PlansInPlace ==
  DeploySpec => [](/\ PlanIsPipeline /\ IndexInOrder
                   /\ AllLayersAllocated /\ SpareLayer /\ TwinsShareAlike)
<1>1. DeployInv => PlanIsPipeline /\ IndexInOrder /\ SpareLayer /\ TwinsShareAlike
  BY CutIsPipeline, SomeoneCanSpare DEF DeployInv, PlanInv, AllocInv, TwinInv
<1>2. DeployInv => AllLayersAllocated
  BY AllocatedSum DEF DeployInv, PlanInv
<1> QED
  BY <1>1, <1>2, DeployInvariant, PTL

\* A function that starts with base and goes on by steps.
Iterates(f, base, n, step) ==
    f[0] = base /\ \A k \in 1 .. n : f[k] = step[k][f[k - 1]]

\* The sequences Picked and FlattenSeq build, one element or block after another.
Picks(f, list, places) ==
    /\ f[0] = <<>> /\ Picked(list, places) = f[Len(list)]
    /\ \A k \in 1 .. Len(list) :
          /\ k \in places => f[k] = f[k - 1] \o <<list[k]>>
          /\ k \notin places => f[k] = f[k - 1]

Flattens(f, ss) ==
    /\ f[0] = <<>> /\ FlattenSeq(ss) = f[Len(ss)]
    /\ \A k \in 1 .. Len(ss) : f[k] = f[k - 1] \o ss[k]

\* The elements of s are those of list at places up to m, each from a place g
\* of its own; or those of the first m blocks, each from a block b and an
\* offset o.
Takes(g, s, list, places, m) ==
    /\ g \in [1 .. Len(s) -> 1 .. m]
    /\ \A k \in 1 .. Len(s) : g[k] \in places /\ s[k] = list[g[k]]
    /\ \A i \in 1 .. m : i \in places => \E k \in 1 .. Len(s) : g[k] = i
    /\ \A j, k \in 1 .. Len(s) : g[j] = g[k] => j = k

Joins(b, o, s, ss, m) ==
    /\ \A k \in 1 .. Len(s) : /\ b[k] \in 1 .. m /\ o[k] \in 1 .. Len(ss[b[k]])
                               /\ s[k] = ss[b[k]][o[k]]
    /\ \A i \in 1 .. m : \A j \in 1 .. Len(ss[i]) :
          \E k \in 1 .. Len(s) : b[k] = i /\ o[k] = j
    /\ \A j, k \in 1 .. Len(s) : b[j] = b[k] /\ o[j] = o[k] => j = k

\* A recursion over 1 .. n that stays in a set has a solution.
LEMMA Recursion ==
  ASSUME NEW S, NEW base \in S, NEW n \in Nat, NEW step \in [1 .. n -> [S -> S]]
  PROVE  \E f \in [0 .. n -> S] : Iterates(f, base, n, step)
<1> DEFINE Upto(k, g) == /\ g \in [0 .. k -> S]
                         /\ g[0] = base
                         /\ \A j \in 1 .. k : g[j] = step[j][g[j - 1]]
           P == {k \in 0 .. n : \E g : Upto(k, g)}
<1>1. 0 \in P
  <2>1. Upto(0, [k \in 0 .. 0 |-> base])
    OBVIOUS
  <2> HIDE DEF Upto
  <2> QED BY <2>1
<1>2. ASSUME NEW k \in 1 .. n, k - 1 \in P PROVE k \in P
  <2>1. PICK g : Upto(k - 1, g)
    BY <1>2
  <2> DEFINE h == [j \in 0 .. k |-> IF j = k THEN step[k][g[k - 1]] ELSE g[j]]
  <2>2. g[k - 1] \in S /\ step[k] \in [S -> S]
    BY <2>1
  <2>3. h \in [0 .. k -> S]
    BY <2>1, <2>2
  <2>4. h[0] = base /\ \A j \in 1 .. k : h[j] = step[j][h[j - 1]]
    BY <2>1
  <2>5. Upto(k, h)
    BY <2>3, <2>4
  <2> HIDE DEF Upto, h
  <2> QED BY <2>5
<1>3. n \in P
  <2> HIDE DEF P
  <2>1. 0 .. n \subseteq P
    BY <1>1, <1>2, PrefixInduction
  <2> QED BY <2>1
<1>4. PICK g : Upto(n, g)
  BY <1>3
<1> QED
  BY <1>4 DEF Iterates

\* What Picked computes, one element of the list after the other.
LEMMA PickedSteps ==
  ASSUME NEW T, NEW list \in Seq(T), NEW places
  PROVE  \E f \in [0 .. Len(list) -> Seq(T)] : Picks(f, list, places)
<1> DEFINE n == Len(list)
           one(k) == IF k \in places THEN <<list[k]>> ELSE <<>>
           step == [k \in 1 .. n |-> [s \in Seq(T) |-> s \o one(k)]]
           U == CHOOSE f : f = [k \in 0 .. n |-> IF k = 0 THEN <<>> ELSE f[k - 1] \o one(k)]
<1>0. n \in Nat /\ \A k \in 1 .. n : one(k) \in Seq(T)
  BY LenProperties
<1>1. step \in [1 .. n -> [Seq(T) -> Seq(T)]]
  <2> HIDE DEF one
  <2>1. \A k \in 1 .. n : [s \in Seq(T) |-> s \o one(k)] \in [Seq(T) -> Seq(T)]
    BY <1>0, ConcatProperties
  <2> QED
    BY <2>1
<1>2. PICK f \in [0 .. n -> Seq(T)] :
         f[0] = <<>> /\ \A k \in 1 .. n : f[k] = step[k][f[k - 1]]
  <2> DEFINE S == Seq(T)
             base == <<>>
  <2>1. base \in S /\ n \in Nat /\ step \in [1 .. n -> [S -> S]]
    BY <1>0, <1>1
  <2> HIDE DEF step, n, S, base
  <2>2. \E f \in [0 .. n -> S] : Iterates(f, base, n, step)
    BY <2>1, Recursion
  <2> QED
    BY <2>2 DEF S, base, Iterates
<1>3. \A k \in 1 .. n : f[k] = f[k - 1] \o one(k)
  <2> HIDE DEF one, n
  <2>1. \A k \in 1 .. n : f[k - 1] \in Seq(T)
    BY <1>0
  <2> QED BY <1>2, <2>1
<1>4. f = [k \in 0 .. n |-> IF k = 0 THEN <<>> ELSE f[k - 1] \o one(k)]
  <2> HIDE DEF one, n
  <2>1. f = [k \in 0 .. n |-> f[k]]
    BY <1>2
  <2>2. \A k \in 0 .. n : k = 0 \/ k \in 1 .. n
    BY <1>0
  <2>3. \A k \in 0 .. n : f[k] = IF k = 0 THEN <<>> ELSE f[k - 1] \o one(k)
    BY <1>2, <1>3, <2>2, SMTT(30)
  <2> QED BY <2>1, <2>3
<1>5. U = [k \in 0 .. n |-> IF k = 0 THEN <<>> ELSE U[k - 1] \o one(k)]
  <2> DEFINE R(g) == g = [k \in 0 .. n |-> IF k = 0 THEN <<>> ELSE g[k - 1] \o one(k)]
  <2>1. R(f)
    BY <1>4
  <2>2. \E g : R(g)
    <3> HIDE DEF R
    <3> QED BY <2>1
  <2>3. R(CHOOSE g : R(g))
    <3> HIDE DEF R
    <3> QED BY <2>2
  <2> QED BY <2>3
<1>6. Picked(list, places) = U[n]
  BY DEF Picked
<1> DEFINE Agree == {k \in 0 .. n : U[k] = f[k]}
<1>7. n \in Agree
  <2> HIDE DEF U, one, n
  <2>1. 0 \in Agree
    BY <1>0, <1>2, <1>5
  <2>2. ASSUME NEW k \in 1 .. n, k - 1 \in Agree PROVE k \in Agree
    <3>1. k \in 0 .. n /\ k # 0 /\ k - 1 \in 0 .. n /\ U[k - 1] = f[k - 1]
      BY <1>0, <2>2
    <3>2. U[k] = U[k - 1] \o one(k)
      BY <1>5, <3>1
    <3>3. f[k] = f[k - 1] \o one(k)
      BY <1>3
    <3> QED
      BY <3>1, <3>2, <3>3
  <2> HIDE DEF Agree
  <2>3. 0 .. n \subseteq Agree
    BY <1>0, <2>1, <2>2, PrefixInduction
  <2> QED
    BY <1>0, <2>3
<1>8. Picked(list, places) = f[n]
  BY <1>6, <1>7
<1>9. \A k \in 1 .. n : k \notin places => f[k] = f[k - 1]
  <2> HIDE DEF n, U, Agree, step
  <2>1. ASSUME NEW k \in 1 .. n, k \notin places PROVE f[k] = f[k - 1]
    <3>1. f[k] = f[k - 1] \o <<>>
      BY <1>3, <2>1
    <3>2. f[k - 1] \in Seq(T)
      BY <1>0
    <3> QED BY <3>1, <3>2, ConcatEmptySeq
  <2> QED BY <2>1
<1>10. \A k \in 1 .. n : k \in places => f[k] = f[k - 1] \o <<list[k]>>
  BY <1>3
<1> HIDE DEF U, step, one
<1>11. Picks(f, list, places)
  BY <1>2, <1>8, <1>9, <1>10 DEF Picks
<1> QED
  BY <1>11

\* What FlattenSeq computes, one block after the other.
LEMMA FlattenSteps ==
  ASSUME NEW T, NEW ss \in Seq(Seq(T))
  PROVE  \E f \in [0 .. Len(ss) -> Seq(T)] : Flattens(f, ss)
<1> DEFINE n == Len(ss)
           step == [k \in 1 .. n |-> [s \in Seq(T) |-> s \o ss[k]]]
           R(g) == g = [i \in 1 .. n |-> IF i = 1 THEN ss[i] ELSE g[i - 1] \o ss[i]]
           U == CHOOSE g : R(g)
<1>0. n \in Nat /\ \A k \in 1 .. n : ss[k] \in Seq(T)
  BY LenProperties
<1>1. step \in [1 .. n -> [Seq(T) -> Seq(T)]]
  <2>1. \A k \in 1 .. n : [s \in Seq(T) |-> s \o ss[k]] \in [Seq(T) -> Seq(T)]
    BY <1>0, ConcatProperties
  <2> QED
    BY <2>1
<1>2. PICK f \in [0 .. n -> Seq(T)] :
         f[0] = <<>> /\ \A k \in 1 .. n : f[k] = step[k][f[k - 1]]
  <2> DEFINE S == Seq(T)
             base == <<>>
  <2>1. base \in S /\ n \in Nat /\ step \in [1 .. n -> [S -> S]]
    BY <1>0, <1>1
  <2> HIDE DEF step, n, S, base, R, U
  <2>2. \E f \in [0 .. n -> S] : Iterates(f, base, n, step)
    BY <2>1, Recursion
  <2> QED
    BY <2>2 DEF S, base, Iterates
<1>3. \A k \in 1 .. n : f[k - 1] \in Seq(T) /\ f[k] = f[k - 1] \o ss[k]
  <2> HIDE DEF n
  <2>1. \A k \in 1 .. n : f[k - 1] \in Seq(T)
    BY <1>0
  <2> QED BY <1>2, <2>1
<1>4. \A k \in 1 .. n : f[k] = IF k = 1 THEN ss[k] ELSE f[k - 1] \o ss[k]
  <2> HIDE DEF n
  <2>1. ASSUME 1 \in 1 .. n PROVE f[1] = ss[1]
    <3>1. f[1] = f[0] \o ss[1]
      <4>1. 1 - 1 = 0
        OBVIOUS
      <4> QED BY <1>3, <2>1, <4>1
    <3> QED
      BY <1>0, <1>2, <2>1, <3>1, ConcatEmptySeq
  <2> QED BY <1>3, <2>1
<1>5. CASE n = 0
  <2>1. FlattenSeq(ss) = f[n]
    <3>1. ss = <<>>
      BY <1>5, EmptySeq
    <3> QED
      BY <1>2, <1>5, <3>1 DEF FlattenSeq
  <2>2. Flattens(f, ss)
    BY <1>2, <1>3, <2>1 DEF Flattens
  <2> QED
    BY <2>2
<1>6. CASE n # 0
  <2> DEFINE g == [k \in 1 .. n |-> f[k]]
  <2>1. R(g)
    <3> HIDE DEF n
    <3>1. \A k \in 1 .. n : g[k] = f[k]
      OBVIOUS
    <3>2. \A k \in 1 .. n : k = 1 \/ k - 1 \in 1 .. n
      BY <1>0
    <3>3. \A k \in 1 .. n : f[k] = IF k = 1 THEN ss[k] ELSE g[k - 1] \o ss[k]
      BY <1>4, <3>1, <3>2
    <3> QED BY <3>3
  <2>2. R(U)
    <3> HIDE DEF R, g
    <3>1. \E h : R(h)
      BY <2>1
    <3> QED
      BY <3>1
  <2>3. FlattenSeq(ss) = U[n]
    BY <1>6 DEF FlattenSeq
  <2> DEFINE Agree == {k \in 0 .. n : k = 0 \/ U[k] = f[k]}
  <2>4. 0 .. n \subseteq Agree
    <3>1. \A k \in 1 .. n : U[k] = IF k = 1 THEN ss[k] ELSE U[k - 1] \o ss[k]
      <4> HIDE DEF U, n
      <4> QED BY <2>2
    <3> HIDE DEF U, n, R
    <3>2. 0 \in Agree
      BY <1>0
    <3>3. ASSUME NEW k \in 1 .. n, k - 1 \in Agree PROVE k \in Agree
      <4>1. k \in 0 .. n /\ (k = 1 \/ U[k - 1] = f[k - 1])
        BY <1>0, <3>3
      <4>2. U[k] = f[k]
        BY <1>4, <3>1, <4>1
      <4> QED
        BY <4>1, <4>2
    <3> HIDE DEF Agree
    <3> QED
      BY <1>0, <3>2, <3>3, PrefixInduction
  <2>5. FlattenSeq(ss) = f[n]
    <3> HIDE DEF U, n, R
    <3>1. n \in 0 .. n
      BY <1>0
    <3> QED
      BY <1>6, <2>3, <2>4, <3>1
  <2> HIDE DEF U, step, R, g
  <2>6. Flattens(f, ss)
    BY <1>2, <1>3, <2>5 DEF Flattens
  <2> QED
    BY <2>6
<1> QED
  BY <1>5, <1>6

\* The elements of the list that Picked takes, each from a place of its own.
LEMMA PickedPlaces ==
  ASSUME NEW T, NEW list \in Seq(T), NEW places
  PROVE  /\ Picked(list, places) \in Seq(T)
         /\ \E g : Takes(g, Picked(list, places), list, places, Len(list))
<1> DEFINE n == Len(list)
<1>0. n \in Nat
  BY LenProperties
<1>f. PICK f \in [0 .. n -> Seq(T)] : Picks(f, list, places)
  BY PickedSteps
<1>1. /\ f[0] = <<>> /\ Picked(list, places) = f[n]
      /\ \A k \in 1 .. n :
            /\ k \in places => f[k] = f[k - 1] \o <<list[k]>>
            /\ k \notin places => f[k] = f[k - 1]
  BY <1>f DEF Picks
<1> HIDE DEF n
<1> DEFINE P == {k \in 0 .. n : \E g : Takes(g, f[k], list, places, k)}
<1>2. 0 \in P
  <2>1. Takes([k \in 1 .. 0 |-> 0], f[0], list, places, 0)
    BY <1>1 DEF Takes
  <2> QED BY <1>0, <2>1
<1>3. ASSUME NEW k \in 1 .. n, k - 1 \in P PROVE k \in P
  <2>0. k \in 0 .. n /\ k \in Nat /\ k - 1 \in 0 .. n /\ f[k - 1] \in Seq(T) /\ list[k] \in T
    BY <1>0 DEF n
  <2>1. PICK g : Takes(g, f[k - 1], list, places, k - 1)
    BY <1>3
  <2> DEFINE s == f[k - 1]
             l == Len(s)
  <2>2. l \in Nat
    BY <2>0, LenProperties
  <2>3. CASE k \notin places
    <3>1. f[k] = s
      BY <1>1, <2>3
    <3>2. Takes(g, s, list, places, k)
      <4>1. \A i \in 1 .. k : i = k \/ i \in 1 .. k - 1
        BY <2>0
      <4>2. g \in [1 .. l -> 1 .. k]
        BY <2>0, <2>1 DEF Takes
      <4> HIDE DEF s
      <4> QED BY <2>1, <2>3, <4>1, <4>2 DEF s, Takes
    <3> QED BY <2>0, <3>1, <3>2
  <2>4. CASE k \in places
    <3> DEFINE h == [j \in 1 .. l + 1 |-> IF j = l + 1 THEN k ELSE g[j]]
    <3>1. f[k] = s \o <<list[k]>>
      BY <1>1, <2>4
    <3>2. /\ Len(f[k]) = l + 1
          /\ \A j \in 1 .. l : f[k][j] = s[j]
          /\ f[k][l + 1] = list[k]
      <4> HIDE DEF s
      <4>1. s \in Seq(T) /\ <<list[k]>> \in Seq(T) /\ Len(<<list[k]>>) = 1 /\ <<list[k]>>[1] = list[k]
        BY <2>0 DEF s
      <4> QED BY <2>2, <3>1, <4>1, ConcatProperties
    <3>3. /\ \A j \in 1 .. l : g[j] \in 1 .. k - 1 /\ g[j] \in places /\ s[j] = list[g[j]]
          /\ \A i \in 1 .. k - 1 : i \in places => \E j \in 1 .. l : g[j] = i
          /\ \A i, j \in 1 .. l : g[i] = g[j] => i = j
      BY <2>1 DEF Takes
    <3> HIDE DEF s, l
    <3>4. \A j \in 1 .. l + 1 : j = l + 1 \/ j \in 1 .. l
      BY <2>2
    <3>5. h \in [1 .. l + 1 -> 1 .. k]
      BY <2>0, <3>3, <3>4
    <3>6. /\ h[l + 1] = k
          /\ \A j \in 1 .. l : h[j] = g[j] /\ h[j] # k /\ j \in 1 .. l + 1
      BY <2>0, <2>2, <3>3
    <3> HIDE DEF h
    <3>7. \A j \in 1 .. l + 1 : h[j] \in places /\ f[k][j] = list[h[j]]
      BY <2>4, <3>2, <3>3, <3>4, <3>6
    <3>8. \A i \in 1 .. k : i \in places => \E j \in 1 .. l + 1 : h[j] = i
      <4>1. \A i \in 1 .. k : i = k \/ i \in 1 .. k - 1
        BY <2>0
      <4>2. l + 1 \in 1 .. l + 1
        BY <2>2
      <4> QED BY <3>3, <3>6, <4>1, <4>2
    <3>9. \A i, j \in 1 .. l + 1 : h[i] = h[j] => i = j
      BY <3>3, <3>4, <3>6
    <3>10. Takes(h, f[k], list, places, k)
      BY <3>2, <3>5, <3>7, <3>8, <3>9 DEF Takes
    <3> QED BY <2>0, <3>10
  <2> QED BY <2>3, <2>4
<1>4. PICK g : Takes(g, f[n], list, places, n)
  <2> HIDE DEF P
  <2>1. 0 .. n \subseteq P
    BY <1>0, <1>2, <1>3, PrefixInduction
  <2>2. n \in P
    BY <1>0, <2>1
  <2> QED BY <2>2 DEF P
<1>5. f[n] \in Seq(T)
  BY <1>0
<1>6. Takes(g, Picked(list, places), list, places, Len(list))
  BY <1>1, <1>4 DEF n
<1>7. Picked(list, places) \in Seq(T)
  BY <1>1, <1>5
<1> QED
  BY <1>6, <1>7

\* The elements FlattenSeq joins, each from a block and an offset of its own.
LEMMA FlattenPlaces ==
  ASSUME NEW T, NEW ss \in Seq(Seq(T))
  PROVE  /\ FlattenSeq(ss) \in Seq(T)
         /\ \E b, o : Joins(b, o, FlattenSeq(ss), ss, Len(ss))
<1> DEFINE n == Len(ss)
<1>0. n \in Nat /\ \A k \in 1 .. n : ss[k] \in Seq(T)
  BY LenProperties
<1>1. PICK f \in [0 .. n -> Seq(T)] : Flattens(f, ss)
  BY FlattenSteps
<1>2. /\ f[0] = <<>> /\ FlattenSeq(ss) = f[n]
      /\ \A k \in 1 .. n : f[k] = f[k - 1] \o ss[k]
  BY <1>1 DEF Flattens
<1> HIDE DEF n
<1> DEFINE P == {k \in 0 .. n : \E b, o : Joins(b, o, f[k], ss, k)}
<1>3. 0 \in P
  <2>1. Joins(<<>>, <<>>, f[0], ss, 0)
    BY <1>2 DEF Joins
  <2> QED BY <1>0, <2>1
<1>4. ASSUME NEW k \in 1 .. n, k - 1 \in P PROVE k \in P
  <2>1. k \in 0 .. n /\ k \in Nat /\ k - 1 \in 0 .. n /\ f[k - 1] \in Seq(T) /\ ss[k] \in Seq(T)
    BY <1>0
  <2>2. PICK b, o : Joins(b, o, f[k - 1], ss, k - 1)
    BY <1>4
  <2> DEFINE s == f[k - 1]
             l == Len(s)
             t == ss[k]
             d == Len(t)
             b2 == [j \in 1 .. l + d |-> IF j <= l THEN b[j] ELSE k]
             o2 == [j \in 1 .. l + d |-> IF j <= l THEN o[j] ELSE j - l]
  <2>3. l \in Nat /\ d \in Nat
    BY <2>1, LenProperties
  <2>4. /\ \A j \in 1 .. l : b[j] \in 1 .. k - 1 /\ o[j] \in 1 .. Len(ss[b[j]])
                             /\ s[j] = ss[b[j]][o[j]]
        /\ \A i \in 1 .. k - 1 : \A j \in 1 .. Len(ss[i]) :
              \E q \in 1 .. l : b[q] = i /\ o[q] = j
        /\ \A i, j \in 1 .. l : b[i] = b[j] /\ o[i] = o[j] => i = j
    BY <2>2 DEF Joins
  <2>5. f[k] = s \o t
    BY <1>2
  <2>6. s \in Seq(T) /\ t \in Seq(T)
    BY <2>1
  <2> HIDE DEF s, t
  <2>7. Len(f[k]) = l + d /\ \A j \in 1 .. l + d : f[k][j] = IF j <= l THEN s[j] ELSE t[j - l]
    BY <2>5, <2>6, ConcatProperties
  <2> HIDE DEF l, d
  <2> HIDE DEF b2, o2
  <2>8. /\ \A j \in 1 .. l + d : j \in 1 .. l \/ (j - l \in 1 .. d /\ ~(j <= l))
        /\ \A j \in 1 .. l : j \in 1 .. l + d /\ j <= l
        /\ \A j \in 1 .. d : l + j \in 1 .. l + d /\ ~(l + j <= l) /\ (l + j) - l = j
    <3>1. ASSUME NEW j \in 1 .. l + d PROVE j \in 1 .. l \/ (j - l \in 1 .. d /\ ~(j <= l))
      <4>1. j \in Int /\ 1 <= j /\ j <= l + d
        BY <2>3
      <4>2. CASE j <= l
        BY <2>3, <4>1, <4>2
      <4>3. CASE ~(j <= l)
        BY <2>3, <4>1, <4>3
      <4> QED BY <4>2, <4>3
    <3>2. \A j \in 1 .. l : j \in 1 .. l + d /\ j <= l
      BY <2>3
    <3>3. \A j \in 1 .. d : l + j \in 1 .. l + d /\ ~(l + j <= l) /\ (l + j) - l = j
      BY <2>3
    <3> QED BY <3>1, <3>2, <3>3
  <2>9. /\ \A j \in 1 .. l : b2[j] = b[j] /\ o2[j] = o[j]
        /\ \A j \in 1 .. l + d : j \notin 1 .. l => b2[j] = k /\ o2[j] = j - l
    BY <2>3, <2>8 DEF b2, o2
  <2>10. ASSUME NEW j \in 1 .. l + d
         PROVE  /\ b2[j] \in 1 .. k /\ o2[j] \in 1 .. Len(ss[b2[j]])
                /\ f[k][j] = ss[b2[j]][o2[j]]
    <3>1. CASE j \in 1 .. l
      <4>1. b[j] \in 1 .. k /\ j <= l
        BY <2>1, <2>3, <2>4, <3>1
      <4> QED BY <2>4, <2>7, <2>9, <3>1, <4>1
    <3>2. CASE j \notin 1 .. l
      <4>1. b2[j] = k /\ o2[j] = j - l /\ j - l \in 1 .. d /\ f[k][j] = t[j - l]
        BY <2>7, <2>8, <2>9, <3>2
      <4>2. k \in 1 .. k
        BY <2>1
      <4> QED BY <4>1, <4>2 DEF d, t
    <3> QED BY <3>1, <3>2
  <2>11. ASSUME NEW i \in 1 .. k, NEW j \in 1 .. Len(ss[i])
         PROVE  \E q \in 1 .. l + d : b2[q] = i /\ o2[q] = j
    <3>1. CASE i \in 1 .. k - 1
      <4>1. PICK q \in 1 .. l : b[q] = i /\ o[q] = j
        BY <2>4, <3>1
      <4>2. q \in 1 .. l + d /\ b2[q] = i /\ o2[q] = j
        BY <2>8, <2>9, <4>1
      <4> QED BY <4>2
    <3>2. CASE i = k
      <4>1. j \in 1 .. d
        BY <3>2 DEF d, t
      <4>2. l + j \in 1 .. l + d /\ l + j \notin 1 .. l /\ (l + j) - l = j
        BY <2>3, <2>8, <4>1
      <4> QED BY <2>9, <3>2, <4>2
    <3> QED BY <2>1, <3>1, <3>2
  <2>12. ASSUME NEW i \in 1 .. l + d, NEW j \in 1 .. l + d, b2[i] = b2[j], o2[i] = o2[j]
         PROVE  i = j
    <3>1. \A q \in 1 .. l : b2[q] # k
      BY <2>1, <2>4, <2>9
    <3>2. CASE i \in 1 .. l
      BY <2>4, <2>9, <2>12, <3>1, <3>2
    <3>3. CASE i \notin 1 .. l
      <4>1. j \notin 1 .. l
        BY <2>9, <2>12, <3>1, <3>3
      <4>2. i - l = j - l
        BY <2>9, <2>12, <3>3, <4>1
      <4> QED BY <2>3, <4>2
    <3> QED BY <3>2, <3>3
  <2>13. Len(f[k]) = l + d
    BY <2>7
  <2>14. Joins(b2, o2, f[k], ss, k)
    <3>1. \A i, j \in 1 .. l + d : b2[i] = b2[j] /\ o2[i] = o2[j] => i = j
      BY <2>12
    <3>2. \A i \in 1 .. k : \A j \in 1 .. Len(ss[i]) :
             \E q \in 1 .. l + d : b2[q] = i /\ o2[q] = j
      BY <2>11
    <3>3. \A j \in 1 .. l + d : /\ b2[j] \in 1 .. k /\ o2[j] \in 1 .. Len(ss[b2[j]])
                                /\ f[k][j] = ss[b2[j]][o2[j]]
      BY <2>10
    <3> QED BY <2>13, <3>1, <3>2, <3>3 DEF Joins
  <2> QED BY <2>1, <2>14
<1>5. PICK b, o : Joins(b, o, f[n], ss, n)
  <2> HIDE DEF P
  <2>1. 0 .. n \subseteq P
    BY <1>0, <1>3, <1>4, PrefixInduction
  <2>2. n \in P
    BY <1>0, <2>1
  <2> QED BY <2>2 DEF P
<1>6. f[n] \in Seq(T)
  BY <1>0
<1>7. Joins(b, o, FlattenSeq(ss), ss, Len(ss)) /\ FlattenSeq(ss) \in Seq(T)
  BY <1>2, <1>5, <1>6 DEF n
<1> QED
  BY <1>7

\* No two elements of a list have the same name.
Once(list) ==
    \A j, k \in DOMAIN list : list[j].name = list[k].name => j = k

\* The elements of a list are those at 1 .. its length.
LEMMA ListElements ==
  ASSUME NEW T, NEW list \in Seq(T)
  PROVE  /\ Len(list) \in Nat /\ DOMAIN list = 1 .. Len(list)
         /\ \A x : x \in Elements(list) <=> \E k \in 1 .. Len(list) : x = list[k]
         /\ \A k \in 1 .. Len(list) : list[k] \in T
         /\ Once(list) <=> \A j, k \in 1 .. Len(list) : list[j].name = list[k].name => j = k
<1>1. Len(list) \in Nat /\ DOMAIN list = 1 .. Len(list)
  BY LenProperties
<1>2. \A k \in 1 .. Len(list) : list[k] \in T
  BY ElementOfSeq
<1> QED
  BY <1>1, <1>2 DEF Elements, Once

\* A list of one, and of none.
LEMMA FewElements ==
  ASSUME NEW a
  PROVE  /\ \A x : x \in Elements(<<a>>) <=> x = a
         /\ \A x : ~(x \in Elements(<<>>))
         /\ <<a>> \in Seq({a}) /\ <<>> \in Seq({})
BY DEF Elements

\* Picking elements invents none, and doubles none.
LEMMA PickedFacts ==
  ASSUME NEW T, NEW list \in Seq(T), NEW places
  PROVE  /\ Picked(list, places) \in Seq(T)
         /\ \A x : x \in Elements(Picked(list, places)) <=>
                      \E k \in 1 .. Len(list) : k \in places /\ x = list[k]
         /\ Once(list) => Once(Picked(list, places))
<1> DEFINE s == Picked(list, places)
<1>1. s \in Seq(T) /\ \E g : Takes(g, s, list, places, Len(list))
  BY PickedPlaces
<1> HIDE DEF s
<1>2. PICK g : Takes(g, s, list, places, Len(list))
  BY <1>1
<1>3. /\ \A k \in 1 .. Len(s) : g[k] \in 1 .. Len(list) /\ g[k] \in places /\ s[k] = list[g[k]]
      /\ \A i \in 1 .. Len(list) : i \in places => \E k \in 1 .. Len(s) : g[k] = i
      /\ \A j, k \in 1 .. Len(s) : g[j] = g[k] => j = k
  BY <1>2 DEF Takes
<1>4. /\ \A x : x \in Elements(s) <=> \E k \in 1 .. Len(s) : x = s[k]
      /\ Once(list) <=> \A j, k \in 1 .. Len(list) : list[j].name = list[k].name => j = k
      /\ Once(s) <=> \A j, k \in 1 .. Len(s) : s[j].name = s[k].name => j = k
  BY <1>1, ListElements
<1>5. \A x : x \in Elements(s) <=> \E k \in 1 .. Len(list) : k \in places /\ x = list[k]
  <2>1. ASSUME NEW x \in Elements(s) PROVE \E k \in 1 .. Len(list) : k \in places /\ x = list[k]
    <3>1. PICK k \in 1 .. Len(s) : x = s[k]
      BY <1>4
    <3> QED BY <1>3, <3>1
  <2>2. ASSUME NEW k \in 1 .. Len(list), k \in places PROVE list[k] \in Elements(s)
    <3>1. PICK j \in 1 .. Len(s) : g[j] = k
      BY <1>3, <2>2
    <3> QED BY <1>3, <1>4, <3>1
  <2> QED BY <2>1, <2>2
<1>6. ASSUME Once(list) PROVE Once(s)
  <2>1. ASSUME NEW j \in 1 .. Len(s), NEW k \in 1 .. Len(s), s[j].name = s[k].name
        PROVE  j = k
    <3>1. list[g[j]].name = list[g[k]].name /\ g[j] \in 1 .. Len(list) /\ g[k] \in 1 .. Len(list)
      BY <1>3, <2>1
    <3>2. g[j] = g[k]
      BY <1>4, <1>6, <3>1
    <3> QED BY <1>3, <3>2
  <2> QED BY <1>4, <2>1
<1> QED
  BY <1>1, <1>5, <1>6 DEF s

\* Joining lists that share no name keeps every element, once.
LEMMA FlattenFacts ==
  ASSUME NEW T, NEW ss \in Seq(Seq(T))
  PROVE  /\ FlattenSeq(ss) \in Seq(T)
         /\ \A x : x \in Elements(FlattenSeq(ss)) <=>
                      \E i \in 1 .. Len(ss) : x \in Elements(ss[i])
         /\ (/\ \A i \in 1 .. Len(ss) : Once(ss[i])
             /\ \A i, j \in 1 .. Len(ss) : i # j =>
                   \A x \in Elements(ss[i]), y \in Elements(ss[j]) : x.name # y.name)
            => Once(FlattenSeq(ss))
<1> DEFINE s == FlattenSeq(ss)
<1>1. s \in Seq(T) /\ \E b, o : Joins(b, o, s, ss, Len(ss))
  BY FlattenPlaces
<1> HIDE DEF s
<1>2. PICK b, o : Joins(b, o, s, ss, Len(ss))
  BY <1>1
<1>3. /\ \A k \in 1 .. Len(s) : /\ b[k] \in 1 .. Len(ss) /\ o[k] \in 1 .. Len(ss[b[k]])
                                /\ s[k] = ss[b[k]][o[k]]
      /\ \A i \in 1 .. Len(ss) : \A j \in 1 .. Len(ss[i]) :
            \E k \in 1 .. Len(s) : b[k] = i /\ o[k] = j
      /\ \A j, k \in 1 .. Len(s) : b[j] = b[k] /\ o[j] = o[k] => j = k
  BY <1>2 DEF Joins
<1>4. \A i \in 1 .. Len(ss) : ss[i] \in Seq(T)
  BY ElementOfSeq
<1>5. /\ \A x : x \in Elements(s) <=> \E k \in 1 .. Len(s) : x = s[k]
      /\ Once(s) <=> \A j, k \in 1 .. Len(s) : s[j].name = s[k].name => j = k
  BY <1>1, ListElements
<1>6. \A i \in 1 .. Len(ss) :
         /\ \A x : x \in Elements(ss[i]) <=> \E k \in 1 .. Len(ss[i]) : x = ss[i][k]
         /\ Once(ss[i]) <=> \A j, k \in 1 .. Len(ss[i]) : ss[i][j].name = ss[i][k].name => j = k
  BY <1>4, ListElements
<1>7. ASSUME NEW x PROVE x \in Elements(s) <=> \E i \in 1 .. Len(ss) : x \in Elements(ss[i])
  <2>1. ASSUME x \in Elements(s) PROVE \E i \in 1 .. Len(ss) : x \in Elements(ss[i])
    <3>1. PICK k \in 1 .. Len(s) : x = s[k]
      BY <1>5, <2>1
    <3>2. b[k] \in 1 .. Len(ss) /\ x \in Elements(ss[b[k]])
      <4>1. b[k] \in 1 .. Len(ss) /\ o[k] \in 1 .. Len(ss[b[k]]) /\ x = ss[b[k]][o[k]]
        BY <1>3, <3>1
      <4> QED BY <1>6, <4>1
    <3> QED BY <3>2
  <2>2. ASSUME NEW i \in 1 .. Len(ss), x \in Elements(ss[i]) PROVE x \in Elements(s)
    <3>1. PICK j \in 1 .. Len(ss[i]) : x = ss[i][j]
      BY <1>6, <2>2
    <3>2. PICK k \in 1 .. Len(s) : b[k] = i /\ o[k] = j
      BY <1>3
    <3> QED BY <1>3, <1>5, <3>1, <3>2
  <2> QED BY <2>1, <2>2
<1>8. ASSUME \A i \in 1 .. Len(ss) : Once(ss[i]),
             \A i, j \in 1 .. Len(ss) : i # j =>
                \A x \in Elements(ss[i]), y \in Elements(ss[j]) : x.name # y.name
      PROVE  Once(s)
  <2>1. ASSUME NEW j \in 1 .. Len(s), NEW k \in 1 .. Len(s), s[j].name = s[k].name
        PROVE  j = k
    <3>1. /\ b[j] \in 1 .. Len(ss) /\ o[j] \in 1 .. Len(ss[b[j]]) /\ s[j] = ss[b[j]][o[j]]
          /\ b[k] \in 1 .. Len(ss) /\ o[k] \in 1 .. Len(ss[b[k]]) /\ s[k] = ss[b[k]][o[k]]
      BY <1>3
    <3>2. s[j] \in Elements(ss[b[j]]) /\ s[k] \in Elements(ss[b[k]])
      BY <1>6, <3>1
    <3>3. b[j] = b[k]
      BY <1>8, <2>1, <3>1, <3>2
    <3>4. o[j] = o[k]
      BY <1>6, <1>8, <2>1, <3>1, <3>3, SMTT(30)
    <3> QED BY <1>3, <3>3, <3>4
  <2> QED BY <1>5, <2>1
<1>9. \A x : x \in Elements(s) <=> \E i \in 1 .. Len(ss) : x \in Elements(ss[i])
  BY <1>7
<1>10. s \in Seq(T)
  BY <1>1
<1> QED
  BY <1>8, <1>9, <1>10 DEF s

\* The same for two lists.
LEMMA ConcatFacts ==
  ASSUME NEW T, NEW s \in Seq(T), NEW t \in Seq(T)
  PROVE  /\ s \o t \in Seq(T)
         /\ Elements(s \o t) = Elements(s) \cup Elements(t)
         /\ (/\ Once(s) /\ Once(t)
             /\ \A x \in Elements(s), y \in Elements(t) : x.name # y.name) => Once(s \o t)
<1> DEFINE u == s \o t
           l == Len(s)
           d == Len(t)
<1>1. /\ u \in Seq(T) /\ Len(u) = l + d
      /\ \A i \in 1 .. l + d : u[i] = IF i <= l THEN s[i] ELSE t[i - l]
  BY ConcatProperties
<1>2. /\ l \in Nat /\ d \in Nat
      /\ \A x : x \in Elements(s) <=> \E k \in 1 .. l : x = s[k]
      /\ \A x : x \in Elements(t) <=> \E k \in 1 .. d : x = t[k]
      /\ \A x : x \in Elements(u) <=> \E k \in 1 .. l + d : x = u[k]
      /\ Once(s) <=> \A j, k \in 1 .. l : s[j].name = s[k].name => j = k
      /\ Once(t) <=> \A j, k \in 1 .. d : t[j].name = t[k].name => j = k
      /\ Once(u) <=> \A j, k \in 1 .. l + d : u[j].name = u[k].name => j = k
  <2> HIDE DEF u
  <2>1. /\ l \in Nat /\ \A x : x \in Elements(s) <=> \E k \in 1 .. l : x = s[k]
        /\ Once(s) <=> \A j, k \in 1 .. l : s[j].name = s[k].name => j = k
    BY ListElements
  <2>2. /\ d \in Nat /\ \A x : x \in Elements(t) <=> \E k \in 1 .. d : x = t[k]
        /\ Once(t) <=> \A j, k \in 1 .. d : t[j].name = t[k].name => j = k
    BY ListElements
  <2>3. /\ \A x : x \in Elements(u) <=> \E k \in 1 .. Len(u) : x = u[k]
        /\ Once(u) <=> \A j, k \in 1 .. Len(u) : u[j].name = u[k].name => j = k
    BY <1>1, ListElements
  <2>4. Len(u) = l + d
    BY <1>1
  <2> HIDE DEF l, d
  <2> QED BY <2>1, <2>2, <2>3, <2>4
<1> HIDE DEF u, l, d
<1>3. \A i \in 1 .. l + d : \/ i \in 1 .. l /\ u[i] = s[i]
                            \/ i \notin 1 .. l /\ i - l \in 1 .. d /\ u[i] = t[i - l]
  <2>1. ASSUME NEW i \in 1 .. l + d
        PROVE  (i \in 1 .. l /\ i <= l) \/ (i \notin 1 .. l /\ i - l \in 1 .. d /\ ~(i <= l))
    BY <1>2
  <2> QED BY <1>1, <2>1
<1>4. /\ \A i \in 1 .. l : i \in 1 .. l + d /\ u[i] = s[i]
      /\ \A i \in 1 .. d : l + i \in 1 .. l + d /\ u[l + i] = t[i]
  <2>1. \A i \in 1 .. l : i \in 1 .. l + d /\ i <= l
    BY <1>2
  <2>2. \A i \in 1 .. d : l + i \in 1 .. l + d /\ ~(l + i <= l) /\ (l + i) - l = i
    BY <1>2
  <2> QED BY <1>1, <2>1, <2>2
<1>5. Elements(u) = Elements(s) \cup Elements(t)
  <2>1. ASSUME NEW x \in Elements(u) PROVE x \in Elements(s) \cup Elements(t)
    BY <1>2, <1>3
  <2>2. ASSUME NEW x \in Elements(s) PROVE x \in Elements(u)
    BY <1>2, <1>4
  <2>3. ASSUME NEW x \in Elements(t) PROVE x \in Elements(u)
    <3>1. PICK k \in 1 .. d : x = t[k]
      BY <1>2
    <3> QED BY <1>2, <1>4, <3>1
  <2> QED BY <2>1, <2>2, <2>3
<1>6. ASSUME Once(s), Once(t), \A x \in Elements(s), y \in Elements(t) : x.name # y.name
      PROVE  Once(u)
  <2>1. ASSUME NEW j \in 1 .. l + d, NEW k \in 1 .. l + d, u[j].name = u[k].name
        PROVE  j = k
    <3>1. CASE j \in 1 .. l /\ k \in 1 .. l
      BY <1>2, <1>4, <1>6, <2>1, <3>1
    <3>2. CASE j \notin 1 .. l /\ k \notin 1 .. l
      <4>1. j - l = k - l
        BY <1>2, <1>3, <1>6, <2>1, <3>2
      <4> QED BY <1>2, <4>1
    <3>3. CASE j \in 1 .. l /\ k \notin 1 .. l
      <4>1. u[j] \in Elements(s) /\ u[k] \in Elements(t)
        BY <1>2, <1>3, <3>3
      <4> QED BY <1>6, <2>1, <4>1
    <3>4. CASE j \notin 1 .. l /\ k \in 1 .. l
      <4>1. u[k] \in Elements(s) /\ u[j] \in Elements(t)
        BY <1>2, <1>3, <3>4
      <4> QED BY <1>6, <2>1, <4>1
    <3> QED BY <3>1, <3>2, <3>3, <3>4
  <2> QED BY <1>2, <2>1
<1> QED
  BY <1>1, <1>5, <1>6 DEF u

\* A list with no name twice is as long as it has names.
LEMMA OnceCount ==
  ASSUME NEW T, NEW list \in Seq(T), Once(list)
  PROVE  Len(list) = Cardinality({list[k].name : k \in DOMAIN list})
<1> DEFINE n == Len(list)
           S == {list[k].name : k \in DOMAIN list}
           f == [k \in 1 .. n |-> list[k].name]
<1>1. n \in Nat /\ DOMAIN list = 1 .. n
  BY ListElements
<1>2. /\ f \in [1 .. n -> S]
      /\ \A x \in S : \E k \in 1 .. n : f[k] = x
      /\ \A j, k \in 1 .. n : f[j] = f[k] => j = k
  BY <1>1 DEF Once
<1>3. n \in Nat
  BY <1>1
<1> HIDE DEF n, S, f
<1>4. Cardinality(S) = n
  BY <1>2, <1>3, Enumerated
<1> QED
  BY <1>4 DEF n, S

-----------------------------------------------------------------------------
(* model_decomposed.bin.                                                   *)

\* The record of a layer, whichever way its linear came to be.
Recorded(c, name) ==
    IF \/ name[1] \in {"lm_head", "q_norm", "k_norm"}
       \/ c.fusedQkv /\ name[1] \in {"q_proj", "k_proj", "v_proj"}
    THEN RawRecord(c, name) ELSE BlocksRecord(c, name)

FileNames(c) == Names(c) \cup {LmHead}
FileRecords(c) == {Recorded(c, n) : n \in FileNames(c)}

SubmoduleKinds == {"q_proj", "k_proj", "v_proj", "o_proj", "gate_proj", "up_proj", "down_proj"}

\* The submodules, without repetition.
LEMMA SubmoduleFacts ==
  /\ DOMAIN Submodules = 1 .. 7
  /\ \A s \in 1 .. 7 : Submodules[s] \in SubmoduleKinds
  /\ \A k \in SubmoduleKinds : \E s \in 1 .. 7 : Submodules[s] = k
  /\ \A s, t \in 1 .. 7 : Submodules[s] = Submodules[t] => s = t
<1>1. /\ Submodules[1] = "q_proj" /\ Submodules[2] = "k_proj" /\ Submodules[3] = "v_proj"
      /\ Submodules[4] = "o_proj" /\ Submodules[5] = "gate_proj"
      /\ Submodules[6] = "up_proj" /\ Submodules[7] = "down_proj"
  BY DEF Submodules
<1>2. DOMAIN Submodules = 1 .. 7
  BY DEF Submodules
<1>3. \A s \in 1 .. 7 : s = 1 \/ s = 2 \/ s = 3 \/ s = 4 \/ s = 5 \/ s = 6 \/ s = 7
  OBVIOUS
<1>4. \A s \in 1 .. 7 : Submodules[s] \in SubmoduleKinds
  BY <1>1, <1>3 DEF SubmoduleKinds
<1>5. \A k \in SubmoduleKinds : \E s \in 1 .. 7 : Submodules[s] = k
  BY <1>1 DEF SubmoduleKinds
<1>6. \A s, t \in 1 .. 7 : Submodules[s] = Submodules[t] => s = t
  BY <1>1, <1>3
<1> QED
  BY <1>2, <1>4, <1>5, <1>6

\* They are those with a tensor of their own, and three of a fused one.
LEMMA KindFacts ==
  ASSUME NEW c \in Checkpoint
  PROVE  /\ KeptKinds(c) \subseteq SubmoduleKinds
         /\ \A m \in SubmoduleKinds :
               m \in KeptKinds(c) <=>
                  \/ m \in Tensors(c)
                  \/ "qkv_proj" \in Tensors(c) /\ m \in {"q_proj", "k_proj", "v_proj"}
<1>1. \A m : m \in Kinds(c) <=>
         m \in SubmoduleKinds /\ ~(c.fusedMlp /\ m \in {"gate_proj", "up_proj"})
  <2>1. \A m : m \in {Submodules[k] : k \in DOMAIN Submodules} <=> m \in SubmoduleKinds
    BY SubmoduleFacts
  <2> QED BY <2>1 DEF Kinds
<1>2. KeptKinds(c) \subseteq SubmoduleKinds
  BY <1>1 DEF KeptKinds
<1>3. c.projections = "same" \/ c.projections = "F8"
  BY DEF Checkpoint
<1>4. \A m \in SubmoduleKinds \cup {"qkv_proj"} :
         m \in Tensors(c) <=> c.projections = "same" /\ m \in Projected(c)
  BY DEF Tensors, SubmoduleKinds
<1>5. \A m \in SubmoduleKinds :
         (~(c.fusedMlp /\ m \in {"gate_proj", "up_proj"})) <=>
            \/ m \in Projected(c)
            \/ "qkv_proj" \in Projected(c) /\ m \in {"q_proj", "k_proj", "v_proj"}
  BY DEF Projected, SubmoduleKinds
<1> QED
  BY <1>1, <1>2, <1>3, <1>4, <1>5 DEF KeptKinds

\* Linears of a layer: each tensor once, qkv_proj in the place of three.
LEMMA LinearsOnce ==
  ASSUME NEW c
  PROVE  /\ LayerLinears(c) \in Seq(SubmoduleKinds \cup {"qkv_proj"})
         /\ \A j, k \in 1 .. Len(LayerLinears(c)) :
               LayerLinears(c)[j] = LayerLinears(c)[k] => j = k
         /\ \A k \in 1 .. Len(LayerLinears(c)) : LayerLinears(c)[k] \in Tensors(c)
         /\ \A t \in SubmoduleKinds \cup {"qkv_proj"} : t \in Tensors(c) =>
               \E k \in 1 .. Len(LayerLinears(c)) : LayerLinears(c)[k] = t
<1> DEFINE T == SubmoduleKinds \cup {"qkv_proj"}
           ss == [s \in DOMAIN Submodules |-> Linear(c, Submodules[s])]
           L == LayerLinears(c)
<1>1. /\ DOMAIN Submodules = 1 .. 7
      /\ \A s \in 1 .. 7 : Submodules[s] \in SubmoduleKinds
      /\ \A s, t \in 1 .. 7 : Submodules[s] = Submodules[t] => s = t
      /\ \A m \in SubmoduleKinds : \E s \in 1 .. 7 : Submodules[s] = m
  BY SubmoduleFacts
<1>2. ASSUME NEW s \in 1 .. 7
      PROVE  /\ ss[s] \in Seq(T)
             /\ \A j \in 1 .. Len(ss[s]) :
                  /\ j = 1 /\ ss[s][j] \in Tensors(c)
                  /\ ss[s][j] = Submodules[s] \/ (ss[s][j] = "qkv_proj" /\ Submodules[s] = "q_proj")
  <2>1. ss[s] = Linear(c, Submodules[s])
    BY <1>1
  <2>2. CASE Submodules[s] = "q_proj" /\ "qkv_proj" \in Tensors(c)
    <3>1. ss[s] = <<"qkv_proj">>
      BY <2>1, <2>2 DEF Linear
    <3> HIDE DEF ss
    <3> QED BY <2>2, <3>1
  <2>3. CASE ~(Submodules[s] = "q_proj" /\ "qkv_proj" \in Tensors(c)) /\ Submodules[s] \in Tensors(c)
    <3>1. ss[s] = <<Submodules[s]>>
      BY <2>1, <2>3 DEF Linear
    <3> HIDE DEF ss
    <3> QED BY <1>1, <2>3, <3>1
  <2>4. CASE ~(Submodules[s] = "q_proj" /\ "qkv_proj" \in Tensors(c)) /\ Submodules[s] \notin Tensors(c)
    <3>1. ss[s] = <<>>
      BY <2>1, <2>4 DEF Linear
    <3> HIDE DEF ss
    <3> QED BY <3>1
  <2> QED BY <2>2, <2>3, <2>4
<1>3. ss \in Seq(Seq(T)) /\ Len(ss) = 7
  <2>1. \A s \in 1 .. 7 : ss[s] \in Seq(T)
    BY <1>2
  <2>2. ss = [s \in 1 .. 7 |-> ss[s]]
    BY <1>1
  <2> HIDE DEF ss, T
  <2> QED BY <2>1, <2>2
<1>4. L = FlattenSeq(ss)
  BY DEF LayerLinears
<1>5. L \in Seq(T) /\ \E b, o : Joins(b, o, L, ss, 7)
  <2> HIDE DEF L, ss, T
  <2> QED BY <1>3, <1>4, FlattenPlaces
<1>6. PICK b, o : Joins(b, o, L, ss, 7)
  BY <1>5
<1>7. /\ \A k \in 1 .. Len(L) : /\ b[k] \in 1 .. 7 /\ o[k] \in 1 .. Len(ss[b[k]])
                                /\ L[k] = ss[b[k]][o[k]]
      /\ \A j, k \in 1 .. Len(L) : b[j] = b[k] /\ o[j] = o[k] => j = k
      /\ \A i \in 1 .. 7 : \A j \in 1 .. Len(ss[i]) :
            \E k \in 1 .. Len(L) : b[k] = i /\ o[k] = j
  <2> HIDE DEF L, ss
  <2> QED BY <1>6 DEF Joins
<1>10. ASSUME NEW t \in SubmoduleKinds \cup {"qkv_proj"}, t \in Tensors(c)
       PROVE  \E s \in 1 .. 7 : Len(ss[s]) = 1 /\ ss[s][1] = t
  <2>1. PICK s \in 1 .. 7 : Submodules[s] = IF t = "qkv_proj" THEN "q_proj" ELSE t
    <3>1. "q_proj" \in SubmoduleKinds
      BY DEF SubmoduleKinds
    <3> QED BY <1>1, <3>1
  <2>2. ss[s] = Linear(c, Submodules[s])
    BY <1>1
  <2>3. "q_proj" \in Tensors(c) => "qkv_proj" \notin Tensors(c)
    BY DEF Tensors, Projected
  <2>4. ss[s] = <<t>>
    <3>1. CASE t = "qkv_proj"
      BY <1>10, <2>1, <2>2, <3>1 DEF Linear
    <3>2. CASE t # "qkv_proj"
      BY <1>10, <2>1, <2>2, <2>3, <3>2 DEF Linear
    <3> QED BY <3>1, <3>2
  <2> HIDE DEF ss
  <2> QED BY <2>4
<1> HIDE DEF L, ss, T
<1>11. \A t \in SubmoduleKinds \cup {"qkv_proj"} : t \in Tensors(c) =>
          \E k \in 1 .. Len(L) : L[k] = t
  <2> SUFFICES ASSUME NEW t \in SubmoduleKinds \cup {"qkv_proj"}, t \in Tensors(c)
               PROVE  \E k \in 1 .. Len(L) : L[k] = t
    OBVIOUS
  <2>1. PICK s \in 1 .. 7 : Len(ss[s]) = 1 /\ ss[s][1] = t
    BY <1>10
  <2>2. \A j \in 1 .. Len(ss[s]) : \E k \in 1 .. Len(L) : b[k] = s /\ o[k] = j
    BY <1>7
  <2>3. 1 \in 1 .. Len(ss[s])
    BY <2>1
  <2>4. PICK k \in 1 .. Len(L) : b[k] = s /\ o[k] = 1
    BY <2>2, <2>3
  <2>5. L[k] = ss[b[k]][o[k]]
    BY <1>7
  <2> QED BY <2>1, <2>4, <2>5
<1>8. ASSUME NEW k \in 1 .. Len(L)
      PROVE  /\ o[k] = 1 /\ L[k] \in Tensors(c) /\ b[k] \in 1 .. 7
             /\ L[k] = Submodules[b[k]] \/ (L[k] = "qkv_proj" /\ Submodules[b[k]] = "q_proj")
  <2>1. b[k] \in 1 .. 7 /\ o[k] \in 1 .. Len(ss[b[k]]) /\ L[k] = ss[b[k]][o[k]]
    BY <1>7
  <2> QED BY <1>2, <2>1
<1>9. ASSUME NEW j \in 1 .. Len(L), NEW k \in 1 .. Len(L), L[j] = L[k] PROVE j = k
  <2>1. "qkv_proj" \notin SubmoduleKinds
    BY DEF SubmoduleKinds
  <2>2. Submodules[b[j]] = Submodules[b[k]]
    BY <1>1, <1>8, <1>9, <2>1
  <2>3. b[j] \in 1 .. 7 /\ b[k] \in 1 .. 7 /\ o[j] = o[k]
    BY <1>8
  <2>4. b[j] = b[k]
    BY <1>1, <2>2, <2>3
  <2> QED BY <1>7, <2>3, <2>4
<1> QED
  BY <1>5, <1>8, <1>9, <1>11 DEF L, T

\* Which tensors there are.
LEMMA TensorFacts ==
  ASSUME NEW c \in Checkpoint, NEW k \in SubmoduleKinds \cup {"qkv_proj"}, k \in Tensors(c)
  PROVE  /\ k = "qkv_proj" => c.fusedQkv
         /\ k \in {"q_proj", "k_proj", "v_proj"} => ~c.fusedQkv
<1>1. k \in Projected(c)
  BY DEF Tensors, SubmoduleKinds
<1> QED
  BY <1>1 DEF Projected

\* The names of a file.
LEMMA NameFacts ==
  ASSUME NEW c \in Checkpoint
  PROVE  /\ c.layers \in Nat /\ c.layers >= 1
         /\ LmHead[1] = "lm_head" /\ LmHead[2] = -1
         /\ \A k \in SubmoduleKinds \cup {"q_norm", "k_norm"}, i \in 0 .. c.layers - 1 :
               <<k, i>> \in Names(c)
         /\ \A n \in Names(c) :
               /\ n[1] \in SubmoduleKinds \cup {"q_norm", "k_norm"} /\ n[2] \in 0 .. c.layers - 1
               /\ n = <<n[1], n[2]>> /\ n # LmHead
         /\ \A n : Recorded(c, n).name = n
<1>1. c.layers \in Nat /\ c.layers >= 1
  <2>1. c.layers \in Nat \ {0}
    BY DEF Checkpoint
  <2> QED BY <2>1
<1>2. LmHead[1] = "lm_head" /\ LmHead[2] = -1
  BY DEF LmHead
<1>3. \A k \in SubmoduleKinds \cup {"q_norm", "k_norm"}, i \in 0 .. c.layers - 1 :
         <<k, i>> \in Names(c)
  BY DEF Names, SubmoduleKinds
<1>4. \A n \in Names(c) :
         /\ n[1] \in SubmoduleKinds \cup {"q_norm", "k_norm"} /\ n[2] \in 0 .. c.layers - 1
         /\ n = <<n[1], n[2]>>
  BY DEF Names, SubmoduleKinds
<1>5. \A n \in Names(c) : n # LmHead
  BY <1>1, <1>2, <1>4
<1>6. ASSUME NEW n PROVE Recorded(c, n).name = n
  <2>1. RawRecord(c, n).name = n
    BY DEF RawRecord
  <2>2. BlocksRecord(c, n).name = n
    BY DEF BlocksRecord
  <2> QED BY <2>1, <2>2 DEF Recorded
<1> QED
  BY <1>1, <1>2, <1>3, <1>4, <1>5, <1>6

\* The records of a linear, one for each name it stands for.
LEMMA RecordsOf ==
  ASSUME NEW c \in Checkpoint, NEW i \in 0 .. c.layers - 1,
         NEW k \in SubmoduleKinds \cup {"qkv_proj"}, k \in Tensors(c)
  PROVE  /\ Records(c, <<k, i>>) \in Seq(FileRecords(c))
         /\ Once(Records(c, <<k, i>>))
         /\ \A x : x \in Elements(Records(c, <<k, i>>)) <=>
               \E m \in SubmoduleKinds :
                  /\ x = Recorded(c, <<m, i>>)
                  /\ m = k \/ (k = "qkv_proj" /\ m \in {"q_proj", "k_proj", "v_proj"})
<1> DEFINE R == Records(c, <<k, i>>)
<1>1. \A m \in SubmoduleKinds : /\ Recorded(c, <<m, i>>) \in FileRecords(c)
                                /\ Recorded(c, <<m, i>>).name = <<m, i>>
  BY NameFacts DEF FileRecords, FileNames
<1>2. <<k, i>>[1] = k /\ <<k, i>>[2] = i
  OBVIOUS
<1>3. CASE k = "qkv_proj"
  <2>1. R = [p \in 1 .. 3 |-> RawRecord(c, <<Submodules[p], i>>)]
    BY <1>2, <1>3 DEF Records
  <2>2. /\ Submodules[1] = "q_proj" /\ Submodules[2] = "k_proj" /\ Submodules[3] = "v_proj"
        /\ \A p \in 1 .. 3 : p = 1 \/ p = 2 \/ p = 3
    BY DEF Submodules
  <2>3. \A p \in 1 .. 3 : /\ Submodules[p] \in {"q_proj", "k_proj", "v_proj"}
                          /\ Submodules[p] \in SubmoduleKinds
    BY <2>2 DEF SubmoduleKinds
  <2>4. c.fusedQkv
    BY <1>3, TensorFacts
  <2>5. \A m \in {"q_proj", "k_proj", "v_proj"} : RawRecord(c, <<m, i>>) = Recorded(c, <<m, i>>)
    BY <2>4 DEF Recorded
  <2>6. \A p \in 1 .. 3 : R[p] = Recorded(c, <<Submodules[p], i>>)
    BY <2>1, <2>3, <2>5
  <2>7. R = [p \in 1 .. 3 |-> R[p]]
    BY <2>1
  <2> HIDE DEF R
  <2>8. \A p \in 1 .. 3 : R[p] \in FileRecords(c) /\ R[p].name = <<Submodules[p], i>>
    BY <1>1, <2>3, <2>6
  <2>9. R \in Seq(FileRecords(c)) /\ Len(R) = 3
    BY <2>7, <2>8
  <2>10. Once(R)
    <3>1. \A p, q \in 1 .. 3 : R[p].name = R[q].name => Submodules[p] = Submodules[q]
      BY <2>8
    <3>2. \A p, q \in 1 .. 3 : Submodules[p] = Submodules[q] => p = q
      BY <2>2
    <3> QED BY <2>7, <3>1, <3>2 DEF Once
  <2>11. ASSUME NEW x
         PROVE  x \in Elements(R) <=>
                \E m \in SubmoduleKinds :
                   /\ x = Recorded(c, <<m, i>>)
                   /\ m = k \/ (k = "qkv_proj" /\ m \in {"q_proj", "k_proj", "v_proj"})
    <3>1. x \in Elements(R) <=> \E p \in 1 .. 3 : x = R[p]
      BY <2>9, ListElements
    <3>2. \A m \in {"q_proj", "k_proj", "v_proj"} : \E p \in 1 .. 3 : Submodules[p] = m
      BY <2>2
    <3>3. ASSUME x \in Elements(R)
          PROVE  \E m \in SubmoduleKinds :
                    /\ x = Recorded(c, <<m, i>>)
                    /\ m = k \/ (k = "qkv_proj" /\ m \in {"q_proj", "k_proj", "v_proj"})
      <4>1. PICK p \in 1 .. 3 : x = R[p]
        BY <3>1, <3>3
      <4> QED BY <1>3, <2>3, <2>6, <4>1
    <3>4. ASSUME NEW m \in SubmoduleKinds, x = Recorded(c, <<m, i>>),
                 m = k \/ (k = "qkv_proj" /\ m \in {"q_proj", "k_proj", "v_proj"})
          PROVE  x \in Elements(R)
      <4>1. m \in {"q_proj", "k_proj", "v_proj"}
        BY <1>3, <3>4 DEF SubmoduleKinds
      <4>2. PICK p \in 1 .. 3 : Submodules[p] = m
        BY <3>2, <4>1
      <4> QED BY <2>6, <3>1, <3>4, <4>2
    <3> QED BY <3>3, <3>4
  <2> QED BY <2>9, <2>10, <2>11 DEF R
<1>4. CASE k # "qkv_proj"
  <2>0. k \in SubmoduleKinds /\ k # "lm_head"
    BY <1>4 DEF SubmoduleKinds
  <2>1. R = <<BlocksRecord(c, <<k, i>>)>>
    BY <1>2, <1>4, <2>0 DEF Records
  <2>2. BlocksRecord(c, <<k, i>>) = Recorded(c, <<k, i>>)
    <3>1. k \in {"q_proj", "k_proj", "v_proj"} => ~c.fusedQkv
      BY TensorFacts
    <3>2. k \notin {"lm_head", "q_norm", "k_norm"}
      BY <2>0 DEF SubmoduleKinds
    <3> QED BY <1>2, <3>1, <3>2 DEF Recorded
  <2>3. R = <<Recorded(c, <<k, i>>)>>
    BY <2>1, <2>2
  <2> HIDE DEF R
  <2>4. R \in Seq(FileRecords(c)) /\ Len(R) = 1 /\ R[1] = Recorded(c, <<k, i>>)
    BY <1>1, <2>0, <2>3
  <2>5. \A x : x \in Elements(R) <=> x = Recorded(c, <<k, i>>)
    BY <2>3, FewElements
  <2>6. Once(R)
    BY <2>4, ListElements
  <2> QED BY <1>4, <2>0, <2>4, <2>5, <2>6 DEF R
<1> QED
  BY <1>3, <1>4

\* The records of a layer: the names of its submodules, each once.
LEMMA LayerRecordsOf ==
  ASSUME NEW c \in Checkpoint, NEW i \in 0 .. c.layers - 1
  PROVE  /\ LayerRecords(c, i) \in Seq(FileRecords(c))
         /\ Once(LayerRecords(c, i))
         /\ \A x : x \in Elements(LayerRecords(c, i)) <=>
               \E m \in KeptKinds(c) : x = Recorded(c, <<m, i>>)
<1> DEFINE T == FileRecords(c)
           L == LayerLinears(c)
           ss == [k \in DOMAIN L |-> Records(c, <<L[k], i>>)]
<1>1. /\ L \in Seq(SubmoduleKinds \cup {"qkv_proj"}) /\ Len(L) \in Nat
      /\ DOMAIN L = 1 .. Len(L)
      /\ \A k \in 1 .. Len(L) : L[k] \in SubmoduleKinds \cup {"qkv_proj"} /\ L[k] \in Tensors(c)
      /\ \A j, k \in 1 .. Len(L) : L[j] = L[k] => j = k
      /\ \A t \in SubmoduleKinds \cup {"qkv_proj"} : t \in Tensors(c) =>
            \E k \in 1 .. Len(L) : L[k] = t
  BY LinearsOnce, ListElements
<1> HIDE DEF L
<1>2. ASSUME NEW k \in 1 .. Len(L)
      PROVE  /\ ss[k] \in Seq(T) /\ Once(ss[k])
             /\ \A x : x \in Elements(ss[k]) <=> \E m \in SubmoduleKinds :
                   /\ x = Recorded(c, <<m, i>>)
                   /\ m = L[k] \/ (L[k] = "qkv_proj" /\ m \in {"q_proj", "k_proj", "v_proj"})
  <2>1. ss[k] = Records(c, <<L[k], i>>)
    BY <1>1
  <2> HIDE DEF ss
  <2>2. L[k] \in SubmoduleKinds \cup {"qkv_proj"} /\ L[k] \in Tensors(c)
    BY <1>1
  <2> DEFINE l == L[k]
  <2> HIDE DEF l
  <2>3. /\ Records(c, <<l, i>>) \in Seq(FileRecords(c))
        /\ Once(Records(c, <<l, i>>))
        /\ \A x : x \in Elements(Records(c, <<l, i>>)) <=>
               \E m \in SubmoduleKinds :
                  /\ x = Recorded(c, <<m, i>>)
                  /\ m = l \/ (l = "qkv_proj" /\ m \in {"q_proj", "k_proj", "v_proj"})
    <3>1. l \in SubmoduleKinds \cup {"qkv_proj"} /\ l \in Tensors(c)
      BY <2>2 DEF l
    <3> QED BY <3>1, RecordsOf
  <2> QED BY <2>1, <2>3 DEF l
<1>3. ss \in Seq(Seq(T)) /\ Len(ss) = Len(L)
  <2>1. \A k \in 1 .. Len(L) : ss[k] \in Seq(T)
    BY <1>2
  <2>2. ss = [k \in 1 .. Len(L) |-> ss[k]]
    BY <1>1
  <2> HIDE DEF ss, T
  <2> QED BY <1>1, <2>1, <2>2
<1>4. LayerRecords(c, i) = FlattenSeq(ss)
  BY DEF LayerRecords, L
<1> HIDE DEF ss, T
<1>5. ASSUME NEW j \in 1 .. Len(L), NEW k \in 1 .. Len(L), j # k,
             NEW x \in Elements(ss[j]), NEW y \in Elements(ss[k])
      PROVE  x.name # y.name
  <2>1. PICK m \in SubmoduleKinds :
           /\ x = Recorded(c, <<m, i>>)
           /\ m = L[j] \/ (L[j] = "qkv_proj" /\ m \in {"q_proj", "k_proj", "v_proj"})
    BY <1>2
  <2>2. PICK n \in SubmoduleKinds :
           /\ y = Recorded(c, <<n, i>>)
           /\ n = L[k] \/ (L[k] = "qkv_proj" /\ n \in {"q_proj", "k_proj", "v_proj"})
    BY <1>2
  <2>3. x.name = <<m, i>> /\ y.name = <<n, i>>
    BY <2>1, <2>2, NameFacts
  <2>4. L[j] # L[k]
    BY <1>1, <1>5
  <2>5. \A q \in 1 .. Len(L) : /\ L[q] = "qkv_proj" => c.fusedQkv
                               /\ L[q] \in {"q_proj", "k_proj", "v_proj"} => ~c.fusedQkv
    BY <1>1, TensorFacts
  <2>6. m # n
    BY <2>1, <2>2, <2>4, <2>5
  <2> QED BY <2>3, <2>6
<1>6. Once(FlattenSeq(ss)) /\ FlattenSeq(ss) \in Seq(T)
  BY <1>2, <1>3, <1>5, FlattenFacts
<1>7. ASSUME NEW x \in Elements(FlattenSeq(ss))
      PROVE  \E m \in KeptKinds(c) : x = Recorded(c, <<m, i>>)
  <2>1. PICK k \in 1 .. Len(ss) : x \in Elements(ss[k])
    BY <1>3, FlattenFacts
  <2>2. PICK m \in SubmoduleKinds :
           /\ x = Recorded(c, <<m, i>>)
           /\ m = L[k] \/ (L[k] = "qkv_proj" /\ m \in {"q_proj", "k_proj", "v_proj"})
    BY <1>2, <1>3, <2>1
  <2>3. L[k] \in Tensors(c)
    BY <1>1, <1>3
  <2>4. m \in KeptKinds(c)
    BY <2>2, <2>3, KindFacts
  <2> QED BY <2>2, <2>4
<1>8. ASSUME NEW m \in KeptKinds(c)
      PROVE  Recorded(c, <<m, i>>) \in Elements(FlattenSeq(ss))
  <2>1. m \in SubmoduleKinds
    BY KindFacts
  <2>2. PICK t \in SubmoduleKinds \cup {"qkv_proj"} :
           /\ t \in Tensors(c)
           /\ m = t \/ (t = "qkv_proj" /\ m \in {"q_proj", "k_proj", "v_proj"})
    BY <2>1, KindFacts
  <2>3. PICK k \in 1 .. Len(L) : L[k] = t
    BY <1>1, <2>2
  <2>4. Recorded(c, <<m, i>>) \in Elements(ss[k])
    BY <1>2, <2>1, <2>2, <2>3
  <2> QED BY <1>3, <2>4, FlattenFacts
<1> QED
  BY <1>4, <1>6, <1>7, <1>8 DEF T

\* All layers.
BlockRecords(c) == FlattenSeq([i \in 1 .. c.layers |-> LayerRecords(c, i - 1)])

\* Each is named after a submodule of its layer, and stands once.
LEMMA BlockRecordsOf ==
  ASSUME NEW c \in Checkpoint
  PROVE  /\ BlockRecords(c) \in Seq(FileRecords(c))
         /\ Once(BlockRecords(c))
         /\ \A x : x \in Elements(BlockRecords(c)) <=>
               \E m \in KeptKinds(c), i \in 0 .. c.layers - 1 : x = Recorded(c, <<m, i>>)
<1> DEFINE T == FileRecords(c)
           n == c.layers
           ss == [i \in 1 .. n |-> LayerRecords(c, i - 1)]
<1>1. n \in Nat /\ \A i \in 1 .. n : i - 1 \in 0 .. n - 1
  BY NameFacts
<1>2. ASSUME NEW k \in 1 .. n
      PROVE  /\ ss[k] \in Seq(T) /\ Once(ss[k])
             /\ \A x : x \in Elements(ss[k]) <=>
                   \E m \in KeptKinds(c) : x = Recorded(c, <<m, k - 1>>)
  <2>1. ss[k] = LayerRecords(c, k - 1) /\ k - 1 \in 0 .. c.layers - 1
    BY <1>1
  <2> HIDE DEF ss
  <2> QED BY <2>1, LayerRecordsOf
<1>3. ss \in Seq(Seq(T)) /\ Len(ss) = n
  <2>1. \A k \in 1 .. n : ss[k] \in Seq(T)
    BY <1>2
  <2>2. ss = [k \in 1 .. n |-> ss[k]]
    OBVIOUS
  <2> HIDE DEF ss, T, n
  <2> QED BY <1>1, <2>1, <2>2
<1>4. BlockRecords(c) = FlattenSeq(ss)
  BY DEF BlockRecords
<1> HIDE DEF ss, T, n
<1>5. ASSUME NEW j \in 1 .. n, NEW k \in 1 .. n, j # k,
             NEW x \in Elements(ss[j]), NEW y \in Elements(ss[k])
      PROVE  x.name # y.name
  <2>1. PICK m \in KeptKinds(c) : x = Recorded(c, <<m, j - 1>>)
    BY <1>2
  <2>2. PICK l \in KeptKinds(c) : y = Recorded(c, <<l, k - 1>>)
    BY <1>2
  <2>3. x.name = <<m, j - 1>> /\ y.name = <<l, k - 1>>
    BY <2>1, <2>2, NameFacts
  <2> QED BY <1>1, <1>5, <2>3
<1>6. Once(FlattenSeq(ss)) /\ FlattenSeq(ss) \in Seq(T)
  BY <1>2, <1>3, <1>5, FlattenFacts
<1>7. ASSUME NEW x
      PROVE  x \in Elements(FlattenSeq(ss)) <=>
                \E m \in KeptKinds(c), i \in 0 .. n - 1 : x = Recorded(c, <<m, i>>)
  <2>1. x \in Elements(FlattenSeq(ss)) <=> \E k \in 1 .. n : x \in Elements(ss[k])
    BY <1>3, FlattenFacts
  <2>2. \A i \in 0 .. n - 1 : i + 1 \in 1 .. n /\ (i + 1) - 1 = i
    BY <1>1
  <2>3. ASSUME NEW k \in 1 .. n
        PROVE  x \in Elements(ss[k]) <=> \E m \in KeptKinds(c) : x = Recorded(c, <<m, k - 1>>)
    BY <1>2
  <2>4. ASSUME x \in Elements(FlattenSeq(ss))
        PROVE  \E m \in KeptKinds(c), i \in 0 .. n - 1 : x = Recorded(c, <<m, i>>)
    <3>1. PICK k \in 1 .. n : x \in Elements(ss[k])
      BY <2>1, <2>4
    <3>2. PICK m \in KeptKinds(c) : x = Recorded(c, <<m, k - 1>>)
      BY <2>3, <3>1
    <3> QED BY <1>1, <3>2
  <2>5. ASSUME NEW m \in KeptKinds(c), NEW i \in 0 .. n - 1, x = Recorded(c, <<m, i>>)
        PROVE  x \in Elements(FlattenSeq(ss))
    <3>1. x = Recorded(c, <<m, (i + 1) - 1>>) /\ i + 1 \in 1 .. n
      BY <2>2, <2>5
    <3>2. x \in Elements(ss[i + 1])
      BY <2>3, <3>1
    <3> QED BY <2>1, <3>1, <3>2
  <2> QED BY <2>4, <2>5
<1> QED
  BY <1>4, <1>6, <1>7 DEF T, n

\* The records behind those of the blocks: the head and the norms.
LEMMA NormRecordsOf ==
  ASSUME NEW c \in Checkpoint
  PROVE  /\ NormRecords(c) \in Seq(FileRecords(c))
         /\ Once(NormRecords(c))
         /\ \A x : x \in Elements(NormRecords(c)) <=>
               c.qkNorm /\ \E k \in {"q_norm", "k_norm"}, i \in 0 .. c.layers - 1 : x = Recorded(c, <<k, i>>)
<1> DEFINE T == FileRecords(c)
           n == c.layers
           of(k) == [i \in 1 .. n |-> RawRecord(c, <<k, i - 1>>)]
<1>1. n \in Nat /\ \A i \in 1 .. n : i - 1 \in 0 .. n - 1
  BY NameFacts
<1>2. ASSUME NEW k \in {"q_norm", "k_norm"}
      PROVE  /\ of(k) \in Seq(T) /\ Len(of(k)) = n
             /\ \A i \in 1 .. n : of(k)[i] = Recorded(c, <<k, i - 1>>)
  <2> DEFINE s == of(k)
  <2>1. ASSUME NEW i \in 1 .. n PROVE s[i] = Recorded(c, <<k, i - 1>>) /\ s[i] \in T
    <3>1. s[i] = RawRecord(c, <<k, i - 1>>)
      OBVIOUS
    <3>2. Recorded(c, <<k, i - 1>>) = RawRecord(c, <<k, i - 1>>)
      BY DEF Recorded
    <3>3. <<k, i - 1>> \in FileNames(c)
      BY <1>1, NameFacts DEF FileNames
    <3> HIDE DEF s, T
    <3> QED BY <3>1, <3>2, <3>3 DEF T, FileRecords
  <2>2. s = [i \in 1 .. n |-> s[i]]
    OBVIOUS
  <2> HIDE DEF s, T, n
  <2>3. \A i \in 1 .. n : s[i] \in T
    BY <2>1
  <2>4. s \in Seq(T) /\ Len(s) = n
    BY <1>1, <2>2, <2>3
  <2> QED BY <2>1, <2>4 DEF s
<1> HIDE DEF of, n, T
<1>3. ASSUME NEW k \in {"q_norm", "k_norm"}
      PROVE  /\ Once(of(k))
             /\ \A x : x \in Elements(of(k)) <=> \E i \in 1 .. n : x = Recorded(c, <<k, i - 1>>)
  <2> DEFINE s == of(k)
  <2>0. /\ s \in Seq(T) /\ Len(s) = n
        /\ \A i \in 1 .. n : s[i] = Recorded(c, <<k, i - 1>>)
    BY <1>2
  <2> HIDE DEF s
  <2>1. \A i \in 1 .. n : s[i].name = <<k, i - 1>>
    <3> TAKE i \in 1 .. n
    <3>1. Recorded(c, <<k, i - 1>>).name = <<k, i - 1>>
      BY NameFacts
    <3> QED BY <2>0, <3>1
  <2>2. \A i, j \in 1 .. n : s[i].name = s[j].name => i = j
    BY <1>1, <2>1
  <2>3. Once(s) /\ \A x : x \in Elements(s) <=> \E i \in 1 .. n : x = Recorded(c, <<k, i - 1>>)
    <3>1. Once(s) /\ \A x : x \in Elements(s) <=> \E i \in 1 .. n : x = s[i]
      BY <2>0, <2>2, ListElements
    <3>2. \A x : (\E i \in 1 .. n : x = s[i]) <=> \E i \in 1 .. n : x = Recorded(c, <<k, i - 1>>)
      BY <2>0
    <3> QED BY <3>1, <3>2
  <2> QED BY <2>3 DEF s
<1>4. \A x \in Elements(of("q_norm")), y \in Elements(of("k_norm")) : x.name # y.name
  <2> SUFFICES ASSUME NEW x \in Elements(of("q_norm")), NEW y \in Elements(of("k_norm"))
               PROVE  x.name # y.name
    OBVIOUS
  <2>1. PICK i \in 1 .. n : x = Recorded(c, <<"q_norm", i - 1>>)
    BY <1>3
  <2>2. PICK j \in 1 .. n : y = Recorded(c, <<"k_norm", j - 1>>)
    BY <1>3
  <2>3. x.name = <<"q_norm", i - 1>> /\ y.name = <<"k_norm", j - 1>>
    BY <2>1, <2>2, NameFacts
  <2> QED BY <2>3
<1>5. CASE c.qkNorm
  <2> DEFINE R == of("q_norm") \o of("k_norm")
  <2>1. NormRecords(c) = R
    BY <1>5 DEF NormRecords, of, n
  <2>2. /\ R \in Seq(T) /\ Once(R)
        /\ Elements(R) = Elements(of("q_norm")) \cup Elements(of("k_norm"))
    BY <1>2, <1>3, <1>4, ConcatFacts
  <2> HIDE DEF R
  <2>3. ASSUME NEW x
        PROVE  x \in Elements(R) <=>
                  \E k \in {"q_norm", "k_norm"}, i \in 0 .. n - 1 : x = Recorded(c, <<k, i>>)
    <3>1. x \in Elements(R) <=> \E k \in {"q_norm", "k_norm"} : x \in Elements(of(k))
      BY <2>2
    <3>2. \A k \in {"q_norm", "k_norm"} :
             x \in Elements(of(k)) <=> \E i \in 1 .. n : x = Recorded(c, <<k, i - 1>>)
      BY <1>3
    <3>3. \A i \in 0 .. n - 1 : i + 1 \in 1 .. n /\ (i + 1) - 1 = i
      BY <1>1
    <3> QED BY <1>1, <3>1, <3>2, <3>3
  <2> QED BY <1>5, <2>1, <2>2, <2>3 DEF T, n
<1>6. CASE ~c.qkNorm
  <2>1. NormRecords(c) = <<>>
    BY <1>6 DEF NormRecords
  <2>2. Elements(<<>>) = {} /\ Once(<<>>) /\ <<>> \in Seq(T)
    BY DEF Elements, Once
  <2> QED BY <1>6, <2>1, <2>2 DEF T
<1> QED
  BY <1>5, <1>6

\* model_decomposed.bin: each record is that of a name, and of another one.
\* The head is behind the blocks.
LEMMA DecomposedOf ==
  ASSUME NEW c \in Checkpoint
  PROVE  /\ Decomposed(c) \in Seq(FileRecords(c))
         /\ Once(Decomposed(c))
         /\ Len(BlockRecords(c)) \in Nat
         /\ Len(BlockRecords(c)) + 1 <= Len(Decomposed(c))
         /\ \A k \in 1 .. Len(BlockRecords(c)) :
               \E m \in SubmoduleKinds, i \in 0 .. c.layers - 1 :
                  Decomposed(c)[k] = Recorded(c, <<m, i>>)
         /\ Decomposed(c)[Len(BlockRecords(c)) + 1] = Recorded(c, LmHead)
<1> DEFINE T == FileRecords(c)
           B == BlockRecords(c)
           H == Records(c, LmHead)
           M == NormRecords(c)
<1>1. /\ B \in Seq(T) /\ Once(B)
      /\ \A x \in Elements(B) :
            \E m \in SubmoduleKinds, i \in 0 .. c.layers - 1 : x = Recorded(c, <<m, i>>)
  BY BlockRecordsOf, KindFacts
<1>2. /\ M \in Seq(T) /\ Once(M)
      /\ \A x \in Elements(M) :
            \E k \in {"q_norm", "k_norm"}, i \in 0 .. c.layers - 1 : x = Recorded(c, <<k, i>>)
  BY NormRecordsOf
<1>3. H = <<Recorded(c, LmHead)>>
  <2>1. LmHead[1] = "lm_head"
    BY NameFacts
  <2>2. Records(c, LmHead) = <<RawRecord(c, LmHead)>>
    BY <2>1 DEF Records
  <2> QED BY <2>1, <2>2 DEF Recorded
<1>4. Decomposed(c) = (B \o H) \o M
  BY DEF Decomposed, BlockRecords
<1>5. Recorded(c, LmHead) \in T
  BY DEF FileRecords, FileNames
<1> HIDE DEF T, B, H, M
<1>6. /\ H \in Seq(T) /\ Len(H) = 1 /\ H[1] = Recorded(c, LmHead)
      /\ \A x \in Elements(H) : x = Recorded(c, LmHead)
      /\ Once(H)
  <2>1. H \in Seq(T) /\ Len(H) = 1 /\ H[1] = Recorded(c, LmHead)
    BY <1>3, <1>5
  <2> QED BY <2>1, ListElements
<1>7. \A m \in SubmoduleKinds, k \in {"q_norm", "k_norm"}, i, j \in 0 .. c.layers - 1 :
         /\ Recorded(c, <<m, i>>).name # Recorded(c, LmHead).name
         /\ Recorded(c, <<k, i>>).name # Recorded(c, LmHead).name
         /\ Recorded(c, <<m, i>>).name # Recorded(c, <<k, j>>).name
  <2> TAKE m \in SubmoduleKinds, k \in {"q_norm", "k_norm"}, i, j \in 0 .. c.layers - 1
  <2>1. /\ Recorded(c, <<m, i>>).name = <<m, i>> /\ Recorded(c, <<k, j>>).name = <<k, j>>
        /\ Recorded(c, <<k, i>>).name = <<k, i>>
        /\ Recorded(c, LmHead).name = LmHead /\ LmHead[1] = "lm_head"
    BY NameFacts
  <2>2. m # k /\ m # "lm_head" /\ k # "lm_head"
    BY DEF SubmoduleKinds
  <2> QED BY <2>1, <2>2
<1>8. /\ B \o H \in Seq(T) /\ Once(B \o H)
      /\ Elements(B \o H) = Elements(B) \cup Elements(H)
  <2>1. \A x \in Elements(B), y \in Elements(H) : x.name # y.name
    <3> SUFFICES ASSUME NEW x \in Elements(B), NEW y \in Elements(H) PROVE x.name # y.name
      OBVIOUS
    <3>1. PICK m \in SubmoduleKinds, i \in 0 .. c.layers - 1 : x = Recorded(c, <<m, i>>)
      BY <1>1
    <3>2. y = Recorded(c, LmHead)
      BY <1>6
    <3> QED BY <1>7, <3>1, <3>2
  <2> QED BY <1>1, <1>6, <2>1, ConcatFacts
<1>9. /\ (B \o H) \o M \in Seq(T) /\ Once((B \o H) \o M)
  <2>1. \A x \in Elements(B \o H), y \in Elements(M) : x.name # y.name
    <3> SUFFICES ASSUME NEW x \in Elements(B \o H), NEW y \in Elements(M) PROVE x.name # y.name
      OBVIOUS
    <3>1. PICK k \in {"q_norm", "k_norm"}, j \in 0 .. c.layers - 1 : y = Recorded(c, <<k, j>>)
      BY <1>2
    <3>2. CASE x \in Elements(B)
      <4>1. PICK m \in SubmoduleKinds, i \in 0 .. c.layers - 1 : x = Recorded(c, <<m, i>>)
        BY <1>1, <3>2
      <4> QED BY <1>7, <3>1, <4>1
    <3>3. CASE x \in Elements(H)
      <4>1. "q_proj" \in SubmoduleKinds
        BY DEF SubmoduleKinds
      <4> QED BY <1>6, <1>7, <3>1, <3>3, <4>1
    <3> QED BY <1>8, <3>2, <3>3
  <2> QED BY <1>2, <1>8, <2>1, ConcatFacts
<1>10. /\ Len(B) \in Nat /\ Len(M) \in Nat
       /\ Len((B \o H) \o M) = Len(B) + 1 + Len(M)
       /\ \A k \in 1 .. Len(B) : ((B \o H) \o M)[k] = B[k]
       /\ ((B \o H) \o M)[Len(B) + 1] = H[1]
  <2>1. Len(B) \in Nat /\ Len(M) \in Nat
    BY <1>1, <1>2, LenProperties
  <2>2. /\ Len(B \o H) = Len(B) + 1
        /\ \A k \in 1 .. Len(B) : (B \o H)[k] = B[k]
        /\ (B \o H)[Len(B) + 1] = H[1]
    <3>1. /\ Len(B \o H) = Len(B) + Len(H)
          /\ \A k \in 1 .. Len(B) + Len(H) :
                (B \o H)[k] = IF k <= Len(B) THEN B[k] ELSE H[k - Len(B)]
      BY <1>1, <1>6, ConcatProperties
    <3>2. Len(B) + 1 \in 1 .. Len(B) + Len(H) /\ (Len(B) + 1) - Len(B) = 1
          /\ ~(Len(B) + 1 <= Len(B))
      BY <1>6, <2>1
    <3>3. \A k \in 1 .. Len(B) : k \in 1 .. Len(B) + Len(H) /\ k <= Len(B)
      BY <1>6, <2>1
    <3> QED BY <1>6, <3>1, <3>2, <3>3
  <2> DEFINE S == B \o H
  <2> HIDE DEF S
  <2>3. /\ Len(S \o M) = Len(S) + Len(M)
        /\ \A k \in 1 .. Len(S) : (S \o M)[k] = S[k]
    BY <1>2, <1>8, ConcatProperties DEF S
  <2> QED BY <2>1, <2>2, <2>3 DEF S
<1>11. ASSUME NEW k \in 1 .. Len(B)
       PROVE  \E m \in SubmoduleKinds, i \in 0 .. c.layers - 1 :
                 Decomposed(c)[k] = Recorded(c, <<m, i>>)
  <2>1. B[k] \in Elements(B)
    BY <1>1, ListElements
  <2> QED BY <1>1, <1>4, <1>10, <2>1
<1> QED
  BY <1>4, <1>6, <1>9, <1>10, <1>11 DEF T, B

\* The names a converted file has records of.
Stored(c) ==
    {LmHead} \cup (KeptKinds(c) \X (0 .. c.layers - 1))
    \cup (IF c.qkNorm THEN {"q_norm", "k_norm"} ELSE {}) \X (0 .. c.layers - 1)

\* A pair of a product is its two parts.
LEMMA Pairs ==
  ASSUME NEW A, NEW B
  PROVE  \A x : x \in A \X B <=> \E a \in A, b \in B : x = <<a, b>>
OBVIOUS

\* It has a record of each, and of nothing else; the last is of no projection.
LEMMA StoredRecords ==
  ASSUME NEW c \in Checkpoint
  PROVE  /\ \A x : x \in Elements(Decomposed(c)) <=> \E n \in Stored(c) : x = Recorded(c, n)
         /\ Stored(c) \subseteq FileNames(c)
         /\ Decomposed(c)[Len(Decomposed(c))].name[1] \notin SubmoduleKinds
<1> DEFINE T == FileRecords(c)
           B == BlockRecords(c)
           H == <<Recorded(c, LmHead)>>
           M == NormRecords(c)
           S == B \o H
           file == Decomposed(c)
           n == c.layers
           normed == IF c.qkNorm THEN {"q_norm", "k_norm"} ELSE {}
<1>1. /\ B \in Seq(T)
      /\ \A x : x \in Elements(B) <=>
            \E m \in KeptKinds(c), i \in 0 .. n - 1 : x = Recorded(c, <<m, i>>)
  BY BlockRecordsOf
<1>2. /\ M \in Seq(T)
      /\ \A x : x \in Elements(M) <=>
            \E m \in normed, i \in 0 .. n - 1 : x = Recorded(c, <<m, i>>)
  <2>1. /\ M \in Seq(T)
        /\ \A x : x \in Elements(M) <=>
              c.qkNorm /\ \E k \in {"q_norm", "k_norm"}, i \in 0 .. n - 1 : x = Recorded(c, <<k, i>>)
    BY NormRecordsOf
  <2>2. \A k : k \in normed <=> c.qkNorm /\ k \in {"q_norm", "k_norm"}
    OBVIOUS
  <2> HIDE DEF normed
  <2> QED BY <2>1, <2>2
<1>3. file = S \o M
  <2>1. LmHead[1] = "lm_head"
    BY NameFacts
  <2>2. Records(c, LmHead) = <<RawRecord(c, LmHead)>>
    BY <2>1 DEF Records
  <2>3. Records(c, LmHead) = H
    BY <2>1, <2>2 DEF Recorded
  <2> QED BY <2>3 DEF Decomposed, BlockRecords
<1>4. Recorded(c, LmHead) \in T
  BY DEF FileRecords, FileNames
<1>5. H \in Seq(T) /\ Len(H) = 1 /\ H[1] = Recorded(c, LmHead)
  <2> HIDE DEF T
  <2> QED BY <1>4
<1>6. \A x : x \in Stored(c) <=>
         \/ x = LmHead
         \/ \E m \in KeptKinds(c), i \in 0 .. n - 1 : x = <<m, i>>
         \/ \E m \in normed, i \in 0 .. n - 1 : x = <<m, i>>
  <2> DEFINE K == KeptKinds(c)
             I == 0 .. n - 1
  <2>1. Stored(c) = {LmHead} \cup (K \X I) \cup (normed \X I)
    BY DEF Stored
  <2> HIDE DEF K, I, normed
  <2>2. /\ \A x : x \in K \X I <=> \E m \in K, i \in I : x = <<m, i>>
        /\ \A x : x \in normed \X I <=> \E m \in normed, i \in I : x = <<m, i>>
    BY Pairs
  <2>3. \A x : x \in Stored(c) <=> x = LmHead \/ x \in K \X I \/ x \in normed \X I
    BY <2>1
  <2>4. \A x : x \in Stored(c) <=>
           \/ x = LmHead
           \/ \E m \in K, i \in I : x = <<m, i>>
           \/ \E m \in normed, i \in I : x = <<m, i>>
    BY <2>2, <2>3
  <2> QED BY <2>4 DEF K, I
<1>7. Stored(c) \subseteq FileNames(c)
  <2>1. /\ \A m \in KeptKinds(c) : m \in SubmoduleKinds
        /\ \A m \in normed : m \in {"q_norm", "k_norm"}
    BY KindFacts
  <2> HIDE DEF normed
  <2> QED BY <1>6, <2>1, NameFacts DEF FileNames
<1> HIDE DEF T, B, H, M, normed
<1>8. \A x : x \in Elements(H) <=> x = Recorded(c, LmHead)
  <2>1. \A x : x \in Elements(H) <=> \E p \in 1 .. 1 : x = H[p]
    BY <1>5, ListElements
  <2>2. 1 \in 1 .. 1 /\ \A p \in 1 .. 1 : p = 1
    OBVIOUS
  <2> QED BY <1>5, <2>1, <2>2
<1>9. S \in Seq(T) /\ Elements(S) = Elements(B) \cup Elements(H)
  BY <1>1, <1>5, ConcatFacts
<1> HIDE DEF S
<1>10. Elements(file) = Elements(S) \cup Elements(M)
  BY <1>2, <1>3, <1>9, ConcatFacts
<1>11. ASSUME NEW x
       PROVE  x \in Elements(file) <=> \E s \in Stored(c) : x = Recorded(c, s)
  <2>1. x \in Elements(file) <=>
           \/ x = Recorded(c, LmHead)
           \/ \E m \in KeptKinds(c), i \in 0 .. n - 1 : x = Recorded(c, <<m, i>>)
           \/ \E m \in normed, i \in 0 .. n - 1 : x = Recorded(c, <<m, i>>)
    BY <1>1, <1>2, <1>8, <1>9, <1>10
  <2>2. ASSUME x \in Elements(file) PROVE \E s \in Stored(c) : x = Recorded(c, s)
    <3>1. CASE x = Recorded(c, LmHead)
      BY <1>6, <3>1
    <3>2. ASSUME NEW m, NEW i \in 0 .. n - 1, m \in KeptKinds(c) \/ m \in normed,
                 x = Recorded(c, <<m, i>>)
          PROVE  \E s \in Stored(c) : x = Recorded(c, s)
      <4>1. <<m, i>> \in Stored(c)
        BY <1>6, <3>2
      <4> QED BY <3>2, <4>1
    <3> QED BY <2>1, <2>2, <3>1, <3>2
  <2>3. ASSUME NEW s \in Stored(c), x = Recorded(c, s) PROVE x \in Elements(file)
    BY <1>6, <2>1, <2>3
  <2> QED BY <2>2, <2>3
<1>12. file[Len(file)].name[1] \notin SubmoduleKinds
  <2>1. /\ Len(S) = Len(B) + Len(H) /\ Len(B) \in Nat /\ Len(M) \in Nat
        /\ \A k \in 1 .. Len(B) + Len(H) : S[k] = IF k <= Len(B) THEN B[k] ELSE H[k - Len(B)]
    BY <1>1, <1>2, <1>5, ConcatProperties, LenProperties DEF S
  <2>2. Len(S) \in Nat /\ Len(S) >= 1 /\ S[Len(S)] = Recorded(c, LmHead)
    <3>1. /\ Len(B) + 1 \in 1 .. Len(B) + Len(H) /\ (Len(B) + 1) - Len(B) = 1
          /\ ~(Len(B) + 1 <= Len(B))
      BY <1>5, <2>1
    <3> QED BY <1>5, <2>1, <3>1
  <2>3. /\ Len(file) = Len(S) + Len(M)
        /\ \A k \in 1 .. Len(S) + Len(M) : file[k] = IF k <= Len(S) THEN S[k] ELSE M[k - Len(S)]
    BY <1>2, <1>3, <1>9, ConcatProperties
  <2>4. CASE Len(M) = 0
    <3>1. file[Len(file)] = Recorded(c, LmHead)
      BY <2>2, <2>3, <2>4
    <3>2. Recorded(c, LmHead).name[1] = "lm_head"
      BY NameFacts
    <3> QED BY <3>1, <3>2 DEF SubmoduleKinds
  <2>5. CASE Len(M) # 0
    <3>1. file[Len(file)] = M[Len(M)] /\ Len(M) \in 1 .. Len(M)
      <4>1. /\ Len(S) + Len(M) \in 1 .. Len(S) + Len(M) /\ ~(Len(S) + Len(M) <= Len(S))
            /\ (Len(S) + Len(M)) - Len(S) = Len(M) /\ Len(M) \in 1 .. Len(M)
        BY <2>1, <2>2, <2>5
      <4> QED BY <2>3, <4>1
    <3>2. M[Len(M)] \in Elements(M)
      BY <1>2, <3>1, ListElements
    <3>3. PICK m \in normed, i \in 0 .. n - 1 : M[Len(M)] = Recorded(c, <<m, i>>)
      BY <1>2, <3>2
    <3>4. m \in {"q_norm", "k_norm"}
      BY DEF normed
    <3>5. Recorded(c, <<m, i>>).name = <<m, i>>
      BY NameFacts
    <3> QED BY <3>1, <3>3, <3>4, <3>5 DEF SubmoduleKinds
  <2> QED BY <2>4, <2>5
<1> QED
  BY <1>7, <1>11, <1>12

-----------------------------------------------------------------------------
(* What a reader finds of a file, and what a model makes of its layers.    *)

\* The reader gets as far as the first record that it gets lost in.
LEMMA LastFoundFacts ==
  ASSUME NEW T, NEW file \in Seq(T)
  PROVE  /\ LastFound(file) \in 0 .. Len(file)
         /\ \A k \in 1 .. Len(file) : k < LastFound(file) => ~Loses(file[k])
         /\ \A k \in 1 .. Len(file) : k > LastFound(file) =>
               LastFound(file) \in 1 .. Len(file) /\ Loses(file[LastFound(file)])
<1> DEFINE Old == {k \in 1 .. Len(file) : Loses(file[k])}
<1>1. Len(file) \in Nat /\ DOMAIN file = 1 .. Len(file)
  BY LenProperties
<1>2. CASE Old = {}
  <2>1. LastFound(file) = Len(file)
    BY <1>1, <1>2 DEF LastFound
  <2> QED BY <1>1, <1>2, <2>1
<1>3. CASE Old # {}
  <2>1. PICK m \in Old : \A k \in Old : m <= k
    <3>1. Old \subseteq Nat
      BY <1>1
    <3> HIDE DEF Old
    <3> QED BY <1>3, <3>1, NatMinimum
  <2> DEFINE First(k) == Loses(file[k]) /\ \A j \in 1 .. k - 1 : ~Loses(file[j])
  <2>2. m \in DOMAIN file /\ First(m)
    BY <1>1, <2>1
  <2>3. LastFound(file) = CHOOSE k \in DOMAIN file : First(k)
    BY <2>2 DEF LastFound
  <2> DEFINE last == LastFound(file)
  <2>4. last \in DOMAIN file /\ First(last)
    <3> HIDE DEF First
    <3> QED BY <2>2, <2>3
  <2> HIDE DEF last
  <2>5. /\ last \in 1 .. Len(file) /\ Loses(file[last])
        /\ \A j \in 1 .. last - 1 : ~Loses(file[j])
    BY <1>1, <2>4
  <2>6. last \in Nat /\ \A k \in 1 .. Len(file) : k < last => k \in 1 .. last - 1
    BY <1>1, <2>5
  <2> QED BY <1>1, <2>5, <2>6 DEF last
<1> QED
  BY <1>2, <1>3

\* A layer in memory keeps the name and the rows of its record.
LEMMA ParsedFacts == \A r : Parsed(r).name = r.name /\ Parsed(r).rows = r.rows
BY DEF Parsed

\* The layers a reader keeps: those it gets to and whose names it wants.
Reads(x, file, kept) ==
    \E k \in 1 .. Len(file) :
       k <= LastFound(file) /\ file[k].name \in kept /\ x = Parsed(file[k])

\* ReadLayers gives exactly these, in sequence, and none twice.
LEMMA ReadFacts ==
  ASSUME NEW T, NEW file \in Seq(T), NEW kept
  PROVE  /\ ReadLayers(file, kept) \in Seq({Parsed(r) : r \in T})
         /\ \A x : x \in Elements(ReadLayers(file, kept)) <=> Reads(x, file, kept)
         /\ Once(file) => Once(ReadLayers(file, kept))
<1> DEFINE last == LastFound(file)
           seen == SubSeq(file, 1, last)
           places == {k \in DOMAIN seen : seen[k].name \in kept}
           mine == Picked(seen, places)
           list == [k \in DOMAIN mine |-> Parsed(mine[k])]
           P == {Parsed(r) : r \in T}
<1>1. /\ Len(file) \in Nat /\ DOMAIN file = 1 .. Len(file)
      /\ \A k \in 1 .. Len(file) : file[k] \in T
  BY ListElements
<1>2. ReadLayers(file, kept) = list
  BY DEF ReadLayers, Where
<1>3. last \in 0 .. Len(file)
  BY LastFoundFacts
<1> HIDE DEF last
<1>4. /\ seen \in Seq(T) /\ Len(seen) = last /\ DOMAIN seen = 1 .. last
      /\ \A k \in 1 .. last : seen[k] = file[k] /\ k \in 1 .. Len(file)
  <2>1. /\ last \in Nat /\ \A k \in 1 .. last : k \in 1 .. Len(file)
    BY <1>1, <1>3
  <2>2. seen = [k \in 1 .. last |-> file[k]]
    BY <1>1, <2>1
  <2> HIDE DEF seen
  <2>3. seen \in Seq(T) /\ Len(seen) = last
    BY <1>1, <2>1, <2>2
  <2> QED BY <2>1, <2>2, <2>3
<1> HIDE DEF seen
<1>5. \A k \in 1 .. last : k \in places <=> seen[k].name \in kept
  BY <1>4
<1> HIDE DEF places
<1>6. /\ mine \in Seq(T)
      /\ \A x : x \in Elements(mine) <=> \E k \in 1 .. last : k \in places /\ x = seen[k]
      /\ Once(seen) => Once(mine)
  BY <1>4, PickedFacts
<1>7. Once(file) => Once(seen)
  BY <1>1, <1>4, ListElements
<1> HIDE DEF mine
<1>8. /\ Len(mine) \in Nat /\ DOMAIN mine = 1 .. Len(mine)
      /\ \A k \in 1 .. Len(mine) : mine[k] \in T
      /\ \A x : x \in Elements(mine) <=> \E k \in 1 .. Len(mine) : x = mine[k]
  BY <1>6, ListElements
<1>9. list \in Seq(P) /\ Len(list) = Len(mine) /\ \A k \in 1 .. Len(mine) : list[k] = Parsed(mine[k])
  <2>1. \A k \in 1 .. Len(mine) : list[k] = Parsed(mine[k]) /\ list[k] \in P
    BY <1>8
  <2>2. list = [k \in 1 .. Len(mine) |-> list[k]]
    BY <1>8
  <2> HIDE DEF list, P
  <2> QED BY <1>8, <2>1, <2>2
<1> HIDE DEF list, P
<1>10. \A x : x \in Elements(list) <=>
              \E k \in 1 .. Len(file) : k <= last /\ file[k].name \in kept /\ x = Parsed(file[k])
  <2>1. ASSUME NEW x \in Elements(list)
        PROVE  \E k \in 1 .. Len(file) : k <= last /\ file[k].name \in kept /\ x = Parsed(file[k])
    <3>1. PICK j \in 1 .. Len(mine) : x = list[j]
      BY <1>9, ListElements
    <3>2. PICK k \in 1 .. last : k \in places /\ mine[j] = seen[k]
      BY <1>6, <1>8, <3>1
    <3> QED BY <1>3, <1>4, <1>5, <1>9, <3>1, <3>2
  <2>2. ASSUME NEW k \in 1 .. Len(file), k <= last, file[k].name \in kept
        PROVE  Parsed(file[k]) \in Elements(list)
    <3>1. k \in 1 .. last /\ k \in places
      BY <1>1, <1>3, <1>4, <1>5, <2>2
    <3>2. PICK j \in 1 .. Len(mine) : mine[j] = seen[k]
      BY <1>6, <1>8, <3>1
    <3>3. list[j] = Parsed(file[k])
      BY <1>4, <1>9, <3>1, <3>2
    <3> QED BY <1>9, <3>3, ListElements
  <2> QED BY <2>1, <2>2
<1>11. Once(file) => Once(list)
  <2> SUFFICES ASSUME Once(file) PROVE Once(list)
    OBVIOUS
  <2>1. \A k \in 1 .. Len(mine) : list[k].name = mine[k].name
    BY <1>9, ParsedFacts
  <2>2. \A j, k \in 1 .. Len(mine) : mine[j].name = mine[k].name => j = k
    BY <1>6, <1>7, ListElements
  <2> QED BY <1>9, <2>1, <2>2, ListElements
<1> QED
  BY <1>2, <1>9, <1>10, <1>11 DEF P, last, Reads

\* What a model makes of its list: the layers it names and the norms it lifts
\* are all names of the list, but for norms that came out as bit planes.
Named(l) == l.name[1] \notin {"q_norm", "k_norm"} \/ l.as = "raw"

\* What a model shows of the list it was made from.
LEMMA ModelFacts ==
  ASSUME NEW T, NEW list \in Seq(T), NEW dir
  PROVE  /\ \A x : x \in LayerNames(Model(dir, list)) <=>
               \E l \in Elements(list) : l.name[1] \notin {"q_norm", "k_norm"} /\ x = l.name
         /\ \A x : x \in LayerNames(Model(dir, list)) \cup Model(dir, list).norms <=>
               \E l \in Elements(list) : Named(l) /\ x = l.name
         /\ \A x : x \in Elements(Model(dir, list).layers) <=>
               x \in Elements(list) /\ x.name[1] \notin {"q_norm", "k_norm"}
         /\ \A x : x \in Model(dir, list).norms <=>
               \E l \in Elements(list) :
                  l.name[1] \in {"q_norm", "k_norm"} /\ l.as = "raw" /\ x = l.name
         /\ Once(list) => Len(Model(dir, list).layers) = Cardinality(LayerNames(Model(dir, list)))
         /\ Model(dir, list).headDim = HeadDim(dir, list)
<1> DEFINE M == Model(dir, list)
           places == {k \in DOMAIN list : list[k].name[1] \notin {"q_norm", "k_norm"}}
           others == Picked(list, places)
<1>1. M.layers = Unlifted(list) /\ M.norms = Lifted(list) /\ M.headDim = HeadDim(dir, list)
  BY DEF Model
<1>2. Unlifted(list) = others
  BY DEF Unlifted, Where
<1>3. /\ Len(list) \in Nat /\ DOMAIN list = 1 .. Len(list)
      /\ \A x : x \in Elements(list) <=> \E k \in 1 .. Len(list) : x = list[k]
  BY ListElements
<1>4. /\ others \in Seq(T)
      /\ \A x : x \in Elements(others) <=> \E k \in 1 .. Len(list) : k \in places /\ x = list[k]
      /\ Once(list) => Once(others)
  <2> HIDE DEF places
  <2> QED BY PickedFacts
<1>5. \A k \in 1 .. Len(list) : k \in places <=> list[k].name[1] \notin {"q_norm", "k_norm"}
  BY <1>3
<1> HIDE DEF places, others
<1>6. \A x : x \in LayerNames(M) <=> \E l \in Elements(others) : x = l.name
  <2> HIDE DEF M
  <2>1. LayerNames(M) = {others[k].name : k \in DOMAIN others}
    BY <1>1, <1>2 DEF LayerNames
  <2> QED BY <1>4, <2>1, ListElements, SMTT(30)
<1>7. \A x : x \in M.norms <=>
             \E l \in Elements(list) : l.name[1] \in {"q_norm", "k_norm"} /\ l.as = "raw" /\ x = l.name
  <2> HIDE DEF M
  <2>1. \A x : x \in Lifted(list) <=> \E k \in 1 .. Len(list) :
               list[k].name[1] \in {"q_norm", "k_norm"} /\ list[k].as = "raw" /\ x = list[k].name
    BY <1>3 DEF Lifted
  <2> QED BY <1>1, <1>3, <2>1
<1>8. \A x : x \in Elements(others) <=>
             x \in Elements(list) /\ x.name[1] \notin {"q_norm", "k_norm"}
  BY <1>3, <1>4, <1>5
<1>9. Once(list) => Len(M.layers) = Cardinality(LayerNames(M))
  <2> SUFFICES ASSUME Once(list) PROVE Len(M.layers) = Cardinality(LayerNames(M))
    OBVIOUS
  <2>1. Len(others) = Cardinality({others[k].name : k \in DOMAIN others})
    BY <1>4, OnceCount
  <2> HIDE DEF M
  <2>2. LayerNames(M) = {others[k].name : k \in DOMAIN others}
    BY <1>1, <1>2 DEF LayerNames
  <2> QED BY <1>1, <1>2, <2>1, <2>2
<1> HIDE DEF M
<1>10. \A x : x \in LayerNames(M) \cup M.norms <=>
              \E l \in Elements(list) : Named(l) /\ x = l.name
  BY <1>6, <1>7, <1>8 DEF Named
<1>11. \A x : x \in Elements(M.layers) <=>
              x \in Elements(list) /\ x.name[1] \notin {"q_norm", "k_norm"}
  BY <1>1, <1>2, <1>8
<1>12. \A x : x \in LayerNames(M) <=>
              \E l \in Elements(list) : l.name[1] \notin {"q_norm", "k_norm"} /\ x = l.name
  BY <1>6, <1>8
<1> QED
  BY <1>1, <1>7, <1>9, <1>10, <1>11, <1>12 DEF M

-----------------------------------------------------------------------------
(* A GGUF file.                                                            *)

\* A list is one of its own elements, and without elements it is empty.
LEMMA OwnElements ==
  ASSUME NEW T, NEW list \in Seq(T)
  PROVE  /\ list \in Seq(Elements(list))
         /\ list # <<>> <=> \E x : x \in Elements(list)
         /\ list # <<>> => Len(list) >= 1 /\ list[1] \in Elements(list)
                           /\ Last(list) \in Elements(list)
<1>1. /\ Len(list) \in Nat /\ DOMAIN list = 1 .. Len(list)
      /\ \A x : x \in Elements(list) <=> \E k \in 1 .. Len(list) : x = list[k]
  BY ListElements
<1>2. list \in Seq(Elements(list))
  <2>1. \A k \in 1 .. Len(list) : list[k] \in Elements(list)
    BY <1>1
  <2>2. list = [k \in 1 .. Len(list) |-> list[k]]
    BY <1>1
  <2> DEFINE n == Len(list)
             E == Elements(list)
  <2>3. n \in Nat /\ (\A k \in 1 .. n : list[k] \in E) /\ list = [k \in 1 .. n |-> list[k]]
    BY <1>1, <2>1, <2>2
  <2> HIDE DEF n, E
  <2>4. list \in Seq(E)
    BY <2>3
  <2> QED BY <2>4 DEF E
<1>3. list # <<>> => Len(list) >= 1
  BY <1>1, EmptySeq
<1>4. list = <<>> => ~\E x : x \in Elements(list)
  BY DEF Elements
<1>5. Last(list) = list[Len(list)]
  BY DEF Last
<1>6. Len(list) >= 1 => 1 \in 1 .. Len(list) /\ Len(list) \in 1 .. Len(list)
  BY <1>1
<1> QED
  BY <1>1, <1>2, <1>3, <1>4, <1>5, <1>6

\* The elements of two lists joined.
LEMMA ConcatMembers ==
  ASSUME NEW T, NEW s \in Seq(T), NEW t \in Seq(T)
  PROVE  /\ s \o t \in Seq(T)
         /\ \A x : x \in Elements(s \o t) <=> x \in Elements(s) \/ x \in Elements(t)
<1>1. s \o t \in Seq(T) /\ Elements(s \o t) = Elements(s) \cup Elements(t)
  BY ConcatFacts
<1>2. \A x : x \in Elements(s) \cup Elements(t) <=> x \in Elements(s) \/ x \in Elements(t)
  OBVIOUS
<1> QED
  BY <1>1, <1>2, Zenon

\* Lists of lists are joined within the union of what they hold.
LEMMA UnionSeq ==
  ASSUME NEW n \in Nat, NEW ss, ss = [i \in 1 .. n |-> ss[i]],
         \A i \in 1 .. n : ss[i] \in Seq(Elements(ss[i]))
  PROVE  ss \in Seq(Seq(UNION {Elements(ss[i]) : i \in 1 .. n})) /\ Len(ss) = n
<1> DEFINE U == UNION {Elements(ss[i]) : i \in 1 .. n}
<1>1. \A i \in 1 .. n : ss[i] \in Seq(U)
  <2> SUFFICES ASSUME NEW i \in 1 .. n PROVE ss[i] \in Seq(U)
    OBVIOUS
  <2> DEFINE s == ss[i]
             E == Elements(s)
  <2>1. E \subseteq U
    OBVIOUS
  <2>2. s \in Seq(E)
    OBVIOUS
  <2> HIDE DEF U, E, s
  <2>3. s \in Seq(U)
    <3>1. /\ Len(s) \in Nat /\ DOMAIN s = 1 .. Len(s)
          /\ s = [k \in 1 .. Len(s) |-> s[k]]
      BY <2>2, LenProperties
    <3>2. \A k \in 1 .. Len(s) : s[k] \in U
      BY <2>1, <2>2, ElementOfSeq
    <3> DEFINE m == Len(s)
    <3>3. m \in Nat /\ s = [k \in 1 .. m |-> s[k]] /\ \A k \in 1 .. m : s[k] \in U
      BY <3>1, <3>2
    <3> HIDE DEF m
    <3> QED BY <3>3
  <2> QED BY <2>3 DEF s
<1> HIDE DEF U
<1>2. ss \in Seq(Seq(U)) /\ Len(ss) = n
  BY <1>1
<1> QED
  BY <1>2 DEF U

\* A search of a list finds what is there.
LEMMA SearchFacts ==
  ASSUME NEW T, NEW list \in Seq(T), NEW good, NEW places,
         \A k \in 1 .. Len(list) : k \in places <=> list[k] \in good
  PROVE  /\ Picked(list, places) \in Seq(T)
         /\ \A x : x \in Elements(Picked(list, places)) <=> x \in Elements(list) /\ x \in good
         /\ Picked(list, places) # <<>> <=> \E x \in Elements(list) : x \in good
         /\ Picked(list, places) # <<>> =>
               /\ Last(Picked(list, places)) \in Elements(Picked(list, places))
               /\ Picked(list, places)[1] \in Elements(Picked(list, places))
<1> DEFINE found == Picked(list, places)
<1>1. /\ Len(list) \in Nat /\ DOMAIN list = 1 .. Len(list)
      /\ \A x : x \in Elements(list) <=> \E k \in 1 .. Len(list) : x = list[k]
  BY ListElements
<1>2. /\ found \in Seq(T)
      /\ \A x : x \in Elements(found) <=> \E k \in 1 .. Len(list) : k \in places /\ x = list[k]
  BY PickedFacts
<1> HIDE DEF found
<1>3. \A x : x \in Elements(found) <=> x \in Elements(list) /\ x \in good
  BY <1>1, <1>2
<1>4. /\ found # <<>> <=> \E x : x \in Elements(found)
      /\ found # <<>> => Last(found) \in Elements(found) /\ found[1] \in Elements(found)
  BY <1>2, OwnElements
<1> QED
  BY <1>2, <1>3, <1>4 DEF found

-----------------------------------------------------------------------------
(* The metadata of a GGUF file.                                            *)

\* Its entries.
Entry(prefix, name, type, value) ==
    [key |-> <<prefix, name>>, type |-> type, elem |-> "none", value |-> value]

Flags(c) ==
    [key |-> <<"arch", "pattern">>, type |-> "ARRAY", elem |-> "BOOL", value |-> c.layers]

Noted(c, style, x) ==
    \/ x = Entry("general", "architecture", "STRING", "arch")
    \/ style.flags /\ x = Flags(c)
    \/ x = Entry("arch", "block_count", "UINT32", c.layers)
    \/ x = Entry("arch", "context_length", "UINT32", c.context)
    \/ x = Entry("arch", "embedding_length", "UINT32", c.hidden)
    \/ x = Entry("arch", "feed_forward_length", "UINT32", c.inter)
    \/ x = Entry("arch", "attention.head_count", "UINT32", c.heads)
    \/ c.kv # c.heads /\ x = Entry("arch", "attention.head_count_kv", "UINT32", c.kv)
    \/ x = Entry("tokenizer.ggml", "eos_token_id", style.eos, 2)

\* The parts of an entry.
LEMMA EntryFields ==
  ASSUME NEW p, NEW n, NEW t, NEW v
  PROVE  /\ Entry(p, n, t, v).key[1] = p /\ Entry(p, n, t, v).key[2] = n
         /\ Entry(p, n, t, v).type = t /\ Entry(p, n, t, v).value = v
         /\ \A q, k : Entry(p, n, t, v).key = <<q, k>> <=> p = q /\ n = k
BY DEF Entry

\* The reader gets them all.
LEMMA MetadataOf ==
  ASSUME NEW c, NEW style
  PROVE  LET m == GgufOf(c, style).metadata
         IN  /\ m \in Seq(Elements(m))
             /\ \A x : x \in Elements(m) <=> Noted(c, style, x)
<1> DEFINE a == Entry("general", "architecture", "STRING", "arch")
           f == Flags(c)
           b1 == Entry("arch", "block_count", "UINT32", c.layers)
           b2 == Entry("arch", "context_length", "UINT32", c.context)
           b3 == Entry("arch", "embedding_length", "UINT32", c.hidden)
           b4 == Entry("arch", "feed_forward_length", "UINT32", c.inter)
           b5 == Entry("arch", "attention.head_count", "UINT32", c.heads)
           k == Entry("arch", "attention.head_count_kv", "UINT32", c.kv)
           e == Entry("tokenizer.ggml", "eos_token_id", style.eos, 2)
           F == IF style.flags THEN <<f>> ELSE <<>>
           B == <<b1, b2, b3, b4, b5>>
           K == IF c.kv = c.heads THEN <<>> ELSE <<k>>
           A == <<a>>
           E == <<e>>
           m == GgufOf(c, style).metadata
           T == {a, f, b1, b2, b3, b4, b5, k, e}
<1>1. m = (((A \o F) \o B) \o K) \o E
  BY DEF GgufOf, Entry, Flags
<1>2. \A x : Noted(c, style, x) <=>
         \/ x = a \/ (style.flags /\ x = f)
         \/ x = b1 \/ x = b2 \/ x = b3 \/ x = b4 \/ x = b5
         \/ (c.kv # c.heads /\ x = k) \/ x = e
  BY DEF Noted
<1>3. a \in T /\ f \in T /\ b1 \in T /\ b2 \in T /\ b3 \in T /\ b4 \in T /\ b5 \in T
      /\ k \in T /\ e \in T
  OBVIOUS
<1> HIDE DEF a, f, b1, b2, b3, b4, b5, k, e, T, m
<1>4. /\ A \in Seq(T) /\ E \in Seq(T)
      /\ \A x : x \in Elements(A) <=> x = a
      /\ \A x : x \in Elements(E) <=> x = e
  BY <1>3, FewElements
<1>5. /\ F \in Seq(T)
      /\ \A x : x \in Elements(F) <=> style.flags /\ x = f
  <2>1. CASE style.flags
    BY <1>3, <2>1, FewElements
  <2>2. CASE ~style.flags
    <3>1. F = <<>> /\ <<>> \in Seq(T)
      BY <2>2
    <3> QED BY <2>2, <3>1, FewElements
  <2> QED BY <2>1, <2>2
<1>6. /\ K \in Seq(T)
      /\ \A x : x \in Elements(K) <=> c.kv # c.heads /\ x = k
  <2>1. CASE c.kv # c.heads
    BY <1>3, <2>1, FewElements
  <2>2. CASE c.kv = c.heads
    <3>1. K = <<>> /\ <<>> \in Seq(T)
      BY <2>2
    <3> QED BY <2>2, <3>1, FewElements
  <2> QED BY <2>1, <2>2
<1>7. /\ B \in Seq(T)
      /\ \A x : x \in Elements(B) <=> x = b1 \/ x = b2 \/ x = b3 \/ x = b4 \/ x = b5
  <2>1. /\ B \in Seq(T) /\ Len(B) = 5
        /\ B[1] = b1 /\ B[2] = b2 /\ B[3] = b3 /\ B[4] = b4 /\ B[5] = b5
    BY <1>3
  <2> HIDE DEF B
  <2>2. \A x : x \in Elements(B) <=> \E j \in 1 .. 5 : x = B[j]
    BY <2>1, ListElements
  <2>3. \A j \in 1 .. 5 : j = 1 \/ j = 2 \/ j = 3 \/ j = 4 \/ j = 5
    OBVIOUS
  <2>4. 1 \in 1 .. 5 /\ 2 \in 1 .. 5 /\ 3 \in 1 .. 5 /\ 4 \in 1 .. 5 /\ 5 \in 1 .. 5
    OBVIOUS
  <2> QED BY <2>1, <2>2, <2>3, <2>4, Zenon
<1> HIDE DEF A, B, E, F, K
<1> DEFINE s1 == A \o F
           s2 == s1 \o B
           s3 == s2 \o K
<1>8. s1 \in Seq(T) /\ \A x : x \in Elements(s1) <=> x \in Elements(A) \/ x \in Elements(F)
  BY <1>4, <1>5, ConcatMembers
<1> HIDE DEF s1
<1>9. s2 \in Seq(T) /\ \A x : x \in Elements(s2) <=> x \in Elements(s1) \/ x \in Elements(B)
  BY <1>7, <1>8, ConcatMembers
<1> HIDE DEF s2
<1>10. s3 \in Seq(T) /\ \A x : x \in Elements(s3) <=> x \in Elements(s2) \/ x \in Elements(K)
  BY <1>6, <1>9, ConcatMembers
<1> HIDE DEF s3
<1>11. m = s3 \o E
  BY <1>1 DEF s1, s2, s3
<1>12. m \in Seq(T) /\ \A x : x \in Elements(m) <=> x \in Elements(s3) \/ x \in Elements(E)
  BY <1>4, <1>10, <1>11, ConcatMembers
<1>13. m \in Seq(Elements(m))
  BY <1>12, OwnElements
<1>14. \A x : x \in Elements(m) <=> Noted(c, style, x)
  BY <1>2, <1>4, <1>5, <1>6, <1>7, <1>8, <1>9, <1>10, <1>12
<1> QED
  BY <1>13, <1>14 DEF m

\* It gets lost in an array of flags, and in nothing else.
LEMMA LostInFlags ==
  ASSUME NEW c \in Checkpoint, NEW style
  PROVE  Lost(GgufOf(c, style)) <=> style.flags
<1> DEFINE file == GgufOf(c, style)
           m == file.metadata
<1>1. /\ m \in Seq(Elements(m))
      /\ \A x : x \in Elements(m) <=> Noted(c, style, x)
  BY MetadataOf
<1> HIDE DEF m
<1>2. /\ DOMAIN m = 1 .. Len(m)
      /\ \A x : x \in Elements(m) <=> \E k \in 1 .. Len(m) : x = m[k]
  BY <1>1, ListElements
<1>3. Lost(file) <=> \E x : x \in Elements(m) /\ ~InStep(x)
  BY <1>2 DEF Lost, m
<1>4. ~InStep(Flags(c))
  <2>1. /\ Flags(c).type = "ARRAY" /\ Flags(c).key[2] = "pattern"
        /\ Flags(c).elem = "BOOL" /\ Flags(c).value = c.layers
    BY DEF Flags
  <2>2. c.layers # 0
    BY NameFacts
  <2>3. <<"pattern", "BOOL">> \notin TokenizerArrays
    BY DEF TokenizerArrays
  <2> QED BY <2>1, <2>2, <2>3 DEF InStep
<1>5. ASSUME NEW p, NEW n, NEW t, NEW v
      PROVE  InStep(Entry(p, n, t, v))
  <2>1. Entry(p, n, t, v).elem = "none"
    BY DEF Entry
  <2> QED BY <2>1 DEF InStep
<1>6. \A x : Noted(c, style, x) /\ ~InStep(x) => style.flags
  BY <1>5 DEF Noted
<1>7. style.flags => Noted(c, style, Flags(c))
  BY DEF Noted
<1> QED
  BY <1>1, <1>3, <1>4, <1>6, <1>7 DEF file

\* The entries that a key and some types select.
Selected(c, style, types, key, x) ==
    Noted(c, style, x) /\ x.key = key /\ x.type \in types

\* A key that stands once is found, and one that is not there is not.
LEMMA ValueOf ==
  ASSUME NEW c \in Checkpoint, NEW style, ~Lost(GgufOf(c, style)),
         NEW types, NEW key, NEW default
  PROVE  LET value == LastValue(Entries(GgufOf(c, style), types, key), default)
         IN  /\ \A y : (\A x : Selected(c, style, types, key, x) <=> x = y) => value = y.value
             /\ (\A x : ~Selected(c, style, types, key, x)) => value = default
<1> DEFINE file == GgufOf(c, style)
           m == file.metadata
           found == Entries(file, types, key)
           good == {x \in Elements(m) : x.key = key /\ x.type \in types}
           places == {k \in DOMAIN m : m[k].key = key /\ m[k].type \in types}
           Meant(x) == Selected(c, style, types, key, x)
<1>1. /\ m \in Seq(Elements(m))
      /\ \A x : x \in Elements(m) <=> Noted(c, style, x)
  BY MetadataOf
<1>2. found = Picked(m, places)
  BY DEF Entries, Metadata, Where
<1>3. /\ DOMAIN m = 1 .. Len(m) /\ \A k \in 1 .. Len(m) : m[k] \in Elements(m)
  BY <1>1, ListElements
<1> HIDE DEF m, file
<1>4. places = {k \in DOMAIN m : m[k] \in good}
  BY <1>3
<1>5. \A x : x \in good <=> Meant(x)
  BY <1>1 DEF Selected
<1>6. \A x : x \in good => x \in Elements(m)
  OBVIOUS
<1> HIDE DEF places, good, found, Meant
<1>7. /\ \A x : x \in Elements(found) <=> x \in Elements(m) /\ x \in good
      /\ found # <<>> <=> \E x \in Elements(m) : x \in good
      /\ found # <<>> => Last(found) \in Elements(found)
  <2> DEFINE E == Elements(m)
  <2>1. m \in Seq(E) /\ \A k \in 1 .. Len(m) : k \in places <=> m[k] \in good
    BY <1>1, <1>3, <1>4
  <2> HIDE DEF E
  <2> QED BY <1>2, <2>1, SearchFacts
<1> DEFINE value == LastValue(found, default)
<1>8. /\ found = <<>> => value = default
      /\ found # <<>> => value = Last(found).value
  BY DEF LastValue
<1> HIDE DEF value
<1>9. /\ \A y : (\A x : Meant(x) <=> x = y) => value = y.value
      /\ (\A x : ~Meant(x)) => value = default
  BY <1>5, <1>6, <1>7, <1>8
<1> QED
  BY <1>9 DEF value, found, Meant, file

\* The numbers of a model, and the id of the end of text.
LEMMA NumbersOf ==
  ASSUME NEW c \in Checkpoint, NEW style, ~style.flags
  PROVE  LET file == GgufOf(c, style)
         IN  /\ get_int(file, "block_count", 0) = c.layers
             /\ get_int(file, "context_length", 2048) = c.context
             /\ get_int(file, "embedding_length", 0) = c.hidden
             /\ get_int(file, "feed_forward_length", 0) = c.inter
             /\ head_count(file) = c.heads
             /\ get_int(file, "attention.head_count_kv", head_count(file)) = c.kv
             /\ eos_token_id(file) = 2 <=> style.eos = "INT32"
<1> DEFINE file == GgufOf(c, style)
           value(types, key, default) == LastValue(Entries(file, types, key), default)
           Meant(types, key, x) == Selected(c, style, types, key, x)
<1>1. ~Lost(file)
  BY LostInFlags
<1>2. ASSUME NEW types, NEW key, NEW default
      PROVE  /\ \A y : (\A x : Meant(types, key, x) <=> x = y) => value(types, key, default) = y.value
             /\ (\A x : ~Meant(types, key, x)) => value(types, key, default) = default
  BY <1>1, ValueOf
<1>3. ASSUME NEW types, NEW p, NEW n, NEW x
      PROVE  Meant(types, <<p, n>>, x) <=>
                /\ x.type \in types
                /\ \/ /\ p = "general" /\ n = "architecture"
                      /\ x = Entry("general", "architecture", "STRING", "arch")
                   \/ p = "arch" /\ n = "block_count" /\ x = Entry("arch", "block_count", "UINT32", c.layers)
                   \/ p = "arch" /\ n = "context_length" /\ x = Entry("arch", "context_length", "UINT32", c.context)
                   \/ p = "arch" /\ n = "embedding_length" /\ x = Entry("arch", "embedding_length", "UINT32", c.hidden)
                   \/ p = "arch" /\ n = "feed_forward_length" /\ x = Entry("arch", "feed_forward_length", "UINT32", c.inter)
                   \/ p = "arch" /\ n = "attention.head_count" /\ x = Entry("arch", "attention.head_count", "UINT32", c.heads)
                   \/ /\ c.kv # c.heads
                      /\ p = "arch" /\ n = "attention.head_count_kv"
                      /\ x = Entry("arch", "attention.head_count_kv", "UINT32", c.kv)
                   \/ /\ p = "tokenizer.ggml" /\ n = "eos_token_id"
                      /\ x = Entry("tokenizer.ggml", "eos_token_id", style.eos, 2)
  <2>1. \A q, k, t, v : Entry(q, k, t, v).key = <<q, k>>
    BY DEF Entry
  <2>2. \A q, k : <<q, k>> = <<p, n>> <=> p = q /\ n = k
    OBVIOUS
  <2>3. ASSUME NEW q, NEW k, NEW t, NEW v
        PROVE  x = Entry(q, k, t, v) /\ x.key = <<p, n>> <=> p = q /\ n = k /\ x = Entry(q, k, t, v)
    <3>1. Entry(q, k, t, v).key = <<q, k>>
      BY <2>1
    <3> DEFINE y == Entry(q, k, t, v)
    <3> HIDE DEF y
    <3>2. x = y /\ x.key = <<p, n>> <=> p = q /\ n = k /\ x = y
      BY <2>2, <3>1 DEF y
    <3> QED BY <3>2 DEF y
  <2> DEFINE Is(q, k, t, v) == x = Entry(q, k, t, v)
             Keyed == x.key = <<p, n>>
  <2>4. \A q, k, t, v : Is(q, k, t, v) /\ Keyed <=> p = q /\ n = k /\ Is(q, k, t, v)
    BY <2>3
  <2>5. Meant(types, <<p, n>>, x) <=>
           /\ x.type \in types /\ Keyed
           /\ \/ Is("general", "architecture", "STRING", "arch")
              \/ Is("arch", "block_count", "UINT32", c.layers)
              \/ Is("arch", "context_length", "UINT32", c.context)
              \/ Is("arch", "embedding_length", "UINT32", c.hidden)
              \/ Is("arch", "feed_forward_length", "UINT32", c.inter)
              \/ Is("arch", "attention.head_count", "UINT32", c.heads)
              \/ c.kv # c.heads /\ Is("arch", "attention.head_count_kv", "UINT32", c.kv)
              \/ Is("tokenizer.ggml", "eos_token_id", style.eos, 2)
    BY DEF Noted, Selected
  <2> HIDE DEF Is, Keyed, Meant
  <2>6. Meant(types, <<p, n>>, x) <=>
           /\ x.type \in types
           /\ \/ p = "general" /\ n = "architecture" /\ Is("general", "architecture", "STRING", "arch")
              \/ p = "arch" /\ n = "block_count" /\ Is("arch", "block_count", "UINT32", c.layers)
              \/ p = "arch" /\ n = "context_length" /\ Is("arch", "context_length", "UINT32", c.context)
              \/ p = "arch" /\ n = "embedding_length" /\ Is("arch", "embedding_length", "UINT32", c.hidden)
              \/ p = "arch" /\ n = "feed_forward_length" /\ Is("arch", "feed_forward_length", "UINT32", c.inter)
              \/ p = "arch" /\ n = "attention.head_count" /\ Is("arch", "attention.head_count", "UINT32", c.heads)
              \/ /\ c.kv # c.heads
                 /\ p = "arch" /\ n = "attention.head_count_kv"
                 /\ Is("arch", "attention.head_count_kv", "UINT32", c.kv)
              \/ /\ p = "tokenizer.ggml" /\ n = "eos_token_id"
                 /\ Is("tokenizer.ggml", "eos_token_id", style.eos, 2)
    BY <2>4, <2>5
  <2> QED BY <2>6 DEF Is
<1> HIDE DEF Meant, file, value
<1>4. ASSUME NEW types, NEW p, NEW n, NEW t, NEW v, NEW default,
             \A x : Meant(types, <<p, n>>, x) <=> x = Entry(p, n, t, v)
      PROVE  value(types, <<p, n>>, default) = v
  <2> DEFINE y == Entry(p, n, t, v)
             key == <<p, n>>
  <2>1. \A x : Meant(types, key, x) <=> x = y
    BY <1>4
  <2>2. y.value = v
    BY EntryFields
  <2> HIDE DEF y, key
  <2>3. value(types, key, default) = v
    BY <1>2, <2>1, <2>2
  <2> QED BY <2>3 DEF key
<1>5. arch(file) = "arch"
  <2>1. arch(file) = value({"STRING"}, <<"general", "architecture">>, "qwen3")
    BY DEF arch, value
  <2>2. \A x : Meant({"STRING"}, <<"general", "architecture">>, x)
                  <=> x = Entry("general", "architecture", "STRING", "arch")
    BY <1>3, EntryFields
  <2> QED BY <1>4, <2>1, <2>2
<1>6. ASSUME NEW n, NEW v, NEW default,
             \A x : Meant(IntTypes, <<"arch", n>>, x) <=> x = Entry("arch", n, "UINT32", v)
      PROVE  get_int(file, n, default) = v
  <2>1. get_int(file, n, default) =
           value(IntTypes, <<"arch", n>>, value(IntTypes, <<"", n>>, default))
    BY <1>5 DEF get_int, value
  <2> DEFINE d == value(IntTypes, <<"", n>>, default)
  <2> HIDE DEF d
  <2>2. value(IntTypes, <<"arch", n>>, d) = v
    BY <1>4, <1>6
  <2> QED BY <2>1, <2>2 DEF d
<1>7. ASSUME NEW n, NEW v, NEW t
      PROVE  t \in IntTypes => Entry("arch", n, t, v).type \in IntTypes
  BY EntryFields
<1>8. "UINT32" \in IntTypes
  BY DEF IntTypes
<1>9. get_int(file, "block_count", 0) = c.layers
  <2>1. \A x : Meant(IntTypes, <<"arch", "block_count">>, x)
                  <=> x = Entry("arch", "block_count", "UINT32", c.layers)
    BY <1>3, <1>7, <1>8
  <2> QED BY <1>6, <2>1
<1>10. get_int(file, "context_length", 2048) = c.context
  <2>1. \A x : Meant(IntTypes, <<"arch", "context_length">>, x)
                  <=> x = Entry("arch", "context_length", "UINT32", c.context)
    BY <1>3, <1>7, <1>8
  <2> QED BY <1>6, <2>1
<1>11. get_int(file, "embedding_length", 0) = c.hidden
  <2>1. \A x : Meant(IntTypes, <<"arch", "embedding_length">>, x)
                  <=> x = Entry("arch", "embedding_length", "UINT32", c.hidden)
    BY <1>3, <1>7, <1>8
  <2> QED BY <1>6, <2>1
<1>12. get_int(file, "feed_forward_length", 0) = c.inter
  <2>1. \A x : Meant(IntTypes, <<"arch", "feed_forward_length">>, x)
                  <=> x = Entry("arch", "feed_forward_length", "UINT32", c.inter)
    BY <1>3, <1>7, <1>8
  <2> QED BY <1>6, <2>1
<1>13. head_count(file) = c.heads
  <2>1. \A x : Meant(IntTypes, <<"arch", "attention.head_count">>, x)
                  <=> x = Entry("arch", "attention.head_count", "UINT32", c.heads)
    BY <1>3, <1>7, <1>8
  <2> QED BY <1>6, <2>1 DEF head_count
<1>14. get_int(file, "attention.head_count_kv", head_count(file)) = c.kv
  <2>1. CASE c.kv # c.heads
    <3>1. \A x : Meant(IntTypes, <<"arch", "attention.head_count_kv">>, x)
                    <=> x = Entry("arch", "attention.head_count_kv", "UINT32", c.kv)
      BY <1>3, <1>7, <1>8, <2>1
    <3> QED BY <1>6, <3>1
  <2>2. CASE c.kv = c.heads
    <3> DEFINE n == "attention.head_count_kv"
               d == head_count(file)
    <3>1. \A x : ~Meant(IntTypes, <<"arch", "attention.head_count_kv">>, x)
                 /\ ~Meant(IntTypes, <<"", "attention.head_count_kv">>, x)
      BY <1>3, <2>2
    <3>2. get_int(file, n, d) = value(IntTypes, <<"arch", n>>, value(IntTypes, <<"", n>>, d))
      BY <1>5 DEF get_int, value
    <3>3. value(IntTypes, <<"", n>>, d) = d
      BY <1>2, <3>1
    <3>4. value(IntTypes, <<"arch", n>>, d) = d
      BY <1>2, <3>1
    <3> QED BY <1>13, <2>2, <3>2, <3>3, <3>4
  <2> QED BY <2>1, <2>2
<1>15. eos_token_id(file) = 2 <=> style.eos = "INT32"
  <2> DEFINE key == <<"tokenizer.ggml", "eos_token_id">>
  <2>1. eos_token_id(file) = value({"INT32"}, key, -1)
    BY DEF eos_token_id, value
  <2>2. \A x : Meant({"INT32"}, <<"tokenizer.ggml", "eos_token_id">>, x)
           <=> style.eos = "INT32" /\ x = Entry("tokenizer.ggml", "eos_token_id", style.eos, 2)
    BY <1>3, EntryFields
  <2>3. CASE style.eos = "INT32"
    <3>1. value({"INT32"}, key, -1) = 2
      BY <1>4, <2>2, <2>3
    <3> QED BY <2>1, <2>3, <3>1
  <2>4. CASE style.eos # "INT32"
    <3>1. value({"INT32"}, key, -1) = -1
      BY <1>2, <2>2, <2>4
    <3> QED BY <2>1, <2>4, <3>1
  <2> QED BY <2>3, <2>4
<1> QED
  BY <1>9, <1>10, <1>11, <1>12, <1>13, <1>14, <1>15 DEF file

\* The pairs of TensorOf, one for each submodule.
LEMMA TensorOfFacts ==
  /\ TensorOf \in Seq({TensorOf[k] : k \in 1 .. 7}) /\ Len(TensorOf) = 7
  /\ \A k \in 1 .. 7 : /\ TensorOf[k][2] \in SubmoduleKinds
                       /\ TensorOf[k][1] # "output"
  /\ \A j, k \in 1 .. 7 : TensorOf[j][2] = TensorOf[k][2] => j = k
<1> DEFINE S == {TensorOf[k] : k \in 1 .. 7}
<1>1. /\ TensorOf[1] = <<"attn_q", "q_proj">> /\ TensorOf[2] = <<"attn_k", "k_proj">>
      /\ TensorOf[3] = <<"attn_v", "v_proj">> /\ TensorOf[4] = <<"attn_output", "o_proj">>
      /\ TensorOf[5] = <<"ffn_gate", "gate_proj">> /\ TensorOf[6] = <<"ffn_up", "up_proj">>
      /\ TensorOf[7] = <<"ffn_down", "down_proj">>
  BY DEF TensorOf
<1>2. DOMAIN TensorOf = 1 .. 7 /\ Len(TensorOf) = 7 /\ TensorOf = [k \in 1 .. 7 |-> TensorOf[k]]
  BY DEF TensorOf
<1>3. \A k \in 1 .. 7 : k = 1 \/ k = 2 \/ k = 3 \/ k = 4 \/ k = 5 \/ k = 6 \/ k = 7
  OBVIOUS
<1>4. \A k \in 1 .. 7 : TensorOf[k] \in S
  OBVIOUS
<1>5. TensorOf \in Seq(S)
  <2> HIDE DEF S
  <2> QED BY <1>2, <1>4
<1>6. \A k \in 1 .. 7 : TensorOf[k][2] = Submodules[k] /\ TensorOf[k][1] # "output"
  BY <1>1, <1>3 DEF Submodules
<1> QED
  BY <1>2, <1>5, <1>6, SubmoduleFacts

-----------------------------------------------------------------------------
(* The tensors of a GGUF file.                                             *)

\* A matrix and a norm, and the tensors of layer i and of the file.
Matrix(c, name, kind, type) ==
    [name |-> name, type |-> type, dims |-> <<Shape(c, kind)[2], Shape(c, kind)[1]>>]

NormTensor(c, name) == [name |-> name, type |-> "F32", dims |-> <<c.hidden>>]

OfBlock(c, style, i, x) ==
    \/ x = NormTensor(c, <<"attn_norm", i>>) \/ x = NormTensor(c, <<"ffn_norm", i>>)
    \/ /\ style.projections = "I2_S"
       /\ \/ x = NormTensor(c, <<"attn_sub_norm", i>>)
          \/ x = NormTensor(c, <<"ffn_sub_norm", i>>)
    \/ \E p \in Elements(TensorOf) :
          p[2] \in Projected(c) /\ x = Matrix(c, <<p[1], i>>, p[2], style.projections)

OfFile(c, style, x) ==
    \/ x = Matrix(c, <<"token_embd", -1>>, "lm_head", style.embedding)
    \/ x = NormTensor(c, <<"output_norm", -1>>)
    \/ ~c.tied /\ x = Matrix(c, <<"output", -1>>, "lm_head", style.output)
    \/ \E i \in 1 .. c.layers : OfBlock(c, style, i - 1, x)

\* A list of two.
LEMMA TwoElements ==
  ASSUME NEW T, NEW a \in T, NEW b \in T
  PROVE  /\ <<a, b>> \in Seq(T)
         /\ \A x : x \in Elements(<<a, b>>) <=> x = a \/ x = b
<1> DEFINE s == <<a, b>>
<1>1. s \in Seq(T) /\ Len(s) = 2 /\ s[1] = a /\ s[2] = b
  OBVIOUS
<1> HIDE DEF s
<1>2. \A x : x \in Elements(s) <=> \E j \in 1 .. 2 : x = s[j]
  BY <1>1, ListElements
<1>3. \A j \in 1 .. 2 : j = 1 \/ j = 2
  OBVIOUS
<1>4. 1 \in 1 .. 2 /\ 2 \in 1 .. 2
  OBVIOUS
<1>5. \A x : x \in Elements(s) <=> x = a \/ x = b
  BY <1>1, <1>2, <1>3, <1>4, Zenon
<1> QED
  BY <1>1, <1>5 DEF s

\* The file has these tensors.
LEMMA TensorsOf ==
  ASSUME NEW c \in Checkpoint, NEW style
  PROVE  LET ts == GgufOf(c, style).tensors
         IN  /\ ts \in Seq(Elements(ts))
             /\ \A x : x \in Elements(ts) <=> OfFile(c, style, x)
<1> DEFINE n == c.layers
           subs == Where(TensorOf, LAMBDA p : p[2] \in Projected(c))
           na(i) == NormTensor(c, <<"attn_norm", i>>)
           nf(i) == NormTensor(c, <<"ffn_norm", i>>)
           sa(i) == NormTensor(c, <<"attn_sub_norm", i>>)
           sf(i) == NormTensor(c, <<"ffn_sub_norm", i>>)
           of(i, p) == Matrix(c, <<p[1], i>>, p[2], style.projections)
           more(i) == IF style.projections # "I2_S" THEN <<>> ELSE <<sa(i), sf(i)>>
           proj(i) == [k \in DOMAIN subs |-> of(i, subs[k])]
           block(i) == (<<na(i), nf(i)>> \o more(i)) \o proj(i)
           bs == [i \in 1 .. n |-> block(i - 1)]
           emb == Matrix(c, <<"token_embd", -1>>, "lm_head", style.embedding)
           fin == NormTensor(c, <<"output_norm", -1>>)
           out == Matrix(c, <<"output", -1>>, "lm_head", style.output)
           O == IF c.tied THEN <<>> ELSE <<out>>
           first == <<emb, fin>>
           B == FlattenSeq(bs)
           ts == GgufOf(c, style).tensors
<1>1. ts = (first \o O) \o B
  BY DEF GgufOf, Matrix, NormTensor
<1>2. n \in Nat
  BY NameFacts
<1>3. /\ Len(subs) \in Nat /\ DOMAIN subs = 1 .. Len(subs)
      /\ \A p : (\E k \in 1 .. Len(subs) : p = subs[k])
                   <=> p \in Elements(TensorOf) /\ p[2] \in Projected(c)
  <2> DEFINE S == {TensorOf[k] : k \in 1 .. 7}
             places == {k \in DOMAIN TensorOf : TensorOf[k][2] \in Projected(c)}
             good == {p \in S : p[2] \in Projected(c)}
             L == TensorOf
  <2>1. subs = Picked(L, places)
    BY DEF Where
  <2>2. L \in Seq(S) /\ DOMAIN L = 1 .. 7 /\ \A k \in 1 .. 7 : L[k] \in S
    <3>1. L \in Seq(S) /\ Len(L) = 7
      BY TensorOfFacts
    <3> HIDE DEF L
    <3>2. DOMAIN L = 1 .. 7
      BY <3>1, LenProperties
    <3> QED BY <3>1, <3>2 DEF L
  <2>3. \A p \in Elements(L) : p \in S
    BY <2>2 DEF Elements
  <2> HIDE DEF L, S
  <2>4. L \in Seq(S) /\ \A k \in 1 .. Len(L) : k \in places <=> L[k] \in good
    <3>1. Len(L) = 7
      BY TensorOfFacts DEF L
    <3> QED BY <2>2, <3>1 DEF L
  <2> HIDE DEF places, good, subs
  <2>5. /\ subs \in Seq(S)
        /\ \A p : p \in Elements(subs) <=> p \in Elements(L) /\ p \in good
    BY <2>1, <2>4, SearchFacts
  <2>6. /\ Len(subs) \in Nat /\ DOMAIN subs = 1 .. Len(subs)
        /\ \A p : p \in Elements(subs) <=> \E k \in 1 .. Len(subs) : p = subs[k]
    BY <2>5, ListElements
  <2>7. \A p : p \in Elements(L) => (p \in good <=> p[2] \in Projected(c))
    BY <2>3 DEF good
  <2> QED BY <2>5, <2>6, <2>7 DEF L
<1> HIDE DEF subs
<1>4. ASSUME NEW i
      PROVE  /\ block(i) \in Seq(Elements(block(i)))
             /\ \A x : x \in Elements(block(i)) <=> OfBlock(c, style, i, x)
  <2> DEFINE p == proj(i)
             E == {p[k] : k \in 1 .. Len(subs)}
             a == na(i)
             f == nf(i)
             a2 == sa(i)
             f2 == sf(i)
             m == more(i)
             d == <<a, f>>
             b == block(i)
             T == E \cup {a, f, a2, f2}
  <2>1. \A k \in 1 .. Len(subs) : p[k] = of(i, subs[k])
    BY <1>3
  <2>2. p = [k \in 1 .. Len(subs) |-> p[k]]
    BY <1>3
  <2>3. /\ p \in Seq(T)
        /\ \A x : x \in Elements(p) <=> \E k \in 1 .. Len(subs) : x = p[k]
    <3> DEFINE l == Len(subs)
    <3>1. l \in Nat /\ p = [k \in 1 .. l |-> p[k]]
      BY <1>3, <2>2
    <3>2. \A k \in 1 .. l : p[k] \in T
      OBVIOUS
    <3> HIDE DEF p, T, l
    <3>3. p \in Seq(T) /\ Len(p) = l
      BY <3>1, <3>2
    <3>4. \A x : x \in Elements(p) <=> \E k \in 1 .. l : x = p[k]
      BY <3>3, ListElements
    <3> QED BY <3>3, <3>4 DEF l
  <2>4. a \in T /\ f \in T /\ a2 \in T /\ f2 \in T
    OBVIOUS
  <2>5. \A x : OfBlock(c, style, i, x) <=>
           \/ x = a \/ x = f
           \/ style.projections = "I2_S" /\ (x = a2 \/ x = f2)
           \/ \E q \in Elements(TensorOf) : q[2] \in Projected(c) /\ x = of(i, q)
    BY DEF OfBlock
  <2>6. \A x : (\E k \in 1 .. Len(subs) : x = p[k])
                  <=> \E q \in Elements(TensorOf) : q[2] \in Projected(c) /\ x = of(i, q)
    <3> HIDE DEF p, of
    <3> QED BY <1>3, <2>1
  <2>7. m = IF style.projections # "I2_S" THEN <<>> ELSE <<a2, f2>>
    OBVIOUS
  <2>8. b = (d \o m) \o p
    OBVIOUS
  <2> HIDE DEF p, E, T, a, f, a2, f2, m, of, b
  <2>9. d \in Seq(T) /\ \A x : x \in Elements(d) <=> x = a \/ x = f
    BY <2>4, TwoElements
  <2>10. /\ m \in Seq(T)
         /\ \A x : x \in Elements(m) <=> style.projections = "I2_S" /\ (x = a2 \/ x = f2)
    <3>1. CASE style.projections = "I2_S"
      <4>1. m = <<a2, f2>>
        BY <2>7, <3>1
      <4> QED BY <2>4, <3>1, <4>1, TwoElements
    <3>2. CASE style.projections # "I2_S"
      <4>1. m = <<>> /\ <<>> \in Seq(T)
        BY <2>7, <3>2
      <4> QED BY <3>2, <4>1, FewElements
    <3> QED BY <3>1, <3>2
  <2> HIDE DEF d
  <2> DEFINE e == d \o m
  <2>11. e \in Seq(T) /\ \A x : x \in Elements(e) <=> x \in Elements(d) \/ x \in Elements(m)
    BY <2>9, <2>10, ConcatMembers
  <2>12. b = e \o p
    BY <2>8
  <2> HIDE DEF e
  <2>13. b \in Seq(T) /\ \A x : x \in Elements(b) <=> x \in Elements(e) \/ x \in Elements(p)
    BY <2>3, <2>11, <2>12, ConcatMembers
  <2>14. b \in Seq(Elements(b))
    BY <2>13, OwnElements
  <2>15. \A x : x \in Elements(b) <=> OfBlock(c, style, i, x)
    BY <2>3, <2>5, <2>6, <2>9, <2>10, <2>11, <2>13
  <2> QED BY <2>14, <2>15 DEF b
<1>5. /\ bs = [i \in 1 .. n |-> bs[i]]
      /\ \A i \in 1 .. n : bs[i] = block(i - 1)
  OBVIOUS
<1> HIDE DEF block
<1>6. \A i \in 1 .. n : /\ bs[i] \in Seq(Elements(bs[i]))
                        /\ \A x : x \in Elements(bs[i]) <=> OfBlock(c, style, i - 1, x)
  BY <1>4, <1>5
<1> DEFINE U == UNION {Elements(bs[i]) : i \in 1 .. n}
           V == U \cup {emb, fin, out}
<1> HIDE DEF bs, n
<1>7. bs \in Seq(Seq(U)) /\ Len(bs) = n
  BY <1>2, <1>5, <1>6, UnionSeq
<1>8. B \in Seq(U) /\ \A x : x \in Elements(B) <=> \E i \in 1 .. n : x \in Elements(bs[i])
  <2> HIDE DEF U
  <2> QED BY <1>7, FlattenFacts
<1>9. B \in Seq(V)
  <2>1. U \subseteq V
    OBVIOUS
  <2> HIDE DEF U, V, B
  <2> QED BY <1>8, <2>1
<1>10. emb \in V /\ fin \in V /\ out \in V
  OBVIOUS
<1> HIDE DEF V, B, emb, fin, out
<1>11. first \in Seq(V) /\ \A x : x \in Elements(first) <=> x = emb \/ x = fin
  BY <1>10, TwoElements
<1>12. /\ O \in Seq(V)
       /\ \A x : x \in Elements(O) <=> ~c.tied /\ x = out
  <2>1. CASE c.tied
    <3>1. O = <<>> /\ <<>> \in Seq(V)
      BY <2>1
    <3> QED BY <2>1, <3>1, FewElements
  <2>2. CASE ~c.tied
    <3>1. O = <<out>> /\ <<out>> \in Seq(V)
      BY <1>10, <2>2
    <3> QED BY <2>2, <3>1, FewElements
  <2> QED BY <2>1, <2>2
<1> HIDE DEF first, O, ts
<1> DEFINE s == first \o O
<1>13. s \in Seq(V) /\ \A x : x \in Elements(s) <=> x \in Elements(first) \/ x \in Elements(O)
  BY <1>11, <1>12, ConcatMembers
<1>14. ts = s \o B
  BY <1>1
<1> HIDE DEF s
<1>15. ts \in Seq(V) /\ \A x : x \in Elements(ts) <=> x \in Elements(s) \/ x \in Elements(B)
  BY <1>9, <1>13, <1>14, ConcatMembers
<1>16. ts \in Seq(Elements(ts))
  BY <1>15, OwnElements
<1>17. \A x : x \in Elements(ts) <=> OfFile(c, style, x)
  BY <1>6, <1>8, <1>11, <1>12, <1>13, <1>15 DEF OfFile, emb, fin, out, n
<1> QED
  BY <1>16, <1>17, Zenon DEF ts

\* A tensor is found by its name.
LEMMA TensorFound ==
  ASSUME NEW c \in Checkpoint, NEW style, ~Lost(GgufOf(c, style)), NEW name
  PROVE  LET file == GgufOf(c, style)
         IN  /\ Has(file, name) <=> \E x : OfFile(c, style, x) /\ x.name = name
             /\ Has(file, name) => /\ OfFile(c, style, Tensor(file, name))
                                   /\ Tensor(file, name).name = name
<1> DEFINE file == GgufOf(c, style)
           ts == file.tensors
           good == {x \in Elements(ts) : x.name = name}
           places == {k \in DOMAIN ts : ts[k].name = name}
           found == Picked(ts, places)
<1>1. ts \in Seq(Elements(ts)) /\ \A x : x \in Elements(ts) <=> OfFile(c, style, x)
  BY TensorsOf
<1>2. find_tensor(file, name) = IF found = <<>> THEN <<>> ELSE <<found[1]>>
  BY DEF find_tensor, TensorInfos, Where
<1>3. /\ Has(file, name) <=> found # <<>>
      /\ found # <<>> => Tensor(file, name) = found[1]
  <2> DEFINE t == found[1]
  <2>1. <<t>> # <<>> /\ <<t>>[1] = t
    OBVIOUS
  <2> HIDE DEF found, t
  <2>2. find_tensor(file, name) = IF found = <<>> THEN <<>> ELSE <<t>>
    BY <1>2 DEF t
  <2> QED BY <2>1, <2>2 DEF Has, Tensor, t
<1> HIDE DEF ts, file
<1>4. DOMAIN ts = 1 .. Len(ts) /\ \A k \in 1 .. Len(ts) : ts[k] \in Elements(ts)
  BY <1>1, ListElements
<1>5. \A k \in 1 .. Len(ts) : k \in places <=> ts[k] \in good
  BY <1>4
<1>6. \A x : x \in good <=> OfFile(c, style, x) /\ x.name = name
  BY <1>1
<1>7. \A x : x \in good => x \in Elements(ts)
  OBVIOUS
<1> HIDE DEF places, good, found
<1>8. /\ \A x : x \in Elements(found) <=> x \in Elements(ts) /\ x \in good
      /\ found # <<>> <=> \E x \in Elements(ts) : x \in good
      /\ found # <<>> => found[1] \in Elements(found)
  <2> DEFINE E == Elements(ts)
  <2>1. ts \in Seq(E)
    BY <1>1
  <2> HIDE DEF E
  <2> QED BY <1>5, <2>1, SearchFacts DEF found
<1> QED
  BY <1>3, <1>6, <1>7, <1>8 DEF file

\* A reader that got lost has no tensors.
LEMMA LostHasNone ==
  ASSUME NEW file, Lost(file), NEW name
  PROVE  ~Has(file, name)
<1> DEFINE list == <<>>
           places == {k \in DOMAIN list : list[k].name = name}
<1>1. list \in Seq({}) /\ Len(list) = 0 /\ ~\E x : x \in Elements(list)
  BY DEF Elements
<1>2. find_tensor(file, name) = IF Picked(list, places) = <<>> THEN <<>>
                                ELSE <<Picked(list, places)[1]>>
  BY DEF find_tensor, TensorInfos, Where
<1> HIDE DEF list, places
<1>3. \A k \in 1 .. Len(list) : k \in places <=> list[k] \in {}
  BY <1>1
<1>4. Picked(list, places) = <<>>
  <2> DEFINE none == {}
             found == Picked(list, places)
  <2>1. list \in Seq(none) /\ \A k \in 1 .. Len(list) : k \in places <=> list[k] \in none
    BY <1>1, <1>3
  <2> HIDE DEF none
  <2>2. found # <<>> <=> \E x \in Elements(list) : x \in none
    BY <2>1, SearchFacts
  <2> QED BY <1>1, <2>2
<1> QED
  BY <1>2, <1>4 DEF Has

\* The kinds of tensors and those of layers, which belong together.
LEMMA PairFacts ==
  /\ \A p \in Elements(TensorOf) :
        /\ p[1] \in {"attn_q", "attn_k", "attn_v", "attn_output", "ffn_gate",
                     "ffn_up", "ffn_down"}
        /\ p[2] \in SubmoduleKinds
  /\ \A p, q \in Elements(TensorOf) : p[1] = q[1] <=> p[2] = q[2]
  /\ \A m \in SubmoduleKinds : \E p \in Elements(TensorOf) : p[2] = m
<1> DEFINE L == TensorOf
<1>1. /\ L[1] = <<"attn_q", "q_proj">> /\ L[2] = <<"attn_k", "k_proj">>
      /\ L[3] = <<"attn_v", "v_proj">> /\ L[4] = <<"attn_output", "o_proj">>
      /\ L[5] = <<"ffn_gate", "gate_proj">> /\ L[6] = <<"ffn_up", "up_proj">>
      /\ L[7] = <<"ffn_down", "down_proj">> /\ DOMAIN L = 1 .. 7
  BY DEF TensorOf
<1> HIDE DEF L
<1>2. \A k \in 1 .. 7 : k = 1 \/ k = 2 \/ k = 3 \/ k = 4 \/ k = 5 \/ k = 6 \/ k = 7
  OBVIOUS
<1>3. \A p : p \in Elements(L) <=>
         \/ p = <<"attn_q", "q_proj">> \/ p = <<"attn_k", "k_proj">>
         \/ p = <<"attn_v", "v_proj">> \/ p = <<"attn_output", "o_proj">>
         \/ p = <<"ffn_gate", "gate_proj">> \/ p = <<"ffn_up", "up_proj">>
         \/ p = <<"ffn_down", "down_proj">>
  BY <1>1, <1>2 DEF Elements
<1>4. \A p \in Elements(L) :
         /\ p[1] \in {"attn_q", "attn_k", "attn_v", "attn_output", "ffn_gate",
                      "ffn_up", "ffn_down"}
         /\ p[2] \in SubmoduleKinds
  BY <1>3 DEF SubmoduleKinds
<1>5. \A p \in Elements(L) :
         /\ p[1] = "attn_q" <=> p[2] = "q_proj"
         /\ p[1] = "attn_k" <=> p[2] = "k_proj"
         /\ p[1] = "attn_v" <=> p[2] = "v_proj"
         /\ p[1] = "attn_output" <=> p[2] = "o_proj"
         /\ p[1] = "ffn_gate" <=> p[2] = "gate_proj"
         /\ p[1] = "ffn_up" <=> p[2] = "up_proj"
         /\ p[1] = "ffn_down" <=> p[2] = "down_proj"
  BY <1>3
<1>6. \A p, q \in Elements(L) : p[1] = q[1] <=> p[2] = q[2]
  BY <1>4, <1>5 DEF SubmoduleKinds
<1>7. ASSUME NEW m \in SubmoduleKinds PROVE \E p \in Elements(L) : p[2] = m
  <2>1. \A k \in 1 .. 7 : L[k] \in Elements(L)
    BY <1>1 DEF Elements
  <2>2. /\ L[1][2] = "q_proj" /\ L[2][2] = "k_proj" /\ L[3][2] = "v_proj" /\ L[4][2] = "o_proj"
        /\ L[5][2] = "gate_proj" /\ L[6][2] = "up_proj" /\ L[7][2] = "down_proj"
    BY <1>1
  <2>3. \E k \in 1 .. 7 : L[k][2] = m
    BY <2>2 DEF SubmoduleKinds
  <2> QED BY <2>1, <2>3
<1> QED
  BY <1>4, <1>6, <1>7 DEF L

\* The names and the types of a file's tensors.
LEMMA TensorNames ==
  ASSUME NEW c \in Checkpoint, NEW style
  PROVE  /\ \E x : OfFile(c, style, x) /\ x.name = <<"token_embd", -1>>
         /\ \A x : OfFile(c, style, x) /\ x.name = <<"token_embd", -1>> =>
               x.type = style.embedding /\ x.dims[2] = c.vocab
         /\ (\E x : OfFile(c, style, x) /\ x.name = <<"output", -1>>) <=> ~c.tied
         /\ \A i \in 0 .. c.layers - 1 :
               /\ \A k \in {"attn_norm", "ffn_norm"} :
                     \E x : OfFile(c, style, x) /\ x.name = <<k, i>>
               /\ \A k \in {"attn_sub_norm", "ffn_sub_norm"} :
                     (\E x : OfFile(c, style, x) /\ x.name = <<k, i>>)
                        <=> style.projections = "I2_S"
               /\ \A k \in {"attn_norm", "ffn_norm", "attn_sub_norm", "ffn_sub_norm"} :
                     \A x : OfFile(c, style, x) /\ x.name = <<k, i>> => x.type = "F32"
               /\ \A p \in Elements(TensorOf) :
                     /\ (\E x : OfFile(c, style, x) /\ x.name = <<p[1], i>>)
                           <=> p[2] \in Projected(c)
                     /\ \A x : OfFile(c, style, x) /\ x.name = <<p[1], i>> =>
                           x.type = style.projections
<1> DEFINE Is(x, k, i) == OfFile(c, style, x) /\ x.name = <<k, i>>
           norms == {"attn_norm", "ffn_norm"}
           subs == {"attn_sub_norm", "ffn_sub_norm"}
           OfKind(k, i, x) ==
             \/ k \in norms /\ x = NormTensor(c, <<k, i>>)
             \/ style.projections = "I2_S" /\ k \in subs /\ x = NormTensor(c, <<k, i>>)
             \/ \E p \in Elements(TensorOf) :
                   /\ p[1] = k /\ p[2] \in Projected(c)
                   /\ x = Matrix(c, <<p[1], i>>, p[2], style.projections)
           kinds == {"attn_q", "attn_k", "attn_v", "attn_output", "ffn_gate", "ffn_up", "ffn_down"}
<1>1. \A k, i, m, t : /\ Matrix(c, <<k, i>>, m, t).name = <<k, i>>
                      /\ Matrix(c, <<k, i>>, m, t).type = t
                      /\ Matrix(c, <<k, i>>, m, t).dims[2] = Shape(c, m)[1]
  BY DEF Matrix
<1>2. \A k, i : /\ NormTensor(c, <<k, i>>).name = <<k, i>>
                /\ NormTensor(c, <<k, i>>).type = "F32"
  BY DEF NormTensor
<1>3. Shape(c, "lm_head")[1] = c.vocab
  BY DEF Shape
<1>4. /\ \A p \in Elements(TensorOf) : p[1] \in kinds
      /\ \A p, q \in Elements(TensorOf) : p[1] = q[1] <=> p[2] = q[2]
  BY PairFacts
<1>5. /\ c.layers \in Nat /\ \A i \in 0 .. c.layers - 1 : i + 1 \in 1 .. c.layers
      /\ \A i \in 1 .. c.layers : i - 1 \in 0 .. c.layers - 1
      /\ \A i \in 0 .. c.layers - 1 : (i + 1) - 1 = i /\ i # -1
  BY NameFacts
  \* What a tensor of the file is, by its name.
<1>6. ASSUME NEW k, NEW i
      PROVE  \A x : Is(x, k, i) <=>
                \/ k = "token_embd" /\ i = -1 /\ x = Matrix(c, <<"token_embd", -1>>, "lm_head", style.embedding)
                \/ k = "output_norm" /\ i = -1 /\ x = NormTensor(c, <<"output_norm", -1>>)
                \/ ~c.tied /\ k = "output" /\ i = -1 /\ x = Matrix(c, <<"output", -1>>, "lm_head", style.output)
                \/ /\ i \in 0 .. c.layers - 1
                   /\ OfBlock(c, style, i, x) /\ x.name[1] = k
  <2>1. ASSUME NEW x, NEW j, OfBlock(c, style, j, x)
        PROVE  x.name = <<x.name[1], j>>
    <3>1. \/ \E a : x = NormTensor(c, <<a, j>>)
          \/ \E p : x = Matrix(c, <<p[1], j>>, p[2], style.projections)
      BY <2>1 DEF OfBlock
    <3>2. CASE \E a : x = NormTensor(c, <<a, j>>)
      <4>1. PICK a : x = NormTensor(c, <<a, j>>)
        BY <3>2
      <4>2. x.name = <<a, j>>
        BY <1>2, <4>1
      <4> QED BY <4>2
    <3>3. CASE \E p : x = Matrix(c, <<p[1], j>>, p[2], style.projections)
      <4>1. PICK p : x = Matrix(c, <<p[1], j>>, p[2], style.projections)
        BY <3>3
      <4>2. x.name = <<p[1], j>>
        BY <1>1, <4>1
      <4> QED BY <4>2
    <3> QED BY <3>1, <3>2, <3>3
  <2>2. ASSUME NEW x, x.name = <<k, i>>
        PROVE  (\E j \in 1 .. c.layers : OfBlock(c, style, j - 1, x))
                  <=> i \in 0 .. c.layers - 1 /\ OfBlock(c, style, i, x)
    BY <1>5, <2>1, <2>2
  <2>3. ASSUME NEW x PROVE OfBlock(c, style, i, x) => (x.name[1] = k <=> x.name = <<k, i>>)
    BY <2>1
  <2> DEFINE e == Matrix(c, <<"token_embd", -1>>, "lm_head", style.embedding)
             f == NormTensor(c, <<"output_norm", -1>>)
             o == Matrix(c, <<"output", -1>>, "lm_head", style.output)
  <2>4. /\ e.name = <<k, i>> <=> k = "token_embd" /\ i = -1
        /\ f.name = <<k, i>> <=> k = "output_norm" /\ i = -1
        /\ o.name = <<k, i>> <=> k = "output" /\ i = -1
    BY <1>1, <1>2
  <2>5. \A x : OfFile(c, style, x) <=>
           x = e \/ x = f \/ (~c.tied /\ x = o) \/ \E j \in 1 .. c.layers : OfBlock(c, style, j - 1, x)
    BY DEF OfFile
  <2> HIDE DEF e, f, o
  <2>6. \A x : Is(x, k, i) <=>
           \/ k = "token_embd" /\ i = -1 /\ x = e
           \/ k = "output_norm" /\ i = -1 /\ x = f
           \/ ~c.tied /\ k = "output" /\ i = -1 /\ x = o
           \/ /\ i \in 0 .. c.layers - 1
              /\ OfBlock(c, style, i, x) /\ x.name[1] = k
    BY <2>2, <2>3, <2>4, <2>5
  <2> QED BY <2>6 DEF e, f, o
<1>7. ASSUME NEW i, NEW k
      PROVE  \A x : OfBlock(c, style, i, x) /\ x.name[1] = k <=> OfKind(k, i, x)
  <2>1. ASSUME NEW x
        PROVE  OfBlock(c, style, i, x) <=>
                  \/ \E a \in norms : x = NormTensor(c, <<a, i>>)
                  \/ style.projections = "I2_S" /\ \E a \in subs : x = NormTensor(c, <<a, i>>)
                  \/ \E p \in Elements(TensorOf) :
                        p[2] \in Projected(c) /\ x = Matrix(c, <<p[1], i>>, p[2], style.projections)
    BY DEF OfBlock
  <2>2. \A a : NormTensor(c, <<a, i>>).name[1] = a
    <3> SUFFICES ASSUME NEW a PROVE NormTensor(c, <<a, i>>).name[1] = a
      OBVIOUS
    <3>1. NormTensor(c, <<a, i>>).name = <<a, i>>
      BY <1>2
    <3> QED BY <3>1
  <2>3. \A p : Matrix(c, <<p[1], i>>, p[2], style.projections).name[1] = p[1]
    <3> SUFFICES ASSUME NEW p PROVE Matrix(c, <<p[1], i>>, p[2], style.projections).name[1] = p[1]
      OBVIOUS
    <3>1. Matrix(c, <<p[1], i>>, p[2], style.projections).name = <<p[1], i>>
      BY <1>1
    <3> QED BY <3>1
  <2> HIDE DEF norms, subs, OfKind
  <2>4. ASSUME NEW x, OfBlock(c, style, i, x), x.name[1] = k PROVE OfKind(k, i, x)
    <3>1. CASE \E a \in norms : x = NormTensor(c, <<a, i>>)
      BY <2>2, <2>4, <3>1 DEF OfKind
    <3>2. CASE style.projections = "I2_S" /\ \E a \in subs : x = NormTensor(c, <<a, i>>)
      BY <2>2, <2>4, <3>2 DEF OfKind
    <3>3. CASE \E p \in Elements(TensorOf) :
                  p[2] \in Projected(c) /\ x = Matrix(c, <<p[1], i>>, p[2], style.projections)
      <4>1. PICK p \in Elements(TensorOf) :
               p[2] \in Projected(c) /\ x = Matrix(c, <<p[1], i>>, p[2], style.projections)
        BY <3>3
      <4>2. p[1] = k
        BY <2>3, <2>4, <4>1
      <4> QED BY <4>1, <4>2 DEF OfKind
    <3> QED BY <2>1, <2>4, <3>1, <3>2, <3>3
  <2>5. ASSUME NEW x, OfKind(k, i, x) PROVE OfBlock(c, style, i, x) /\ x.name[1] = k
    <3>1. CASE \/ k \in norms /\ x = NormTensor(c, <<k, i>>)
               \/ style.projections = "I2_S" /\ k \in subs /\ x = NormTensor(c, <<k, i>>)
      BY <2>1, <2>2, <3>1
    <3>2. CASE \E p \in Elements(TensorOf) :
                  /\ p[1] = k /\ p[2] \in Projected(c)
                  /\ x = Matrix(c, <<p[1], i>>, p[2], style.projections)
      BY <2>1, <2>3, <3>2
    <3> QED BY <2>5, <3>1, <3>2 DEF OfKind
  <2> QED BY <2>4, <2>5
<1> HIDE DEF Is
<1>8. /\ \E x : Is(x, "token_embd", -1)
      /\ \A x : Is(x, "token_embd", -1) => x.type = style.embedding /\ x.dims[2] = c.vocab
  <2> DEFINE e == Matrix(c, <<"token_embd", -1>>, "lm_head", style.embedding)
  <2>1. e.type = style.embedding /\ e.dims[2] = c.vocab
    BY <1>1, <1>3
  <2> HIDE DEF e
  <2>2. -1 \notin 0 .. c.layers - 1
    BY <1>5
  <2>3. \A x : Is(x, "token_embd", -1) <=> x = e
    BY <1>6, <2>2 DEF e
  <2> QED BY <2>1, <2>3
<1>9. (\E x : Is(x, "output", -1)) <=> ~c.tied
  BY <1>5, <1>6
<1>10. ASSUME NEW i \in 0 .. c.layers - 1, NEW k \in norms \cup subs
       PROVE  /\ k \in norms => \E x : Is(x, k, i)
              /\ k \in subs => ((\E x : Is(x, k, i)) <=> style.projections = "I2_S")
              /\ \A x : Is(x, k, i) => x.type = "F32"
  <2>1. i # -1 /\ k \notin kinds
    BY <1>5
  <2>2. \A x : Is(x, k, i) <=> OfBlock(c, style, i, x) /\ x.name[1] = k
    BY <1>6, <2>1
  <2>3. ASSUME NEW x
        PROVE  Is(x, k, i) <=>
                  /\ k \in norms \/ (style.projections = "I2_S" /\ k \in subs)
                  /\ x = NormTensor(c, <<k, i>>)
    <3>1. ~\E p \in Elements(TensorOf) : p[1] = k
      BY <1>4, <2>1
    <3>2. Is(x, k, i) <=> OfBlock(c, style, i, x) /\ x.name[1] = k
      BY <2>2
    <3> HIDE DEF norms, subs, OfKind
    <3>3. Is(x, k, i) <=> OfKind(k, i, x)
      BY <1>7, <3>2
    <3> QED BY <3>1, <3>3 DEF OfKind
  <2>4. k \in subs => k \notin norms
    OBVIOUS
  <2> QED BY <1>2, <2>3, <2>4
<1>11. ASSUME NEW i \in 0 .. c.layers - 1, NEW p \in Elements(TensorOf)
       PROVE  /\ (\E x : Is(x, p[1], i)) <=> p[2] \in Projected(c)
              /\ \A x : Is(x, p[1], i) => x.type = style.projections
  <2>1. i # -1 /\ p[1] \notin norms /\ p[1] \notin subs
    BY <1>4, <1>5
  <2>2. \A x : Is(x, p[1], i) <=> OfBlock(c, style, i, x) /\ x.name[1] = p[1]
    BY <1>6, <2>1
  <2> DEFINE of(q) == Matrix(c, <<q[1], i>>, q[2], style.projections)
  <2>3. \A q : of(q).type = style.projections
    BY <1>1
  <2>4. ASSUME NEW x
        PROVE  Is(x, p[1], i) <=>
                  \E q \in Elements(TensorOf) : q[1] = p[1] /\ q[2] \in Projected(c) /\ x = of(q)
    <3>1. Is(x, p[1], i) <=> OfBlock(c, style, i, x) /\ x.name[1] = p[1]
      BY <2>2
    <3> HIDE DEF norms, subs, OfKind
    <3>2. Is(x, p[1], i) <=> OfKind(p[1], i, x)
      BY <1>7, <3>1
    <3> QED BY <2>1, <3>2 DEF OfKind
  <2>5. \A q \in Elements(TensorOf) : q[1] = p[1] => q[2] = p[2]
    BY <1>4
  <2> HIDE DEF of
  <2> QED BY <2>3, <2>4, <2>5
<1> QED
  BY <1>8, <1>9, <1>10, <1>11 DEF Is

\* The same of a file that is read to its end.
LEMMA TensorsRead ==
  ASSUME NEW c \in Checkpoint, NEW style, ~style.flags
  PROVE  LET file == GgufOf(c, style)
             emb == Tensor(file, <<"token_embd", -1>>)
         IN  /\ Has(file, <<"token_embd", -1>>)
             /\ emb.type = style.embedding /\ emb.dims[2] = c.vocab
             /\ Has(file, <<"output", -1>>) <=> ~c.tied
             /\ \A i \in 0 .. c.layers - 1 :
                  /\ \A k \in {"attn_norm", "ffn_norm"} : Has(file, <<k, i>>)
                  /\ \A k \in {"attn_sub_norm", "ffn_sub_norm"} :
                        Has(file, <<k, i>>) <=> style.projections = "I2_S"
                  /\ \A k \in {"attn_norm", "ffn_norm", "attn_sub_norm", "ffn_sub_norm"} :
                        Has(file, <<k, i>>) => Tensor(file, <<k, i>>).type = "F32"
                  /\ \A p \in Elements(TensorOf) :
                        /\ Has(file, <<p[1], i>>) <=> p[2] \in Projected(c)
                        /\ Has(file, <<p[1], i>>) =>
                              Tensor(file, <<p[1], i>>).type = style.projections
<1> DEFINE file == GgufOf(c, style)
           e == <<"token_embd", -1>>
           o == <<"output", -1>>
           Stands(n) == \E x : OfFile(c, style, x) /\ x.name = n
<1>1. ~Lost(file)
  BY LostInFlags
<1>2. \A n : /\ Has(file, n) <=> Stands(n)
             /\ Has(file, n) => /\ OfFile(c, style, Tensor(file, n))
                                /\ Tensor(file, n).name = n
  BY <1>1, TensorFound
<1>3. /\ Stands(e)
      /\ Stands(o) <=> ~c.tied
      /\ \A x : OfFile(c, style, x) /\ x.name = e => x.type = style.embedding /\ x.dims[2] = c.vocab
  BY TensorNames
<1>4. \A i \in 0 .. c.layers - 1 :
            /\ \A k \in {"attn_norm", "ffn_norm"} :
                  \E x : OfFile(c, style, x) /\ x.name = <<k, i>>
            /\ \A k \in {"attn_sub_norm", "ffn_sub_norm"} :
                  (\E x : OfFile(c, style, x) /\ x.name = <<k, i>>)
                     <=> style.projections = "I2_S"
            /\ \A k \in {"attn_norm", "ffn_norm", "attn_sub_norm", "ffn_sub_norm"} :
                  \A x : OfFile(c, style, x) /\ x.name = <<k, i>> => x.type = "F32"
            /\ \A p \in Elements(TensorOf) :
                  /\ (\E x : OfFile(c, style, x) /\ x.name = <<p[1], i>>)
                        <=> p[2] \in Projected(c)
                  /\ \A x : OfFile(c, style, x) /\ x.name = <<p[1], i>> =>
                        x.type = style.projections
  BY TensorNames
<1> HIDE DEF file, e, o, Stands
<1>5. /\ Has(file, e)
      /\ Has(file, o) <=> ~c.tied
  BY <1>2, <1>3
<1>6. Tensor(file, e).type = style.embedding /\ Tensor(file, e).dims[2] = c.vocab
  BY <1>2, <1>3
<1>7. ASSUME NEW i \in 0 .. c.layers - 1
      PROVE  /\ \A k \in {"attn_norm", "ffn_norm"} : Has(file, <<k, i>>)
             /\ \A k \in {"attn_sub_norm", "ffn_sub_norm"} :
                   Has(file, <<k, i>>) <=> style.projections = "I2_S"
             /\ \A k \in {"attn_norm", "ffn_norm", "attn_sub_norm", "ffn_sub_norm"} :
                   Has(file, <<k, i>>) => Tensor(file, <<k, i>>).type = "F32"
             /\ \A p \in Elements(TensorOf) :
                   /\ Has(file, <<p[1], i>>) <=> p[2] \in Projected(c)
                   /\ Has(file, <<p[1], i>>) =>
                         Tensor(file, <<p[1], i>>).type = style.projections
  <2>1. \A k \in {"attn_norm", "ffn_norm"} : Has(file, <<k, i>>)
    BY <1>2, <1>4 DEF Stands
  <2>2. \A k \in {"attn_sub_norm", "ffn_sub_norm"} :
           Has(file, <<k, i>>) <=> style.projections = "I2_S"
    BY <1>2, <1>4 DEF Stands
  <2>3. \A k \in {"attn_norm", "ffn_norm", "attn_sub_norm", "ffn_sub_norm"} :
           Has(file, <<k, i>>) => Tensor(file, <<k, i>>).type = "F32"
    BY <1>2, <1>4 DEF Stands
  <2>4. \A p \in Elements(TensorOf) :
           /\ Has(file, <<p[1], i>>) <=> p[2] \in Projected(c)
           /\ Has(file, <<p[1], i>>) => Tensor(file, <<p[1], i>>).type = style.projections
    <3> SUFFICES ASSUME NEW p \in Elements(TensorOf)
                 PROVE  /\ Has(file, <<p[1], i>>) <=> p[2] \in Projected(c)
                        /\ Has(file, <<p[1], i>>) =>
                              Tensor(file, <<p[1], i>>).type = style.projections
      OBVIOUS
    <3> DEFINE n == <<p[1], i>>
    <3>1. /\ Stands(n) <=> p[2] \in Projected(c)
          /\ \A x : OfFile(c, style, x) /\ x.name = n => x.type = style.projections
      BY <1>4 DEF Stands
    <3> HIDE DEF n
    <3>2. /\ Has(file, n) <=> p[2] \in Projected(c)
          /\ Has(file, n) => Tensor(file, n).type = style.projections
      BY <1>2, <3>1
    <3> QED BY <3>2 DEF n
  <2> QED BY <2>1, <2>2, <2>3, <2>4
<1> QED
  BY <1>5, <1>6, <1>7 DEF file, e, o

\* A file that loads is not one the reader lost its way in: it has as many
\* blocks as the model has layers, and output.weight unless the model is tied to
\* its embedding.
LEMMA GgufRead ==
  ASSUME NEW c \in Checkpoint, NEW style, GgufLoads(GgufOf(c, style))
  PROVE  /\ TensorInfos(GgufOf(c, style)) = GgufOf(c, style).tensors
         /\ get_int(GgufOf(c, style), "block_count", 0) = c.layers
         /\ Has(GgufOf(c, style), <<"output", -1>>) <=> ~c.tied
<1> DEFINE file == GgufOf(c, style)
<1>1. Has(file, <<"token_embd", -1>>)
  BY DEF GgufLoads
<1>2. ~Lost(file)
  <2> HIDE DEF file
  <2> QED BY <1>1, LostHasNone
<1>3. ~style.flags
  BY <1>2, LostInFlags
<1>4. TensorInfos(file) = file.tensors
  BY <1>2 DEF TensorInfos
<1>5. get_int(file, "block_count", 0) = c.layers
  BY <1>3, NumbersOf
<1>6. Has(file, <<"output", -1>>) <=> ~c.tied
  BY <1>3, TensorsRead
<1> QED
  BY <1>4, <1>5, <1>6

-----------------------------------------------------------------------------
(* The layers of a GGUF file.                                              *)

\* A layer is named as it is told to be, and has no terms or one.
LEMMA LayerName == \A n, t, a : Layer(n, t, a).name = n /\ Layer(n, t, a).terms \in Nat
BY DEF Layer

\* The layer that a tensor of block i becomes.
ProjectionLayer(file, p, i) ==
    Layer(<<p[2], i>>, Tensor(file, <<p[1], i>>), ConvertedAs(Tensor(file, <<p[1], i>>)))

\* The layers of a block: those of submodules, each once.
LEMMA BlockLayersOf ==
  ASSUME NEW file, NEW i
  PROVE  /\ BlockLayers(file, i) \in Seq(Elements(BlockLayers(file, i)))
         /\ Once(BlockLayers(file, i))
         /\ \A x \in Elements(BlockLayers(file, i)) :
               x.terms \in Nat /\ \E m \in SubmoduleKinds : x.name = <<m, i>>
         /\ \A x : x \in Elements(BlockLayers(file, i)) <=>
               \E p \in Elements(TensorOf) :
                  Has(file, <<p[1], i>>) /\ x = ProjectionLayer(file, p, i)
<1> DEFINE places == {k \in DOMAIN TensorOf : Has(file, <<TensorOf[k][1], i>>)}
           there == Picked(TensorOf, places)
           tensor(k) == Tensor(file, <<there[k][1], i>>)
           list == [k \in DOMAIN there |->
                      Layer(<<there[k][2], i>>, tensor(k), ConvertedAs(tensor(k)))]
           S == {TensorOf[k] : k \in 1 .. 7}
           n == Len(there)
<1>1. BlockLayers(file, i) = list
  BY DEF BlockLayers, Where
<1>2. /\ TensorOf \in Seq(S) /\ Len(TensorOf) = 7
      /\ \A k \in 1 .. 7 : TensorOf[k][2] \in SubmoduleKinds
      /\ \A j, k \in 1 .. 7 : TensorOf[j][2] = TensorOf[k][2] => j = k
  BY TensorOfFacts
<1>12. \A k \in 1 .. 7 : k \in places <=> Has(file, <<TensorOf[k][1], i>>)
  BY DEF TensorOf
<1>13. \A p : p \in Elements(TensorOf) <=> \E k \in 1 .. 7 : p = TensorOf[k]
  <2> DEFINE L == TensorOf
  <2>1. L \in Seq(S) /\ Len(L) = 7
    BY <1>2
  <2> HIDE DEF L, S
  <2>2. \A p : p \in Elements(L) <=> \E k \in 1 .. 7 : p = L[k]
    BY <2>1, ListElements
  <2> QED BY <2>2 DEF L
<1> HIDE DEF S, places
<1>3. there \in Seq(S) /\ \E g : Takes(g, there, TensorOf, places, Len(TensorOf))
  BY <1>2, PickedPlaces
<1>4. PICK g : Takes(g, there, TensorOf, places, Len(TensorOf))
  BY <1>3
<1> HIDE DEF there
<1>5. /\ \A k \in 1 .. n : g[k] \in 1 .. 7 /\ there[k] = TensorOf[g[k]]
      /\ \A j, k \in 1 .. n : g[j] = g[k] => j = k
  BY <1>2, <1>4 DEF Takes
<1>6. n \in Nat /\ DOMAIN there = 1 .. n
  BY <1>3, LenProperties
<1>7. ASSUME NEW k \in 1 .. n
      PROVE  /\ list[k].name = <<there[k][2], i>> /\ there[k][2] \in SubmoduleKinds
             /\ list[k].terms \in Nat
  <2>1. list[k] = Layer(<<there[k][2], i>>, tensor(k), ConvertedAs(tensor(k)))
    BY <1>6
  <2> HIDE DEF list, tensor
  <2>2. list[k].name = <<there[k][2], i>> /\ list[k].terms \in Nat
    <3> DEFINE a == <<there[k][2], i>>
               t == tensor(k)
               o == ConvertedAs(tensor(k))
    <3>1. list[k] = Layer(a, t, o)
      BY <2>1
    <3> HIDE DEF a, t, o
    <3>2. list[k].name = a /\ list[k].terms \in Nat
      BY <3>1, LayerName
    <3> QED BY <3>2 DEF a
  <2>3. there[k][2] \in SubmoduleKinds
    BY <1>2, <1>5
  <2> QED BY <2>2, <2>3
<1>14. \A k \in 1 .. n : list[k] = ProjectionLayer(file, there[k], i)
  BY <1>6 DEF ProjectionLayer
<1>8. list = [k \in 1 .. n |-> list[k]]
  BY <1>6
<1> HIDE DEF list, n
<1>9. list \in Seq(Elements(list)) /\ Len(list) = n
  <2>1. list \in Seq({list[k] : k \in 1 .. n}) /\ Len(list) = n
    <3> DEFINE L == {list[k] : k \in 1 .. n}
    <3>1. \A k \in 1 .. n : list[k] \in L
      OBVIOUS
    <3> HIDE DEF L
    <3>2. list \in Seq(L) /\ Len(list) = n
      BY <1>6, <1>8, <3>1
    <3> QED BY <3>2 DEF L
  <2> DEFINE L == {list[k] : k \in 1 .. n}
  <2> HIDE DEF L
  <2>2. list \in Seq(L)
    BY <2>1 DEF L
  <2> QED BY <2>1, <2>2, OwnElements
<1>10. \A j, k \in 1 .. n : list[j].name = list[k].name => j = k
  <2> SUFFICES ASSUME NEW j \in 1 .. n, NEW k \in 1 .. n, list[j].name = list[k].name PROVE j = k
    OBVIOUS
  <2>1. there[j][2] = there[k][2]
    BY <1>7
  <2> QED BY <1>2, <1>5, <2>1, SMTT(30)
<1>11. /\ Once(list)
       /\ \A x \in Elements(list) : x.terms \in Nat /\ \E m \in SubmoduleKinds : x.name = <<m, i>>
  <2>1. /\ \A x \in Elements(list) : \E k \in 1 .. n : x = list[k]
        /\ Once(list) <=> \A j, k \in 1 .. n : list[j].name = list[k].name => j = k
    BY <1>9, ListElements
  <2> QED BY <1>7, <1>10, <2>1
<1>15. \A x : x \in Elements(list) <=>
          \E p \in Elements(TensorOf) :
             Has(file, <<p[1], i>>) /\ x = ProjectionLayer(file, p, i)
  <2>1. \A x : x \in Elements(list) <=> \E k \in 1 .. n : x = list[k]
    BY <1>9, ListElements
  <2>2. /\ \A k \in 1 .. n : g[k] \in places
        /\ \A j \in 1 .. 7 : j \in places => \E k \in 1 .. n : g[k] = j
    BY <1>2, <1>4 DEF Takes, n
  <2>3. ASSUME NEW k \in 1 .. n
        PROVE  \E p \in Elements(TensorOf) :
                  Has(file, <<p[1], i>>) /\ list[k] = ProjectionLayer(file, p, i)
    <3>1. there[k] = TensorOf[g[k]] /\ g[k] \in 1 .. 7
      BY <1>5
    <3>2. there[k] \in Elements(TensorOf) /\ Has(file, <<there[k][1], i>>)
      BY <1>12, <1>13, <2>2, <3>1
    <3> QED BY <1>14, <3>2
  <2>4. ASSUME NEW p \in Elements(TensorOf), Has(file, <<p[1], i>>)
        PROVE  \E k \in 1 .. n : ProjectionLayer(file, p, i) = list[k]
    <3>1. PICK j \in 1 .. 7 : p = TensorOf[j]
      BY <1>13
    <3>2. PICK k \in 1 .. n : g[k] = j
      BY <1>12, <2>2, <2>4, <3>1
    <3>3. there[k] = p
      BY <1>5, <3>1, <3>2
    <3> QED BY <1>14, <3>3
  <2>5. ASSUME NEW x
        PROVE  x \in Elements(list) <=>
                  \E p \in Elements(TensorOf) :
                     Has(file, <<p[1], i>>) /\ x = ProjectionLayer(file, p, i)
    <3>1. x \in Elements(list) <=> \E k \in 1 .. n : x = list[k]
      BY <2>1
    <3>2. ASSUME NEW k \in 1 .. n, x = list[k]
          PROVE  \E p \in Elements(TensorOf) :
                    Has(file, <<p[1], i>>) /\ x = ProjectionLayer(file, p, i)
      BY <2>3, <3>2
    <3>3. ASSUME NEW p \in Elements(TensorOf), Has(file, <<p[1], i>>), x = ProjectionLayer(file, p, i)
          PROVE  \E k \in 1 .. n : x = list[k]
      BY <2>4, <3>3
    <3> QED BY <3>1, <3>2, <3>3
  <2> QED BY <2>5
<1> QED
  BY <1>1, <1>9, <1>11, <1>15

\* The layers read from a GGUF file: submodules and perhaps a head, each once.
LEMMA GgufLayersOf ==
  ASSUME NEW c \in Checkpoint, NEW style, GgufLoads(GgufOf(c, style))
  PROVE  LET list == GgufLayers(GgufOf(c, style))
         IN  /\ list \in Seq(Elements(list))
             /\ Once(list)
             /\ \A x \in Elements(list) : x.name \in FileNames(c) /\ x.terms \in Nat
             /\ (\E x \in Elements(list) : x.name = LmHead)
                   <=> Has(GgufOf(c, style), <<"output", -1>>)
             /\ \A x : x \in Elements(list) /\ x.name # LmHead <=>
                   \E i \in 1 .. c.layers : x \in Elements(BlockLayers(GgufOf(c, style), i - 1))
<1> DEFINE file == GgufOf(c, style)
           n == c.layers
           ss == [i \in 1 .. n |-> BlockLayers(file, i - 1)]
           U == UNION {Elements(ss[i]) : i \in 1 .. n}
           H == HeadLayers(file)
           s == FlattenSeq(ss)
           t == Tensor(file, <<"output", -1>>)
           l == Layer(<<"lm_head", -1>>, t,
                      IF t.type \in {"F32", "F16"} THEN "raw" ELSE ConvertedAs(t))
           T == U \cup {l}
<1>1. n \in Nat /\ \A i \in 1 .. n : i - 1 \in 0 .. n - 1
  BY NameFacts
<1>2. GgufLayers(file) = s \o H
  BY GgufRead DEF GgufLayers
<1>3. H = <<>> \/ H = <<l>>
  BY DEF HeadLayers
<1>4. H = <<l>> <=> Has(file, <<"output", -1>>)
  BY DEF HeadLayers
<1>5. l.name = LmHead /\ l.terms \in Nat
  BY LayerName DEF LmHead
<1> HIDE DEF l, t, H, file
<1>6. ASSUME NEW k \in 1 .. n
      PROVE  /\ ss[k] \in Seq(Elements(ss[k])) /\ Once(ss[k])
             /\ \A x \in Elements(ss[k]) :
                   x.terms \in Nat /\ \E m \in SubmoduleKinds : x.name = <<m, k - 1>>
  <2>1. ss[k] = BlockLayers(file, k - 1)
    OBVIOUS
  <2> HIDE DEF ss
  <2> QED BY <2>1, BlockLayersOf
<1>7. ss = [i \in 1 .. n |-> ss[i]]
  OBVIOUS
<1> HIDE DEF ss, n, s
<1>8. ss \in Seq(Seq(U)) /\ Len(ss) = n
  BY <1>1, <1>6, <1>7, UnionSeq
<1>9. ss \in Seq(Seq(T))
  <2>1. \A i \in 1 .. n : ss[i] \in Seq(T)
    <3> SUFFICES ASSUME NEW i \in 1 .. n PROVE ss[i] \in Seq(T)
      OBVIOUS
    <3>1. ss[i] \in Seq(U)
      BY <1>8
    <3>2. U \subseteq T
      OBVIOUS
    <3> HIDE DEF U, T
    <3> QED BY <3>1, <3>2
  <2> HIDE DEF T
  <2> QED BY <1>1, <1>7, <2>1
<1>10. l \in T
  OBVIOUS
<1> HIDE DEF U, T
<1>11. ASSUME NEW j \in 1 .. n, NEW k \in 1 .. n, j # k,
              NEW x \in Elements(ss[j]), NEW y \in Elements(ss[k])
       PROVE  x.name # y.name
  <2>1. PICK m \in SubmoduleKinds : x.name = <<m, j - 1>>
    BY <1>6
  <2>2. PICK p \in SubmoduleKinds : y.name = <<p, k - 1>>
    BY <1>6
  <2> QED BY <1>1, <1>11, <2>1, <2>2
<1>12. /\ s \in Seq(T) /\ Once(s)
       /\ \A x : x \in Elements(s) <=> \E i \in 1 .. n : x \in Elements(ss[i])
  BY <1>6, <1>8, <1>9, <1>11, FlattenFacts DEF s
<1>13. \A x \in Elements(s) : x.name \in Names(c) /\ x.name # LmHead /\ x.terms \in Nat
  <2> SUFFICES ASSUME NEW x \in Elements(s)
               PROVE  x.name \in Names(c) /\ x.name # LmHead /\ x.terms \in Nat
    OBVIOUS
  <2>1. PICK i \in 1 .. n : x \in Elements(ss[i])
    BY <1>12
  <2>2. PICK m \in SubmoduleKinds : x.name = <<m, i - 1>>
    BY <1>6, <2>1
  <2>3. x.name \in Names(c)
    BY <1>1, <2>2, NameFacts DEF n
  <2>4. x.terms \in Nat
    BY <1>6, <2>1
  <2> QED BY <2>3, <2>4, NameFacts
<1>14. /\ H \in Seq(T) /\ Once(H)
       /\ \A x \in Elements(H) : x.name = LmHead /\ x.terms \in Nat
       /\ H = <<l>> => l \in Elements(H)
  <2>1. CASE H = <<>>
    BY <1>3, <2>1 DEF Once, Elements
  <2>2. CASE H = <<l>>
    <3>1. H \in Seq(T) /\ Len(H) = 1 /\ H[1] = l
      BY <1>10, <2>2
    <3> QED BY <1>5, <3>1, ListElements
  <2> QED BY <1>3, <2>1, <2>2
<1>15. s \o H \in Seq(T) /\ Once(s \o H)
  <2>1. \A x \in Elements(s), y \in Elements(H) : x.name # y.name
    BY <1>13, <1>14
  <2> QED BY <1>12, <1>14, <2>1, ConcatFacts
<1>16. \A x : x \in Elements(s \o H) <=> x \in Elements(s) \/ x \in Elements(H)
  BY <1>12, <1>14, ConcatMembers
<1>17. s \o H \in Seq(Elements(s \o H))
  BY <1>15, OwnElements
<1>18. \A x \in Elements(s \o H) : x.name \in FileNames(c) /\ x.terms \in Nat
  BY <1>13, <1>14, <1>16 DEF FileNames
<1>19. (\E x \in Elements(s \o H) : x.name = LmHead) <=> Has(file, <<"output", -1>>)
  <2>1. ASSUME NEW x \in Elements(s \o H), x.name = LmHead PROVE H = <<l>>
    <3>1. x \in Elements(H)
      BY <1>13, <1>16, <2>1
    <3> QED BY <1>3, <3>1 DEF Elements
  <2>2. ASSUME H = <<l>> PROVE l \in Elements(s \o H) /\ l.name = LmHead
    BY <1>5, <1>14, <1>16, <2>2
  <2> QED BY <1>4, <2>1, <2>2
<1>20. \A x : x \in Elements(s \o H) /\ x.name # LmHead <=>
          \E i \in 1 .. n : x \in Elements(BlockLayers(file, i - 1))
  <2>1. \A i \in 1 .. n : ss[i] = BlockLayers(file, i - 1)
    BY DEF ss
  <2> QED BY <1>12, <1>13, <1>14, <1>16, <2>1
<1> QED
  BY <1>2, <1>15, <1>17, <1>18, <1>19, <1>20 DEF file, n

-----------------------------------------------------------------------------
(* A model and its shards.                                                 *)

\* The list of layers a device reads from a directory, and what a worker keeps.
WholeList(dir) ==
    IF dir.format = "gguf" THEN GgufLayers(dir.file)
    ELSE ReadLayers(dir.file, Names(dir.ckpt) \cup {LmHead})

PartList(dir, kept) ==
    IF dir.format = "gguf"
    THEN Where(GgufLayers(dir.file), LAMBDA l : l.name \in kept)
    ELSE ReadLayers(dir.file, kept)

\* A directory is the one of its checkpoint.
LEMMA DirectoryFacts ==
  ASSUME NEW c, NEW f
  PROVE  /\ Directory(<<c, f>>).ckpt = c
         /\ f = "als" => /\ Directory(<<c, f>>).format = "als"
                         /\ Directory(<<c, f>>).file = Decomposed(c)
         /\ f # "als" => /\ Directory(<<c, f>>).format = "gguf"
                         /\ Directory(<<c, f>>).file = GgufOf(c, Styles[f])
                         /\ Directory(<<c, f>>).loads = GgufLoads(GgufOf(c, Styles[f]))
<1>1. <<c, f>>[1] = c /\ <<c, f>>[2] = f
  OBVIOUS
<1>2. CASE f = "als"
  <2>1. Directory(<<c, f>>) = AlsDirectory(c)
    BY <1>1, <1>2 DEF Directory
  <2> QED BY <1>2, <2>1 DEF AlsDirectory
<1>3. CASE f # "als"
  <2>1. Directory(<<c, f>>) = GgufDirectory(c, Styles[f])
    BY <1>1, <1>3 DEF Directory
  <2> QED BY <1>3, <2>1 DEF GgufDirectory
<1> QED
  BY <1>2, <1>3

\* A worker's list is the part of the device's that it keeps, and in each
\* list a name stands once.
LEMMA ListFacts ==
  ASSUME NEW c \in Checkpoint, NEW f, Directory(<<c, f>>).loads,
         NEW kept, kept \subseteq FileNames(c)
  PROVE  LET dir == Directory(<<c, f>>)
         IN  /\ WholeList(dir) \in Seq(Elements(WholeList(dir)))
             /\ Once(WholeList(dir))
             /\ \A x \in Elements(WholeList(dir)) : x.name \in FileNames(c)
             /\ PartList(dir, kept) \in Seq(Elements(PartList(dir, kept)))
             /\ Once(PartList(dir, kept))
             /\ \A x : x \in Elements(PartList(dir, kept)) <=>
                          x \in Elements(WholeList(dir)) /\ x.name \in kept
<1> DEFINE dir == Directory(<<c, f>>)
           W == WholeList(dir)
           P == PartList(dir, kept)
<1>1. CASE f = "als"
  <2> DEFINE file == Decomposed(c)
             T == FileRecords(c)
             R == {Parsed(r) : r \in T}
             all == FileNames(c)
  <2>1. dir.format = "als" /\ dir.ckpt = c /\ dir.file = file
    BY <1>1, DirectoryFacts
  <2>2. W = ReadLayers(file, all) /\ P = ReadLayers(file, kept)
    BY <2>1 DEF WholeList, PartList, FileNames
  <2>3. file \in Seq(T) /\ Once(file)
    BY DecomposedOf
  <2>4. \A k \in 1 .. Len(file) : file[k].name \in all
    <3>1. \A k \in 1 .. Len(file) : file[k] \in T
      BY <2>3, ListElements
    <3>2. \A r \in T : r.name \in all
      BY NameFacts DEF FileRecords
    <3> QED BY <3>1, <3>2
  <2> HIDE DEF file, T, R, all
  <2>0. ASSUME NEW any
        PROVE  /\ ReadLayers(file, any) \in Seq(R) /\ Once(ReadLayers(file, any))
               /\ \A x : x \in Elements(ReadLayers(file, any)) <=>
                     \E k \in 1 .. Len(file) :
                        k <= LastFound(file) /\ file[k].name \in any /\ x = Parsed(file[k])
    <3>1. ReadLayers(file, any) \in Seq({Parsed(r) : r \in T})
      BY <2>3, ReadFacts
    <3>2. Once(ReadLayers(file, any))
      BY <2>3, ReadFacts
    <3>3. \A x : x \in Elements(ReadLayers(file, any)) <=> Reads(x, file, any)
      BY <2>3, ReadFacts
    <3> QED BY <3>1, <3>2, <3>3 DEF R, Reads
  <2>5. /\ ReadLayers(file, all) \in Seq(R) /\ Once(ReadLayers(file, all))
        /\ \A x : x \in Elements(ReadLayers(file, all)) <=>
              \E k \in 1 .. Len(file) :
                 k <= LastFound(file) /\ file[k].name \in all /\ x = Parsed(file[k])
    BY <2>0
  <2>6. /\ ReadLayers(file, kept) \in Seq(R) /\ Once(ReadLayers(file, kept))
        /\ \A x : x \in Elements(ReadLayers(file, kept)) <=>
              \E k \in 1 .. Len(file) :
                 k <= LastFound(file) /\ file[k].name \in kept /\ x = Parsed(file[k])
    BY <2>0
  <2> HIDE DEF W, P
  <2>7. W \in Seq(Elements(W)) /\ P \in Seq(Elements(P)) /\ Once(W) /\ Once(P)
    BY <2>2, <2>5, <2>6, OwnElements
  <2>8. \A x \in Elements(W) : x.name \in FileNames(c)
    <3> SUFFICES ASSUME NEW x \in Elements(W) PROVE x.name \in all
      BY DEF all
    <3>1. PICK k \in 1 .. Len(file) : x = Parsed(file[k])
      BY <2>2, <2>5
    <3>2. x.name = file[k].name
      BY <3>1, ParsedFacts
    <3> QED BY <2>4, <3>2
  <2>9. ASSUME NEW x
        PROVE  x \in Elements(P) <=> x \in Elements(W) /\ x.name \in kept
    <3>1. ASSUME NEW k \in 1 .. Len(file) PROVE Parsed(file[k]).name = file[k].name
      BY ParsedFacts
    <3>2. ASSUME x \in Elements(P) PROVE x \in Elements(W) /\ x.name \in kept
      <4>1. PICK k \in 1 .. Len(file) :
               k <= LastFound(file) /\ file[k].name \in kept /\ x = Parsed(file[k])
        BY <2>2, <2>6, <3>2
      <4> QED BY <2>2, <2>4, <2>5, <3>1, <4>1
    <3>3. ASSUME x \in Elements(W), x.name \in kept PROVE x \in Elements(P)
      <4>1. PICK k \in 1 .. Len(file) :
               k <= LastFound(file) /\ file[k].name \in all /\ x = Parsed(file[k])
        BY <2>2, <2>5, <3>3
      <4> QED BY <2>2, <2>6, <3>1, <3>3, <4>1
    <3> QED BY <3>2, <3>3
  <2> QED BY <2>7, <2>8, <2>9 DEF W, P
<1>2. CASE f # "als"
  <2> DEFINE file == GgufOf(c, Styles[f])
             L == GgufLayers(file)
             E == Elements(L)
             places == {k \in DOMAIN L : L[k].name \in kept}
  <2>1. dir.format = "gguf" /\ dir.ckpt = c /\ dir.file = file /\ GgufLoads(file)
    BY <1>2, DirectoryFacts
  <2>2. W = L
    BY <2>1 DEF WholeList
  <2>3. P = Picked(L, places)
    BY <2>1 DEF PartList, Where
  <2>4. /\ L \in Seq(E) /\ Once(L)
        /\ \A x \in E : x.name \in FileNames(c)
    BY <2>1, GgufLayersOf
  <2>5. /\ Len(L) \in Nat /\ DOMAIN L = 1 .. Len(L)
        /\ \A x : x \in Elements(L) <=> \E k \in 1 .. Len(L) : x = L[k]
    <3> HIDE DEF L, E
    <3> QED BY <2>4, ListElements
  <2>6. \A k \in 1 .. Len(L) : k \in places <=> L[k].name \in kept
    BY <2>5
  <2> HIDE DEF places, L, W, P, file
  <2>7. /\ P \in Seq(E) /\ Once(P)
        /\ \A x : x \in Elements(P) <=> \E k \in 1 .. Len(L) : k \in places /\ x = L[k]
    <3> HIDE DEF E
    <3> QED BY <2>3, <2>4, PickedFacts
  <2>8. P \in Seq(Elements(P))
    <3> HIDE DEF E
    <3> QED BY <2>7, OwnElements
  <2>9. \A x : x \in Elements(P) <=> x \in Elements(W) /\ x.name \in kept
    BY <2>2, <2>5, <2>6, <2>7
  <2> QED BY <2>2, <2>4, <2>7, <2>8, <2>9 DEF W, P
<1> QED
  BY <1>1, <1>2

\* A shard has what the device has of the names it keeps.
LEMMA ShardHolds ==
  ASSUME NEW c \in Checkpoint, NEW f, Directory(<<c, f>>).loads,
         NEW kept, kept \subseteq FileNames(c)
  PROVE  LET dir == Directory(<<c, f>>)
             device == Model(dir, WholeList(dir))
             shard == Model(dir, PartList(dir, kept))
         IN  /\ \A x : x \in Having(shard) <=> x \in Having(device) /\ x \in kept
             /\ \A x : x \in LayerNames(shard) <=> x \in LayerNames(device) /\ x \in kept
             /\ \A x \in Having(device) : x \in FileNames(c)
             /\ Len(shard.layers) = Cardinality(LayerNames(shard))
<1> DEFINE dir == Directory(<<c, f>>)
           W == WholeList(dir)
           P == PartList(dir, kept)
           TW == Elements(W)
           TP == Elements(P)
<1>1. /\ W \in Seq(TW) /\ P \in Seq(TP) /\ Once(P)
      /\ \A x \in Elements(W) : x.name \in FileNames(c)
      /\ \A x : x \in Elements(P) <=> x \in Elements(W) /\ x.name \in kept
  BY ListFacts
<1> HIDE DEF W, P, TW, TP, dir
<1>2. /\ \A x : x \in LayerNames(Model(dir, W)) <=>
            \E l \in Elements(W) : l.name[1] \notin {"q_norm", "k_norm"} /\ x = l.name
      /\ \A x : x \in Having(Model(dir, W)) <=> \E l \in Elements(W) : Named(l) /\ x = l.name
  BY <1>1, ModelFacts DEF Having
<1>3. /\ \A x : x \in LayerNames(Model(dir, P)) <=>
            \E l \in Elements(P) : l.name[1] \notin {"q_norm", "k_norm"} /\ x = l.name
      /\ \A x : x \in Having(Model(dir, P)) <=> \E l \in Elements(P) : Named(l) /\ x = l.name
      /\ Len(Model(dir, P).layers) = Cardinality(LayerNames(Model(dir, P)))
  BY <1>1, ModelFacts DEF Having
<1>4. \A x : x \in Having(Model(dir, P)) <=> x \in Having(Model(dir, W)) /\ x \in kept
  BY <1>1, <1>2, <1>3
<1>5. \A x : x \in LayerNames(Model(dir, P)) <=> x \in LayerNames(Model(dir, W)) /\ x \in kept
  BY <1>1, <1>2, <1>3
<1>6. \A x \in Having(Model(dir, W)) : x \in FileNames(c)
  BY <1>1, <1>2
<1> QED
  BY <1>3, <1>4, <1>5, <1>6 DEF W, P, dir

-----------------------------------------------------------------------------
(* What the workers of a cluster have loaded.                              *)

\* The directory of a deployment and the model a device has of it.
LEMMA Here ==
  ASSUME job \in Deployments
  PROVE  /\ job.ckpt \in Checkpoint
         /\ Dir = Directory(<<job.ckpt, job.format>>)
         /\ DeviceModel = IF DeviceThrows(Dir) THEN None ELSE Model(Dir, WholeList(Dir))
         /\ Source \in Sources
<1>1. Source \in Sources
  BY DEF Source, Sources
<1>2. Dir = Directory(<<job.ckpt, job.format>>)
  BY <1>1 DEF Dir, Directories, Source
<1>3. DeviceModel = IF DeviceThrows(Dir) THEN None ELSE load_model_from(Dir)
  BY <1>1 DEF DeviceModel, Models, Dir
<1>4. load_model_from(Dir) = Model(Dir, WholeList(Dir))
  BY DEF load_model_from, WholeList
<1>5. job.ckpt \in Checkpoint
  BY DeploymentAssumption
<1> QED
  BY <1>1, <1>2, <1>3, <1>4, <1>5

\* A worker that has a shard of this model got it from a load that did not throw.
LoadInv ==
    \A i \in Nodes : Holds(i) /\ workers[i].here => ~ShardThrows(Dir, workers[i].spec)

\* Whether a load throws depends on the range and on the flags.
LEMMA SameThrows ==
  ASSUME NEW dir, NEW a, NEW b, a.start_layer = b.start_layer,
         a.end_layer = b.end_layer, a.is_first <=> b.is_first, a.is_last <=> b.is_last
  PROVE  ShardThrows(dir, a) <=> ShardThrows(dir, b)
<1>1. Kept(dir.ckpt, a) = Kept(dir.ckpt, b)
  BY DEF Kept
<1> QED
  BY <1>1 DEF ShardThrows

\* What a worker holds after a load that did not throw.
LEMMA LoadedLoads ==
  ASSUME job \in Deployments, NEW spec \in Shard, NEW s, NEW e,
         spec.start_layer = s, spec.end_layer = e,
         ~ShardThrows(Dir, SpecOf(s, e, job.ckpt))
  PROVE  ~ShardThrows(Dir, Loaded(spec, TRUE).spec)
<1> DEFINE a == SpecOf(s, e, job.ckpt)
           b == OwnSpec(job.ckpt, spec)
<1>1. /\ a.start_layer = s /\ a.end_layer = e
      /\ a.is_first <=> s = 0
      /\ a.is_last <=> e = job.ckpt.layers
  BY DEF SpecOf
<1>2. /\ b.start_layer = s /\ b.end_layer = e
      /\ b.is_first <=> s = 0
      /\ b.is_last <=> e = job.ckpt.layers
  BY OwnSpecFacts
<1>3. Loaded(spec, TRUE).spec = b
  BY DEF Loaded, CkptOf
<1> HIDE DEF b
<1>4. ShardThrows(Dir, a) <=> ShardThrows(Dir, b)
  <2> HIDE DEF a
  <2> QED BY <1>1, <1>2, SameThrows
<1> QED
  BY <1>3, <1>4

\* Every step keeps it: the workers change when one is started, loads or dies.
LEMMA LoadStep == DeployInv /\ LoadInv /\ [DeployNext]_deployVars => LoadInv'
<1> SUFFICES ASSUME DeployInv, LoadInv, [DeployNext]_deployVars PROVE LoadInv'
  OBVIOUS
<1>1. job \in Deployments
  BY DEF DeployInv, PlanInv
<1>2. job' = job
  BY DEF DeployNext, Steps, Stage, Convert, MoteBuild, ByHand, CoordinatorStarts,
         DaemonPlans, DaemonSpawns, Health, NoConfig, Adopt, NoPlan, Planning,
         PlanFails, Planned, Push, Serve, WorkerDies, deployVars
<1>3. Dir' = Dir
  BY <1>2 DEF Dir, Source
<1>4. ASSUME NEW i \in Nodes, NEW w, workers' = [workers EXCEPT ![i] = w],
             w = Dead \/ (w.here => ~ShardThrows(Dir, w.spec))
      PROVE  LoadInv'
  <2>1. \A j \in Nodes : workers'[j] = IF j = i THEN w ELSE workers[j]
    BY <1>4 DEF DeployInv, DeployTypeOK
  <2> QED BY <1>3, <1>4, <2>1 DEF LoadInv, Holds
<1>5. CASE ByHand
  <2>1. PICK i \in Nodes, here \in BOOLEAN : \E held \in Held[i] :
            /\ Preloads(held[1], held[2], here)
            /\ workers' = [workers EXCEPT ![i] =
                  Loaded(SpecOf(held[1], held[2], CkptOf(here)), here)]
    BY <1>5 DEF ByHand
  <2>2. PICK held \in Held[i] :
            /\ Preloads(held[1], held[2], here)
            /\ workers' = [workers EXCEPT ![i] =
                  Loaded(SpecOf(held[1], held[2], CkptOf(here)), here)]
    BY <2>1
  <2> DEFINE spec == SpecOf(held[1], held[2], CkptOf(here))
             w == Loaded(spec, here)
  <2>3. spec \in Shard /\ spec.start_layer = held[1] /\ spec.end_layer = held[2]
    <3>1. Held[i] \in SUBSET (Nat \X Nat)
      BY DeploymentAssumption
    <3>2. held[1] \in Nat /\ held[2] \in Nat
      BY <3>1
    <3> QED BY <3>2 DEF SpecOf, Shard
  <2>4. w.here = here
    BY DEF Loaded
  <2>5. ASSUME here PROVE ~ShardThrows(Dir, w.spec)
    <3>1. here = TRUE
      BY <2>5
    <3>2. ~ShardThrows(Dir, SpecOf(held[1], held[2], job.ckpt))
      BY <2>2, <3>1 DEF Preloads, CkptOf
    <3> HIDE DEF spec
    <3> QED BY <1>1, <2>3, <3>1, <3>2, LoadedLoads
  <2>6. workers' = [workers EXCEPT ![i] = w]
    BY <2>2
  <2> HIDE DEF w
  <2> QED BY <1>4, <2>4, <2>5, <2>6
<1>6. CASE DaemonSpawns
  <2>1. PICK i \in Nodes :
           \/ /\ Preloads(shards[i].start_layer, shards[i].end_layer, TRUE)
              /\ workers' = [workers EXCEPT ![i] = Loaded(shards[i], TRUE)]
           \/ UNCHANGED workers
    BY <1>6 DEF DaemonSpawns
  <2>2. CASE UNCHANGED workers
    BY <1>3, <2>2 DEF LoadInv, Holds
  <2>3. CASE /\ Preloads(shards[i].start_layer, shards[i].end_layer, TRUE)
             /\ workers' = [workers EXCEPT ![i] = Loaded(shards[i], TRUE)]
    <3> DEFINE w == Loaded(shards[i], TRUE)
               s == shards[i].start_layer
               e == shards[i].end_layer
    <3>1. shards[i] \in Shard
      <4>1. phase = "planned"
        BY <1>6 DEF DaemonSpawns
      <4> QED BY <4>1, PlannedShards DEF DeployInv
    <3>2. ~ShardThrows(Dir, SpecOf(s, e, job.ckpt))
      BY <2>3 DEF Preloads, CkptOf
    <3>3. ~ShardThrows(Dir, w.spec)
      <4> HIDE DEF s, e
      <4>1. shards[i].start_layer = s /\ shards[i].end_layer = e
        BY DEF s, e
      <4> QED BY <1>1, <3>1, <3>2, <4>1, LoadedLoads
    <3>4. workers' = [workers EXCEPT ![i] = w]
      BY <2>3
    <3> HIDE DEF w
    <3> QED BY <1>4, <3>3, <3>4
  <2> QED BY <2>1, <2>2, <2>3
<1>7. CASE Push
  <2> DEFINE i == pushed + 1
             w == Loaded(plan[i], TRUE)
  <2>1. \/ /\ ~ShardThrows(Dir, plan[i])
           /\ workers' = [workers EXCEPT ![i] = w]
        \/ UNCHANGED workers
    BY <1>7 DEF Push
  <2>2. CASE UNCHANGED workers
    BY <1>3, <2>2 DEF LoadInv, Holds
  <2>3. CASE ~ShardThrows(Dir, plan[i]) /\ workers' = [workers EXCEPT ![i] = w]
    <3>1. stage = "push" /\ pushed < N
      BY <1>7 DEF Push, Stage
    <3>2. phase = "planned" /\ plan = shards /\ i \in Nodes
      BY <3>1, NodeCount DEF DeployInv, DeployTypeOK, PushInv, Nodes
    <3> HIDE DEF i
    <3>3. plan[i] \in Shard /\ OwnSpec(job.ckpt, plan[i]) = plan[i]
      BY <3>2, PlannedShards DEF DeployInv
    <3>4. w.spec = plan[i]
      BY <3>3 DEF Loaded, CkptOf
    <3> HIDE DEF w
    <3> QED BY <1>4, <2>3, <3>2, <3>4
  <2> QED BY <2>1, <2>2, <2>3
<1>8. CASE WorkerDies
  <2>1. PICK i \in Nodes : workers' = [workers EXCEPT ![i] = Dead]
    BY <1>8 DEF WorkerDies
  <2> QED BY <1>4, <2>1
<1>9. CASE [DeployNext]_deployVars /\ ~ByHand /\ ~DaemonSpawns /\ ~Push /\ ~WorkerDies
  <2>1. UNCHANGED workers
    BY <1>9 DEF DeployNext, Steps, Stage, Convert, MoteBuild, CoordinatorStarts,
           DaemonPlans, Health, NoConfig, Adopt, NoPlan, Planning, worldVars,
           PlanFails, Planned, Serve, deployVars
  <2> QED BY <1>3, <2>1 DEF LoadInv, Holds
<1> QED
  BY <1>5, <1>6, <1>7, <1>8, <1>9

\* Both invariants hold in every state.
LEMMA LoadInvariant == DeploySpec => [](DeployInv /\ LoadInv)
<1>1. DeployInit => LoadInv
  BY DEF DeployInit, LoadInv, Holds
<1> QED
  BY <1>1, InitDeploy, DeployStep, LoadStep, PTL DEF DeploySpec

-----------------------------------------------------------------------------
(* The shards of a plan.                                                   *)

\* The ranges of a pipeline hold every layer of the model, and each once.
LEMMA RangesCover ==
  ASSUME NEW f \in [Nodes -> Shard],
         f[1].start_layer = 0,
         \A i \in Nodes : f[i].start_layer < f[i].end_layer,
         \A i \in Nodes : i # 1 => f[i].start_layer = f[i - 1].end_layer
  PROVE  /\ \A l \in 0 .. f[N].end_layer - 1 :
               \E i \in Nodes : f[i].start_layer <= l /\ l < f[i].end_layer
         /\ \A i, j \in Nodes : i < j => f[i].end_layer <= f[j].start_layer
         /\ \A i \in Nodes : f[i].end_layer <= f[N].end_layer
<1> DEFINE S(i) == f[i].start_layer
           E(i) == f[i].end_layer
<1>1. \A i \in Nodes : S(i) \in Nat /\ E(i) \in Nat /\ S(i) < E(i)
  BY DEF Shard
<1>2. \A i \in Nodes : i # 1 => S(i) = E(i - 1) /\ i - 1 \in Nodes
  BY NodeCount DEF Nodes
<1>3. S(1) = 0 /\ N \in Nodes
  BY NodeCount DEF Nodes
<1> HIDE DEF S, E
<1>4. \A i, j \in Nodes : i < j => E(i) <= S(j)
  <2> DEFINE P == {k \in 0 .. N : \A i, j \in Nodes : i < j /\ j <= k => E(i) <= S(j)}
  <2>1. 0 \in P
    BY NodeCount DEF Nodes
  <2>2. ASSUME NEW k \in 1 .. N, k - 1 \in P PROVE k \in P
    <3>1. ASSUME NEW i \in Nodes, NEW j \in Nodes, i < j, j <= k PROVE E(i) <= S(j)
      <4>1. CASE j <= k - 1
        BY <2>2, <3>1, <4>1
      <4>2. CASE j = k
        <5>1. k # 1 /\ k - 1 \in Nodes /\ S(k) = E(k - 1) /\ i <= k - 1
          BY <1>2, <3>1, <4>2 DEF Nodes
        <5>2. i = k - 1 \/ i < k - 1
          BY <5>1 DEF Nodes
        <5>3. ASSUME i < k - 1 PROVE E(i) <= S(k - 1) /\ S(k - 1) < E(k - 1)
          <6>1. k - 1 <= k - 1
            OBVIOUS
          <6> QED BY <1>1, <2>2, <5>1, <5>3, <6>1
        <5>4. E(i) \in Nat /\ E(k - 1) \in Nat /\ S(k - 1) \in Nat
          BY <1>1, <5>1
        <5> QED BY <4>2, <5>1, <5>2, <5>3, <5>4
      <4> QED BY <3>1, <4>1, <4>2 DEF Nodes
    <3> QED BY <3>1
  <2>3. N \in P
    <3> HIDE DEF P
    <3>1. 0 .. N \subseteq P
      BY <2>1, <2>2, NodeCount, PrefixInduction
    <3> QED BY <3>1, NodeCount
  <2>4. \A j \in Nodes : j <= N
    BY DEF Nodes
  <2> QED BY <2>3, <2>4
<1>5. ASSUME NEW l \in 0 .. E(N) - 1 PROVE \E i \in Nodes : S(i) <= l /\ l < E(i)
  <2> DEFINE T == {i \in Nodes : l < E(i)}
  <2>1. T \subseteq Nat /\ N \in T
    BY <1>1, <1>3 DEF Nodes
  <2>2. PICK m \in T : \A k \in T : m <= k
    <3> HIDE DEF T
    <3> QED BY <2>1, NatMinimum
  <2>3. S(m) <= l
    <3>1. CASE m = 1
      BY <1>3, <3>1
    <3>2. CASE m # 1
      <4>1. m - 1 \in Nodes /\ S(m) = E(m - 1) /\ ~(m <= m - 1)
        BY <1>2, <3>2 DEF Nodes
      <4>2. ~(l < E(m - 1))
        BY <2>2, <4>1
      <4> QED BY <1>1, <4>1, <4>2
    <3> QED BY <3>1, <3>2
  <2> QED BY <2>3
<1>6. ASSUME NEW i \in Nodes PROVE E(i) <= E(N)
  <2>1. i = N \/ i < N
    BY NodeCount DEF Nodes
  <2> QED BY <1>1, <1>3, <1>4, <2>1
<1> QED
  BY <1>4, <1>5, <1>6 DEF S, E

\* In a cluster that serves and whose workers all loaded this model, the names
\* the workers keep are those of the model, each kept by one worker; and a
\* device would load the model as well.
LEMMA KeptByOne ==
  ASSUME DeployInv, LoadInv, stage = "serving", AllHere
  PROVE  LET c == job.ckpt
         IN  /\ \A i \in Nodes : Kept(c, plan[i]) \subseteq FileNames(c)
             /\ \A x \in FileNames(c) : \E i \in Nodes : x \in Kept(c, plan[i])
             /\ \A i, j \in Nodes : \A x : x \in Kept(c, plan[i]) /\ x \in Kept(c, plan[j]) => i = j
             /\ Dir.loads /\ DeviceModel = Model(Dir, WholeList(Dir))
             /\ \A i \in Nodes : /\ plan[i] \in Shard
                                 /\ plan[i].start_layer < plan[i].end_layer
                                 /\ plan[i].end_layer <= c.layers
                                 /\ plan[i].is_first <=> i = 1
                                 /\ plan[i].is_last <=> i = N
                                 /\ plan[i].start_layer = 0 <=> i = 1
                                 /\ plan[i].end_layer = c.layers => i = N
             /\ plan[N].end_layer = c.layers
<1> DEFINE c == job.ckpt
<1>1. /\ job \in Deployments /\ c \in Checkpoint
      /\ Dir = Directory(<<c, job.format>>)
      /\ DeviceModel = IF DeviceThrows(Dir) THEN None ELSE Model(Dir, WholeList(Dir))
  BY Here DEF DeployInv, PlanInv
<1>2. /\ plan \in Seq(Shard) /\ Len(plan) = N
      /\ plan[1].start_layer = 0 /\ plan[N].end_layer = c.layers
      /\ \A i \in 1 .. N - 1 : plan[i].end_layer = plan[i + 1].start_layer
      /\ \A i \in Alive : workers[i] # None /\ workers[i].spec = plan[i]
      /\ \A i \in Nodes : /\ plan[i].is_first <=> i = 1
                          /\ plan[i].is_last <=> i = N
  BY DEF DeployInv, DeployTypeOK, ServingIsPipeline
<1>3. plan \in [Nodes -> Shard]
  BY <1>2, LenProperties DEF Nodes
<1>4. \A i \in Nodes : /\ Holds(i) /\ workers[i].here /\ workers[i].spec = plan[i]
                       /\ plan[i].start_layer < plan[i].end_layer
                       /\ ~ShardThrows(Dir, plan[i])
  BY <1>2 DEF AllHere, Alive, Holds, DeployInv, HeldInv, LoadInv
<1>5. \A i \in Nodes : i # 1 => plan[i].start_layer = plan[i - 1].end_layer
  <2> SUFFICES ASSUME NEW i \in Nodes, i # 1 PROVE plan[i].start_layer = plan[i - 1].end_layer
    OBVIOUS
  <2>1. i - 1 \in 1 .. N - 1 /\ (i - 1) + 1 = i
    BY NodeCount DEF Nodes
  <2> QED BY <1>2, <2>1
<1>6. /\ \A l \in 0 .. plan[N].end_layer - 1 :
            \E i \in Nodes : plan[i].start_layer <= l /\ l < plan[i].end_layer
      /\ \A i, j \in Nodes : i < j => plan[i].end_layer <= plan[j].start_layer
      /\ \A i \in Nodes : plan[i].end_layer <= plan[N].end_layer
  BY <1>2, <1>3, <1>4, <1>5, RangesCover
<1>7. \A i \in Nodes : plan[i].start_layer = 0 <=> i = 1
  BY <1>2, <1>3, <1>4, <1>5, Chains
<1>8. \A i \in Nodes : /\ plan[i] \in Shard
                       /\ plan[i].start_layer \in Nat /\ plan[i].end_layer \in Nat
  BY <1>3 DEF Shard
<1>9. /\ \A n \in Names(c) : n[2] \in 0 .. c.layers - 1 /\ n # LmHead
      /\ c.layers \in Nat
  BY <1>1, NameFacts
<1>10. ASSUME NEW i \in Nodes, NEW x
       PROVE  x \in Kept(c, plan[i]) <=>
                 \/ x \in Names(c) /\ plan[i].start_layer <= x[2] /\ x[2] < plan[i].end_layer
                 \/ i = N /\ x = LmHead
  BY <1>2 DEF Kept, Slice
<1>11. \A i \in Nodes : Kept(c, plan[i]) \subseteq FileNames(c)
  BY <1>10 DEF FileNames
<1>12. ASSUME NEW x \in FileNames(c) PROVE \E i \in Nodes : x \in Kept(c, plan[i])
  <2>1. CASE x \in Names(c)
    <3>1. PICK i \in Nodes : plan[i].start_layer <= x[2] /\ x[2] < plan[i].end_layer
      BY <1>2, <1>6, <1>9, <2>1
    <3> QED BY <1>10, <2>1, <3>1
  <2>2. CASE x = LmHead
    <3>1. N \in Nodes
      BY NodeCount DEF Nodes
    <3> QED BY <1>10, <2>2, <3>1
  <2> QED BY <2>1, <2>2 DEF FileNames
<1>13. ASSUME NEW i \in Nodes, NEW j \in Nodes, NEW x,
              x \in Kept(c, plan[i]), x \in Kept(c, plan[j])
       PROVE  i = j
  <2>1. CASE x = LmHead
    BY <1>9, <1>10, <1>13, <2>1
  <2>2. CASE x # LmHead
    <3>1. /\ x[2] \in 0 .. c.layers - 1
          /\ plan[i].start_layer <= x[2] /\ x[2] < plan[i].end_layer
          /\ plan[j].start_layer <= x[2] /\ x[2] < plan[j].end_layer
      BY <1>9, <1>10, <1>13, <2>2
    <3>2. /\ plan[i].start_layer \in Nat /\ plan[i].end_layer \in Nat
          /\ plan[j].start_layer \in Nat /\ plan[j].end_layer \in Nat
      BY <1>8
    <3>3. ~(i < j) /\ ~(j < i)
      BY <1>6, <1>9, <3>1, <3>2
    <3> QED BY <3>3 DEF Nodes
  <2> QED BY <2>1, <2>2
<1>14. ~DeviceThrows(Dir) /\ Dir.loads
  <2>1. 1 \in Nodes
    BY NodeCount DEF Nodes
  <2>2. Dir.loads
    BY <1>4, <2>1 DEF ShardThrows
  <2>3. ASSUME Dir.format = "als", ReadThrows(Dir.file, Names(Dir.ckpt) \cup {LmHead})
        PROVE  FALSE
    <3>1. Dir.ckpt = c
      BY <1>1, DirectoryFacts
    <3>2. PICK k \in 1 .. LastFound(Dir.file) :
             /\ Dir.file[k].terms > 32 /\ ~IsOldLayout(Dir.file[k])
             /\ Dir.file[k].name \in FileNames(c)
      BY <2>3, <3>1 DEF ReadThrows, FileNames
    <3>3. PICK i \in Nodes : Dir.file[k].name \in Kept(c, plan[i])
      BY <1>12, <3>2
    <3>4. ReadThrows(Dir.file, Kept(Dir.ckpt, plan[i]))
      BY <3>1, <3>2, <3>3 DEF ReadThrows
    <3> QED BY <1>4, <2>3, <3>4 DEF ShardThrows
  <2>4. Dir.format = "als" => ~EmbeddingThrows(Dir.ckpt)
    BY <1>2, <1>4, <2>1 DEF ShardThrows
  <2> QED BY <2>2, <2>3, <2>4 DEF DeviceThrows
<1>15. DeviceModel = Model(Dir, WholeList(Dir))
  BY <1>1, <1>14
<1>16. ASSUME NEW i \in Nodes, plan[i].end_layer = c.layers PROVE i = N
  <2>1. N \in Nodes /\ (i = N \/ i < N)
    BY NodeCount DEF Nodes
  <2>2. i < N => plan[i].end_layer <= plan[N].start_layer
    BY <1>6, <2>1
  <2>3. plan[N].start_layer < plan[N].end_layer /\ plan[N].end_layer = plan[i].end_layer
    BY <1>2, <1>4, <1>16, <2>1
  <2>4. plan[N].start_layer \in Nat /\ plan[N].end_layer \in Nat
    BY <1>8, <2>1
  <2> QED BY <2>1, <2>2, <2>3, <2>4
<1> QED
  BY <1>2, <1>4, <1>6, <1>7, <1>8, <1>11, <1>12, <1>13, <1>14, <1>15, <1>16

\* The model of a worker's shard is the one of the names it keeps, with the
\* embedding and the final norm when the flags it was given ask for them.
LEMMA ShardModelIs ==
  ASSUME job \in Deployments, NEW i \in Nodes
  PROVE  LET own == ShardModel(i)
             whole == Model(Dir, PartList(Dir, Kept(job.ckpt, plan[i])))
         IN  /\ own.layers = whole.layers /\ own.norms = whole.norms
             /\ own.headDim = whole.headDim
             /\ LayerNames(own) = LayerNames(whole)
             /\ plan[i].is_first => own.embedding = "weights"
             /\ plan[i].is_last => own.finalNorm = FinalNorm(Dir)
<1> DEFINE own == ShardModel(i)
           whole == Model(Dir, PartList(Dir, Kept(job.ckpt, plan[i])))
           first == Embeds(Dir, plan[i])
           last == Normalizes(Dir, plan[i])
<1>1. Dir.ckpt = job.ckpt
  BY Here, DirectoryFacts
<1>2. own = [whole EXCEPT
                !.embedding = IF first THEN @ ELSE "none",
                !.finalNorm = IF last THEN @ ELSE "none"]
  BY <1>1 DEF ShardModel, load_model_shard, PartList
<1>3. /\ own.layers = whole.layers /\ own.norms = whole.norms
      /\ own.headDim = whole.headDim
      /\ plan[i].is_first => own.embedding = "weights"
      /\ plan[i].is_last => own.finalNorm = FinalNorm(Dir)
  <2>1. (plan[i].is_first => first) /\ (plan[i].is_last => last)
    BY DEF Embeds, Normalizes
  <2> HIDE DEF own, first, last
  <2> QED BY <1>2, <2>1 DEF Model
<1>4. LayerNames(own) = LayerNames(whole)
  <2> HIDE DEF own, whole
  <2> QED BY <1>3 DEF LayerNames
<1> QED
  BY <1>3, <1>4

\* Together the shards of a serving cluster hold the model of one device, and
\* each of its layers and norms is on exactly one worker (load_model_shard,
\* load_model_from): for any number of workers and any model.
THEOREM ShardsTogether == DeploySpec => []ShardsMakeTheModel
<1>1. DeployInv /\ LoadInv => ShardsMakeTheModel
  <2> SUFFICES ASSUME DeployInv, LoadInv, stage = "serving", AllHere
               PROVE  LET has(i) == LayerNames(ShardModel(i)) \cup ShardModel(i).norms
                          all == LayerNames(DeviceModel) \cup DeviceModel.norms
                      IN  /\ UNION {has(i) : i \in Nodes} = all
                          /\ \A i, j \in Nodes : i # j => has(i) \cap has(j) = {}
                          /\ \A i \in Nodes :
                                /\ Len(ShardModel(i).layers)
                                      = Cardinality(LayerNames(ShardModel(i)))
                                /\ plan[i].start_layer = 0 =>
                                      ShardModel(i).embedding = DeviceModel.embedding
                                /\ plan[i].end_layer = job.ckpt.layers =>
                                      ShardModel(i).finalNorm = DeviceModel.finalNorm
    BY DEF ShardsMakeTheModel, Having, NoneTwice
  <2> DEFINE c == job.ckpt
             K(i) == Kept(c, plan[i])
             has(i) == LayerNames(ShardModel(i)) \cup ShardModel(i).norms
             all == LayerNames(DeviceModel) \cup DeviceModel.norms
  <2>1. /\ job \in Deployments /\ c \in Checkpoint
        /\ Dir = Directory(<<c, job.format>>)
    BY Here DEF DeployInv, PlanInv
  <2>2. /\ \A i \in Nodes : K(i) \subseteq FileNames(c)
        /\ \A x \in FileNames(c) : \E i \in Nodes : x \in K(i)
        /\ \A i, j \in Nodes : \A x : x \in K(i) /\ x \in K(j) => i = j
        /\ Dir.loads /\ DeviceModel = Model(Dir, WholeList(Dir))
        /\ \A i \in Nodes : /\ plan[i].start_layer = 0 => plan[i].is_first
                            /\ plan[i].end_layer = c.layers => plan[i].is_last
    BY KeptByOne
  <2>3. ASSUME NEW i \in Nodes
        PROVE  /\ \A x : x \in has(i) <=> x \in all /\ x \in K(i)
               /\ \A x \in all : x \in FileNames(c)
               /\ Len(ShardModel(i).layers) = Cardinality(LayerNames(ShardModel(i)))
    <3> DEFINE kept == Kept(c, plan[i])
               dir == Directory(<<c, job.format>>)
               device == Model(dir, WholeList(dir))
               shard == Model(dir, PartList(dir, kept))
    <3>1. kept \subseteq FileNames(c)
      BY <2>2
    <3>2. /\ ShardModel(i).layers = shard.layers /\ ShardModel(i).norms = shard.norms
          /\ LayerNames(ShardModel(i)) = LayerNames(shard) /\ DeviceModel = device
      BY <2>1, <2>2, ShardModelIs
    <3> HIDE DEF kept
    <3>3. /\ \A x : x \in Having(shard) <=> x \in Having(device) /\ x \in kept
          /\ \A x \in Having(device) : x \in FileNames(c)
          /\ Len(shard.layers) = Cardinality(LayerNames(shard))
      BY <2>1, <2>2, <3>1, ShardHolds
    <3> HIDE DEF shard, device
    <3> QED BY <3>2, <3>3 DEF Having, kept
  <2> HIDE DEF has, all, K
  <2>4. UNION {has(i) : i \in Nodes} = all
    <3>1. \A i \in Nodes : \A x \in has(i) : x \in all
      BY <2>3
    <3>2. ASSUME NEW x \in all PROVE \E i \in Nodes : x \in has(i)
      <4>1. x \in FileNames(c)
        <5>1. 1 \in Nodes
          BY NodeCount DEF Nodes
        <5> QED BY <2>3, <5>1
      <4>2. PICK i \in Nodes : x \in K(i)
        BY <2>2, <4>1
      <4> QED BY <2>3, <4>2
    <3> QED BY <3>1, <3>2
  <2>5. \A i, j \in Nodes : i # j => has(i) \cap has(j) = {}
    BY <2>2, <2>3
  <2>6. ASSUME NEW i \in Nodes
        PROVE  /\ plan[i].start_layer = 0 =>
                     ShardModel(i).embedding = DeviceModel.embedding
               /\ plan[i].end_layer = job.ckpt.layers =>
                     ShardModel(i).finalNorm = DeviceModel.finalNorm
    <3>1. /\ plan[i].is_first => ShardModel(i).embedding = "weights"
          /\ plan[i].is_last => ShardModel(i).finalNorm = FinalNorm(Dir)
      BY <2>1, ShardModelIs
    <3>2. DeviceModel.embedding = "weights" /\ DeviceModel.finalNorm = FinalNorm(Dir)
      BY <2>2 DEF Model
    <3> QED BY <2>2, <3>1, <3>2
  <2> QED BY <2>3, <2>4, <2>5, <2>6 DEF has, all
<1> QED
  BY <1>1, LoadInvariant, PTL

-----------------------------------------------------------------------------
(* The heads: that of the model, and those of its attention.               *)

\* A whole number of heads divided by their number.
LEMMA Heads ==
  ASSUME NEW a \in Nat, a >= 1, NEW d \in Nat
  PROVE  (a * d) \div a = d
OBVIOUS

\* Records of a kind are alike but for their names.
LEMMA Alike ==
  ASSUME NEW c, NEW k, NEW i, NEW j
  PROVE  /\ Loses(Recorded(c, <<k, i>>)) <=> Loses(Recorded(c, <<k, j>>))
         /\ Recorded(c, <<k, i>>).fits = Recorded(c, <<k, j>>).fits
      /\ Recorded(c, <<k, i>>).rows = Shape(c, k)[1]
<1>1. ASSUME NEW n
      PROVE  /\ <<k, n>>[1] = k
             /\ RawRecord(c, <<k, n>>).type = Raw
             /\ RawRecord(c, <<k, n>>).len = RawLen(c, k)
             /\ RawRecord(c, <<k, n>>).fits = RawFits(c, k)
             /\ RawRecord(c, <<k, n>>).rows = Shape(c, k)[1]
             /\ BlocksRecord(c, <<k, n>>).type = Container
             /\ BlocksRecord(c, <<k, n>>).len = BlocksLen(c, Shape(c, k)[1], Shape(c, k)[2])
             /\ BlocksRecord(c, <<k, n>>).fits = TRUE
             /\ BlocksRecord(c, <<k, n>>).rows = Shape(c, k)[1]
  BY DEF RawRecord, BlocksRecord
<1>2. \/ /\ Recorded(c, <<k, i>>) = RawRecord(c, <<k, i>>)
         /\ Recorded(c, <<k, j>>) = RawRecord(c, <<k, j>>)
      \/ /\ Recorded(c, <<k, i>>) = BlocksRecord(c, <<k, i>>)
         /\ Recorded(c, <<k, j>>) = BlocksRecord(c, <<k, j>>)
  BY <1>1 DEF Recorded
<1>3. /\ Recorded(c, <<k, i>>).type = Recorded(c, <<k, j>>).type
      /\ Recorded(c, <<k, i>>).len = Recorded(c, <<k, j>>).len
      /\ Recorded(c, <<k, i>>).fits = Recorded(c, <<k, j>>).fits
      /\ Recorded(c, <<k, i>>).rows = Shape(c, k)[1]
  <2>1. CASE /\ Recorded(c, <<k, i>>) = RawRecord(c, <<k, i>>)
             /\ Recorded(c, <<k, j>>) = RawRecord(c, <<k, j>>)
    BY <1>1, <2>1
  <2>2. CASE /\ Recorded(c, <<k, i>>) = BlocksRecord(c, <<k, i>>)
             /\ Recorded(c, <<k, j>>) = BlocksRecord(c, <<k, j>>)
    BY <1>1, <2>2
  <2> QED BY <1>2, <2>1, <2>2
<1> QED
  BY <1>3 DEF Loses, IsOldLayout, LowBits

\* Every record of a converted file is that of its name.
LEMMA RecordNamed ==
  ASSUME NEW c \in Checkpoint, NEW k \in 1 .. Len(Decomposed(c))
  PROVE  /\ Decomposed(c)[k].name \in FileNames(c)
         /\ Decomposed(c)[k] = Recorded(c, Decomposed(c)[k].name)
<1> DEFINE file == Decomposed(c)
           T == FileRecords(c)
<1>1. file \in Seq(T)
  BY DecomposedOf
<1> HIDE DEF file
<1>2. file[k] \in T
  BY <1>1, ListElements DEF file
<1>3. PICK n \in FileNames(c) : file[k] = Recorded(c, n)
  BY <1>2 DEF FileRecords
<1>4. file[k].name = n
  BY <1>3, NameFacts
<1> QED
  BY <1>3, <1>4 DEF file

\* A device that finds every projection of at least two layers finds the head:
\* a record it gets lost in is in no layer, as the same
\* record stands in the layers before it, and is behind the head.
LEMMA HeadFound ==
  ASSUME NEW c \in Checkpoint, c.layers >= 2,
         \A m \in SubmoduleKinds, i \in 0 .. c.layers - 1 :
            \E x : Reads(x, Decomposed(c), FileNames(c)) /\ x.name = <<m, i>>
  PROVE  \E x : Reads(x, Decomposed(c), FileNames(c)) /\ x.name = LmHead
<1> DEFINE file == Decomposed(c)
           last == LastFound(file)
           b == Len(BlockRecords(c))
           T == FileRecords(c)
<1>1. /\ file \in Seq(T) /\ b \in Nat /\ b + 1 <= Len(file)
      /\ \A k \in 1 .. b : \E m \in SubmoduleKinds, i \in 0 .. c.layers - 1 :
            file[k] = Recorded(c, <<m, i>>)
      /\ file[b + 1] = Recorded(c, LmHead)
  BY DecomposedOf
<1>2. /\ last \in 0 .. Len(file)
      /\ \A k \in 1 .. Len(file) : k < last => ~Loses(file[k])
      /\ \A k \in 1 .. Len(file) : k > last =>
            last \in 1 .. Len(file) /\ Loses(file[last])
  BY <1>1, LastFoundFacts
<1>3. Len(file) \in Nat /\ c.layers \in Nat
  BY <1>1, LenProperties, NameFacts
<1>4. \A k \in 1 .. Len(file) : file[k] = Recorded(c, file[k].name)
  BY RecordNamed
<1>5. \A x : Reads(x, file, FileNames(c)) =>
         \E k \in 1 .. Len(file) : k <= last /\ file[k].name = x.name
  BY ParsedFacts DEF Reads
<1> HIDE DEF file, last, b, T
<1>6. ASSUME last < b + 1 PROVE FALSE
  <2>1. b + 1 \in 1 .. Len(file)
    BY <1>1, <1>3
  <2>2. last \in 1 .. b /\ Loses(file[last])
    BY <1>1, <1>2, <1>6, <2>1
  <2>3. PICK m \in SubmoduleKinds, i \in 0 .. c.layers - 1 : file[last] = Recorded(c, <<m, i>>)
    BY <1>1, <2>2
  <2>4. PICK j \in 0 .. c.layers - 1 : j # i
    <3>1. 0 \in 0 .. c.layers - 1 /\ 1 \in 0 .. c.layers - 1
      BY <1>3
    <3> QED BY <3>1
  <2>5. \E x : Reads(x, file, FileNames(c)) /\ x.name = <<m, j>>
    BY DEF file
  <2>6. PICK q \in 1 .. Len(file) : q <= last /\ file[q].name = <<m, j>>
    BY <1>5, <2>5
  <2>7. file[last].name = <<m, i>>
    BY <2>3, NameFacts
  <2>8. q < last
    BY <1>2, <2>2, <2>4, <2>6, <2>7
  <2>9. Loses(file[q])
    <3>1. file[q] = Recorded(c, <<m, j>>)
      BY <1>4, <2>6
    <3> QED BY <2>2, <2>3, <3>1, Alike
  <2> QED BY <1>2, <2>8, <2>9
<1>7. Reads(Parsed(file[b + 1]), file, FileNames(c)) /\ Parsed(file[b + 1]).name = LmHead
  <2>1. b + 1 \in 1 .. Len(file) /\ b + 1 <= last
    BY <1>1, <1>2, <1>3, <1>6
  <2>2. file[b + 1].name = LmHead /\ LmHead \in FileNames(c)
    BY <1>1, NameFacts DEF FileNames
  <2>3. Parsed(file[b + 1]).name = file[b + 1].name
    BY ParsedFacts
  <2> QED BY <2>1, <2>2, <2>3 DEF Reads, last
<1> QED
  BY <1>7 DEF file

\* Of a converted directory a device reads what it gets to.
LEMMA AlsReads ==
  ASSUME NEW c \in Checkpoint
  PROVE  LET dir == Directory(<<c, "als">>)
         IN  \A x : x \in Elements(WholeList(dir)) <=> Reads(x, Decomposed(c), FileNames(c))
<1> DEFINE dir == Directory(<<c, "als">>)
<1>1. dir.format = "als" /\ dir.ckpt = c /\ dir.file = Decomposed(c)
  BY DirectoryFacts
<1>2. WholeList(dir) = ReadLayers(Decomposed(c), FileNames(c))
  BY <1>1 DEF WholeList, FileNames
<1>3. Decomposed(c) \in Seq(FileRecords(c))
  BY DecomposedOf
<1> HIDE DEF dir
<1>4. \A x : x \in Elements(ReadLayers(Decomposed(c), FileNames(c)))
                <=> Reads(x, Decomposed(c), FileNames(c))
  BY <1>3, ReadFacts
<1> QED
  BY <1>2, <1>4 DEF dir

\* The numbers of a checkpoint that shapes are made of.
LEMMA CheckpointNumbers ==
  ASSUME NEW c \in Checkpoint
  PROVE  c.heads \in Nat \ {0} /\ c.headDim \in Nat /\ c.terms \in Nat
BY DEF Checkpoint

\* The head size is that of the projections for whoever has the first q_proj,
\* and hidden / heads for everyone else.
LEMMA AlsHeadDim ==
  ASSUME NEW c \in Checkpoint, NEW T, NEW list \in Seq(T),
         \A x \in Elements(list) : Reads(x, Decomposed(c), FileNames(c))
  PROVE  LET dir == Directory(<<c, "als">>)
         IN  /\ (\E x \in Elements(list) : x.name = <<"q_proj", 0>>) =>
                   HeadDim(dir, list) = c.headDim
             /\ ~(\E x \in Elements(list) : x.name = <<"q_proj", 0>>) =>
                   HeadDim(dir, list) = ConfigHeadDim(c)
<1> DEFINE dir == Directory(<<c, "als">>)
           q == {k \in DOMAIN list : list[k].name = <<"q_proj", 0>>}
           one == CHOOSE k \in q : TRUE
<1>1. dir.format = "als" /\ dir.ckpt = c
  BY DirectoryFacts
<1>2. Config(dir).hidden = c.hidden /\ Config(dir).heads = c.heads
  <2>1. Config(dir) = load_config(c)
    BY <1>1 DEF Config
  <2> QED BY <2>1 DEF load_config
<1>3. HeadDim(dir, list) = IF q # {} THEN list[one].rows \div c.heads
                           ELSE ConfigHeadDim(c)
  BY <1>1, <1>2 DEF HeadDim, ConfigHeadDim
<1> HIDE DEF dir
<1>4. /\ DOMAIN list = 1 .. Len(list)
      /\ \A x : x \in Elements(list) <=> \E k \in 1 .. Len(list) : x = list[k]
  BY ListElements
<1>5. q # {} <=> \E x \in Elements(list) : x.name = <<"q_proj", 0>>
  BY <1>4
<1>6. ASSUME q # {} PROVE list[one].rows = c.heads * c.headDim
  <2>1. one \in q
    BY <1>6
  <2>2. list[one] \in Elements(list) /\ list[one].name = <<"q_proj", 0>>
    BY <1>4, <2>1
  <2> DEFINE file == Decomposed(c)
  <2> HIDE DEF one
  <2>3. PICK k \in 1 .. Len(file) : list[one] = Parsed(file[k])
    BY <2>2 DEF Reads
  <2>4. file[k].name = <<"q_proj", 0>> /\ list[one].rows = file[k].rows
    <3> HIDE DEF file
    <3> QED BY <2>2, <2>3, ParsedFacts
  <2>5. file[k] = Recorded(c, <<"q_proj", 0>>)
    BY <2>4, RecordNamed
  <2>6. file[k].rows = Shape(c, "q_proj")[1]
    BY <2>5, Alike
  <2>7. Shape(c, "q_proj")[1] = c.heads * c.headDim
    BY DEF Shape
  <2> QED BY <2>4, <2>6, <2>7
<1>7. c.heads \in Nat /\ c.heads >= 1 /\ c.headDim \in Nat
  BY CheckpointNumbers
<1>8. (c.heads * c.headDim) \div c.heads = c.headDim
  BY <1>7, Heads
<1> QED
  BY <1>3, <1>5, <1>6, <1>8 DEF dir

-----------------------------------------------------------------------------
(* When a cluster computes what a device computes.                         *)

\* A model has the layers that its list has, the norms of queries and keys
\* apart.
LEMMA NameThere ==
  ASSUME NEW T, NEW list \in Seq(T), NEW dir, NEW n, n[1] \notin {"q_norm", "k_norm"}
  PROVE  n \in LayerNames(Model(dir, list)) <=> \E x \in Elements(list) : x.name = n
<1>1. \A x : x \in LayerNames(Model(dir, list)) <=>
               \E l \in Elements(list) : l.name[1] \notin {"q_norm", "k_norm"} /\ x = l.name
  BY ModelFacts
<1>2. ASSUME NEW x \in Elements(list), x.name = n
      PROVE  n \in LayerNames(Model(dir, list))
  BY <1>1, <1>2
<1> QED
  BY <1>1, <1>2

\* The layers a range needs are its seven submodules at each index.
LEMMA NeededNames ==
  ASSUME NEW s, NEW e
  PROVE  \A x : x \in Needed(s, e) <=>
                   \E m \in SubmoduleKinds, i \in s .. e - 1 : x = <<m, i>>
<1>1. ASSUME NEW x, x \in Needed(s, e)
      PROVE  \E m \in SubmoduleKinds, i \in s .. e - 1 : x = <<m, i>>
  <2>1. PICK k \in DOMAIN Submodules, i \in s .. e - 1 : x = <<Submodules[k], i>>
    BY <1>1 DEF Needed
  <2> QED BY <2>1, SubmoduleFacts
<1>2. ASSUME NEW m \in SubmoduleKinds, NEW i \in s .. e - 1
      PROVE  <<m, i>> \in Needed(s, e)
  <2>1. PICK k \in 1 .. 7 : Submodules[k] = m
    BY SubmoduleFacts
  <2> QED BY <2>1, SubmoduleFacts DEF Needed
<1> QED
  BY <1>1, <1>2

\* What a worker of a serving cluster has: every layer of its range, and the
\* head when it is the last and the device has one.
LEMMA WorkersHave ==
  ASSUME DeployInv, LoadInv, stage = "serving", AllHere,
         RunsOnDevice(job.ckpt, DeviceModel), NEW i \in Nodes
  PROVE  RunsOnWorker(plan[i], ShardModel(i))
            <=> (i = N => LmHead \in LayerNames(DeviceModel))
<1> DEFINE c == job.ckpt
           kept == Kept(c, plan[i])
           dir == Directory(<<c, job.format>>)
           device == Model(dir, WholeList(dir))
           shard == Model(dir, PartList(dir, kept))
<1>1. job \in Deployments /\ c \in Checkpoint /\ Dir = dir
  BY Here DEF DeployInv, PlanInv
<1>2. /\ kept \subseteq FileNames(c)
      /\ Dir.loads /\ DeviceModel = device
      /\ plan[i] \in Shard /\ plan[i].end_layer <= c.layers
      /\ plan[i].is_last <=> i = N
  BY <1>1, KeptByOne
<1>3. LayerNames(ShardModel(i)) = LayerNames(shard)
  BY <1>1, ShardModelIs
<1>4. \A x : x \in LayerNames(shard) <=> x \in LayerNames(device) /\ x \in kept
  <2> HIDE DEF kept
  <2> QED BY <1>1, <1>2, ShardHolds
<1> HIDE DEF device, shard, dir
<1>5. Needed(plan[i].start_layer, plan[i].end_layer) \subseteq LayerNames(shard)
  <2> SUFFICES ASSUME NEW x \in Needed(plan[i].start_layer, plan[i].end_layer)
               PROVE  x \in LayerNames(device) /\ x \in kept
    BY <1>4
  <2> DEFINE s == plan[i].start_layer
             e == plan[i].end_layer
  <2>1. s \in Nat /\ e \in Nat /\ c.layers \in Nat
    BY <1>1, <1>2, NameFacts DEF Shard
  <2>2. PICK m \in SubmoduleKinds, l \in s .. e - 1 : x = <<m, l>>
    BY NeededNames
  <2>3. l \in 0 .. c.layers - 1 /\ s <= l /\ l < e
    BY <1>2, <2>1
  <2>4. x \in LayerNames(device)
    <3>1. x \in Needed(0, c.layers)
      BY <2>2, <2>3, NeededNames
    <3> QED BY <1>2, <3>1 DEF RunsOnDevice
  <2>5. x \in Names(c) /\ x[2] = l
    BY <1>1, <2>2, <2>3, NameFacts
  <2> QED BY <2>3, <2>4, <2>5 DEF Kept, Slice
<1>6. i = N => (LmHead \in LayerNames(shard) <=> LmHead \in LayerNames(device))
  BY <1>2, <1>4 DEF Kept
<1> QED
  BY <1>2, <1>3, <1>5, <1>6 DEF RunsOnWorker

\* The head sizes of a serving cluster, by the list each worker read.
LEMMA HeadSizes ==
  ASSUME DeployInv, LoadInv, stage = "serving", AllHere
  PROVE  LET dir == Directory(<<job.ckpt, job.format>>)
         IN  /\ DeviceModel.headDim = HeadDim(dir, WholeList(dir))
             /\ \A i \in Nodes :
                   ShardModel(i).headDim = HeadDim(dir, PartList(dir, Kept(job.ckpt, plan[i])))
<1> DEFINE c == job.ckpt
           dir == Directory(<<c, job.format>>)
<1>1. job \in Deployments /\ c \in Checkpoint /\ Dir = dir
  BY Here DEF DeployInv, PlanInv
<1>2. Dir.loads /\ DeviceModel = Model(dir, WholeList(dir))
  BY <1>1, KeptByOne
<1>3. ASSUME NEW i \in Nodes
      PROVE  ShardModel(i).headDim = HeadDim(dir, PartList(dir, Kept(c, plan[i])))
  <2> DEFINE list == PartList(dir, Kept(c, plan[i]))
  <2>1. Kept(c, plan[i]) \subseteq FileNames(c)
    BY KeptByOne
  <2>2. list \in Seq(Elements(list))
    <3> DEFINE kept == Kept(c, plan[i])
    <3>1. kept \subseteq FileNames(c)
      BY <2>1
    <3> HIDE DEF kept
    <3>2. PartList(dir, kept) \in Seq(Elements(PartList(dir, kept)))
      BY <1>1, <1>2, <3>1, ListFacts
    <3> QED BY <3>2 DEF kept
  <2>3. ShardModel(i).headDim = Model(dir, list).headDim
    BY <1>1, ShardModelIs
  <2> HIDE DEF list, dir
  <2>4. Model(dir, list).headDim = HeadDim(dir, list)
    BY <2>2, ModelFacts
  <2> QED BY <2>3, <2>4 DEF list
<1>4. DeviceModel.headDim = HeadDim(dir, WholeList(dir))
  <2> DEFINE list == WholeList(dir)
  <2>1. list \in Seq(Elements(list))
    <3>1. {} \subseteq FileNames(c)
      OBVIOUS
    <3> QED BY <1>1, <1>2, <3>1, ListFacts
  <2> HIDE DEF list, dir
  <2>2. Model(dir, list).headDim = HeadDim(dir, list)
    BY <2>1, ModelFacts
  <2> QED BY <1>2, <2>2 DEF list
<1> QED
  BY <1>3, <1>4

\* A worker of a GGUF model finds a head when the checkpoint has one of its
\* own: gguf_loader.cpp takes it from output.weight.
LEMMA GgufAgrees ==
  ASSUME DeployInv, LoadInv, stage = "serving", AllHere, job.format # "als"
  PROVE  /\ LmHead \in LayerNames(DeviceModel) <=> ~job.ckpt.tied
         /\ \A i \in Nodes : ShardModel(i).headDim = DeviceModel.headDim
<1> DEFINE c == job.ckpt
           dir == Directory(<<c, job.format>>)
           style == Styles[job.format]
           list == GgufLayers(GgufOf(c, style))
<1>1. job \in Deployments /\ c \in Checkpoint /\ Dir = dir
  BY Here DEF DeployInv, PlanInv
<1>2. Dir.loads /\ DeviceModel = Model(dir, WholeList(dir))
  BY <1>1, KeptByOne
<1>3. dir.format = "gguf" /\ dir.file = GgufOf(c, style) /\ GgufLoads(GgufOf(c, style))
  BY <1>1, <1>2, DirectoryFacts
<1>4. WholeList(dir) = list
  BY <1>3 DEF WholeList
<1>5. /\ list \in Seq(Elements(list))
      /\ (\E x \in Elements(list) : x.name = LmHead)
            <=> Has(GgufOf(c, style), <<"output", -1>>)
  BY <1>1, <1>3, GgufLayersOf
<1>6. Has(GgufOf(c, style), <<"output", -1>>) <=> ~c.tied
  BY <1>1, <1>3, GgufRead
<1>7. LmHead \in LayerNames(Model(dir, list)) <=> \E x \in Elements(list) : x.name = LmHead
  <2>1. LmHead[1] \notin {"q_norm", "k_norm"}
    BY DEF LmHead
  <2> HIDE DEF list, dir
  <2> QED BY <1>5, <2>1, NameThere
<1>8. ASSUME NEW i \in Nodes PROVE ShardModel(i).headDim = DeviceModel.headDim
  <2> DEFINE part == PartList(dir, Kept(c, plan[i]))
  <2>1. DeviceModel.headDim = HeadDim(dir, WholeList(dir)) /\ ShardModel(i).headDim = HeadDim(dir, part)
    BY HeadSizes
  <2> HIDE DEF part, dir
  <2> QED BY <1>3, <2>1 DEF HeadDim
<1> QED
  BY <1>2, <1>4, <1>5, <1>6, <1>7, <1>8

\* A single worker keeps every name, and so reads what a device reads.
LEMMA SoleAgrees ==
  ASSUME DeployInv, LoadInv, stage = "serving", AllHere, job.format = "als", N = 1
  PROVE  \A i \in Nodes : ShardModel(i).headDim = DeviceModel.headDim
<1> DEFINE c == job.ckpt
           dir == Directory(<<c, job.format>>)
<1>1. job \in Deployments /\ c \in Checkpoint
  BY Here DEF DeployInv, PlanInv
<1>2. dir.format = "als" /\ dir.ckpt = c
  BY <1>1, DirectoryFacts
<1> SUFFICES ASSUME NEW i \in Nodes PROVE ShardModel(i).headDim = DeviceModel.headDim
  OBVIOUS
<1>3. Kept(c, plan[i]) = FileNames(c)
  <2>1. \A j \in Nodes : j = i
    BY DEF Nodes
  <2> QED BY <2>1, KeptByOne
<1>4. PartList(dir, Kept(c, plan[i])) = WholeList(dir)
  <2>1. FileNames(c) = Names(c) \cup {LmHead}
    BY DEF FileNames
  <2> HIDE DEF dir
  <2> QED BY <1>2, <1>3, <2>1 DEF PartList, WholeList
<1> QED
  BY <1>4, HeadSizes

\* Of a converted model that is split, only the worker of layer 0 has the
\* projection the head size is taken from; and the reader of a device that
\* finds every projection found the head before them.
LEMMA SplitAgrees ==
  ASSUME DeployInv, LoadInv, stage = "serving", AllHere, job.format = "als", N # 1,
         RunsOnDevice(job.ckpt, DeviceModel)
  PROVE  /\ LmHead \in LayerNames(DeviceModel)
         /\ DeviceModel.headDim = job.ckpt.headDim
         /\ \A i \in Nodes : ShardModel(i).headDim =
               IF i = 1 THEN job.ckpt.headDim ELSE ConfigHeadDim(job.ckpt)
<1> DEFINE c == job.ckpt
           dir == Directory(<<c, job.format>>)
           W == WholeList(dir)
           K(i) == Kept(c, plan[i])
           P(i) == PartList(dir, K(i))
           q == <<"q_proj", 0>>
<1>1. job \in Deployments /\ c \in Checkpoint /\ Dir = dir /\ dir = Directory(<<c, "als">>)
  BY Here DEF DeployInv, PlanInv
<1>2. /\ \A i \in Nodes : K(i) \subseteq FileNames(c)
      /\ \A x \in FileNames(c) : \E i \in Nodes : x \in K(i)
      /\ \A i, j \in Nodes : \A x : x \in K(i) /\ x \in K(j) => i = j
      /\ Dir.loads /\ DeviceModel = Model(Dir, W)
      /\ \A i \in Nodes : /\ plan[i] \in Shard
                          /\ plan[i].start_layer < plan[i].end_layer
                          /\ plan[i].end_layer <= c.layers
                          /\ plan[i].start_layer = 0 <=> i = 1
  BY <1>1, KeptByOne
<1>3. \A x : x \in Elements(W) <=> Reads(x, Decomposed(c), FileNames(c))
  BY <1>1, AlsReads
<1>4. /\ W \in Seq(Elements(W))
      /\ \A i \in Nodes : /\ P(i) \in Seq(Elements(P(i)))
                          /\ \A x : x \in Elements(P(i)) <=> x \in Elements(W) /\ x.name \in K(i)
  <2>1. W \in Seq(Elements(W))
    <3>1. {} \subseteq FileNames(c)
      OBVIOUS
    <3> QED BY <1>1, <1>2, <3>1, ListFacts
  <2>2. ASSUME NEW i \in Nodes
        PROVE  /\ P(i) \in Seq(Elements(P(i)))
               /\ \A x : x \in Elements(P(i)) <=> x \in Elements(W) /\ x.name \in K(i)
    <3> DEFINE kept == K(i)
    <3>1. kept \subseteq FileNames(c)
      BY <1>2
    <3> HIDE DEF kept
    <3>2. /\ PartList(dir, kept) \in Seq(Elements(PartList(dir, kept)))
          /\ \A x : x \in Elements(PartList(dir, kept)) <=> x \in Elements(W) /\ x.name \in kept
      BY <1>1, <1>2, <3>1, ListFacts
    <3> QED BY <3>2 DEF kept
  <2> QED BY <2>1, <2>2
<1>5. /\ DeviceModel.headDim = HeadDim(dir, W)
      /\ \A i \in Nodes : ShardModel(i).headDim = HeadDim(dir, P(i))
  BY HeadSizes
<1>6. \A n : n[1] \notin {"q_norm", "k_norm"} =>
         (n \in LayerNames(DeviceModel) <=> \E x \in Elements(W) : x.name = n)
  <2> HIDE DEF W, dir
  <2> QED BY <1>1, <1>2, <1>4, NameThere
<1> HIDE DEF W, P, K, dir
<1>7. \A m \in SubmoduleKinds, i \in 0 .. c.layers - 1 :
         \E x \in Elements(W) : x.name = <<m, i>>
  <2> SUFFICES ASSUME NEW m \in SubmoduleKinds, NEW i \in 0 .. c.layers - 1
               PROVE  \E x \in Elements(W) : x.name = <<m, i>>
    OBVIOUS
  <2>1. <<m, i>> \in LayerNames(DeviceModel)
    <3>1. <<m, i>> \in Needed(0, c.layers)
      BY NeededNames
    <3> QED BY <3>1 DEF RunsOnDevice
  <2>2. <<m, i>>[1] \notin {"q_norm", "k_norm"}
    BY DEF SubmoduleKinds
  <2> QED BY <1>6, <2>1, <2>2
<1>8. c.layers \in Nat /\ c.layers >= 2
  <2>1. N \in Nodes /\ N # 1
    BY NodeCount DEF Nodes
  <2>2. /\ plan[N].start_layer \in Nat /\ plan[N].end_layer \in Nat /\ c.layers \in Nat
        /\ plan[N].start_layer # 0
        /\ plan[N].start_layer < plan[N].end_layer /\ plan[N].end_layer <= c.layers
    BY <1>1, <1>2, <2>1, NameFacts DEF Shard
  <2> QED BY <2>2
<1>9. LmHead \in LayerNames(DeviceModel)
  <2>1. \A m \in SubmoduleKinds, i \in 0 .. c.layers - 1 :
            \E x : Reads(x, Decomposed(c), FileNames(c)) /\ x.name = <<m, i>>
    BY <1>3, <1>7
  <2>2. \E x : Reads(x, Decomposed(c), FileNames(c)) /\ x.name = LmHead
    BY <1>1, <1>8, <2>1, HeadFound
  <2>3. LmHead[1] \notin {"q_norm", "k_norm"}
    BY DEF LmHead
  <2> QED BY <1>3, <1>6, <2>2, <2>3
<1>10. \E x \in Elements(W) : x.name = q
  <2>1. "q_proj" \in SubmoduleKinds /\ 0 \in 0 .. c.layers - 1
    BY <1>8 DEF SubmoduleKinds
  <2> QED BY <1>7, <2>1
<1>11. ASSUME NEW i \in Nodes PROVE q \in K(i) <=> i = 1
  <2>1. "q_proj" \in SubmoduleKinds /\ 0 \in 0 .. c.layers - 1
    BY <1>8 DEF SubmoduleKinds
  <2>2. q \in Names(c) /\ q # LmHead
    BY <1>1, <2>1, NameFacts
  <2>3. K(i) = Kept(c, plan[i])
    BY DEF K
  <2>4. q \in Kept(c, plan[i]) <=> plan[i].start_layer <= 0 /\ 0 < plan[i].end_layer
    BY <2>2 DEF Kept, Slice
  <2>5. plan[i].start_layer \in Nat /\ plan[i].end_layer \in Nat
    BY <1>2 DEF Shard
  <2> QED BY <1>2, <2>3, <2>4, <2>5
<1>12. HeadDim(dir, W) = c.headDim
  <2>1. \A x \in Elements(W) : Reads(x, Decomposed(c), FileNames(c))
    BY <1>3
  <2> QED BY <1>1, <1>4, <1>10, <2>1, AlsHeadDim
<1>13. ASSUME NEW i \in Nodes
       PROVE  HeadDim(dir, P(i)) = IF i = 1 THEN c.headDim ELSE ConfigHeadDim(c)
  <2>1. /\ P(i) \in Seq(Elements(P(i)))
        /\ \A x \in Elements(P(i)) : Reads(x, Decomposed(c), FileNames(c))
    BY <1>3, <1>4
  <2>2. (\E x \in Elements(P(i)) : x.name = q) <=> i = 1
    BY <1>4, <1>10, <1>11
  <2> DEFINE list == P(i)
  <2>3. /\ (\E x \in Elements(list) : x.name = q) => HeadDim(dir, list) = c.headDim
        /\ ~(\E x \in Elements(list) : x.name = q) => HeadDim(dir, list) = ConfigHeadDim(c)
    <3>1. list \in Seq(Elements(list)) /\ \A x \in Elements(list) : Reads(x, Decomposed(c), FileNames(c))
      BY <2>1
    <3> HIDE DEF list
    <3> QED BY <1>1, <3>1, AlsHeadDim
  <2> QED BY <2>2, <2>3
<1> QED
  BY <1>5, <1>9, <1>12, <1>13

\* A cluster whose workers loaded this model computes what a device computes
\* unless it is a GGUF model without a head of its own, or a converted one whose
\* head size is not hidden / heads (load_model_shard, handle_forward): for any
\* number of workers and any model.
THEOREM ComputesAsDevice == DeploySpec => []ClusterComputesAsDevice
<1>1. DeployInv /\ LoadInv => ClusterComputesAsDevice
  <2> SUFFICES ASSUME DeployInv, LoadInv, stage = "serving", AllHere,
                      RunsOnDevice(job.ckpt, DeviceModel)
               PROVE  (\A i \in Nodes : /\ RunsOnWorker(plan[i], ShardModel(i))
                                        /\ ShardModel(i).headDim = DeviceModel.headDim)
                      <=> IF job.format # "als" THEN ~job.ckpt.tied
                          ELSE IF N = 1 THEN LmHead \in LayerNames(DeviceModel)
                          ELSE job.ckpt.headDim = ConfigHeadDim(job.ckpt)
    BY DEF ClusterComputesAsDevice
  <2>1. \A i \in Nodes : RunsOnWorker(plan[i], ShardModel(i))
                            <=> (i = N => LmHead \in LayerNames(DeviceModel))
    BY WorkersHave
  <2>2. N \in Nodes /\ 1 \in Nodes
    BY NodeCount DEF Nodes
  <2>3. CASE job.format # "als"
    BY <2>1, <2>2, <2>3, GgufAgrees
  <2>4. CASE job.format = "als" /\ N = 1
    BY <2>1, <2>2, <2>4, SoleAgrees
  <2>5. CASE job.format = "als" /\ N # 1
    <3>1. /\ LmHead \in LayerNames(DeviceModel)
          /\ DeviceModel.headDim = job.ckpt.headDim
          /\ \A i \in Nodes : ShardModel(i).headDim =
                IF i = 1 THEN job.ckpt.headDim ELSE ConfigHeadDim(job.ckpt)
      BY <2>5, SplitAgrees
    <3> QED BY <2>1, <2>2, <2>5, <3>1
  <2> QED BY <2>3, <2>4, <2>5
<1> QED
  BY <1>1, LoadInvariant, PTL

-----------------------------------------------------------------------------
(* The file of mote-build.                                                 *)

\* The fields of a layer of k experts, place by place.
IsFields(s, ml, k) ==
    /\ s[1] = ml.name /\ s[2] = k
    /\ \A p \in 1 .. 3 : s[2 + p] = Serialized(ml.shared[p])
    /\ \A e \in 1 .. k, p \in 1 .. 3 : s[5 + 3 * (e - 1) + p] = Serialized(ml.routed[e][p])
    /\ s[6 + 3 * k] = ml.router

\* What is written for a layer (serialize_layer_data after its name).
LEMMA FieldsOf ==
  ASSUME NEW ml, ml.experts \in Nat
  PROVE  /\ LayerFields(ml) \in Seq(Elements(LayerFields(ml)))
         /\ Len(LayerFields(ml)) = LayerLen(ml.experts)
         /\ IsFields(LayerFields(ml), ml, ml.experts)
<1> DEFINE K == ml.experts
           a == <<ml.name, K>>
           b == [p \in 1 .. 3 |-> Serialized(ml.shared[p])]
           x(k) == Serialized(ml.routed[((k - 1) \div 3) + 1][((k - 1) % 3) + 1])
           c == [k \in 1 .. 3 * K |-> x(k)]
           d == <<ml.router>>
           T == {ml.name, K, ml.router} \cup {b[p] : p \in 1 .. 3} \cup {c[k] : k \in 1 .. 3 * K}
<1>1. LayerFields(ml) = a \o b \o c \o d
  BY DEF LayerFields
<1>2. K \in Nat /\ 3 * K \in Nat
  OBVIOUS
<1>3. a \in Seq(T) /\ Len(a) = 2 /\ a[1] = ml.name /\ a[2] = K
  <2>1. ml.name \in T /\ K \in T
    OBVIOUS
  <2> HIDE DEF T
  <2> QED BY <2>1
<1>4. b \in Seq(T) /\ Len(b) = 3
  <2>1. \A p \in 1 .. 3 : b[p] \in T
    OBVIOUS
  <2>2. b = [p \in 1 .. 3 |-> b[p]] /\ 3 \in Nat
    OBVIOUS
  <2> HIDE DEF T, b
  <2> QED BY <2>1, <2>2
<1>5. c \in Seq(T) /\ Len(c) = 3 * K
  <2> DEFINE n == 3 * K
  <2>1. \A k \in 1 .. n : c[k] \in T
    <3> HIDE DEF b, x
    <3> QED OBVIOUS
  <2>2. c = [k \in 1 .. n |-> c[k]] /\ n \in Nat
    OBVIOUS
  <2> HIDE DEF T, c, n
  <2>3. c \in Seq(T) /\ Len(c) = n
    BY <2>1, <2>2
  <2> QED BY <2>3 DEF n
<1>6. d \in Seq(T) /\ Len(d) = 1 /\ d[1] = ml.router
  <2>1. ml.router \in T
    OBVIOUS
  <2> HIDE DEF T
  <2> QED BY <2>1
<1>7. \A p \in 1 .. 3 : b[p] = Serialized(ml.shared[p])
  OBVIOUS
<1>8. ASSUME NEW e \in 1 .. K, NEW p \in 1 .. 3
      PROVE  /\ 3 * (e - 1) + p \in 1 .. 3 * K
             /\ c[3 * (e - 1) + p] = Serialized(ml.routed[e][p])
  <2> DEFINE k == 3 * (e - 1) + p
  <2>1. k \in 1 .. 3 * K /\ (k - 1) \div 3 = e - 1 /\ (k - 1) % 3 = p - 1
    <3>1. p = 1 \/ p = 2 \/ p = 3
      OBVIOUS
    <3>2. e \in Nat /\ e >= 1 /\ e <= K
      BY <1>2
    <3> HIDE DEF K
    <3>3. k \in 1 .. 3 * K
      BY <1>2, <3>1, <3>2
    <3>4. (k - 1) \div 3 = e - 1 /\ (k - 1) % 3 = p - 1
      BY <3>1, <3>2
    <3> QED BY <3>3, <3>4
  <2>2. c[k] = x(k)
    <3> HIDE DEF x, k
    <3> QED BY <2>1
  <2>3. x(k) = Serialized(ml.routed[(e - 1) + 1][(p - 1) + 1])
    <3> HIDE DEF k
    <3> QED BY <2>1
  <2>4. (e - 1) + 1 = e /\ (p - 1) + 1 = p
    BY <1>2
  <2> QED BY <2>1, <2>2, <2>3, <2>4
<1> HIDE DEF K, a, b, c, d, T
<1> DEFINE ab == a \o b
           abc == ab \o c
           all == abc \o d
<1>9. /\ ab \in Seq(T) /\ Len(ab) = 5
      /\ \A i \in 1 .. 2 : ab[i] = a[i]
      /\ \A i \in 1 .. 3 : ab[2 + i] = b[i]
  <2>1. /\ ab \in Seq(T) /\ Len(ab) = Len(a) + Len(b)
        /\ \A i \in 1 .. Len(a) + Len(b) :
              ab[i] = IF i <= Len(a) THEN a[i] ELSE b[i - Len(a)]
    BY <1>3, <1>4, ConcatProperties
  <2> HIDE DEF ab
  <2>2. \A i \in 1 .. 3 : 2 + i \in 1 .. 5 /\ ~(2 + i <= 2) /\ (2 + i) - 2 = i
    OBVIOUS
  <2> QED BY <1>3, <1>4, <2>1, <2>2
<1> HIDE DEF ab
<1>10. /\ abc \in Seq(T) /\ Len(abc) = 5 + 3 * K
       /\ \A i \in 1 .. 5 : abc[i] = ab[i]
       /\ \A i \in 1 .. 3 * K : abc[5 + i] = c[i]
  <2>1. /\ abc \in Seq(T) /\ Len(abc) = Len(ab) + Len(c)
        /\ \A i \in 1 .. Len(ab) + Len(c) :
              abc[i] = IF i <= Len(ab) THEN ab[i] ELSE c[i - Len(ab)]
    BY <1>5, <1>9, ConcatProperties
  <2> HIDE DEF abc
  <2> DEFINE n == 3 * K
  <2>2. n \in Nat /\ Len(c) = n
    BY <1>2, <1>5
  <2> HIDE DEF n
  <2>3. \A i \in 1 .. n : 5 + i \in 1 .. 5 + n /\ ~(5 + i <= 5) /\ (5 + i) - 5 = i
    BY <2>2
  <2>4. \A i \in 1 .. 5 : i \in 1 .. 5 + n /\ i <= 5
    BY <2>2
  <2>5. /\ abc \in Seq(T) /\ Len(abc) = 5 + n
        /\ \A i \in 1 .. 5 : abc[i] = ab[i]
        /\ \A i \in 1 .. n : abc[5 + i] = c[i]
    BY <1>9, <2>1, <2>2, <2>3, <2>4
  <2> QED BY <2>5 DEF n
<1> HIDE DEF abc
<1>11. /\ all \in Seq(T) /\ Len(all) = 6 + 3 * K
       /\ \A i \in 1 .. 5 + 3 * K : all[i] = abc[i]
       /\ all[6 + 3 * K] = d[1]
  <2>1. /\ all \in Seq(T) /\ Len(all) = Len(abc) + Len(d)
        /\ \A i \in 1 .. Len(abc) + Len(d) :
              all[i] = IF i <= Len(abc) THEN abc[i] ELSE d[i - Len(abc)]
    BY <1>6, <1>10, ConcatProperties
  <2> HIDE DEF all
  <2> DEFINE n == 3 * K
  <2>2. n \in Nat /\ Len(abc) = 5 + n
    BY <1>2, <1>10
  <2> HIDE DEF n
  <2>3. /\ all \in Seq(T) /\ Len(all) = 6 + n
        /\ \A i \in 1 .. 5 + n : all[i] = abc[i]
        /\ all[6 + n] = d[1]
    <3>1. 6 + n \in 1 .. 6 + n /\ ~(6 + n <= 5 + n) /\ (6 + n) - (5 + n) = 1
      BY <2>2
    <3>2. Len(abc) + Len(d) = 6 + n /\ d[1] = d[(6 + n) - (5 + n)]
      BY <1>6, <2>2, <3>1
    <3>3. \A i \in 1 .. 6 + n : all[i] = IF i <= 5 + n THEN abc[i] ELSE d[i - (5 + n)]
      BY <2>1, <2>2, <3>2
    <3>4. all[6 + n] = d[1]
      BY <3>1, <3>2, <3>3
    <3>5. \A i \in 1 .. 5 + n : i \in 1 .. 6 + n /\ i <= 5 + n
      BY <2>2
    <3>6. \A i \in 1 .. 5 + n : all[i] = abc[i]
      BY <3>3, <3>5
    <3> QED BY <2>1, <3>2, <3>4, <3>6
  <2> QED BY <2>3 DEF n
<1> HIDE DEF all
<1>12. /\ all[1] = ml.name /\ all[2] = K
       /\ \A p \in 1 .. 3 : all[2 + p] = Serialized(ml.shared[p])
  <2>1. \A i \in 1 .. 5 : i \in 1 .. 5 + 3 * K
    BY <1>2
  <2>2. \A i \in 1 .. 5 : all[i] = ab[i]
    BY <1>10, <1>11, <2>1
  <2>3. \A p \in 1 .. 3 : 2 + p \in 1 .. 5
    OBVIOUS
  <2> QED BY <1>3, <1>7, <1>9, <2>2, <2>3
<1>13. ASSUME NEW e \in 1 .. K, NEW p \in 1 .. 3
       PROVE  all[5 + 3 * (e - 1) + p] = Serialized(ml.routed[e][p])
  <2> DEFINE k == 3 * (e - 1) + p
  <2>1. k \in 1 .. 3 * K /\ c[k] = Serialized(ml.routed[e][p])
    BY <1>8
  <2>2. 5 + 3 * (e - 1) + p = 5 + k
    BY <1>2
  <2> HIDE DEF k
  <2>3. 5 + k \in 1 .. 5 + 3 * K
    BY <1>2, <2>1
  <2> QED BY <1>10, <1>11, <2>1, <2>2, <2>3
<1>14. all[6 + 3 * K] = ml.router
  BY <1>6, <1>11
<1>15. all = LayerFields(ml)
  BY <1>1 DEF all, abc, ab, K
<1>16. IsFields(all, ml, K) /\ all \in Seq(Elements(all)) /\ Len(all) = LayerLen(K)
  <2>1. Len(all) = LayerLen(K)
    BY <1>2, <1>11 DEF LayerLen
  <2> QED BY <1>11, <1>12, <1>13, <1>14, <2>1, OwnElements DEF IsFields
<1> QED
  BY <1>15, <1>16 DEF K

\* Where the layers of a file lie: layer k at pos[k], the fields of list[k].
Lays(pos, file, list, n, experts) ==
    /\ pos \in [1 .. n + 1 -> Nat] /\ pos[1] = 3
    /\ file[1] = experts /\ file[2] = n
    /\ \A k \in 1 .. n :
          /\ list[k].experts = experts
          /\ pos[k + 1] = pos[k] + LayerLen(experts)
          /\ \A j \in 1 .. LayerLen(experts) : file[pos[k] + j - 1] = LayerFields(list[k])[j]

\* What save_mote_model writes: one layer after the other.
Stores(f, list, n, experts) ==
    /\ f[0] = <<experts, n>> /\ MoteFields(experts, list) = f[n]
    /\ \A k \in 1 .. n : f[k] = f[k - 1] \o LayerFields(list[k])

\* The recursion of MoteFields has these partial files.
LEMMA FieldSteps ==
  ASSUME NEW n \in Nat, NEW list, Len(list) = n, NEW experts \in Nat,
         \A k \in 1 .. n : list[k].experts = experts
  PROVE  \E T : \E f \in [0 .. n -> Seq(T)] :
            Stores(f, list, n, experts) /\ \A k \in 1 .. n : LayerFields(list[k]) \in Seq(T)
<1> DEFINE F(k) == LayerFields(list[k])
           T == {experts, n} \cup UNION {Elements(F(k)) : k \in 1 .. n}
           base == <<experts, n>>
           step == [k \in 1 .. n |-> [s \in Seq(T) |-> s \o F(k)]]
           R(g) == g = [k \in 0 .. n |-> IF k = 0 THEN base ELSE g[k - 1] \o F(k)]
           U == CHOOSE g : R(g)
<1>1. ASSUME NEW k \in 1 .. n PROVE F(k) \in Seq(T)
  <2> DEFINE s == F(k)
             E == Elements(s)
  <2>1. s \in Seq(E)
    <3>1. list[k].experts \in Nat
      OBVIOUS
    <3> QED BY <3>1, FieldsOf
  <2>2. E \subseteq T
    OBVIOUS
  <2>3. s \in Seq(T)
    <3> DEFINE m == Len(s)
    <3> HIDE DEF T, E, s
    <3>1. /\ m \in Nat /\ s = [i \in 1 .. m |-> s[i]]
          /\ \A i \in 1 .. m : s[i] \in E
      BY <2>1, LenProperties, ElementOfSeq
    <3>2. \A i \in 1 .. m : s[i] \in T
      BY <2>2, <3>1
    <3> HIDE DEF m
    <3> QED BY <3>1, <3>2
  <2> QED BY <2>3
<1>2. base \in Seq(T)
  <2>1. experts \in T /\ n \in T
    OBVIOUS
  <2> HIDE DEF T
  <2> QED BY <2>1
<1> HIDE DEF T, F, base
<1>3. step \in [1 .. n -> [Seq(T) -> Seq(T)]]
  <2>1. \A k \in 1 .. n : [s \in Seq(T) |-> s \o F(k)] \in [Seq(T) -> Seq(T)]
    BY <1>1, ConcatProperties
  <2> QED
    BY <2>1
<1>4. PICK f \in [0 .. n -> Seq(T)] :
         f[0] = base /\ \A k \in 1 .. n : f[k] = step[k][f[k - 1]]
  <2> DEFINE S == Seq(T)
  <2>1. base \in S /\ n \in Nat /\ step \in [1 .. n -> [S -> S]]
    BY <1>2, <1>3
  <2> HIDE DEF step, S
  <2>2. \E f \in [0 .. n -> S] : Iterates(f, base, n, step)
    BY <2>1, Recursion
  <2> QED
    BY <2>2 DEF S, Iterates
<1>5. \A k \in 1 .. n : f[k] = f[k - 1] \o F(k)
  <2>1. \A k \in 1 .. n : f[k - 1] \in Seq(T)
    OBVIOUS
  <2> QED BY <1>4, <2>1
<1> HIDE DEF step
<1>6. R(f)
  <2>1. f = [k \in 0 .. n |-> f[k]]
    OBVIOUS
  <2>2. \A k \in 0 .. n : k = 0 \/ k \in 1 .. n
    OBVIOUS
  <2>3. \A k \in 0 .. n : f[k] = IF k = 0 THEN base ELSE f[k - 1] \o F(k)
    BY <1>4, <1>5, <2>2
  <2> QED BY <2>1, <2>3
<1>7. R(U)
  <2>1. \E g : R(g)
    <3> HIDE DEF R
    <3> QED BY <1>6
  <2> HIDE DEF R
  <2> QED BY <2>1
<1>8. MoteFields(experts, list) = U[n]
  BY DEF MoteFields, base, F
<1> DEFINE Agree == {k \in 0 .. n : U[k] = f[k]}
<1>9. n \in Agree
  <2> HIDE DEF U
  <2>1. 0 \in Agree
    BY <1>4, <1>7
  <2>2. ASSUME NEW k \in 1 .. n, k - 1 \in Agree PROVE k \in Agree
    <3>1. k \in 0 .. n /\ k # 0 /\ k - 1 \in 0 .. n /\ U[k - 1] = f[k - 1]
      BY <2>2
    <3>2. U[k] = U[k - 1] \o F(k)
      BY <1>7, <3>1
    <3>3. f[k] = f[k - 1] \o F(k)
      BY <1>5
    <3> QED
      BY <3>1, <3>2, <3>3
  <2> HIDE DEF Agree
  <2>3. 0 .. n \subseteq Agree
    BY <2>1, <2>2, PrefixInduction
  <2> QED
    BY <2>3
<1>10. Stores(f, list, n, experts)
  <2>1. MoteFields(experts, list) = f[n]
    BY <1>8, <1>9
  <2> QED BY <1>4, <1>5, <2>1 DEF Stores, base, F
<1>11. \A k \in 1 .. n : LayerFields(list[k]) \in Seq(T)
  BY <1>1 DEF F
<1> QED
  BY <1>10, <1>11

\* Where its layers lie.
LEMMA FileLays ==
  ASSUME NEW n \in Nat, NEW list, Len(list) = n, NEW experts \in Nat,
         \A k \in 1 .. n : list[k].experts = experts
  PROVE  \E pos : Lays(pos, MoteFields(experts, list), list, n, experts)
<1> DEFINE m == LayerLen(experts)
           file == MoteFields(experts, list)
<1>1. PICK T : \E f \in [0 .. n -> Seq(T)] :
         Stores(f, list, n, experts) /\ \A k \in 1 .. n : LayerFields(list[k]) \in Seq(T)
  BY FieldSteps
<1>2. PICK f \in [0 .. n -> Seq(T)] :
         Stores(f, list, n, experts) /\ \A k \in 1 .. n : LayerFields(list[k]) \in Seq(T)
  BY <1>1
<1>3. /\ f[0] = <<experts, n>> /\ file = f[n]
      /\ \A k \in 1 .. n : f[k] = f[k - 1] \o LayerFields(list[k])
  BY <1>2 DEF Stores
<1>4. m \in Nat /\ \A k \in 1 .. n : Len(LayerFields(list[k])) = m
  <2>1. m \in Nat
    BY DEF LayerLen
  <2>2. ASSUME NEW k \in 1 .. n PROVE Len(LayerFields(list[k])) = m
    <3>1. list[k].experts = experts
      OBVIOUS
    <3> QED BY <3>1, FieldsOf
  <2> QED BY <2>1, <2>2
<1> HIDE DEF m, file
<1>5. \A k \in 0 .. n : f[k] \in Seq(T) /\ Len(f[k]) \in Nat
  BY LenProperties
<1>6. \A k \in 1 .. n :
         /\ Len(f[k]) = Len(f[k - 1]) + m
         /\ \A j \in 1 .. Len(f[k - 1]) : f[k][j] = f[k - 1][j]
         /\ \A j \in 1 .. m : f[k][Len(f[k - 1]) + j] = LayerFields(list[k])[j]
  <2> SUFFICES ASSUME NEW k \in 1 .. n
               PROVE  /\ Len(f[k]) = Len(f[k - 1]) + m
                      /\ \A j \in 1 .. Len(f[k - 1]) : f[k][j] = f[k - 1][j]
                      /\ \A j \in 1 .. m : f[k][Len(f[k - 1]) + j] = LayerFields(list[k])[j]
    OBVIOUS
  <2> DEFINE s == f[k - 1]
             t == LayerFields(list[k])
             l == Len(s)
  <2>1. s \in Seq(T) /\ t \in Seq(T) /\ l \in Nat /\ Len(t) = m /\ f[k] = s \o t
    BY <1>2, <1>3, <1>4, <1>5
  <2> HIDE DEF s, t
  <2>2. /\ Len(s \o t) = l + m
        /\ \A i \in 1 .. l + m : (s \o t)[i] = IF i <= l THEN s[i] ELSE t[i - l]
    BY <2>1, ConcatProperties
  <2> HIDE DEF l
  <2>3. /\ \A j \in 1 .. l : j \in 1 .. l + m /\ j <= l
        /\ \A j \in 1 .. m : l + j \in 1 .. l + m /\ ~(l + j <= l) /\ (l + j) - l = j
    BY <1>4, <2>1
  <2>4. /\ Len(f[k]) = l + m
        /\ \A j \in 1 .. l : f[k][j] = s[j]
        /\ \A j \in 1 .. m : f[k][l + j] = t[j]
    BY <2>1, <2>2, <2>3
  <2> QED BY <2>4 DEF s, t, l
<1> DEFINE Prefix(i, k) == /\ Len(f[i]) <= Len(f[k])
                           /\ \A j \in 1 .. Len(f[i]) : f[k][j] = f[i][j]
           P == {k \in 0 .. n : \A i \in 0 .. k : Prefix(i, k)}
<1>7. \A i \in 0 .. n : Prefix(i, n)
  <2>1. 0 \in P
    BY <1>5
  <2>2. ASSUME NEW k \in 1 .. n, k - 1 \in P PROVE k \in P
    <3>1. k \in 0 .. n /\ k - 1 \in 0 .. n /\ \A i \in 0 .. k : i = k \/ i \in 0 .. k - 1
      OBVIOUS
    <3>2. ASSUME NEW i \in 0 .. k - 1 PROVE Prefix(i, k)
      <4>1. Prefix(i, k - 1)
        BY <2>2
      <4>2. Len(f[i]) \in Nat /\ Len(f[k - 1]) \in Nat /\ Len(f[k]) = Len(f[k - 1]) + m
        BY <1>5, <1>6, <3>1
      <4>3. \A j \in 1 .. Len(f[i]) : j \in 1 .. Len(f[k - 1])
        BY <4>1, <4>2
      <4> QED BY <1>4, <1>6, <4>1, <4>2, <4>3
    <3>3. Prefix(k, k)
      BY <1>5, <3>1
    <3> HIDE DEF Prefix
    <3> QED BY <3>1, <3>2, <3>3
  <2> HIDE DEF P
  <2>3. 0 .. n \subseteq P
    BY <2>1, <2>2, PrefixInduction
  <2>4. n \in P
    BY <2>3
  <2> HIDE DEF Prefix
  <2> QED BY <2>4 DEF P
<1> DEFINE pos == [k \in 1 .. n + 1 |-> Len(f[k - 1]) + 1]
<1>8. pos \in [1 .. n + 1 -> Nat] /\ pos[1] = 3
  <2>1. \A k \in 1 .. n + 1 : k - 1 \in 0 .. n
    OBVIOUS
  <2>2. \A k \in 1 .. n + 1 : Len(f[k - 1]) + 1 \in Nat
    BY <1>5, <2>1
  <2>3. Len(f[0]) + 1 = 3 /\ 1 \in 1 .. n + 1 /\ 1 - 1 = 0
    BY <1>3
  <2> QED BY <2>2, <2>3
<1>9. file[1] = experts /\ file[2] = n
  <2>1. Len(f[0]) = 2 /\ f[0][1] = experts /\ f[0][2] = n
    BY <1>3
  <2>2. 0 \in 0 .. n
    OBVIOUS
  <2>3. \A j \in 1 .. Len(f[0]) : f[n][j] = f[0][j]
    BY <1>7, <2>2
  <2>4. 1 \in 1 .. Len(f[0]) /\ 2 \in 1 .. Len(f[0])
    BY <2>1
  <2> QED BY <1>3, <2>1, <2>3, <2>4
<1>10. ASSUME NEW k \in 1 .. n
       PROVE  /\ pos[k + 1] = pos[k] + m
              /\ \A j \in 1 .. m : file[pos[k] + j - 1] = LayerFields(list[k])[j]
  <2>1. /\ k \in 1 .. n + 1 /\ k + 1 \in 1 .. n + 1 /\ (k + 1) - 1 = k
        /\ k \in 0 .. n /\ k - 1 \in 0 .. n
    OBVIOUS
  <2>2. pos[k] = Len(f[k - 1]) + 1 /\ pos[k + 1] = Len(f[k]) + 1
    BY <2>1
  <2> HIDE DEF pos
  <2> DEFINE l == Len(f[k - 1])
  <2>3. l \in Nat /\ Len(f[k]) = l + m
    BY <1>5, <1>6, <2>1
  <2>4. pos[k + 1] = pos[k] + m
    BY <1>4, <2>2, <2>3
  <2>5. ASSUME NEW j \in 1 .. m PROVE file[pos[k] + j - 1] = LayerFields(list[k])[j]
    <3>1. pos[k] + j - 1 = l + j /\ l + j \in 1 .. Len(f[k])
      BY <1>4, <2>2, <2>3
    <3>2. f[n][l + j] = f[k][l + j]
      BY <1>7, <2>1, <3>1
    <3> QED BY <1>3, <1>6, <3>1, <3>2
  <2> QED BY <2>4, <2>5
<1> HIDE DEF pos
<1>11. Lays(pos, file, list, n, experts)
  BY <1>8, <1>9, <1>10 DEF Lays, m
<1> QED
  BY <1>11 DEF file

\* A list holds what is read at each position.
ReadsAt(read, pos, file, n) ==
    Len(read) = n /\ \A k \in 1 .. n : read[k] = ReadLayerAt(file, pos[k])

\* The reader of the file comes to where each layer lies, for the number of
\* experts it finds there is the one that was written (load_mote_layers).
LEMMA ReadsWhatLies ==
  ASSUME NEW n \in Nat, NEW list, NEW experts \in Nat,
         NEW file, NEW pos, Lays(pos, file, list, n, experts)
  PROVE  ReadsAt(load_mote_layers(file), pos, file, n)
<1> DEFINE m == LayerLen(experts)
           R(g) == g = [k \in 1 .. file[2] + 1 |->
                          IF k = 1 THEN 3 ELSE g[k - 1] + LayerLen(file[g[k - 1] + 1])]
           G == CHOOSE g : R(g)
<1>1. /\ pos \in [1 .. n + 1 -> Nat] /\ pos[1] = 3 /\ file[2] = n
      /\ \A k \in 1 .. n : /\ list[k].experts = experts
                           /\ pos[k + 1] = pos[k] + m
                           /\ \A j \in 1 .. m : file[pos[k] + j - 1] = LayerFields(list[k])[j]
  BY DEF Lays
<1>2. m \in Nat /\ m >= 2
  BY DEF LayerLen
<1> HIDE DEF m
<1>3. \A k \in 1 .. n : file[pos[k] + 1] = experts
  <2> SUFFICES ASSUME NEW k \in 1 .. n PROVE file[pos[k] + 1] = experts
    OBVIOUS
  <2>1. LayerFields(list[k])[2] = experts
    BY <1>1, FieldsOf DEF IsFields
  <2>2. 2 \in 1 .. m /\ k \in 1 .. n + 1 /\ pos[k] \in Nat
    BY <1>1, <1>2
  <2>3. pos[k] + 2 - 1 = pos[k] + 1
    BY <2>2
  <2>4. file[pos[k] + 2 - 1] = LayerFields(list[k])[2]
    BY <1>1, <2>2
  <2> QED BY <2>1, <2>3, <2>4
<1>4. \A k \in 1 .. n + 1 : k # 1 =>
         /\ k - 1 \in 1 .. n /\ k - 1 \in 1 .. n + 1
         /\ pos[k] = pos[k - 1] + m /\ file[pos[k - 1] + 1] = experts
  <2> SUFFICES ASSUME NEW k \in 1 .. n + 1, k # 1
               PROVE  /\ k - 1 \in 1 .. n /\ k - 1 \in 1 .. n + 1
                      /\ pos[k] = pos[k - 1] + m /\ file[pos[k - 1] + 1] = experts
    OBVIOUS
  <2>1. k - 1 \in 1 .. n /\ k - 1 \in 1 .. n + 1 /\ (k - 1) + 1 = k
    OBVIOUS
  <2>2. pos[(k - 1) + 1] = pos[k - 1] + m
    BY <1>1, <2>1
  <2> QED BY <1>3, <2>1, <2>2
<1>5. R(pos)
  <2>1. pos = [k \in 1 .. n + 1 |-> pos[k]]
    BY <1>1
  <2>2. \A k \in 1 .. n + 1 :
           pos[k] = IF k = 1 THEN 3 ELSE pos[k - 1] + LayerLen(file[pos[k - 1] + 1])
    BY <1>1, <1>4 DEF m
  <2> QED BY <1>1, <2>1, <2>2
<1>6. R(G)
  <2> HIDE DEF R
  <2>1. \E g : R(g)
    BY <1>5
  <2> QED BY <2>1
<1>7. load_mote_layers(file) = [k \in 1 .. file[2] |-> ReadLayerAt(file, G[k])]
  BY DEF load_mote_layers
<1> DEFINE Agree == {k \in 0 .. n + 1 : k = 0 \/ G[k] = pos[k]}
<1>8. 0 .. n + 1 \subseteq Agree
  <2> HIDE DEF G
  <2>0. \A k \in 1 .. n + 1 :
           G[k] = IF k = 1 THEN 3 ELSE G[k - 1] + LayerLen(file[G[k - 1] + 1])
    BY <1>1, <1>6
  <2>1. 0 \in Agree
    OBVIOUS
  <2>2. ASSUME NEW k \in 1 .. n + 1, k - 1 \in Agree PROVE k \in Agree
    <3>1. CASE k = 1
      BY <1>1, <2>0, <3>1
    <3>2. CASE k # 1
      <4>1. G[k - 1] = pos[k - 1]
        BY <1>4, <2>2, <3>2
      <4>2. G[k] = pos[k - 1] + LayerLen(experts)
        BY <1>4, <2>0, <3>2, <4>1
      <4> QED BY <1>4, <3>2, <4>2 DEF m
    <3> QED BY <3>1, <3>2
  <2> HIDE DEF Agree
  <2>3. n + 1 \in Nat
    OBVIOUS
  <2> QED BY <2>1, <2>2, <2>3, PrefixInduction
<1>9. \A k \in 1 .. n : G[k] = pos[k]
  <2> HIDE DEF G
  <2>1. \A k \in 1 .. n : k \in 0 .. n + 1 /\ k # 0
    OBVIOUS
  <2> QED BY <1>8, <2>1
<1>10. \A k \in 1 .. n : ReadLayerAt(file, G[k]) = ReadLayerAt(file, pos[k])
  <2> HIDE DEF G
  <2> QED BY <1>9
<1> HIDE DEF G, R
<1>11. [k \in 1 .. n |-> ReadLayerAt(file, G[k])] = [k \in 1 .. n |-> ReadLayerAt(file, pos[k])]
  BY <1>10
<1>12. load_mote_layers(file) = [k \in 1 .. n |-> ReadLayerAt(file, pos[k])]
  BY <1>1, <1>7, <1>11
<1> QED
  BY <1>12 DEF ReadsAt

\* What is read of a layer.
IsRead(r, ml, k) ==
    /\ r.name = ml.name \o <<"gate_proj">> /\ r.experts = k /\ r.router = ml.router
    /\ \A p \in 1 .. 3 : r.shared[p] = Serialized(ml.shared[p])
    /\ r.routed = [e \in 1 .. k |-> [p \in 1 .. 3 |-> Serialized(ml.routed[e][p])]]

\* That is what ReadLayerAt makes of a layer's fields.
LEMMA ReadOf ==
  ASSUME NEW experts \in Nat, NEW ml, ml.experts = experts, NEW at0 \in Nat, NEW file,
         \A j \in 1 .. LayerLen(experts) : file[at0 + j - 1] = LayerFields(ml)[j]
  PROVE  IsRead(ReadLayerAt(file, at0), ml, experts)
<1> DEFINE fields == LayerFields(ml)
           m == 6 + 3 * experts
           r == ReadLayerAt(file, at0)
<1>1. IsFields(fields, ml, experts)
  BY FieldsOf
<1>2. \A j \in 1 .. m : file[at0 + j - 1] = fields[j]
  BY DEF LayerLen
<1>3. m \in Nat /\ m >= 6
  OBVIOUS
<1>4. file[at0] = ml.name /\ file[at0 + 1] = experts
  <2> HIDE DEF m, fields
  <2>1. 1 \in 1 .. m /\ 2 \in 1 .. m /\ at0 + 1 - 1 = at0 /\ at0 + 2 - 1 = at0 + 1
    BY <1>3
  <2>2. file[at0 + 1 - 1] = fields[1] /\ file[at0 + 2 - 1] = fields[2]
    BY <1>2, <2>1
  <2> QED BY <1>1, <2>1, <2>2 DEF IsFields
<1>5. ASSUME NEW p \in 1 .. 3 PROVE file[at0 + 1 + p] = Serialized(ml.shared[p])
  <2> HIDE DEF m, fields
  <2>1. 2 + p \in 1 .. m /\ at0 + (2 + p) - 1 = at0 + 1 + p
    BY <1>3
  <2>2. file[at0 + (2 + p) - 1] = fields[2 + p]
    BY <1>2, <2>1
  <2> QED BY <1>1, <2>1, <2>2 DEF IsFields
<1>6. ASSUME NEW e \in 1 .. experts, NEW p \in 1 .. 3
      PROVE  file[at0 + 4 + 3 * (e - 1) + p] = Serialized(ml.routed[e][p])
  <2>1. 5 + 3 * (e - 1) + p \in 1 .. m /\ at0 + (5 + 3 * (e - 1) + p) - 1 = at0 + 4 + 3 * (e - 1) + p
    OBVIOUS
  <2> DEFINE j == 5 + 3 * (e - 1) + p
  <2> HIDE DEF m, fields
  <2>2. file[at0 + j - 1] = fields[j]
    <3> HIDE DEF j
    <3>1. j \in 1 .. m
      BY <2>1 DEF j
    <3> QED BY <1>2, <3>1
  <2>3. fields[j] = Serialized(ml.routed[e][p])
    BY <1>1 DEF IsFields
  <2> QED BY <2>1, <2>2, <2>3
<1>7. file[at0 + 5 + 3 * experts] = ml.router
  <2>1. m \in 1 .. m /\ at0 + m - 1 = at0 + 5 + 3 * experts
    OBVIOUS
  <2>2. fields[m] = ml.router
    <3> HIDE DEF fields
    <3> QED BY <1>1 DEF IsFields
  <2> HIDE DEF m, fields
  <2>3. file[at0 + m - 1] = fields[m]
    BY <1>2, <2>1
  <2> QED BY <2>1, <2>2, <2>3
<1>8. /\ r.name = file[at0] \o <<"gate_proj">> /\ r.experts = experts
      /\ r.router = file[at0 + 5 + 3 * experts]
      /\ r.shared = [p \in 1 .. 3 |-> file[at0 + 1 + p]]
      /\ r.routed = [e \in 1 .. experts |->
                       [p \in 1 .. 3 |-> file[at0 + 4 + 3 * (e - 1) + p]]]
  BY <1>4 DEF ReadLayerAt
<1>9. r.routed = [e \in 1 .. experts |-> [p \in 1 .. 3 |-> Serialized(ml.routed[e][p])]]
  <2> DEFINE x(e, p) == file[at0 + 4 + 3 * (e - 1) + p]
             y(e, p) == Serialized(ml.routed[e][p])
  <2>1. \A e \in 1 .. experts : \A p \in 1 .. 3 : x(e, p) = y(e, p)
    BY <1>6
  <2> HIDE DEF x, y, r
  <2>2. [e \in 1 .. experts |-> [p \in 1 .. 3 |-> x(e, p)]]
           = [e \in 1 .. experts |-> [p \in 1 .. 3 |-> y(e, p)]]
    <3>1. \A e \in 1 .. experts : [p \in 1 .. 3 |-> x(e, p)] = [p \in 1 .. 3 |-> y(e, p)]
      BY <2>1
    <3> QED BY <3>1
  <2>3. r.routed = [e \in 1 .. experts |-> [p \in 1 .. 3 |-> x(e, p)]]
    BY <1>8 DEF x
  <2> QED BY <2>2, <2>3 DEF y
<1>10. \A p \in 1 .. 3 : r.shared[p] = Serialized(ml.shared[p])
  <2> HIDE DEF r
  <2> QED BY <1>5, <1>8
<1> HIDE DEF r
<1>11. IsRead(r, ml, experts)
  BY <1>4, <1>7, <1>8, <1>9, <1>10 DEF IsRead
<1> QED
  BY <1>11 DEF r

\* Only the first term of a projection is written: that is all of it when it
\* has one term or none.
LEMMA FirstTerm ==
  ASSUME NEW t \in Nat
  PROVE  (1 .. t) \cap {1} = 1 .. t <=> Cardinality(1 .. t) <= 1
<1>1. Cardinality(1 .. t) = t
  <2>1. Cardinality(1 .. t) = IF 1 > t THEN 0 ELSE t - 1 + 1
    BY FS_Interval
  <2> QED BY <2>1
<1>2. CASE t <= 1
  BY <1>1, <1>2
<1>3. CASE t > 1
  <2>1. 2 \in 1 .. t /\ 2 \notin (1 .. t) \cap {1}
    BY <1>3
  <2> QED BY <1>1, <1>3, <2>1
<1> QED
  BY <1>2, <1>3

\* What a device loads holds a number of terms for each layer.
LEMMA TermsCounted ==
  ASSUME NEW c \in Checkpoint, NEW f, Directory(<<c, f>>).loads
  PROVE  \A x \in Elements(WholeList(Directory(<<c, f>>))) : x.terms \in Nat
<1> DEFINE dir == Directory(<<c, f>>)
<1> SUFFICES ASSUME NEW x \in Elements(WholeList(dir)) PROVE x.terms \in Nat
  OBVIOUS
<1>1. CASE f = "als"
  <2> DEFINE file == Decomposed(c)
  <2>1. Reads(x, file, FileNames(c))
    BY <1>1, AlsReads
  <2>2. PICK k \in 1 .. Len(file) : x = Parsed(file[k])
    <3> HIDE DEF file
    <3> QED BY <2>1 DEF Reads
  <2>3. file[k] = Recorded(c, file[k].name)
    BY RecordNamed
  <2> DEFINE a == file[k].name
  <2>4. file[k].terms \in Nat
    <3>1. c.terms \in Nat
      BY CheckpointNumbers
    <3>2. file[k] = Recorded(c, a)
      BY <2>3
    <3> HIDE DEF file, a
    <3>3. Recorded(c, a).terms \in Nat
      <4>1. RawRecord(c, a).terms = 0
        BY DEF RawRecord
      <4>2. BlocksRecord(c, a).terms = c.terms
        BY DEF BlocksRecord
      <4> QED BY <3>1, <4>1, <4>2 DEF Recorded
    <3> QED BY <3>2, <3>3
  <2> HIDE DEF file
  <2>5. x.terms = IF IsOldLayout(file[k]) THEN 0 ELSE file[k].terms
    BY <2>2 DEF Parsed
  <2> QED BY <2>4, <2>5
<1>2. CASE f # "als"
  <2> DEFINE style == Styles[f]
             list == GgufLayers(GgufOf(c, style))
  <2>1. /\ dir.format = "gguf" /\ dir.file = GgufOf(c, style)
        /\ GgufLoads(GgufOf(c, style))
    BY <1>2, DirectoryFacts
  <2>2. WholeList(dir) = list
    BY <2>1 DEF WholeList
  <2>3. \A y \in Elements(list) : y.terms \in Nat
    BY <2>1, GgufLayersOf
  <2> QED BY <2>2, <2>3
<1> QED
  BY <1>1, <1>2

\* A projection: a record with a number of terms.
IsProjection(d) ==
    /\ d = [z \in DOMAIN d |-> d[z]] /\ "terms" \in DOMAIN d
    /\ \E t \in Nat : d.terms = 1 .. t

\* A projection that is found is one (find_layer_index).
LEMMA DenseTerms ==
  ASSUME NEW model, NEW proj, NEW i, <<proj, i>> \in LayerNames(model),
         DOMAIN model.layers \subseteq Nat,
         \A k \in DOMAIN model.layers : model.layers[k].terms \in Nat
  PROVE  IsProjection(Dense(model, proj, i))
<1> DEFINE found == {k \in DOMAIN model.layers : model.layers[k].name = <<proj, i>>}
           one == CHOOSE k \in found : \A j \in found : k <= j
           l == model.layers[one]
           d == Dense(model, proj, i)
<1>1. found # {} /\ found \subseteq Nat
  BY DEF LayerNames
<1>2. one \in found
  <2> HIDE DEF found
  <2>1. \E k \in found : \A j \in found : k <= j
    BY <1>1, NatMinimum
  <2> QED BY <2>1
<1>3. l.terms \in Nat
  BY <1>2
<1>4. d = [as |-> l.as, rows |-> l.rows, cols |-> l.cols, terms |-> 1 .. l.terms]
  BY DEF Dense
<1> DEFINE A == l.as
           B == l.rows
           C == l.cols
           t == l.terms
           T == 1 .. t
<1>5. d = [as |-> A, rows |-> B, cols |-> C, terms |-> T]
  BY <1>4
<1> HIDE DEF d, A, B, C, T, l, one
<1>6. d = [z \in DOMAIN d |-> d[z]] /\ "terms" \in DOMAIN d /\ d.terms = T
  BY <1>5
<1>7. \E u \in Nat : d.terms = 1 .. u
  BY <1>3, <1>6 DEF T
<1>8. IsProjection(d)
  BY <1>6, <1>7 DEF IsProjection
<1> QED
  BY <1>8 DEF d

\* Writing what is of one term or none changes nothing.
LEMMA SerializedSame ==
  ASSUME NEW d, d = [z \in DOMAIN d |-> d[z]], "terms" \in DOMAIN d,
         d.terms \cap {1} = d.terms
  PROVE  Serialized(d) = d
<1> DEFINE T == d.terms \cap {1}
<1>1. [d EXCEPT !.terms = T] = [z \in DOMAIN d |-> IF z = "terms" THEN T ELSE d[z]]
  OBVIOUS
<1>2. \A z \in DOMAIN d : (IF z = "terms" THEN T ELSE d[z]) = d[z]
  OBVIOUS
<1>3. [z \in DOMAIN d |-> IF z = "terms" THEN T ELSE d[z]] = [z \in DOMAIN d |-> d[z]]
  BY <1>2
<1>4. Serialized(d) = [d EXCEPT !.terms = T]
  BY DEF Serialized
<1> QED
  BY <1>1, <1>3, <1>4

\* Writing keeps the first term: of what an expert was given that is all, of a
\* projection when it has no more.
LEMMA SerializedFacts ==
  ASSUME NEW d, IsProjection(d)
  PROVE  /\ Serialized(Distributed(d)) = Distributed(d)
         /\ Serialized(d) = d <=> Cardinality(d.terms) <= 1
<1> DEFINE e == Distributed(d)
           s == Serialized(d)
<1>1. d = [z \in DOMAIN d |-> d[z]] /\ "terms" \in DOMAIN d
  BY DEF IsProjection
<1>2. PICK t \in Nat : d.terms = 1 .. t
  BY DEF IsProjection
<1>3. s.terms = d.terms \cap {1} /\ e = s
  BY <1>1 DEF Serialized, Distributed
<1>4. "terms" \in DOMAIN s /\ s = [z \in DOMAIN s |-> s[z]]
  BY <1>1 DEF Serialized
<1> HIDE DEF e, s
<1>5. s.terms \cap {1} = s.terms
  BY <1>3
<1>6. Serialized(s) = s
  BY <1>4, <1>5, SerializedSame
<1>7. ASSUME Cardinality(d.terms) <= 1 PROVE s = d
  <2>1. d.terms \cap {1} = d.terms
    BY <1>2, <1>7, FirstTerm
  <2> QED BY <1>1, <2>1, SerializedSame DEF s
<1>8. ASSUME s = d PROVE Cardinality(d.terms) <= 1
  BY <1>2, <1>3, <1>8, FirstTerm
<1> QED
  BY <1>3, <1>6, <1>7, <1>8 DEF e, s

\* A model mote-build can take apart has every projection.
LEMMA ProjectionsThere ==
  ASSUME job \in Deployments, Source \in Separable,
         NEW i \in 1 .. job.ckpt.layers, NEW p \in 1 .. 3
  PROVE  IsProjection(Dense(DeviceModel, Projections[p], i - 1))
<1> DEFINE c == job.ckpt
           dir == Directory(<<c, job.format>>)
           list == WholeList(dir)
           n == <<Projections[p], i - 1>>
<1>1. /\ c \in Checkpoint /\ Dir = dir
      /\ DeviceModel = IF DeviceThrows(Dir) THEN None ELSE Model(Dir, WholeList(Dir))
  BY Here
<1>2. DeviceModel # None /\ DenseFound(c, DeviceModel)
  <2>1. Models[Source] # None /\ DenseFound(Source[1], Models[Source])
    BY DEF Separable
  <2>2. Source[1] = c
    BY DEF Source
  <2> QED BY <2>1, <2>2 DEF DeviceModel
<1>3. DeviceModel = Model(dir, list) /\ dir.loads
  BY <1>1, <1>2 DEF DeviceThrows
<1>4. n \in LayerNames(DeviceModel)
  <2>1. DOMAIN Projections = 1 .. 3
    BY DEF Projections
  <2>2. i - 1 \in 0 .. c.layers - 1
    BY <1>1, NameFacts
  <2> QED BY <1>2, <2>1, <2>2 DEF DenseFound
<1>5. list \in Seq(Elements(list))
  <2>1. {} \subseteq FileNames(c)
    OBVIOUS
  <2> QED BY <1>1, <1>3, <2>1, ListFacts
<1>6. \A x \in Elements(list) : x.terms \in Nat
  BY <1>1, <1>3, TermsCounted
<1> DEFINE own == DeviceModel.layers
<1> HIDE DEF list, dir, n
<1>7. own \in Seq(Elements(list)) /\ \A x \in Elements(own) : x \in Elements(list)
  <2> DEFINE places == {k \in DOMAIN list : list[k].name[1] \notin {"q_norm", "k_norm"}}
  <2>1. own = Picked(list, places)
    BY <1>3 DEF Model, Unlifted, Where
  <2>2. Picked(list, places) \in Seq(Elements(list))
    <3> HIDE DEF places
    <3> QED BY <1>5, PickedFacts
  <2>3. \A x \in Elements(Model(dir, list).layers) : x \in Elements(list)
    BY <1>5, ModelFacts
  <2> HIDE DEF places
  <2> QED BY <1>3, <2>1, <2>2, <2>3
<1>8. DOMAIN own \subseteq Nat /\ \A k \in DOMAIN own : own[k].terms \in Nat
  <2> HIDE DEF own
  <2>1. DOMAIN own \subseteq Nat
    BY <1>7, LenProperties
  <2>2. \A k \in DOMAIN own : own[k] \in Elements(own)
    BY DEF Elements
  <2> QED BY <1>6, <1>7, <2>1, <2>2
<1>9. <<Projections[p], i - 1>> \in LayerNames(DeviceModel)
  BY <1>4 DEF n
<1> HIDE DEF c
<1> QED
  BY <1>8, <1>9, DenseTerms

\* A deployment whose mote-build is done had a model to take apart.
MoteInv == stage = "mote" => Source \in Separable

\* mote-list reads what mote-build wrote of the model.
LEMMA RoundTrip ==
  ASSUME job \in Deployments, Source \in Separable
  PROVE  LET made == Made
             read == load_mote_layers(MoteBytes)
         IN  /\ Len(read) = job.ckpt.layers
             /\ \A i \in DOMAIN made :
                   /\ read[i].experts = job.experts
                   /\ read[i].router = made[i].router
                   /\ read[i].routed = made[i].routed
                   /\ read[i].name = made[i].name \o <<"gate_proj">>
                   /\ \A p \in 1 .. 3 :
                         read[i].shared[p] = made[i].shared[p]
                             <=> Cardinality(made[i].shared[p].terms) <= 1
<1> DEFINE c == job.ckpt
           n == c.layers
           K == job.experts
           dense(i, p) == Dense(DeviceModel, Projections[p], i - 1)
           made == Made
           file == MoteFields(K, made)
           read == load_mote_layers(file)
<1>1. c \in Checkpoint /\ n \in Nat /\ K \in Nat
  BY Here, NameFacts, DeploymentAssumption
<1>2. made = [i \in 1 .. n |->
                [name |-> <<"mote", "gate_proj", i - 1>>, experts |-> K,
                 shared |-> [p \in 1 .. 3 |-> dense(i, p)],
                 routed |-> [e \in 1 .. K |-> [p \in 1 .. 3 |-> Distributed(dense(i, p))]],
                 router |-> c.hidden * K]]
  BY DEF Made, MoteLayers
<1> HIDE DEF dense
<1>3. /\ DOMAIN made = 1 .. n /\ Len(made) = n
      /\ \A i \in 1 .. n :
            /\ made[i].experts = K
            /\ made[i].shared = [p \in 1 .. 3 |-> dense(i, p)]
            /\ made[i].routed = [e \in 1 .. K |-> [p \in 1 .. 3 |-> Distributed(dense(i, p))]]
  <2> HIDE DEF made, n, K, c
  <2>1. DOMAIN made = 1 .. n /\ Len(made) = n
    BY <1>1, <1>2
  <2> QED BY <1>2, <2>1
<1>4. \A i \in 1 .. n, p \in 1 .. 3 : IsProjection(dense(i, p))
  BY ProjectionsThere DEF dense
<1>5. MoteBytes = file
  BY DEF MoteBytes
<1> HIDE DEF made, n, K, c, file, read
<1>6. PICK pos : Lays(pos, file, made, n, K)
  BY <1>1, <1>3, FileLays DEF file
<1>7. Len(read) = n /\ \A i \in 1 .. n : read[i] = ReadLayerAt(file, pos[i])
  <2>1. ReadsAt(load_mote_layers(file), pos, file, n)
    BY <1>1, <1>6, ReadsWhatLies
  <2> QED BY <2>1 DEF ReadsAt, read
<1>8. ASSUME NEW i \in 1 .. n PROVE IsRead(read[i], made[i], K)
  <2>1. pos[i] \in Nat
    <3>1. i \in 1 .. n + 1
      BY <1>1
    <3> QED BY <1>6, <3>1 DEF Lays
  <2>2. \A j \in 1 .. LayerLen(K) : file[pos[i] + j - 1] = LayerFields(made[i])[j]
    BY <1>6 DEF Lays
  <2> DEFINE at0 == pos[i]
             ml == made[i]
  <2>3. ml.experts = K
    BY <1>3
  <2>4. read[i] = ReadLayerAt(file, at0)
    BY <1>7
  <2> HIDE DEF at0, ml
  <2>5. IsRead(ReadLayerAt(file, at0), ml, K)
    BY <1>1, <2>1, <2>2, <2>3, ReadOf DEF at0, ml
  <2> QED BY <2>4, <2>5 DEF ml
<1>9. ASSUME NEW i \in 1 .. n
      PROVE  /\ read[i].routed = made[i].routed
             /\ \A p \in 1 .. 3 : read[i].shared[p] = made[i].shared[p]
                                     <=> Cardinality(made[i].shared[p].terms) <= 1
  <2> DEFINE shared(p) == made[i].shared[p]
             routed(e, p) == made[i].routed[e][p]
  <2>1. /\ \A p \in 1 .. 3 : read[i].shared[p] = Serialized(shared(p))
        /\ read[i].routed = [e \in 1 .. K |-> [p \in 1 .. 3 |-> Serialized(routed(e, p))]]
    BY <1>8 DEF IsRead
  <2>2. \A p \in 1 .. 3 : shared(p) = dense(i, p)
    <3> DEFINE y(p) == dense(i, p)
    <3>1. made[i].shared = [p \in 1 .. 3 |-> y(p)]
      BY <1>3
    <3> HIDE DEF y
    <3>2. \A p \in 1 .. 3 : made[i].shared[p] = y(p)
      BY <3>1
    <3> QED BY <3>2 DEF y
  <2>3. \A e \in 1 .. K : \A p \in 1 .. 3 : routed(e, p) = Distributed(dense(i, p))
    <3> DEFINE y(e, p) == Distributed(dense(i, p))
    <3>1. made[i].routed = [e \in 1 .. K |-> [p \in 1 .. 3 |-> y(e, p)]]
      BY <1>3
    <3> HIDE DEF y
    <3>2. \A e \in 1 .. K : \A p \in 1 .. 3 : made[i].routed[e][p] = y(e, p)
      BY <3>1
    <3> QED BY <3>2 DEF y
  <2>4. made[i].routed = [e \in 1 .. K |-> [p \in 1 .. 3 |-> Distributed(dense(i, p))]]
    BY <1>3
  <2> HIDE DEF shared, routed
  <2>5. \A e \in 1 .. K : \A p \in 1 .. 3 : Serialized(routed(e, p)) = Distributed(dense(i, p))
    BY <1>4, <2>3, SerializedFacts
  <2>6. read[i].routed = [e \in 1 .. K |-> [p \in 1 .. 3 |-> Distributed(dense(i, p))]]
    <3> DEFINE x(e, p) == Serialized(routed(e, p))
               y(e, p) == Distributed(dense(i, p))
    <3>1. \A e \in 1 .. K : \A p \in 1 .. 3 : x(e, p) = y(e, p)
      BY <2>5
    <3>2. read[i].routed = [e \in 1 .. K |-> [p \in 1 .. 3 |-> x(e, p)]]
      BY <2>1
    <3> HIDE DEF x, y
    <3>3. \A e \in 1 .. K : [p \in 1 .. 3 |-> x(e, p)] = [p \in 1 .. 3 |-> y(e, p)]
      BY <3>1
    <3>4. [e \in 1 .. K |-> [p \in 1 .. 3 |-> x(e, p)]] = [e \in 1 .. K |-> [p \in 1 .. 3 |-> y(e, p)]]
      BY <3>3
    <3> QED BY <3>2, <3>4 DEF y
  <2>7. \A p \in 1 .. 3 : Serialized(shared(p)) = shared(p) <=> Cardinality(shared(p).terms) <= 1
    BY <1>4, <2>2, SerializedFacts
  <2> QED BY <2>1, <2>4, <2>6, <2>7 DEF shared
<1>10. Len(read) = n
  BY <1>1, <1>7
<1>11. \A i \in 1 .. n : /\ read[i].experts = K /\ read[i].router = made[i].router
                         /\ read[i].name = made[i].name \o <<"gate_proj">>
  BY <1>8 DEF IsRead
<1> QED
  BY <1>3, <1>5, <1>9, <1>10, <1>11 DEF made, n, K, c, read

\* What mote-list reads is what mote-build made, the shared expert's further
\* terms apart (save_mote_model, load_mote_layers): for any model, number of
\* layers and number of experts.
THEOREM MoteReadsWhatItWrote == DeploySpec => []MoteRoundTrip
<1>1. DeployInit => MoteInv
  BY DEF DeployInit, MoteInv
<1>2. MoteInv /\ [DeployNext]_deployVars => MoteInv'
  <2> SUFFICES ASSUME MoteInv, [DeployNext]_deployVars PROVE MoteInv'
    OBVIOUS
  <2>1. job' = job
    BY DEF DeployNext, Steps, Stage, Convert, MoteBuild, ByHand, CoordinatorStarts,
           DaemonPlans, DaemonSpawns, Health, NoConfig, Adopt, NoPlan, Planning,
           PlanFails, Planned, Push, Serve, WorkerDies, deployVars
  <2>2. Source' = Source
    BY <2>1 DEF Source
  <2>3. stage' = "mote" => stage = "mote" \/ Source \in Separable
    BY DEF DeployNext, Steps, Stage, Convert, MoteBuild, ByHand, CoordinatorStarts,
           DaemonPlans, DaemonSpawns, Health, NoConfig, Adopt, NoPlan, Planning,
           PlanFails, Planned, Push, Serve, WorkerDies, deployVars
  <2> QED BY <2>2, <2>3 DEF MoteInv
<1>3. DeployInv /\ MoteInv => MoteRoundTrip
  <2> SUFFICES ASSUME DeployInv, stage = "mote", Source \in Separable PROVE MoteRoundTrip
    BY DEF MoteInv, MoteRoundTrip
  <2>1. job \in Deployments
    BY DEF DeployInv, PlanInv
  <2> QED BY <2>1, RoundTrip DEF MoteRoundTrip, ReadAsMade
<1> QED
  BY <1>1, <1>2, <1>3, LoadInvariant, PTL DEF DeploySpec

-----------------------------------------------------------------------------
(* Halves as floats.                                                       *)

\* The fractions of subnormal halves.
Fractions == 1 .. 1023

\* The leading bit of a fraction can be shifted to bit 10, and only one shift
\* does it.
LEMMA ShiftsFacts ==
  ASSUME NEW m \in Fractions
  PROVE  /\ Shifts(m) \in 1 .. 10
         /\ Shifts(m) = 5 <=> 32 <= m /\ m <= 63
<1> DEFINE k == Shifts(m)
           Between(a, b) == a <= m /\ m <= b
<1>0. m \in 1 .. 1023
  BY DEF Fractions
<1> USE <1>0
<1>1. k \in 1 .. 10 /\ m * 2 ^ k \in 1024 .. 2047
  <2> DEFINE Lead(j) == m * 2 ^ j \in 1024 .. 2047
  <2>1. \E j \in 1 .. 10 : Lead(j)
    OBVIOUS
  <2>2. k = CHOOSE j \in 1 .. 10 : Lead(j)
    BY DEF Shifts
  <2> HIDE DEF k, Lead
  <2>3. k \in 1 .. 10 /\ Lead(k)
    BY <2>1, <2>2
  <2> QED BY <2>3 DEF Lead
<1> HIDE DEF k
<1>2. k = 1 \/ k = 2 \/ k = 3 \/ k = 4 \/ k = 5 \/ k = 6 \/ k = 7 \/ k = 8 \/ k = 9 \/ k = 10
  BY <1>1
<1>3. 1024 <= m * 2 ^ k /\ m * 2 ^ k <= 2047
  BY <1>1
<1>4. /\ (k = 1 => Between(512, 1023)) /\ (k = 2 => Between(256, 511))
      /\ (k = 3 => Between(128, 255)) /\ (k = 4 => Between(64, 127))
      /\ (k = 5 => Between(32, 63)) /\ (k = 6 => Between(16, 31))
      /\ (k = 7 => Between(8, 15)) /\ (k = 8 => Between(4, 7))
      /\ (k = 9 => Between(2, 3)) /\ (k = 10 => Between(1, 1))
  <2>1. k = 1 => Between(512, 1023)
    BY <1>3
  <2>2. k = 2 => Between(256, 511)
    BY <1>3
  <2>3. k = 3 => Between(128, 255)
    BY <1>3
  <2>4. k = 4 => Between(64, 127)
    BY <1>3
  <2>5. k = 5 => Between(32, 63)
    BY <1>3
  <2>6. k = 6 => Between(16, 31)
    BY <1>3
  <2>7. k = 7 => Between(8, 15)
    BY <1>3
  <2>8. k = 8 => Between(4, 7)
    BY <1>3
  <2>9. k = 9 => Between(2, 3)
    BY <1>3
  <2>10. k = 10 => Between(1, 1)
    BY <1>3
  <2> QED BY <2>1, <2>2, <2>3, <2>4, <2>5, <2>6, <2>7, <2>8, <2>9, <2>10
<1>5. k = 5 <=> 32 <= m /\ m <= 63
  BY <1>2, <1>4
<1> QED
  BY <1>1, <1>5 DEF k

\* Eight times a fraction is shifted by seven at most.
LEMMA ShiftsOfEights ==
  ASSUME NEW m \in Fractions, m % 8 = 0
  PROVE  Shifts(m) \in 1 .. 7
<1> DEFINE k == Shifts(m)
<1>0. m \in 1 .. 1023
  BY DEF Fractions
<1> USE <1>0
<1>1. k \in 1 .. 10 /\ m * 2 ^ k \in 1024 .. 2047
  <2> DEFINE Lead(j) == m * 2 ^ j \in 1024 .. 2047
  <2>1. \E j \in 1 .. 10 : Lead(j)
    OBVIOUS
  <2>2. k = CHOOSE j \in 1 .. 10 : Lead(j)
    BY DEF Shifts
  <2> HIDE DEF k, Lead
  <2>3. k \in 1 .. 10 /\ Lead(k)
    BY <2>1, <2>2
  <2> QED BY <2>3 DEF Lead
<1> HIDE DEF k
<1>2. k = 8 => m \in 4 .. 7
  BY <1>1
<1>3. k = 9 => m \in 2 .. 3
  BY <1>1
<1>4. k = 10 => m = 1
  BY <1>1
<1>5. k # 8 /\ k # 9 /\ k # 10
  BY <1>2, <1>3, <1>4
<1> QED
  BY <1>1, <1>5 DEF k

\* The fields of a number of 16 bits.
LEMMA FieldFacts ==
  ASSUME NEW h \in Bits16
  PROVE  /\ Half(h).exp \in 0 .. 31 /\ Half(h).man \in 0 .. 1023
         /\ Brain(h).exp \in 0 .. 255 /\ Brain(h).man \in 0 .. 127
<1>1. h \in Nat
  BY DEF Bits16
<1>2. /\ Half(h).exp = (h \div 1024) % 32 /\ Half(h).man = h % 1024
      /\ Brain(h).exp = (h \div 128) % 256 /\ Brain(h).man = h % 128
  BY DEF Half, Brain, Float
<1>3. h \div 1024 \in Nat /\ h \div 128 \in Nat
  BY <1>1
<1> QED
  BY <1>1, <1>2, <1>3

\* Floats are equal when their fields are.
LEMMA FloatFields ==
  ASSUME NEW s, NEW e, NEW m, NEW s2, NEW e2, NEW m2
  PROVE  /\ Float(s, e, m).sign = s /\ Float(s, e, m).exp = e /\ Float(s, e, m).man = m
         /\ Float(s, e, m) = Float(s2, e2, m2) <=> s = s2 /\ e = e2 /\ m = m2
BY DEF Float

\* safetensors.cpp scales every subnormal binary16 by two, and nothing else.
LEMMA F16Converted ==
  ASSUME NEW h \in Bits16
  PROVE  f16_to_f32(h) = Exact("F16", h) <=> ~Subnormal(Half(h))
<1> DEFINE f == Half(h)
           k == Shifts(f.man)
           man == ((f.man * 2 ^ k) % 1024) * 8192
<1>1. f.exp \in 0 .. 31 /\ f.man \in 0 .. 1023
  BY FieldFacts
<1>2. CASE Subnormal(f)
  <2>1. f.exp = 0 /\ f.man # 0 /\ f.man \in 1 .. 1023
    BY <1>1, <1>2 DEF Subnormal
  <2>0. f.man \in Fractions
    BY <2>1 DEF Fractions
  <2>2. f16_to_f32(h) = Float(f.sign, 127 - 15 - k, man)
    BY <2>1 DEF f16_to_f32, Normalized
  <2>3. Exact("F16", h) = Float(f.sign, 127 + 10 - k - 24, man)
    BY <1>2, <2>1 DEF Exact, Normalized
  <2> HIDE DEF man
  <2>4. k \in 1 .. 10
    BY <2>0, ShiftsFacts
  <2> HIDE DEF k
  <2>5. 127 - 15 - k # 127 + 10 - k - 24
    BY <2>4
  <2> QED BY <1>2, <2>2, <2>3, <2>5, FloatFields
<1>3. CASE ~Subnormal(f)
  <2>1. f.exp # 0 \/ f.man = 0
    BY <1>3 DEF Subnormal
  <2>2. CASE f.exp = 31
    BY <1>3, <2>2 DEF f16_to_f32, Exact
  <2>3. CASE f.exp = 0
    BY <1>3, <2>1, <2>3 DEF f16_to_f32, Exact
  <2>4. CASE f.exp # 31 /\ f.exp # 0
    <3>1. f16_to_f32(h) = Float(f.sign, f.exp - 15 + 127, f.man * 8192)
      BY <2>4 DEF f16_to_f32
    <3>2. Exact("F16", h) = Float(f.sign, 127 + f.exp - 15, f.man * 8192)
      BY <1>3, <2>4 DEF Exact
    <3>3. f.exp - 15 + 127 = 127 + f.exp - 15
      BY <1>1
    <3> QED BY <1>3, <3>1, <3>2, <3>3
  <2> QED BY <2>2, <2>3, <2>4
<1> QED
  BY <1>2, <1>3

\* A subnormal bfloat16 is packed with an exponent below 1, or its fraction
\* loses the leading bit.
LEMMA BF16Converted ==
  ASSUME NEW h \in Bits16
  PROVE  bf16_to_f32(h) = Exact("BF16", h) <=> ~Subnormal(Brain(h))
<1> DEFINE f == Brain(h)
           k == Shifts(8 * f.man)
           e == 127 - 126 - k
           man == ((f.man * 2 ^ k) % 128) * 65536
<1>1. f.exp \in 0 .. 255 /\ f.man \in 0 .. 127
  BY FieldFacts
<1>2. Exact("BF16", h) = Float(f.sign, f.exp, f.man * 65536)
  BY DEF Exact
<1>3. CASE Subnormal(f)
  <2>1. f.exp = 0 /\ f.man \in 1 .. 127
    BY <1>1, <1>3 DEF Subnormal
  <2>2. bf16_to_f32(h) = Float(IF e < 0 THEN 1 ELSE f.sign, e % 256, man)
    BY <1>3 DEF bf16_to_f32, Packed
  <2>3. k \in 1 .. 7
    <3>1. 8 * f.man \in Fractions /\ (8 * f.man) % 8 = 0
      BY <2>1 DEF Fractions
    <3> QED BY <3>1, ShiftsOfEights
  <2>4. e % 256 # 0 \/ man # f.man * 65536
    <3>1. CASE k = 1
      <4> HIDE DEF k
      <4>1. man = ((f.man * 2 ^ 1) % 128) * 65536
        BY <3>1
      <4> QED BY <2>1, <4>1
    <3>2. CASE k # 1
      <4> HIDE DEF k
      <4> QED BY <2>3, <3>2
    <3> QED BY <3>1, <3>2
  <2> HIDE DEF man, e
  <2> QED BY <1>2, <1>3, <2>1, <2>2, <2>4, FloatFields
<1>4. CASE ~Subnormal(f)
  <2>1. bf16_to_f32(h) = Float(f.sign, f.exp, f.man * 65536)
    BY <1>4 DEF bf16_to_f32
  <2> QED BY <1>2, <1>4, <2>1
<1> QED
  BY <1>3, <1>4

\* gguf_loader.h takes the shift for the exponent: right for one leading bit.
LEMMA Fp16Read ==
  ASSUME NEW h \in Bits16
  PROVE  fp16_to_fp32(h) = Exact("F16", h)
            <=> (Subnormal(Half(h)) => Half(h).man \in 32 .. 63)
<1> DEFINE f == Half(h)
           k == Shifts(f.man)
           man == ((f.man * 2 ^ k) % 1024) * 8192
<1>1. f.exp \in 0 .. 31 /\ f.man \in 0 .. 1023
  BY FieldFacts
<1>2. CASE Subnormal(f)
  <2>1. f.exp = 0 /\ f.man # 0 /\ f.man \in 1 .. 1023
    BY <1>1, <1>2 DEF Subnormal
  <2>0. f.man \in Fractions
    BY <2>1 DEF Fractions
  <2>2. fp16_to_fp32(h) = Float(f.sign, 1 + (127 - 15) - (10 - k), man)
    BY <2>1 DEF fp16_to_fp32, Normalized
  <2>3. Exact("F16", h) = Float(f.sign, 127 + 10 - k - 24, man)
    BY <1>2, <2>1 DEF Exact, Normalized
  <2> HIDE DEF man
  <2>4. k \in 1 .. 10 /\ (k = 5 <=> f.man \in 32 .. 63)
    <3>1. k \in 1 .. 10 /\ (k = 5 <=> 32 <= f.man /\ f.man <= 63)
      BY <2>0, ShiftsFacts
    <3> QED BY <2>1, <3>1
  <2> HIDE DEF k
  <2>5. 1 + (127 - 15) - (10 - k) = 127 + 10 - k - 24 <=> k = 5
    BY <2>4
  <2> QED BY <1>2, <2>2, <2>3, <2>4, <2>5, FloatFields
<1>3. CASE ~Subnormal(f)
  <2>1. f.exp # 0 \/ f.man = 0
    BY <1>3 DEF Subnormal
  <2>2. CASE f.exp = 31
    BY <1>3, <2>2 DEF fp16_to_fp32, Exact
  <2>3. CASE f.exp = 0
    BY <1>3, <2>1, <2>3 DEF fp16_to_fp32, Exact
  <2>4. CASE f.exp # 31 /\ f.exp # 0
    <3>1. fp16_to_fp32(h) = Float(f.sign, f.exp + (127 - 15), f.man * 8192)
      BY <2>4 DEF fp16_to_fp32
    <3>2. Exact("F16", h) = Float(f.sign, 127 + f.exp - 15, f.man * 8192)
      BY <1>3, <2>4 DEF Exact
    <3>3. f.exp + (127 - 15) = 127 + f.exp - 15
      BY <1>1
    <3> QED BY <1>3, <3>1, <3>2, <3>3
  <2> QED BY <2>2, <2>3, <2>4
<1> QED
  BY <1>2, <1>3

-----------------------------------------------------------------------------
(* What a device loads of a converted directory.                           *)

\* The names whose records are matrices of floats.
RawNamed(c, n) ==
    \/ n[1] \in {"lm_head", "q_norm", "k_norm"}
    \/ c.fusedQkv /\ n[1] \in {"q_proj", "k_proj", "v_proj"}

\* A reader gets lost in a record that is not legible; one that it finds legible
\* it reads as what it was written as.
LEMMA RecordParts ==
  ASSUME NEW c \in Checkpoint, NEW n
  PROVE  /\ Recorded(c, n).name = n
         /\ Recorded(c, n).terms = IF RawNamed(c, n) THEN 0 ELSE c.terms
         /\ Recorded(c, n).type = Container <=> ~RawNamed(c, n)
         /\ Loses(Recorded(c, n)) <=> ~Legible(Recorded(c, n))
         /\ ~RawNamed(c, n) => (IsOldLayout(Recorded(c, n)) <=> ~Legible(Recorded(c, n)))
         /\ Parsed(Recorded(c, n)).name = n
         /\ Parsed(Recorded(c, n)).as = "raw"
               <=> Legible(Recorded(c, n)) /\ RawNamed(c, n)
<1> DEFINE r == Recorded(c, n)
<1>1. r = IF RawNamed(c, n) THEN RawRecord(c, n) ELSE BlocksRecord(c, n)
  BY DEF Recorded, RawNamed
<1>2. /\ RawRecord(c, n).type = 1 /\ RawRecord(c, n).terms = 0
      /\ BlocksRecord(c, n).type = 2 /\ BlocksRecord(c, n).terms = c.terms
      /\ BlocksRecord(c, n).fits = TRUE
      /\ RawRecord(c, n).name = n /\ BlocksRecord(c, n).name = n
  BY DEF RawRecord, BlocksRecord, Raw, Container
<1>3. /\ r.type = IF RawNamed(c, n) THEN 1 ELSE 2
      /\ r.terms = IF RawNamed(c, n) THEN 0 ELSE c.terms
      /\ ~RawNamed(c, n) => r.fits = TRUE
      /\ r.name = n
  BY <1>1, <1>2
<1> HIDE DEF r
<1>4. IsOldLayout(r) <=> LowBits(r) = 0
  BY <1>3 DEF IsOldLayout
<1>5. /\ Parsed(r).name = n
      /\ Parsed(r).as = IF IsOldLayout(r) THEN "planes"
                        ELSE IF r.type # 1 THEN "blocks"
                        ELSE IF r.fits THEN "raw" ELSE "cut"
  BY <1>3 DEF Parsed, Raw
<1>6. Parsed(r).as = "raw" <=> Legible(r) /\ RawNamed(c, n)
  BY <1>3, <1>4, <1>5 DEF Legible
<1>7. Loses(r) <=> ~Legible(r)
  BY <1>4 DEF Loses, Legible
<1>8. ~RawNamed(c, n) => (IsOldLayout(r) <=> ~Legible(r))
  BY <1>3, <1>4 DEF Legible
<1>9. r.type = Container <=> ~RawNamed(c, n)
  BY <1>3 DEF Container
<1> QED
  BY <1>3, <1>5, <1>6, <1>7, <1>8, <1>9 DEF r

\* The reader stops behind the first such record, and gets all before it.
LEMMA ConvertedReads ==
  ASSUME NEW c \in Checkpoint
  PROVE  LET file == Decomposed(c)
             W == WholeList(Directory(<<c, "als">>))
         IN  /\ file \in Seq(FileRecords(c)) /\ Once(file)
             /\ \A k \in 1 .. Len(file) : file[k].name \in Stored(c)
                                          /\ file[k] = Recorded(c, file[k].name)
             /\ \A n \in Stored(c) : \E k \in 1 .. Len(file) : file[k] = Recorded(c, n)
             /\ \A x : x \in Elements(W) <=>
                   \E k \in 1 .. Len(file) :
                      /\ x = Parsed(file[k])
                      /\ \A j \in 1 .. Len(file) : j < k => Legible(file[j])
<1> DEFINE file == Decomposed(c)
           T == FileRecords(c)
           W == WholeList(Directory(<<c, "als">>))
           last == LastFound(file)
<1>1. file \in Seq(T) /\ Once(file)
  BY DecomposedOf
<1>2. \A x : x \in Elements(W) <=> Reads(x, file, FileNames(c))
  BY AlsReads
<1>3. /\ \A x : x \in Elements(file) <=> \E n \in Stored(c) : x = Recorded(c, n)
      /\ Stored(c) \subseteq FileNames(c)
  BY StoredRecords
<1> HIDE DEF file, T, W, last
<1>4. /\ Len(file) \in Nat
      /\ \A x : x \in Elements(file) <=> \E k \in 1 .. Len(file) : x = file[k]
  BY <1>1, ListElements
<1>5. ASSUME NEW k \in 1 .. Len(file)
      PROVE  /\ file[k].name \in Stored(c) /\ file[k] = Recorded(c, file[k].name)
             /\ Loses(file[k]) <=> ~Legible(file[k])
  <2>1. PICK n \in Stored(c) : file[k] = Recorded(c, n)
    BY <1>3, <1>4
  <2> QED BY <2>1, RecordParts
<1>6. \A n \in Stored(c) : \E k \in 1 .. Len(file) : file[k] = Recorded(c, n)
  BY <1>3, <1>4
<1>7. /\ last \in 0 .. Len(file)
      /\ \A k \in 1 .. Len(file) : k < last => ~Loses(file[k])
      /\ \A k \in 1 .. Len(file) : k > last =>
            last \in 1 .. Len(file) /\ Loses(file[last])
  BY <1>1, LastFoundFacts DEF last
<1>8. ASSUME NEW k \in 1 .. Len(file)
      PROVE  k <= last <=> \A j \in 1 .. Len(file) : j < k => Legible(file[j])
  <2>1. last \in Nat /\ k \in Nat
    BY <1>4, <1>7
  <2>2. ASSUME k <= last, NEW j \in 1 .. Len(file), j < k PROVE Legible(file[j])
    BY <1>4, <1>5, <1>7, <2>1, <2>2
  <2>3. ASSUME ~(k <= last)
        PROVE  ~\A j \in 1 .. Len(file) : j < k => Legible(file[j])
    <3>1. k > last
      BY <2>1, <2>3
    <3>2. last \in 1 .. Len(file) /\ Loses(file[last]) /\ last < k
      BY <1>7, <2>1, <3>1
    <3> QED BY <1>5, <3>2
  <2> QED BY <2>2, <2>3
<1>9. \A x : x \in Elements(W) <=>
         \E k \in 1 .. Len(file) :
            /\ x = Parsed(file[k])
            /\ \A j \in 1 .. Len(file) : j < k => Legible(file[j])
  <2>1. \A x : Reads(x, file, FileNames(c)) <=>
           \E k \in 1 .. Len(file) : k <= last /\ x = Parsed(file[k])
    BY <1>3, <1>5 DEF Reads, last
  <2> QED BY <1>2, <1>8, <2>1
<1> QED
  BY <1>1, <1>5, <1>6, <1>9 DEF file, T, W

\* A layer that is found is one of the file, and none is found twice.
LEMMA ConvertedFound ==
  ASSUME NEW c \in Checkpoint, NEW n
  PROVE  LET file == Decomposed(c)
             W == WholeList(Directory(<<c, "als">>))
         IN  /\ \A x \in Elements(W) : x.name = n =>
                   n \in Stored(c) /\ x = Parsed(Recorded(c, n))
             /\ \A k \in 1 .. Len(file) : file[k].name = n =>
                   ((\E x \in Elements(W) : x.name = n)
                    <=> \A j \in 1 .. Len(file) : j < k => Legible(file[j]))
<1> DEFINE file == Decomposed(c)
           W == WholeList(Directory(<<c, "als">>))
           T == FileRecords(c)
           Reached(k) == \A j \in 1 .. Len(file) : j < k => Legible(file[j])
<1>1. /\ file \in Seq(T) /\ Once(file)
      /\ \A k \in 1 .. Len(file) : file[k].name \in Stored(c)
                                   /\ file[k] = Recorded(c, file[k].name)
      /\ \A x : x \in Elements(W) <=>
            \E k \in 1 .. Len(file) : x = Parsed(file[k]) /\ Reached(k)
  BY ConvertedReads
<1> HIDE DEF file, W, T, Reached
<1>2. \A j, k \in 1 .. Len(file) : file[j].name = file[k].name => j = k
  BY <1>1, ListElements
<1>3. \A k \in 1 .. Len(file) : Parsed(file[k]).name = file[k].name
  BY ParsedFacts
<1>4. ASSUME NEW x \in Elements(W), x.name = n
      PROVE  n \in Stored(c) /\ x = Parsed(Recorded(c, n))
  <2>1. PICK k \in 1 .. Len(file) : x = Parsed(file[k])
    BY <1>1
  <2> QED BY <1>1, <1>3, <1>4, <2>1
<1>5. ASSUME NEW k \in 1 .. Len(file), file[k].name = n
      PROVE  (\E x \in Elements(W) : x.name = n) <=> Reached(k)
  <2>1. ASSUME NEW x \in Elements(W), x.name = n PROVE Reached(k)
    <3>1. PICK j \in 1 .. Len(file) : x = Parsed(file[j]) /\ Reached(j)
      BY <1>1
    <3>2. j = k
      BY <1>2, <1>3, <1>5, <2>1, <3>1
    <3> QED BY <3>1, <3>2
  <2>2. ASSUME Reached(k) PROVE \E x \in Elements(W) : x.name = n
    BY <1>1, <1>3, <1>5, <2>2
  <2> QED BY <2>1, <2>2
<1> QED
  BY <1>4, <1>5 DEF file, W, Reached

\* The names of the layers of a converted model, and those of its norms.
LayersStored(c) == {LmHead} \cup (KeptKinds(c) \X (0 .. c.layers - 1))
NormsStored(c) == (IF c.qkNorm THEN {"q_norm", "k_norm"} ELSE {}) \X (0 .. c.layers - 1)

\* They are told apart by their kinds.
LEMMA StoredParts ==
  ASSUME NEW c \in Checkpoint
  PROVE  /\ \A n : n \in Stored(c) <=> n \in LayersStored(c) \/ n \in NormsStored(c)
         /\ \A n \in LayersStored(c) :
               /\ n[1] \notin {"q_norm", "k_norm"}
               /\ n = LmHead \/ n[1] \in SubmoduleKinds
               /\ RawNamed(c, n) <=>
                     \/ n = LmHead
                     \/ c.fusedQkv /\ n[1] \in {"q_proj", "k_proj", "v_proj"}
         /\ \A n \in NormsStored(c) : n[1] \in {"q_norm", "k_norm"} /\ RawNamed(c, n)
         /\ \A m \in SubmoduleKinds : \A i \in 0 .. c.layers - 1 :
               <<m, i>> \in LayersStored(c) <=> m \in KeptKinds(c)
<1> DEFINE K == KeptKinds(c)
           I == 0 .. c.layers - 1
           normed == IF c.qkNorm THEN {"q_norm", "k_norm"} ELSE {}
<1>1. /\ \A n : n \in Stored(c) <=> n \in LayersStored(c) \/ n \in NormsStored(c)
      /\ \A n : n \in LayersStored(c) <=> n = LmHead \/ n \in K \X I
      /\ \A n : n \in NormsStored(c) <=> n \in normed \X I
  BY DEF Stored, LayersStored, NormsStored
<1>2. /\ \A m \in K : m \in SubmoduleKinds
      /\ \A m \in normed : m \in {"q_norm", "k_norm"}
  BY KindFacts
<1>3. LmHead[1] = "lm_head"
  BY NameFacts
<1> HIDE DEF K, I, normed
<1>4. /\ \A x : x \in K \X I <=> \E m \in K, i \in I : x = <<m, i>>
      /\ \A x : x \in normed \X I <=> \E m \in normed, i \in I : x = <<m, i>>
  BY Pairs
<1>5. ASSUME NEW n \in LayersStored(c)
      PROVE  /\ n[1] \notin {"q_norm", "k_norm"}
             /\ n = LmHead \/ n[1] \in SubmoduleKinds
             /\ RawNamed(c, n) <=>
                   \/ n = LmHead
                   \/ c.fusedQkv /\ n[1] \in {"q_proj", "k_proj", "v_proj"}
  <2>1. CASE n = LmHead
    BY <1>3, <2>1 DEF RawNamed
  <2>2. CASE n # LmHead
    <3>1. n[1] \in SubmoduleKinds
      BY <1>1, <1>2, <1>4, <2>2
    <3> QED BY <2>2, <3>1 DEF RawNamed, SubmoduleKinds
  <2> QED BY <2>1, <2>2
<1>6. ASSUME NEW n \in NormsStored(c) PROVE n[1] \in {"q_norm", "k_norm"} /\ RawNamed(c, n)
  <2>1. n[1] \in {"q_norm", "k_norm"}
    BY <1>1, <1>2, <1>4
  <2> QED BY <2>1 DEF RawNamed
<1>7. ASSUME NEW m \in SubmoduleKinds, NEW i \in I
      PROVE  <<m, i>> \in LayersStored(c) <=> m \in K
  <2>1. <<m, i>> # LmHead
    BY <1>3 DEF SubmoduleKinds
  <2> QED BY <1>1, <1>4, <2>1
<1> QED
  BY <1>1, <1>5, <1>6, <1>7 DEF K, I

\* The last norm is found where it was written while 32 bits hold its place.
LEMMA FinalNormFound ==
  ASSUME NEW c \in Checkpoint
  PROVE  FinalNorm(Directory(<<c, "als">>)) = "weights" <=> c.vocab * c.hidden + 9 < 536870912
<1> DEFINE p == c.vocab * c.hidden
<1>1. c.vocab \in Nat /\ c.hidden \in Nat
  BY DEF Checkpoint
<1>2. p \in Nat
  BY <1>1
<1>3. FinalNormAt(c) = 9 + p
  BY DEF FinalNormAt
<1>4. Directory(<<c, "als">>).format = "als" /\ Directory(<<c, "als">>).ckpt = c
  BY DirectoryFacts
<1>5. FinalNorm(Directory(<<c, "als">>)) =
         IF Wrapped(9 + p) = 9 + p THEN "weights"
         ELSE IF Wrapped(9 + p) < 0 THEN "zeros" ELSE "others"
  BY <1>3, <1>4 DEF FinalNorm
<1> HIDE DEF p
<1>6. Wrapped(9 + p) = 9 + p <=> p + 9 < 536870912
  BY <1>2 DEF Wrapped
<1> QED
  BY <1>5, <1>6 DEF p

\* A device has the whole model when every record is legible, and the last norm
\* is found.
LEMMA ConvertedWhole ==
  ASSUME NEW c \in Checkpoint, Directory(<<c, "als">>).loads
  PROVE  LET dir == Directory(<<c, "als">>)
             file == Decomposed(c)
         IN  Whole(c, Model(dir, WholeList(dir)))
                <=> /\ \A k \in DOMAIN file : Legible(file[k])
                    /\ c.vocab * c.hidden + 9 < 536870912
<1> DEFINE file == Decomposed(c)
           dir == Directory(<<c, "als">>)
           W == WholeList(dir)
           M == Model(dir, W)
           LN == LayersStored(c)
           NN == NormsStored(c)
           Form(l) == (l.as = "raw") <=>
                         \/ l.name = LmHead
                         \/ c.fusedQkv /\ l.name[1] \in {"q_proj", "k_proj", "v_proj"}
           Clean == \A k \in 1 .. Len(file) : Legible(file[k])
           found(n) == \E x \in Elements(W) : x.name = n
<1>1. /\ W \in Seq(Elements(W)) /\ Once(W)
  <2>1. {} \subseteq FileNames(c)
    OBVIOUS
  <2> QED BY <2>1, ListFacts
<1>2. /\ \A k \in 1 .. Len(file) : file[k].name \in Stored(c)
                                   /\ file[k] = Recorded(c, file[k].name)
      /\ \A n \in Stored(c) : \E k \in 1 .. Len(file) : file[k] = Recorded(c, n)
      /\ file \in Seq(FileRecords(c)) /\ Once(file)
      /\ \A x \in Elements(W) : x \in Elements(W) <=>
            \E k \in 1 .. Len(file) :
               /\ x = Parsed(file[k])
               /\ \A j \in 1 .. Len(file) : j < k => Legible(file[j])
  BY ConvertedReads
<1>3. Len(file) \in Nat /\ DOMAIN file = 1 .. Len(file)
  BY <1>2, LenProperties
<1>4. /\ \A n : \A x \in Elements(W) : x.name = n =>
            n \in Stored(c) /\ x = Parsed(Recorded(c, n))
      /\ \A n : \A k \in 1 .. Len(file) : file[k].name = n =>
            (found(n) <=> \A j \in 1 .. Len(file) : j < k => Legible(file[j]))
  BY ConvertedFound
<1>5. /\ \A x : x \in LayerNames(M) <=>
            \E l \in Elements(W) : l.name[1] \notin {"q_norm", "k_norm"} /\ x = l.name
      /\ \A x : x \in Elements(M.layers) <=>
            x \in Elements(W) /\ x.name[1] \notin {"q_norm", "k_norm"}
      /\ \A x : x \in M.norms <=>
            \E l \in Elements(W) :
               l.name[1] \in {"q_norm", "k_norm"} /\ l.as = "raw" /\ x = l.name
      /\ Once(W) => Len(M.layers) = Cardinality(LayerNames(M))
      /\ M.headDim = HeadDim(dir, W)
  <2> HIDE DEF W, dir
  <2> QED BY <1>1, ModelFacts
<1>6. M.finalNorm = FinalNorm(dir)
  BY DEF Model
<1>7. Whole(c, M) <=> /\ LayerNames(M) = LN
                      /\ Len(M.layers) = Cardinality(LayerNames(M))
                      /\ M.norms = NN
                      /\ \A l \in Elements(M.layers) : Form(l)
                      /\ "q_proj" \in KeptKinds(c) => M.headDim = c.headDim
                      /\ M.finalNorm = "weights"
  BY DEF Whole, LayersStored, NormsStored
<1>8. /\ \A n : n \in Stored(c) <=> n \in LN \/ n \in NN
      /\ \A n \in LN : /\ n[1] \notin {"q_norm", "k_norm"}
                       /\ n = LmHead \/ n[1] \in SubmoduleKinds
                       /\ RawNamed(c, n) <=>
                             \/ n = LmHead
                             \/ c.fusedQkv /\ n[1] \in {"q_proj", "k_proj", "v_proj"}
      /\ \A n \in NN : n[1] \in {"q_norm", "k_norm"} /\ RawNamed(c, n)
      /\ \A m \in SubmoduleKinds : \A i \in 0 .. c.layers - 1 :
            <<m, i>> \in LN <=> m \in KeptKinds(c)
  BY StoredParts
<1>9. \A n : /\ Recorded(c, n).name = n
             /\ Parsed(Recorded(c, n)).name = n
             /\ Parsed(Recorded(c, n)).as = "raw"
                   <=> Legible(Recorded(c, n)) /\ RawNamed(c, n)
  BY RecordParts
<1>10. file[Len(file)].name[1] \notin SubmoduleKinds
  BY StoredRecords
<1>11. (\E x \in Elements(W) : x.name = <<"q_proj", 0>>) => HeadDim(dir, W) = c.headDim
  <2>1. \A x \in Elements(W) : Reads(x, Decomposed(c), FileNames(c))
    BY AlsReads
  <2> HIDE DEF W
  <2> QED BY <1>1, <2>1, AlsHeadDim
<1>12. LmHead \in LN
  BY DEF LayersStored
<1> HIDE DEF file, dir, W, M, LN, NN, found
<1>13. ASSUME Clean
       PROVE  /\ LayerNames(M) = LN /\ M.norms = NN
              /\ \A l \in Elements(M.layers) : Form(l)
              /\ "q_proj" \in KeptKinds(c) => M.headDim = c.headDim
  <2>1. ASSUME NEW n \in Stored(c)
        PROVE  \E x \in Elements(W) : x.name = n /\ (x.as = "raw" <=> RawNamed(c, n))
    <3>1. PICK k \in 1 .. Len(file) : file[k] = Recorded(c, n)
      BY <1>2
    <3>2. file[k].name = n /\ Legible(Recorded(c, n))
      BY <1>9, <1>13, <3>1
    <3>3. found(n)
      BY <1>4, <1>13, <3>2
    <3>4. PICK x \in Elements(W) : x.name = n
      BY <3>3 DEF found
    <3>5. x = Parsed(Recorded(c, n))
      BY <1>4, <3>4
    <3> QED BY <1>9, <3>2, <3>4, <3>5
  <2>2. ASSUME NEW x \in Elements(W)
        PROVE  x.name \in Stored(c) /\ (x.as = "raw" <=> RawNamed(c, x.name))
    <3>1. x.name \in Stored(c) /\ x = Parsed(Recorded(c, x.name))
      BY <1>4
    <3>2. PICK k \in 1 .. Len(file) : file[k] = Recorded(c, x.name)
      BY <1>2, <3>1
    <3>3. Legible(Recorded(c, x.name))
      BY <1>13, <3>2
    <3>4. Parsed(Recorded(c, x.name)).as = "raw" <=> RawNamed(c, x.name)
      BY <1>9, <3>3
    <3> QED BY <3>1, <3>4
  <2>3. \A x : x \in LayerNames(M) <=> x \in LN
    BY <1>5, <1>8, <2>1, <2>2
  <2>4. \A x : x \in M.norms <=> x \in NN
    BY <1>5, <1>8, <2>1, <2>2
  <2>5. \A l \in Elements(M.layers) : Form(l)
    BY <1>5, <1>8, <2>2
  <2>6. ASSUME "q_proj" \in KeptKinds(c) PROVE M.headDim = c.headDim
    <3>1. "q_proj" \in SubmoduleKinds /\ 0 \in 0 .. c.layers - 1
      BY NameFacts DEF SubmoduleKinds
    <3>2. <<"q_proj", 0>> \in Stored(c)
      BY <1>8, <2>6, <3>1
    <3> QED BY <1>5, <1>11, <2>1, <3>2
  <2> QED BY <2>3, <2>4, <2>5, <2>6
<1>14. ASSUME ~Clean, LayerNames(M) = LN, M.norms = NN
       PROVE  ~\A l \in Elements(M.layers) : Form(l)
  <2> DEFINE e == Len(file)
             n == file[e].name
  <2>1. PICK k \in 1 .. Len(file) : ~Legible(file[k])
    BY <1>14
  <2>2. e \in 1 .. Len(file) /\ k <= e
    BY <1>3
  <2>3. n \in Stored(c) /\ file[e] = Recorded(c, n) /\ n[1] \notin SubmoduleKinds
    BY <1>2, <1>10, <2>2
  <2> HIDE DEF n, e
  <2>4. n = LmHead \/ n \in NN
    BY <1>8, <2>3
  <2>5. PICK x \in Elements(W) : x.name = n /\ (n \in NN => x.as = "raw")
    BY <1>5, <1>12, <1>14, <2>4
  <2>6. found(n)
    BY <2>5 DEF found
  <2>7. \A j \in 1 .. Len(file) : j < e => Legible(file[j])
    BY <1>4, <2>2, <2>6 DEF n
  <2>8. ~Legible(Recorded(c, n))
    BY <1>3, <2>1, <2>2, <2>3, <2>7
  <2>9. x.as # "raw"
    BY <1>4, <1>9, <2>5, <2>8
  <2>10. n = LmHead
    BY <2>4, <2>5, <2>9
  <2>11. x \in Elements(M.layers)
    BY <1>5, <1>8, <1>12, <2>5, <2>10
  <2> QED BY <2>5, <2>9, <2>10, <2>11
<1>15. M.finalNorm = "weights" <=> c.vocab * c.hidden + 9 < 536870912
  BY <1>6, FinalNormFound DEF dir
<1>16. Clean <=> \A k \in DOMAIN file : Legible(file[k])
  BY <1>3
<1> HIDE DEF Form, Clean
<1>17. Whole(c, M) <=> Clean /\ c.vocab * c.hidden + 9 < 536870912
  BY <1>1, <1>5, <1>7, <1>13, <1>14, <1>15
<1> QED
  BY <1>16, <1>17 DEF M, W, dir, file

\* The projections a converted file has, by the variations of the checkpoint.
LEMMA KeptFacts ==
  ASSUME NEW c \in Checkpoint
  PROVE  /\ \A m \in SubmoduleKinds :
               /\ m \in Kinds(c) <=> ~(c.fusedMlp /\ m \in {"gate_proj", "up_proj"})
               /\ m \in KeptKinds(c) <=> c.projections = "same" /\ m \in Kinds(c)
         /\ \A m : m \in Kinds(c) => m \in SubmoduleKinds
<1>1. \A m : m \in Kinds(c) <=>
         m \in SubmoduleKinds /\ ~(c.fusedMlp /\ m \in {"gate_proj", "up_proj"})
  <2>1. \A m : m \in {Submodules[k] : k \in DOMAIN Submodules} <=> m \in SubmoduleKinds
    BY SubmoduleFacts
  <2> QED BY <2>1 DEF Kinds
<1>2. c.projections = "same" \/ c.projections = "F8"
  BY DEF Checkpoint
<1>3. \A m : m \in KeptKinds(c) <=> c.projections = "same" /\ m \in Kinds(c)
  BY <1>2 DEF KeptKinds
<1> QED
  BY <1>1, <1>3

\* hidden / heads is 0 when there are fewer dimensions than heads.
LEMMA NoHead ==
  ASSUME NEW h \in Nat, NEW n \in Nat \ {0}
  PROVE  h \div n = 0 <=> h < n
OBVIOUS

\* The last record a reader finds is the first that is not legible, and so it
\* finds one when all before it are.
LEMMA ConvertedLast ==
  ASSUME NEW c \in Checkpoint, NEW k \in 1 .. Len(Decomposed(c))
  PROVE  LET file == Decomposed(c)
         IN  k <= LastFound(file) <=> \A j \in 1 .. k - 1 : Legible(file[j])
<1> DEFINE file == Decomposed(c)
           last == LastFound(file)
<1>1. /\ file \in Seq(FileRecords(c))
      /\ \A j \in 1 .. Len(file) : file[j] = Recorded(c, file[j].name)
  BY ConvertedReads
<1>2. /\ last \in 0 .. Len(file) /\ Len(file) \in Nat
      /\ \A j \in 1 .. Len(file) : j < last => ~Loses(file[j])
      /\ \A j \in 1 .. Len(file) : j > last => last \in 1 .. Len(file) /\ Loses(file[last])
  BY <1>1, LenProperties, LastFoundFacts
<1>3. k \in 1 .. Len(file)
  OBVIOUS
<1> HIDE DEF file, last
<1>4. \A j \in 1 .. Len(file) : Loses(file[j]) <=> ~Legible(file[j])
  BY <1>1, RecordParts
<1>5. ASSUME k <= last, NEW j \in 1 .. k - 1 PROVE Legible(file[j])
  BY <1>2, <1>3, <1>4, <1>5
<1>6. ASSUME ~(k <= last) PROVE \E j \in 1 .. k - 1 : ~Legible(file[j])
  <2>1. last \in 1 .. Len(file) /\ Loses(file[last])
    BY <1>2, <1>3, <1>6
  <2>2. last \in 1 .. k - 1
    BY <1>2, <1>3, <1>6, <2>1
  <2> QED BY <1>4, <2>1, <2>2
<1> QED
  BY <1>5, <1>6 DEF file, last

\* A device refuses a converted directory for its context, its sizes, the
\* numbers of its embedding, or for a container of more terms than the reader
\* takes when it gets there.
LEMMA ConvertedThrows ==
  ASSUME NEW c \in Checkpoint
  PROVE  LET dir == Directory(<<c, "als">>)
             file == Decomposed(c)
         IN  /\ DeviceThrows(dir) <=>
                   \/ c.context \notin 1 .. ContextLimit
                   \/ c.inter = 0 \/ c.hidden < c.heads
                   \/ c.vocab > IntMax \div c.hidden
                   \/ /\ c.terms > 32
                      /\ \E k \in DOMAIN file :
                            /\ file[k].type = Container
                            /\ \A j \in 1 .. k : Legible(file[j])
             /\ ~DeviceThrows(dir) => dir.loads
<1> DEFINE dir == Directory(<<c, "als">>)
           file == Decomposed(c)
           Reached == \E k \in DOMAIN file : /\ file[k].type = Container
                                             /\ \A j \in 1 .. k : Legible(file[j])
<1>1. /\ dir.format = "als" /\ dir.ckpt = c /\ dir.file = file
      /\ dir.loads = ~ConfigThrows(c)
  <2>1. <<c, "als">>[1] = c /\ <<c, "als">>[2] = "als"
    OBVIOUS
  <2>2. dir = AlsDirectory(c)
    BY <2>1 DEF Directory
  <2> QED BY <2>2 DEF AlsDirectory
<1>2. ConfigThrows(c) <=> c.context \notin 1 .. ContextLimit \/ c.inter = 0 \/ c.hidden < c.heads
  <2>1. c.context \in Nat /\ ContextLimit \in Nat
    BY DEF Checkpoint, ContextLimit
  <2>2. ConfigHeadDim(c) = 0 <=> c.hidden < c.heads
    <3>1. c.hidden \in Nat /\ c.heads \in Nat \ {0}
      BY DEF Checkpoint
    <3> QED BY <3>1, NoHead DEF ConfigHeadDim
  <2> QED BY <2>1, <2>2 DEF ConfigThrows
<1>3. /\ \A k \in 1 .. Len(file) : file[k].name \in Stored(c)
                                   /\ file[k] = Recorded(c, file[k].name)
      /\ file \in Seq(FileRecords(c))
  BY ConvertedReads
<1>4. DOMAIN file = 1 .. Len(file) /\ Len(file) \in Nat
  BY <1>3, LenProperties
<1>5. \A n : /\ Recorded(c, n).terms = IF RawNamed(c, n) THEN 0 ELSE c.terms
             /\ Recorded(c, n).type = Container <=> ~RawNamed(c, n)
             /\ ~RawNamed(c, n) =>
                   (IsOldLayout(Recorded(c, n)) <=> ~Legible(Recorded(c, n)))
  BY RecordParts
<1>6. Stored(c) \subseteq FileNames(c)
  BY StoredRecords
<1>7. c.terms \in Nat
  BY DEF Checkpoint
<1>8. LastFound(file) \in 0 .. Len(file)
  BY <1>3, LastFoundFacts
<1>9. \A k \in 1 .. Len(file) :
         k <= LastFound(file) <=> \A j \in 1 .. k - 1 : Legible(file[j])
  BY ConvertedLast
<1> HIDE DEF file, dir
<1>10. ASSUME NEW k \in 1 .. Len(file)
       PROVE  /\ file[k].terms = IF file[k].type = Container THEN c.terms ELSE 0
              /\ file[k].type = Container => (IsOldLayout(file[k]) <=> ~Legible(file[k]))
              /\ file[k].name \in FileNames(c)
  BY <1>3, <1>5, <1>6
<1>11. ReadThrows(file, FileNames(c)) <=> c.terms > 32 /\ Reached
  <2>1. ASSUME NEW k \in 1 .. LastFound(file), file[k].terms > 32, ~IsOldLayout(file[k])
        PROVE  c.terms > 32 /\ Reached
    <3>1. k \in 1 .. Len(file) /\ k <= LastFound(file)
      BY <1>4, <1>8
    <3>2. file[k].type = Container
      <4> SUFFICES ASSUME file[k].type # Container PROVE FALSE
        OBVIOUS
      <4>1. file[k].terms = 0
        BY <1>10, <3>1
      <4> QED BY <2>1, <4>1
    <3>3. c.terms > 32 /\ Legible(file[k])
      BY <1>10, <2>1, <3>1, <3>2
    <3>4. ASSUME NEW j \in 1 .. k PROVE Legible(file[j])
      <4>1. j = k \/ j \in 1 .. k - 1
        BY <1>4, <3>1
      <4> QED BY <1>9, <3>1, <3>3, <4>1
    <3> QED BY <1>4, <3>1, <3>2, <3>3, <3>4
  <2>2. ASSUME c.terms > 32, NEW k \in 1 .. Len(file), file[k].type = Container,
               \A j \in 1 .. k : Legible(file[j])
        PROVE  /\ k \in 1 .. LastFound(file) /\ file[k].terms > 32
               /\ ~IsOldLayout(file[k]) /\ file[k].name \in FileNames(c)
    <3>1. Legible(file[k]) /\ \A j \in 1 .. k - 1 : Legible(file[j])
      BY <1>4, <2>2
    <3>2. k \in 1 .. LastFound(file)
      BY <1>4, <1>8, <1>9, <3>1
    <3> QED BY <1>10, <2>2, <3>1, <3>2
  <2> QED BY <1>4, <2>1, <2>2 DEF ReadThrows
<1> HIDE DEF Reached
<1>12. DeviceThrows(dir) <=>
          ~dir.loads \/ EmbeddingThrows(c) \/ ReadThrows(file, FileNames(c))
  BY <1>1 DEF DeviceThrows, FileNames
<1>13. /\ DeviceThrows(dir) <=>
             \/ c.context \notin 1 .. ContextLimit
             \/ c.inter = 0 \/ c.hidden < c.heads
             \/ c.vocab > IntMax \div c.hidden
             \/ c.terms > 32 /\ Reached
       /\ ~DeviceThrows(dir) => dir.loads
  BY <1>1, <1>2, <1>11, <1>12 DEF EmbeddingThrows
<1> QED
  BY <1>13 DEF dir, file, Reached

\* A forward pass finds what it needs when every submodule has a record, and
\* no projection lies behind a record that is not legible.
LEMMA ConvertedRuns ==
  ASSUME NEW c \in Checkpoint, Directory(<<c, "als">>).loads
  PROVE  LET dir == Directory(<<c, "als">>)
             file == Decomposed(c)
         IN  RunsOnDevice(c, Model(dir, WholeList(dir)))
                <=> /\ ~c.fusedMlp /\ c.projections = "same"
                    /\ \A k \in DOMAIN file : ~Legible(file[k]) =>
                          \A j \in k + 1 .. Len(file) : file[j].name[1] \notin Kinds(c)
<1> DEFINE dir == Directory(<<c, "als">>)
           file == Decomposed(c)
           W == WholeList(dir)
           M == Model(dir, W)
           Found(n) == \E x \in Elements(W) : x.name = n
           Reached(k) == \A j \in 1 .. Len(file) : j < k => Legible(file[j])
           InFront == \A k \in DOMAIN file : ~Legible(file[k]) =>
                         \A j \in k + 1 .. Len(file) : file[j].name[1] \notin Kinds(c)
<1>1. W \in Seq(Elements(W))
  <2>1. {} \subseteq FileNames(c)
    OBVIOUS
  <2> QED BY <2>1, ListFacts
<1>2. /\ \A k \in 1 .. Len(file) : file[k].name \in Stored(c)
                                   /\ file[k] = Recorded(c, file[k].name)
      /\ \A n \in Stored(c) : \E k \in 1 .. Len(file) : file[k] = Recorded(c, n)
      /\ file \in Seq(FileRecords(c))
  BY ConvertedReads
<1>3. Len(file) \in Nat /\ DOMAIN file = 1 .. Len(file)
  BY <1>2, LenProperties
<1>4. /\ \A n : \A x \in Elements(W) : x.name = n => n \in Stored(c)
      /\ \A n : \A k \in 1 .. Len(file) : file[k].name = n => (Found(n) <=> Reached(k))
  BY ConvertedFound
<1>5. ASSUME NEW n, n[1] \notin {"q_norm", "k_norm"}
      PROVE  n \in LayerNames(M) <=> Found(n)
  <2> HIDE DEF W, dir
  <2> QED BY <1>1, <1>5, NameThere
<1>6. \A x : x \in Needed(0, c.layers) <=>
         \E m \in SubmoduleKinds, i \in 0 .. c.layers - 1 : x = <<m, i>>
  BY NeededNames
<1>7. /\ \A m \in SubmoduleKinds, i \in 0 .. c.layers - 1 :
            <<m, i>> \in Stored(c) <=> m \in KeptKinds(c)
      /\ \A n \in Stored(c) : n[1] \in SubmoduleKinds =>
            \E m \in SubmoduleKinds, i \in 0 .. c.layers - 1 : n = <<m, i>>
  <2>1. ASSUME NEW m \in SubmoduleKinds, NEW i \in 0 .. c.layers - 1
        PROVE  <<m, i>> \in Stored(c) <=> m \in KeptKinds(c)
    <3>1. <<m, i>>[1] = m /\ m \notin {"q_norm", "k_norm"}
      BY DEF SubmoduleKinds
    <3> QED BY <3>1, StoredParts
  <2>2. ASSUME NEW n \in Stored(c), n[1] \in SubmoduleKinds
        PROVE  \E m \in SubmoduleKinds, i \in 0 .. c.layers - 1 : n = <<m, i>>
    <3>1. n \in FileNames(c) /\ LmHead[1] \notin SubmoduleKinds
      BY StoredRecords, NameFacts DEF SubmoduleKinds
    <3>2. n \in Names(c)
      BY <2>2, <3>1 DEF FileNames
    <3> QED BY <2>2, <3>2, NameFacts
  <2> QED BY <2>1, <2>2
<1>8. /\ \A m \in SubmoduleKinds :
            /\ m \in Kinds(c) <=> ~(c.fusedMlp /\ m \in {"gate_proj", "up_proj"})
            /\ m \in KeptKinds(c) <=> c.projections = "same" /\ m \in Kinds(c)
      /\ \A m : m \in Kinds(c) => m \in SubmoduleKinds
  BY KeptFacts
<1>9. \A n : Recorded(c, n).name = n
  BY NameFacts
<1>10. 0 \in 0 .. c.layers - 1
  BY NameFacts
<1> HIDE DEF dir, file, W, M, Found, Reached
<1>11. RunsOnDevice(c, M) <=>
          \A m \in SubmoduleKinds, i \in 0 .. c.layers - 1 : Found(<<m, i>>)
  <2>1. \A m \in SubmoduleKinds, i \in 0 .. c.layers - 1 :
           <<m, i>> \in LayerNames(M) <=> Found(<<m, i>>)
    <3> SUFFICES ASSUME NEW m \in SubmoduleKinds, NEW i \in 0 .. c.layers - 1
                 PROVE  <<m, i>> \in LayerNames(M) <=> Found(<<m, i>>)
      OBVIOUS
    <3>1. <<m, i>>[1] \notin {"q_norm", "k_norm"}
      BY DEF SubmoduleKinds
    <3> QED BY <1>5, <3>1
  <2> QED BY <1>6, <2>1 DEF RunsOnDevice
<1>12. ASSUME \A m \in SubmoduleKinds, i \in 0 .. c.layers - 1 : Found(<<m, i>>)
       PROVE  ~c.fusedMlp /\ c.projections = "same" /\ InFront
  <2>1. \A m \in SubmoduleKinds : m \in KeptKinds(c)
    BY <1>4, <1>7, <1>10, <1>12 DEF Found
  <2>2. "gate_proj" \in SubmoduleKinds
    BY DEF SubmoduleKinds
  <2>3. ~c.fusedMlp /\ c.projections = "same"
    BY <1>8, <2>1, <2>2
  <2>4. ASSUME NEW k \in 1 .. Len(file), ~Legible(file[k]),
               NEW j \in k + 1 .. Len(file)
        PROVE  file[j].name[1] \notin Kinds(c)
    <3> SUFFICES ASSUME file[j].name[1] \in Kinds(c) PROVE FALSE
      OBVIOUS
    <3>1. j \in 1 .. Len(file) /\ k < j
      BY <1>3
    <3>2. Found(file[j].name)
      BY <1>2, <1>7, <1>8, <1>12, <3>1
    <3>3. Reached(j)
      BY <1>4, <3>1, <3>2
    <3> QED BY <2>4, <3>1, <3>3 DEF Reached
  <2> QED BY <1>3, <2>3, <2>4
<1>13. ASSUME ~c.fusedMlp, c.projections = "same", InFront,
              NEW m \in SubmoduleKinds, NEW i \in 0 .. c.layers - 1
       PROVE  Found(<<m, i>>)
  <2>1. m \in Kinds(c) /\ <<m, i>> \in Stored(c)
    BY <1>7, <1>8, <1>13
  <2>2. PICK k \in 1 .. Len(file) : file[k] = Recorded(c, <<m, i>>)
    BY <1>2, <2>1
  <2>3. file[k].name = <<m, i>>
    BY <1>9, <2>2
  <2>4. ASSUME NEW j \in 1 .. Len(file), j < k PROVE Legible(file[j])
    <3>1. k \in j + 1 .. Len(file)
      BY <1>3, <2>4
    <3>2. file[k].name[1] \in Kinds(c)
      BY <2>1, <2>3
    <3> QED BY <1>3, <1>13, <3>1, <3>2
  <2>5. Reached(k)
    BY <2>4 DEF Reached
  <2> QED BY <1>4, <2>3, <2>5
<1>14. RunsOnDevice(c, M) <=> ~c.fusedMlp /\ c.projections = "same" /\ InFront
  <2> HIDE DEF InFront
  <2> QED BY <1>11, <1>12, <1>13
<1> QED
  BY <1>14 DEF M, W, dir, file

\* Its numbers are those of the checkpoint, and its weight is that of the
\* checkpoint but for the subnormal ones.
LEMMA ConvertedNumbers ==
  ASSUME NEW c \in Checkpoint, NEW list
  PROVE  LET model == Model(Directory(<<c, "als">>), list)
         IN  /\ model.config = [load_config(c) EXCEPT !.context = Least(c.context, 4096)]
             /\ model.weight = Exact(c.dtype, c.weight) <=>
                   /\ ~(c.dtype = "F16" /\ Subnormal(Half(c.weight)))
                   /\ ~(c.dtype = "BF16" /\ Subnormal(Brain(c.weight)))
<1> DEFINE dir == Directory(<<c, "als">>)
           model == Model(dir, list)
<1>1. dir.format = "als" /\ dir.ckpt = c
  BY DirectoryFacts
<1>2. model.config = Config(dir)
      /\ model.weight = IF dir.format = "gguf" THEN GgufWeight(dir.file)
                        ELSE ConvertedWeight(dir.ckpt)
  BY DEF Model
<1> HIDE DEF model, dir
<1>3. model.config = load_config(c) /\ model.weight = ConvertedWeight(c)
  BY <1>1, <1>2 DEF Config
<1>4. load_config(c) = [load_config(c) EXCEPT !.context = Least(c.context, 4096)]
  <2> DEFINE l == Least(c.context, 4096)
             r == load_config(c)
  <2>1. r = [vocab |-> c.vocab, hidden |-> c.hidden, inter |-> c.inter,
             layers |-> c.layers, heads |-> c.heads, kv |-> c.kv, context |-> l]
    BY DEF load_config
  <2> HIDE DEF l
  <2>2. r.context = l
    BY <2>1
  <2> QED BY <2>1, <2>2 DEF l
<1>5. c.weight \in Bits16 /\ c.dtype \in {"F32", "F16", "BF16", "F8"}
  BY DEF Checkpoint
<1>6. CASE c.dtype = "F16"
  <2>1. ConvertedWeight(c) = f16_to_f32(c.weight)
    BY <1>6 DEF ConvertedWeight
  <2> QED BY <1>3, <1>4, <1>5, <1>6, <2>1, F16Converted DEF model, dir
<1>7. CASE c.dtype = "BF16"
  <2>1. ConvertedWeight(c) = bf16_to_f32(c.weight)
    BY <1>7 DEF ConvertedWeight
  <2> QED BY <1>3, <1>4, <1>5, <1>7, <2>1, BF16Converted DEF model, dir
<1>8. CASE c.dtype \notin {"F16", "BF16"}
  <2>1. ConvertedWeight(c) = Exact(c.dtype, c.weight)
    BY <1>8 DEF ConvertedWeight
  <2> QED BY <1>3, <1>4, <1>8, <2>1 DEF model, dir
<1> QED
  BY <1>6, <1>7, <1>8

\* A load that throws leaves no model, and one that does not leaves one.
LEMMA Refused ==
  ASSUME job \in Deployments
  PROVE  DeviceThrows(Dir) <=> DeviceModel = None
<1>1. /\ DeviceModel = IF DeviceThrows(Dir) THEN None ELSE Model(Dir, WholeList(Dir))
      /\ Source \in Sources
  BY Here
<1>2. Dir = Directories[Source] /\ DeviceModel = Models[Source]
  BY DEF Dir, DeviceModel
<1>3. Models[Source] = IF DeviceThrows(Directories[Source]) THEN None
                       ELSE load_model_from(Directories[Source])
  BY <1>1 DEF Models
<1> QED
  BY <1>1, <1>2, <1>3, NoneIsNoModel

\* What a device loads of a converted directory.
LEMMA ConvertedIsLoaded ==
  ASSUME job \in Deployments, job.format = "als"
  PROVE  ConvertedLoads(job.ckpt, Dir.file, DeviceModel)
<1> DEFINE c == job.ckpt
           dir == Directory(<<c, "als">>)
           file == Decomposed(c)
           model == Model(dir, WholeList(dir))
<1>1. /\ c \in Checkpoint /\ Dir = dir
      /\ DeviceModel = IF DeviceThrows(Dir) THEN None ELSE Model(Dir, WholeList(Dir))
      /\ Source \in Sources
  BY Here
<1>2. Dir.file = file
  BY <1>1, DirectoryFacts
<1>4. DeviceModel = None <=> DeviceThrows(dir)
  BY <1>1, Refused
<1>5. ASSUME DeviceModel # None
      PROVE  DeviceModel = model /\ dir.loads
  <2>1. ~DeviceThrows(dir)
    BY <1>4, <1>5
  <2>2. dir.loads
    BY <1>1, <2>1, ConvertedThrows
  <2> QED BY <1>1, <2>1, <2>2
<1>6. DeviceThrows(dir) <=>
         \/ c.context \notin 1 .. ContextLimit
         \/ c.inter = 0 \/ c.hidden < c.heads
         \/ c.vocab > IntMax \div c.hidden
         \/ /\ c.terms > 32
            /\ \E k \in DOMAIN file : /\ file[k].type = Container
                                     /\ \A j \in 1 .. k : Legible(file[j])
  BY <1>1, ConvertedThrows
<1>7. ASSUME DeviceModel # None
      PROVE  /\ ReadConverted(c, file, DeviceModel)
             /\ RunsOnDevice(c, DeviceModel) <=>
                   /\ ~c.fusedMlp /\ c.projections = "same"
                   /\ \A k \in DOMAIN file : ~Legible(file[k]) =>
                         \A j \in k + 1 .. Len(file) : file[j].name[1] \notin Kinds(c)
  <2>1. DeviceModel = model /\ dir.loads
    BY <1>5, <1>7
  <2>2. Whole(c, model) <=> /\ \A k \in DOMAIN file : Legible(file[k])
                            /\ c.vocab * c.hidden + 9 < 536870912
    BY <1>1, <2>1, ConvertedWhole
  <2>3. /\ model.config = [load_config(c) EXCEPT !.context = Least(c.context, 4096)]
        /\ model.weight = Exact(c.dtype, c.weight) <=>
              /\ ~(c.dtype = "F16" /\ Subnormal(Half(c.weight)))
              /\ ~(c.dtype = "BF16" /\ Subnormal(Brain(c.weight)))
    BY <1>1, ConvertedNumbers
  <2>4. RunsOnDevice(c, model) <=>
           /\ ~c.fusedMlp /\ c.projections = "same"
           /\ \A k \in DOMAIN file : ~Legible(file[k]) =>
                 \A j \in k + 1 .. Len(file) : file[j].name[1] \notin Kinds(c)
    BY <1>1, <2>1, ConvertedRuns
  <2> HIDE DEF model, c, file, dir
  <2> QED BY <2>1, <2>2, <2>3, <2>4 DEF ReadConverted
<1> HIDE DEF model, c, file, dir
<1>8. ConvertedLoads(c, file, DeviceModel)
  BY <1>4, <1>6, <1>7 DEF ConvertedLoads
<1> QED
  BY <1>2, <1>8 DEF c

-----------------------------------------------------------------------------
(* What a device loads of a GGUF directory.                                *)

\* When a file loads.
LEMMA GgufLoadsWhen ==
  ASSUME NEW c \in Checkpoint, NEW style, style.version \in Nat, style.flags \in BOOLEAN
  PROVE  GgufLoads(GgufOf(c, style)) <=>
            ~(\/ style.version > 3 \/ style.flags
              \/ style.embedding \notin {"F32", "F16", "Q2_0", "TQ2_0"})
<1> DEFINE file == GgufOf(c, style)
           emb == <<"token_embd", -1>>
<1>1. Valid(file) <=> ~(style.version > 3)
  <2>1. file.version = style.version
    BY DEF GgufOf
  <2> QED BY <2>1 DEF Valid
<1>2. CASE style.flags
  <2>1. ~Has(file, emb)
    BY <1>2, LostInFlags, LostHasNone
  <2> QED BY <1>2, <2>1 DEF GgufLoads
<1>3. CASE ~style.flags
  <2>1. /\ get_int(file, "embedding_length", 0) = c.hidden /\ head_count(file) = c.heads
    BY <1>3, NumbersOf
  <2>2. c.hidden # 0 /\ c.heads # 0
    BY DEF Checkpoint
  <2>4. Has(file, emb) /\ Tensor(file, emb).type = style.embedding
    BY <1>3, TensorsRead
  <2>5. Extracts(Tensor(file, emb)) <=> style.embedding \in {"F32", "F16", "Q2_0", "TQ2_0"}
    BY <2>4 DEF Extracts
  <2> QED BY <1>1, <1>3, <2>1, <2>2, <2>4, <2>5 DEF GgufLoads
<1> QED
  BY <1>2, <1>3

\* The layers of a file that loads.
LEMMA GgufLayerNames ==
  ASSUME NEW c \in Checkpoint, NEW style, GgufLoads(GgufOf(c, style)), ~style.flags
  PROVE  LET list == GgufLayers(GgufOf(c, style))
             kept == Kinds(c) \ (IF c.fusedQkv THEN {"q_proj", "k_proj", "v_proj"} ELSE {})
             names == (IF c.tied THEN {} ELSE {LmHead}) \cup (kept \X (0 .. c.layers - 1))
         IN  /\ \A x : (\E l \in Elements(list) : x = l.name) <=> x \in names
             /\ \A l \in Elements(list) :
                   /\ l.name[1] \notin {"q_norm", "k_norm"}
                   /\ l.name # LmHead =>
                        (l.as = "blocks" <=> style.projections \in {"Q2_0", "TQ2_0", "I2_S"})
<1> DEFINE file == GgufOf(c, style)
           list == GgufLayers(file)
           kept == Kinds(c) \ (IF c.fusedQkv THEN {"q_proj", "k_proj", "v_proj"} ELSE {})
           I == 0 .. c.layers - 1
           names == (IF c.tied THEN {} ELSE {LmHead}) \cup (kept \X I)
           There(p, i) == Has(file, <<p[1], i>>)
<1>1. /\ (\E x \in Elements(list) : x.name = LmHead) <=> Has(file, <<"output", -1>>)
      /\ \A x : x \in Elements(list) /\ x.name # LmHead <=>
            \E i \in 1 .. c.layers : x \in Elements(BlockLayers(file, i - 1))
  BY GgufLayersOf
<1>2. \A i : \A x : x \in Elements(BlockLayers(file, i)) <=>
         \E p \in Elements(TensorOf) : There(p, i) /\ x = ProjectionLayer(file, p, i)
  BY BlockLayersOf
<1>4. Has(file, <<"output", -1>>) <=> ~c.tied
  BY TensorsRead
<1>5. ASSUME NEW p \in Elements(TensorOf), NEW i \in I
      PROVE  /\ There(p, i) <=> p[2] \in Projected(c)
             /\ There(p, i) => Tensor(file, <<p[1], i>>).type = style.projections
  BY TensorsRead
<1>6. \A i, p : /\ ProjectionLayer(file, p, i).name = <<p[2], i>>
                /\ ProjectionLayer(file, p, i).as = ConvertedAs(Tensor(file, <<p[1], i>>))
  BY DEF ProjectionLayer, Layer
<1>7. \A t : ConvertedAs(t) = "blocks" <=> t.type \in {"Q2_0", "TQ2_0", "I2_S"}
  BY DEF ConvertedAs
<1>8. \A m : m \in kept <=> m \in SubmoduleKinds /\ m \in Projected(c)
  <2>1. \A m \in SubmoduleKinds : m \in Projected(c) <=>
           /\ ~(c.fusedMlp /\ m \in {"gate_proj", "up_proj"})
           /\ ~(c.fusedQkv /\ m \in {"q_proj", "k_proj", "v_proj"})
    BY DEF Projected, SubmoduleKinds
  <2> QED BY <2>1, KeptFacts
<1>9. /\ \A p \in Elements(TensorOf) : p[2] \in SubmoduleKinds
      /\ \A m \in SubmoduleKinds : \E p \in Elements(TensorOf) : p[2] = m
  BY PairFacts
<1>10. /\ \A i \in 1 .. c.layers : i - 1 \in I
       /\ \A i \in I : i + 1 \in 1 .. c.layers /\ (i + 1) - 1 = i
       /\ LmHead[1] \notin {"q_norm", "k_norm"} /\ LmHead[1] \notin SubmoduleKinds
       /\ "q_norm" \notin SubmoduleKinds /\ "k_norm" \notin SubmoduleKinds
  BY NameFacts DEF SubmoduleKinds
<1>11. \A x : x \in names <=> \/ ~c.tied /\ x = LmHead
                              \/ \E m \in kept, i \in I : x = <<m, i>>
  <2>1. \A x : x \in kept \X I <=> \E m \in kept, i \in I : x = <<m, i>>
    BY Pairs
  <2> HIDE DEF kept, I
  <2> QED BY <2>1
<1> HIDE DEF list, names, kept, file, There, I
<1>12. ASSUME NEW l \in Elements(list), l.name # LmHead
       PROVE  /\ l.name \in names /\ l.name[1] \in SubmoduleKinds
              /\ l.as = "blocks" <=> style.projections \in {"Q2_0", "TQ2_0", "I2_S"}
  <2>1. PICK i \in 1 .. c.layers : l \in Elements(BlockLayers(file, i - 1))
    BY <1>1, <1>12
  <2> DEFINE j == i - 1
  <2>2. j \in I
    BY <1>10
  <2> HIDE DEF j
  <2>3. PICK p \in Elements(TensorOf) : There(p, j) /\ l = ProjectionLayer(file, p, j)
    BY <1>2, <2>1 DEF j
  <2>4. /\ l.name = <<p[2], j>> /\ p[2] \in kept
        /\ l.as = "blocks" <=> style.projections \in {"Q2_0", "TQ2_0", "I2_S"}
    <3> DEFINE t == Tensor(file, <<p[1], j>>)
    <3>1. p[2] \in Projected(c) /\ t.type = style.projections
      BY <1>5, <2>2, <2>3
    <3>2. l.name = <<p[2], j>> /\ l.as = ConvertedAs(t)
      BY <1>6, <2>3
    <3> HIDE DEF t
    <3>3. l.as = "blocks" <=> style.projections \in {"Q2_0", "TQ2_0", "I2_S"}
      BY <1>7, <3>1, <3>2
    <3>4. p[2] \in kept
      BY <1>8, <1>9, <3>1
    <3> QED BY <3>2, <3>3, <3>4
  <2> QED BY <1>8, <1>11, <2>2, <2>4
<1>13. ASSUME NEW x \in names PROVE \E l \in Elements(list) : x = l.name
  <2>1. CASE ~c.tied /\ x = LmHead
    BY <1>1, <1>4, <2>1
  <2>2. CASE \E m \in kept, i \in I : x = <<m, i>>
    <3>1. PICK m \in kept, i \in I : x = <<m, i>>
      BY <2>2
    <3>2. PICK p \in Elements(TensorOf) : p[2] = m
      BY <1>8, <1>9
    <3> DEFINE l == ProjectionLayer(file, p, i)
    <3>3. There(p, i) /\ l.name = x
      BY <1>5, <1>6, <1>8, <3>1, <3>2
    <3> HIDE DEF l
    <3>4. l \in Elements(BlockLayers(file, i))
      BY <1>2, <3>3 DEF l
    <3>5. l \in Elements(list)
      BY <1>1, <1>10, <3>4
    <3> QED BY <3>3, <3>5
  <2> QED BY <1>11, <2>1, <2>2
<1>14. ASSUME NEW l \in Elements(list) PROVE l.name \in names /\ l.name[1] \notin {"q_norm", "k_norm"}
  <2>1. CASE l.name = LmHead
    BY <1>1, <1>4, <1>10, <1>11, <2>1
  <2>2. CASE l.name # LmHead
    BY <1>10, <1>12, <2>2
  <2> QED BY <2>1, <2>2
<1> QED
  BY <1>12, <1>13, <1>14 DEF list, names, kept, file, I

\* The norms of its layers.
LEMMA GgufNormsOf ==
  ASSUME NEW c \in Checkpoint, NEW style, ~style.flags, NEW i \in 0 .. c.layers - 1
  PROVE  LET norms == GgufNorms(GgufOf(c, style), i)
         IN  /\ norms["attn_norm"] = "weights" /\ norms["ffn_norm"] = "weights"
             /\ \A k \in {"attn_sub_norm", "ffn_sub_norm"} :
                   norms[k] = IF style.projections = "I2_S" THEN "weights" ELSE "ones"
<1> DEFINE file == GgufOf(c, style)
           norms == GgufNorms(file, i)
           four == {"attn_norm", "ffn_norm", "attn_sub_norm", "ffn_sub_norm"}
<1>2. ASSUME NEW k \in four
      PROVE  norms[k] = IF Has(file, <<k, i>>) THEN "weights" ELSE "ones"
  <2> DEFINE name == <<k, i>>
             list == <<name>>
             places == {j \in DOMAIN list : Has(file, list[j])}
             there == Picked(list, places)
             good == {n \in {name} : Has(file, n)}
  <2>1. norms[k] = Norm(file, list)
    BY DEF GgufNorms
  <2>2. Norm(file, list) = IF there = <<>> THEN "ones"
                           ELSE IF Extracts(Tensor(file, there[1])) THEN "weights" ELSE "none"
    BY DEF Norm, Where
  <2>3. list \in Seq({name}) /\ Len(list) = 1 /\ list[1] = name /\ DOMAIN list = 1 .. 1
    OBVIOUS
  <2>4. \A x : x \in Elements(list) <=> x = name
    BY FewElements
  <2>5. Has(file, name) => Extracts(Tensor(file, name))
    <3>1. Has(file, name) => Tensor(file, name).type = "F32"
      BY TensorsRead
    <3> QED BY <3>1 DEF Extracts
  <2> HIDE DEF list
  <2>6. \A j \in 1 .. Len(list) : j \in places <=> list[j] \in good
    BY <2>3
  <2>7. \A x : x \in good <=> x = name /\ Has(file, name)
    OBVIOUS
  <2> HIDE DEF places, good, there, name, norms, file
  <2>8. /\ \A x : x \in Elements(there) <=> x \in Elements(list) /\ x \in good
        /\ there # <<>> <=> \E x \in Elements(list) : x \in good
        /\ there # <<>> => there[1] \in Elements(there)
    <3> DEFINE T == {name}
    <3>1. list \in Seq(T)
      BY <2>3
    <3> HIDE DEF T
    <3> QED BY <2>6, <3>1, SearchFacts DEF there
  <2>9. CASE Has(file, name)
    <3>1. there # <<>> /\ there[1] = name
      BY <2>4, <2>7, <2>8, <2>9
    <3> QED BY <2>1, <2>2, <2>5, <2>9, <3>1 DEF name
  <2>10. CASE ~Has(file, name)
    <3>1. there = <<>>
      BY <2>7, <2>8, <2>10
    <3> QED BY <2>1, <2>2, <2>10, <3>1 DEF name
  <2> QED BY <2>9, <2>10
<1>3. /\ \A k \in {"attn_norm", "ffn_norm"} : Has(file, <<k, i>>)
      /\ \A k \in {"attn_sub_norm", "ffn_sub_norm"} :
            Has(file, <<k, i>>) <=> style.projections = "I2_S"
  BY TensorsRead
<1> HIDE DEF norms, file
<1>4. norms["attn_norm"] = "weights" /\ norms["ffn_norm"] = "weights"
  BY <1>2, <1>3
<1>5. \A k \in {"attn_sub_norm", "ffn_sub_norm"} :
         norms[k] = IF style.projections = "I2_S" THEN "weights" ELSE "ones"
  BY <1>2, <1>3
<1> QED
  BY <1>4, <1>5 DEF norms, file

\* What a device reads of a GGUF file that loads.
LEMMA GgufWhole ==
  ASSUME NEW c \in Checkpoint, NEW f, f # "als", Directory(<<c, f>>).loads, ~Styles[f].flags
  PROVE  LET dir == Directory(<<c, f>>)
         IN  ReadGguf(c, dir.file, Styles[f], Model(dir, WholeList(dir)))
<1> DEFINE dir == Directory(<<c, f>>)
           style == Styles[f]
           file == GgufOf(c, style)
           list == GgufLayers(file)
           M == Model(dir, list)
           kept == Kinds(c) \ (IF c.fusedQkv THEN {"q_proj", "k_proj", "v_proj"} ELSE {})
           names == (IF c.tied THEN {} ELSE {LmHead}) \cup (kept \X (0 .. c.layers - 1))
           emb == Tensor(file, <<"token_embd", -1>>)
<1>1. dir.format = "gguf" /\ dir.file = file /\ GgufLoads(file)
  BY DirectoryFacts
<1>2. WholeList(dir) = list
  BY <1>1 DEF WholeList
<1>3. /\ list \in Seq(Elements(list)) /\ Once(list)
  BY <1>1, GgufLayersOf
<1>4. /\ \A x : (\E l \in Elements(list) : x = l.name) <=> x \in names
      /\ \A l \in Elements(list) :
            /\ l.name[1] \notin {"q_norm", "k_norm"}
            /\ l.name # LmHead =>
                 (l.as = "blocks" <=> style.projections \in {"Q2_0", "TQ2_0", "I2_S"})
  BY <1>1, GgufLayerNames
<1>5. /\ \A x : x \in LayerNames(M) <=>
            \E l \in Elements(list) : l.name[1] \notin {"q_norm", "k_norm"} /\ x = l.name
      /\ \A x : x \in Elements(M.layers) <=>
            x \in Elements(list) /\ x.name[1] \notin {"q_norm", "k_norm"}
      /\ Once(list) => Len(M.layers) = Cardinality(LayerNames(M))
  <2> DEFINE E == Elements(list)
  <2>1. list \in Seq(E)
    BY <1>3
  <2> HIDE DEF E, list, dir
  <2> QED BY <2>1, ModelFacts
<1>6. /\ M.config = Config(dir)
      /\ M.weight = IF dir.format = "gguf" THEN GgufWeight(dir.file)
                    ELSE ConvertedWeight(dir.ckpt)
  BY DEF Model
<1>8. emb.type = style.embedding /\ emb.dims[2] = c.vocab
  BY TensorsRead
<1>9. /\ get_int(file, "block_count", 0) = c.layers
      /\ get_int(file, "context_length", 2048) = c.context
      /\ get_int(file, "embedding_length", 0) = c.hidden
      /\ get_int(file, "feed_forward_length", 0) = c.inter
      /\ head_count(file) = c.heads
      /\ get_int(file, "attention.head_count_kv", head_count(file)) = c.kv
      /\ eos_token_id(file) = 2 <=> style.eos = "INT32"
  BY NumbersOf
<1>10. \A i \in 0 .. c.layers - 1 :
          LET norms == GgufNorms(file, i)
          IN  /\ {norms["attn_norm"], norms["ffn_norm"]} = {"weights"}
              /\ \A k \in {"attn_sub_norm", "ffn_sub_norm"} :
                    norms[k] = IF style.projections = "I2_S" THEN "weights" ELSE "ones"
  <2> SUFFICES ASSUME NEW i \in 0 .. c.layers - 1
               PROVE  LET norms == GgufNorms(file, i)
                      IN  /\ {norms["attn_norm"], norms["ffn_norm"]} = {"weights"}
                          /\ \A k \in {"attn_sub_norm", "ffn_sub_norm"} :
                                norms[k] = IF style.projections = "I2_S" THEN "weights" ELSE "ones"
    OBVIOUS
  <2> DEFINE norms == GgufNorms(file, i)
  <2>1. /\ norms["attn_norm"] = "weights" /\ norms["ffn_norm"] = "weights"
        /\ \A k \in {"attn_sub_norm", "ffn_sub_norm"} :
              norms[k] = IF style.projections = "I2_S" THEN "weights" ELSE "ones"
    BY GgufNormsOf
  <2> HIDE DEF norms
  <2>2. {norms["attn_norm"], norms["ffn_norm"]} = {"weights"}
    BY <2>1
  <2> QED BY <2>1, <2>2 DEF norms
<1>11. file.weight = c.weight /\ c.weight \in Bits16
  BY DEF GgufOf, Checkpoint
<1> HIDE DEF M, list, names, file, style, dir, emb, kept
<1>12. LayerNames(M) = names
  <2>1. \A x : x \in LayerNames(M) <=> x \in names
    BY <1>4, <1>5
  <2> QED BY <2>1
<1>13. M.config = [load_config(c) EXCEPT !.context = c.context]
  <2>1. M.config = GgufConfig(file)
    BY <1>1, <1>6 DEF Config
  <2>2. GgufConfig(file) =
           [vocab |-> c.vocab, hidden |-> c.hidden, inter |-> c.inter,
            layers |-> c.layers, heads |-> c.heads, kv |-> c.kv, context |-> c.context]
    BY <1>8, <1>9 DEF GgufConfig, emb
  <2>3. [load_config(c) EXCEPT !.context = c.context] =
           [vocab |-> c.vocab, hidden |-> c.hidden, inter |-> c.inter,
            layers |-> c.layers, heads |-> c.heads, kv |-> c.kv, context |-> c.context]
    <3> DEFINE l == Least(c.context, 4096)
    <3>1. load_config(c) =
             [vocab |-> c.vocab, hidden |-> c.hidden, inter |-> c.inter,
              layers |-> c.layers, heads |-> c.heads, kv |-> c.kv, context |-> l]
      BY DEF load_config
    <3> HIDE DEF l
    <3> QED BY <3>1
  <2> QED BY <2>1, <2>2, <2>3
<1>14. M.weight = Exact(IF style.embedding = "F32" THEN "F32" ELSE "F16", c.weight) <=>
          \/ style.embedding = "F32" \/ ~Subnormal(Half(c.weight))
          \/ Half(c.weight).man \in 32 .. 63
  <2>1. M.weight = IF style.embedding = "F32" THEN Exact("F32", c.weight)
                   ELSE fp16_to_fp32(c.weight)
    BY <1>1, <1>6, <1>8, <1>11 DEF GgufWeight, emb
  <2>2. CASE style.embedding = "F32"
    BY <2>1, <2>2
  <2>3. CASE style.embedding # "F32"
    BY <1>11, <2>1, <2>3, Fp16Read
  <2> QED BY <2>2, <2>3
<1>15. \A l \in Elements(M.layers) :
          l.name # LmHead =>
             (l.as = "blocks" <=> style.projections \in {"Q2_0", "TQ2_0", "I2_S"})
  BY <1>4, <1>5
<1>16. ReadGguf(c, file, style, M)
  <2>1. Len(M.layers) = Cardinality(LayerNames(M))
    BY <1>3, <1>5
  <2>2. LayerNames(M) =
           (IF c.tied THEN {} ELSE {LmHead}) \cup
           ((Kinds(c) \ (IF c.fusedQkv THEN {"q_proj", "k_proj", "v_proj"} ELSE {}))
               \X (0 .. c.layers - 1))
    BY <1>12 DEF names, kept
  <2>3. eos_token_id(file) = 2 <=> style.eos = "INT32"
    BY <1>9
  <2> QED BY <1>10, <1>13, <1>14, <1>15, <2>1, <2>2, <2>3, Zenon DEF ReadGguf
<1> QED
  BY <1>1, <1>2, <1>16 DEF M, dir, style

\* What a device loads of a GGUF directory.
LEMMA StyleIsLoaded ==
  ASSUME job \in Deployments, job.format # "als"
  PROVE  StyleLoads(job.ckpt, Dir.file, Styles[job.format], DeviceModel)
<1> DEFINE c == job.ckpt
           f == job.format
           style == Styles[f]
           dir == Directory(<<c, f>>)
<1>1. /\ c \in Checkpoint /\ Dir = dir
      /\ DeviceModel = IF DeviceThrows(Dir) THEN None ELSE Model(Dir, WholeList(Dir))
      /\ DeviceThrows(Dir) <=> DeviceModel = None
  BY Here, Refused
<1>2. f \in DOMAIN Styles /\ style.version \in Nat /\ style.flags \in BOOLEAN
  BY DeploymentAssumption
<1>3. dir.format = "gguf" /\ dir.loads = GgufLoads(GgufOf(c, style))
  BY DirectoryFacts
<1>4. DeviceThrows(dir) <=> ~dir.loads
  BY <1>3 DEF DeviceThrows
<1> HIDE DEF dir
<1>5. GgufLoads(GgufOf(c, style)) <=>
         ~(\/ style.version > 3 \/ style.flags
           \/ style.embedding \notin {"F32", "F16", "Q2_0", "TQ2_0"})
  BY <1>1, <1>2, GgufLoadsWhen
<1>6. ASSUME DeviceModel # None PROVE ReadGguf(c, dir.file, style, DeviceModel)
  <2>1. dir.loads /\ ~style.flags /\ DeviceModel = Model(dir, WholeList(dir))
    BY <1>1, <1>3, <1>4, <1>5, <1>6
  <2>2. ReadGguf(c, dir.file, style, Model(dir, WholeList(dir)))
    BY <1>1, <2>1, GgufWhole DEF dir
  <2> QED BY <2>1, <2>2
<1> QED
  BY <1>1, <1>3, <1>4, <1>5, <1>6 DEF StyleLoads

\* What a device loads is what was written, but for the exceptions named.  Of a
\* converted directory (export.cpp, loader.h) it has every kept layer and norm
\* unless a record has a length that is taken for an old one or that 32 bits do
\* not hold, and refuses it only for its context, its intermediate size, its
\* number of heads, the numbers of its embedding or a container of too many terms
\* that is reached; of a GGUF file (gguf_loader.cpp) it has what the table of
\* names keeps, and refuses it only for its version, an array of flags or the
\* type of its embedding; a weight is exact unless it is a subnormal half.  All
\* this of the sizes that SourcesBounded admits.
THEOREM LoadsWhatWasWritten == DeploySpec => []LoadsAsConverted
<1>1. DeployInv => LoadsAsConverted
  <2> SUFFICES ASSUME DeployInv PROVE LoadsAsConverted
    OBVIOUS
  <2>1. job \in Deployments
    BY DEF DeployInv, PlanInv
  <2> QED BY <2>1, ConvertedIsLoaded, StyleIsLoaded DEF LoadsAsConverted
<1> QED
  BY <1>1, DeployInvariant, PTL
=============================================================================
