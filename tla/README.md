# TerLlama: a TLA+ model of the inference engine and its cluster

TerLlama runs ternary-weight language models on CPUs: as an HTTP server on one
machine (`terllama serve`), or as a pipeline of workers on several
(`terllama-cluster`, `terllama-worker`), started by a daemon on each machine
(`terllama-node`). This directory models the parts of it in which threads,
processes and machines meet, and the way of a model from its checkpoint to the
memory of those that run it; it model-checks them with TLC and proves properties
of them with TLAPS. Paths below are relative to the root of the repository.

## 1. Inventory

### Components, their state and their operations

| component | source | state | operations |
|---|---|---|---|
| API server | `src/server.cpp`, `src/server/handlers.cpp` | `g_model` under `g_model_mutex`, the snapshot cache under `g_snapshot_mutex`, `g_active_requests`, `g_last_request_time`, `g_admission_mutex` | `POST /v1/chat/completions`, `POST /v1/completions` (reload, admission, snapshot, generation), `GET /v1/models`, `GET /health`, keep-alive watchdog |
| rate limiter, SSE frames | `src/server/handlers.cpp` | a window of timestamps per client; the batch of tokens not yet sent | `rate_limit_allow`, stream callback |
| local decode | `src/core/inference.cpp` | one `KVCache` per call, thread-local buffers | `generate`, `generate_stream`, `model_forward`, `transformer_block`, `attention`, `KVCache::append` |
| coordinator | `distributed/coordinator.cpp` | the list of workers, `gen_mutex_`, per stream the tokens not yet sent | `start` (health, adopt or compute a plan, push shards), `generate`, `pipeline`, completions, plain and streamed |
| worker | `distributed/worker.cpp`, `worker_main.cpp` | its shard, its KV cache, `mu_` | `/load`, `/reset`, `/forward`, `/health` |
| partitioner | `distributed/partitioner.h` | none (a function) | `compute_shards` |
| shard loader, ALS container | `distributed/shard_loader.h`, `src/loader.h` | `model_decomposed.bin`, `model_extra.bin` | read, read a range of layers, guess the layout |
| GGUF loader | `src/gguf_loader.cpp`, `src/gguf_loader.h` | a GGUF file | parse, config, layers, norms |
| MoTE builder | `src/mote_builder.cpp`, `src/loader.h` | one file of experts | `mote-build`, `mote-list` |
| model directories and registry | `src/cli/commands.cpp`, `distributed/node.cpp` | `models_dir()`, `models.json`, `.part` files | `pull`, `rm`, import from another node |
| node daemon | `distributed/node.cpp` | `peers_`, `running_`, `worker_pids_`, `children_` | discovery, `start-model`, `stop-model`, `start-worker`, `stop-worker`, `import-model`, `pull-model`, `Node::stop` |
| conversion | `src/convert/` | a checkpoint, the files of a model | parse, name and decompose tensors, export |
| kernels and dispatch | `src/dispatcher.cpp`, `src/kernel_*.cpp` | a packed-term cache per layer | matrix products |
| desktop application | `terllama-desktop/src-tauri/src/` | the engine's process, the conversion flag, downloads | `start`, `stop`, convert, download |
| CLI, benchmark, tokenizer, logger, web page | `src/main.cpp`, `src/cli/`, ... | none shared | commands |

### How they interact

* The desktop application, the web page and users call the API server or the
  coordinator over HTTP. Every request has a thread of the HTTP library.
* Handlers and the watchdog of the API server share `g_model`: handlers load it,
  read its sizes, copy it into a snapshot, and stream from the snapshot without
  a lock; the watchdog clears it.
* The coordinator calls the workers one after the other over HTTP, once per
  token. A worker serves one call at a time under `mu_`.
* `terllama pull` and `terllama rm` are processes of their own; they meet in the
  model directory and in `models.json`, and meet the daemon of another node that
  imports the same files over HTTP.
* The converter talks to every later process through two files whose layout is
  not tagged; each reader works it out again.
* A daemon that gets `start-model` leads: it counts the clusters of its peers,
  plans with `compute_shards`, has its peers import the files, spawns its own
  worker and calls `start-worker` on the peers, then spawns the coordinator. All
  daemons call each other, each with a pool of eight threads.

### What is hard, and what makes it correct

* **API server**: the flag `loaded` is read without the lock that guards it; a
  slot is reserved by numbers read under locks that have been given back; the
  watchdog decides to unload without a lock; copies race. Correct: the number of
  reservations is exact, the memory limit is honoured, a snapshot is never torn,
  one copy is shared, the model is loaded once, every request is answered.
* **Generation** (local and on a cluster): every token produced must depend on
  exactly the tokens fed before it, whatever other calls, crashes, restarts and
  time-outs there are; positions must stay inside the cache; a lost worker must
  show as an error; the client must get the text that was generated, once, on
  every way a stream may end; the mutex must be given back.
* **Partitioner**: all layers, each once, contiguous, at least one per worker, in
  proportion to RAM, in spite of rounding.
* **Node daemon**: a start that fails half-way and a stop must leave nothing
  behind on any machine; the budget of clusters spans machines; ports are probed
  before they are used; pools can wait for each other; a signal may come in the
  middle of all of it.
* **Model directories**: what a crash or a second writer leaves under a final
  name. Correct: what passes for a model is complete.
* **Conversion and loading**: two readers, a guessed layout, sizes in different
  integer types, tensors skipped silently, numbers of 16 bits. Correct: what is
  loaded is what was in the checkpoint, and shards together are the model.
* **Start-up of a cluster**: workers that are bare, loaded, loaded with another
  plan or model, or die. Correct: what is served is a pipeline.

`PROJECT.json` lists the hazards one by one with the line where each bites.

## 2. Modules

| module | models | promises |
|---|---|---|
| `ModelServer` | the life of the model in the API server | see the run `server` |
| `ModelServerProofs` | proofs about it | section 5 |
| `Decoder` | abstract: what a generation promises, on whatever device | every token is sampled from the logits of exactly the tokens fed |
| `ClusterPipeline` | coordinator and workers, plain and streamed completions | implements `Decoder`; clients get what it generated |
| `ClusterPipelineProofs` | proofs about it | section 5 |
| `LocalDecode` | `generate`, `generate_stream` | implements `Decoder` |
| `LocalDecodeProofs` | proofs about it | section 5 |
| `Partitioner` | `compute_shards` | a plan is a pipeline |
| `PartitionerProofs` | proofs about it | section 5 |
| `NodeCluster` | start and stop of clusters by the daemons, and the end of a daemon | nothing is left behind |
| `NodeClusterProofs` | proofs about it: types | section 5 |
| `NodeSafetyProofs` | proofs about it: nothing left behind, clusters whole, the budget (EXTENDS `NodeClusterProofs`) | section 5 |
| `ModelStore` | `pull`, `rm`, the registry and the import by another node, file by file | what passes for a model is complete |
| `ModelStoreProofs` | proofs about it | section 5 |
| `Halves` | conversions of 16-bit numbers | operators |
| `GgufFile` | what is read from a GGUF file (EXTENDS `Halves`) | operators |
| `ModelFiles` | from a checkpoint to records to a loaded model or shard (EXTENDS `GgufFile`) | operators |
| `MoteFile` | building, writing and reading experts (EXTENDS `ModelFiles`) | operators |
| `Deployment` | a model is converted, and then turned into experts or started on a cluster; composes `Partitioner` and `MoteFile` | what is served is a pipeline, what is loaded is the checkpoint |
| `DeploymentProofs` | proofs about it (EXTENDS `PartitionerProofs`) | section 5 |
| `MC...` | small instances for TLC | |

### Correspondence with the code

**ModelServer.** One request is one call of a handler; both completion handlers
have the same control flow. `pc` names the program points between which other
threads are seen to act: before and after every lock, and every access to shared
data without one. `modelLock` and `admLock` are the mutexes that are held across
other locks; `g_snapshot_mutex` is a leaf, so its critical sections are single
steps. The contents of `g_model` are abstracted to the number of the load that
wrote the weights and of the load that wrote the RoPE tables, so that a torn
copy shows as two different numbers. `model.loaded` is read and written without
`g_model_mutex` in places, formally a data race; the model takes it as atomic,
which is what a `bool` is on the platforms built for. An exception in the middle
of `init_server` (out of memory after the weights have been moved) is left out.

**Decoder, ClusterPipeline, LocalDecode.** A vector of floats is abstracted to
the sequence of tokens it was computed from, or to `Garbage` when it was
computed from cache slots that do not belong together. That is exactly what the
correctness of a KV cache is about: with it, "bit-identical logits"
(`distributed/README.md`) becomes `logits = fed`. `Decoder` knows of no cache at
all. `ClusterPipeline` has one action per HTTP call sent, executed, answered,
given up and executed late; `LocalDecode` walks through `model_forward` layer by
layer, so that calls interleave inside a token. A `Generate` step of the model is
one critical region of the code; sampling is any token of the vocabulary.
Arithmetic, the thread-local index cache and debug output are abstracted.

The coordinator's two completion handlers have the same shape and differ in the
names of JSON fields; `ClusterPipeline` follows both to what the client reads.
A token stands for the text it decodes to. `buf` is the buffer of a stream, `Batch`
its size (16 in the code), `got` what was written to the client, and `gone` says
that the client has left, from when on writes fail and the generation stops.
Malformed bodies, answered with 400 before anything else happens, and errors of
the tokenizer are left out.

**Partitioner.** Run as part of `Deployment`. One action per round of each loop of `compute_shards`. Remainders
are integers (multiplied by the total weight). The one visible effect of floating
point, a share that is a whole number and comes out just below it, is a
nondeterministic choice (`RoundedDown`) in which equal RAM gets an equal result.
The exceptions for zero nodes and mismatched lists are preconditions; the one for
"cannot guarantee 1 layer/node" has no action, `SpareLayer` shows that it is
never thrown. The plan is proportional before the last loop only: taking a
layer from the largest allocation may leave a node with fewer layers than a node
with a little less RAM.

**NodeCluster.** `pc` follows `handle_start_model`, then the loop that stops
workers, which `cleanup_partial_cluster` and `handle_stop_model` both contain.
A call to a peer waits in its backlog (`queued`) until a thread of the pool is
free, and stays there when the caller gives up. A port is free when nobody
answers on it; two processes may listen on one port, as the HTTP library sets
`SO_REUSEPORT`, and either answers. Killing a process is one step with the
erasure of its entry in `worker_pids_` (the process id is private to the handler
in between). Processes are named by the call that spawned them: that the system
may give a number to another process is not modelled. `Signal` is the first
`Node::stop`, in the signal handler: it takes the running clusters (`toStop`), stops
their workers on the peers, kills the children, and then the server drains; the
destructor does it a second time (`Drained`), for what handlers started meanwhile.
The signal is taken while no lock of the node is held; `PROJECT.json` lists what
happens otherwise. `disturbed` records that calls of start-model overlapped or that a
peer did not answer: the code makes no promise for those cases and the safety
properties are stated for the others; `EveryStartEnds` is stated for all, and so is
the half of `NoOrphans` that speaks of a node's own processes after its exit.

**ModelStore.** A name leads to an inode and the inode outlives it, since `pull`
truncates and writes final names in place, an import reads what it has opened,
and a rename replaces a file others still write. The source of an import opens the
file by its name for the first chunk, and again when it ends before what was announced
(`OpenSource`): by then the name may lead to another inode, or to none. Files are chunks; weights have
two, so that they can be seen half written. `tok` stands for all the small files.
`mutated` is history: a converted file was truncated or deleted, against "Model
files are immutable after conversion" (`distributed/node.cpp:200`), on which the
properties rest. The registry is read and written in two steps, as its mutex
belongs to one process.

**ModelFiles, GgufFile, Halves, MoteFile.** Operators, one per function of the
code, over a checkpoint reduced to what the code decides by: which tensors it
has, their shapes and types, the numbers of its configuration, and one weight of
16 bits. A file is the sequence of its records with their lengths in bytes;
`LowBits` is the test the reader guesses the layout by, integers wrap at 32 bits
where the code computes in `int`. The length of a raw record is what is left of it in a `uint32_t` (`RawLen`, in units of
four bytes), and a reader that trusts it gets lost (`Loses`). Where a misread length
makes the reader take
weights for names and sizes, what it finds depends on the weights: such
directories are `Treacherous`, and loading one may throw or not.
`SizesBounded` names the sizes the module is right for: every number of the
configuration is an `int`, a container and a norm have less than 2 GiB, and the
embedding has less than 2^32 numbers; an embedding of 2^31 and more does not load, as
the reader's `int` product overflows. Loops that keep the
entries passing a test are `Where` and `Picked`, recursive functions like the folds used
elsewhere, so that they can be proved about: `SelectSeq` is opaque to the prover. No
writer of GGUF is part of
the repository: its form in `GgufFile` is external, after `src/gguf_loader.h`,
whose comment at line 65 says what offsets count from.

**Deployment.** `stage` is where a model is on its way; the actions of `Partitioner`
take place inside the stage "planning" (`Planning`), with the RAM of the workers
as `Coordinator::start` or the daemon computes it. Workers are started by the
daemon from its plan, by hand with any shard of this or another model, or bare.
A push asks `ShardThrows` whether the shard loads, and the daemon's start-up is
that of `NodeCluster` seen from the files: ports and processes are there, shards
are here. A worker dies in any stage of the start.

## 3. Runs

Every run takes two minutes at most, on two threads; `node_cluster` and
`deployment` are the longest.

| run | bounds | what it shows |
|---|---|---|
| `server` | 2 requests, no limit or one of 6 units against a model of 4, a KV cache of 2 (1 while it is guessed) | slots, memory limit, whole and shared snapshots, the single load; every request is answered |
| `server_stale_snapshot` | 2 requests, no limit | finding: a snapshot stored after a reload can be older than it |
| `cluster` | 2 requests, plain or streamed, 2 workers, context of 4, prompts of several lengths, batches of 2, 1 crash | `RefinesDecoder`: the pipeline implements `Decoder`; a request that is not a stream and loses a worker, or uses one which lost its cache, gets an error; `ClientGetsText` |
| `cluster_faults` | 2 streams, 2 workers restarted with their shards, context of 3, 1 crash, 1 time-out | every request ends and gives the mutex back |
| `cluster_late_call` | 1 time-out | finding: a call that was given up is executed during the next generation |
| `cluster_restart` | 1 crash, restart with a shard | finding: an empty cache goes unnoticed |
| `deployment` | 4 workers with RAM of 0, 1, 2 or 5 units, 3 to 7 layers, some 40 checkpoints, 8 styles of GGUF files, started in each of the ways, 1 death | the properties of the plan; what is served is a pipeline whose shards make up the model; what is loaded is what was converted; experts survive their file; every deployment ends |
| `als_layout` | one checkpoint | finding: a record of 2^24 bytes is taken for the old layout |
| `local_decode` | 2 calls, 2 layers, context of 4, prompts of 1, 3 (with an unknown token) and 5 tokens | `RefinesDecoder` on one device, the cache holds the context, every call returns |
| `local_doc_loop` | 1 call | finding: the last token of a prompt is fed twice |
| `node_cluster` | 2 calls to 2 daemons with one thread each, budgets of 1 and 2, 1 fault: a peer that expires or does not answer, or a daemon that is stopped | nothing is left behind, running clusters are whole, the budget spans nodes, every call is answered |
| `model_store` | 2 commands and an import, or a command and 2 imports, of one model, 1 kill or broken connection | what the marker file and the registry promise about the files, and that imports end |

Why the bounds are enough: two requests suffice for anything one request does to
another: a loader and a copier, the two builders of a snapshot, two streams on one
cluster; the proofs of section 5 hold for any number. Two workers have a first and a last rank. A context of four leaves room
for a prompt, its repeated last token and a further one, and is exceeded by the
longest prompt. A batch of two is flushed in the middle of a stream and again at
its end. Four nodes let one node without a share, one donor, and two equal
nodes exist side by side. Pools of one thread make two daemons wait for each
other with two calls, as eight do with sixteen. The checkpoints are one per
branch of the converter and the readers, with the numbers on either side of each
limit, among them an intermediate size of 0, fewer dimensions than heads, embeddings
on either side of 2^29 and 2^31 numbers and a head of 2^30; the styles differ in each way the GGUF reader tells apart, one of them of a
version it refuses; the weights are zero, the smallest and largest subnormal numbers,
those on either side of the ones a GGUF file keeps, the smallest normal one, one,
infinity and NaN. A third import or command
adds no new pair of a reader and a writer.

Crashes, time-outs, expired peers and signals, deaths, kills are bounded by
`MaxCrashes`, `MaxTimeouts`, `MaxFaults` and `MaxDeaths`, which appear in the
guards of those actions only. Nothing else
is capped: tokens and positions are bounded by the code's own limits.

Deadlock is checked except in `deployment`, `als_layout` and `model_store`, whose
processes end.

Each property of a passing run has a mutant in the module, an operator beside
the one it mutates (`..._NoMutex`, `..._OneMore`), which makes the property fail.

### Fairness

* `ModelServer`: a handler that has begun keeps running (weak fairness of each
  handler), and a watchdog that has begun to unload finishes. Nothing is
  assumed of requests arriving or of time passing.
* `ClusterPipeline`: the coordinator's thread and the worker it calls keep
  running; nothing is assumed of crashes, restarts or late calls.
* `Deployment`: the tools and the coordinator keep running (`Steps`); nothing is
  assumed of workers dying.
* `ModelStore`: an import that has been accepted keeps running, and its reads time
  out, which is a step of the import. Nothing is assumed of commands.
* `LocalDecode`: a call takes no lock, so its thread keeps running.
* `NodeCluster`: handlers and pool threads run, a daemon that is being stopped
  goes on to its exit, and every wait has a time-out, which is a step of the
  handler. Nothing is assumed of processes coming up or of signals.

## 4. Findings

* `server_stale_snapshot`: a request that copies the model while it is unloaded and
  reloaded can store a snapshot that the reload should have dropped.
* `cluster_late_call`: "Fresh request: clear KV on every worker"
  (`distributed/coordinator.cpp:292`), yet a call abandoned at its read timeout is
  executed by the worker later, in the middle of the next generation.
* `cluster_restart`: "On worker failure the coordinator returns 502"
  (`distributed/README.md:83`), yet a worker restarted with its shard answers with an
  empty cache, and a request that is not a stream gets 200 and a text. The property
  leaves streams out: their status is sent before the first token, and a stream that
  loses a worker ends with `data: [DONE]` like any other
  (`distributed/coordinator.cpp:562-584`), which that sentence does not allow for
  either.
* `local_doc_loop`: `docs/ARCHITECTURE.md:246` samples the first token from the
  logits of the last prompt token; the code feeds that token a second time, on one
  device and on a cluster alike. `Decoder` states what the code does.
* `als_layout`: "bytes shift in → large u32" (`src/loader.h:430`) is how the new
  layout of a record is told from the old one, yet the word in question holds the
  low 24 bits of a length, which are all zero for the head of mistral-7b (32768 by
  4096 floats), and the record and all after it are lost.

Each is described with its lines in `PROJECT.json`. `LoadsAsConverted` and
`ClusterComputesAsDevice` name, in their comments, the checkpoints which are not
loaded as they were converted or run differently on a cluster; no text of the
repository promises otherwise for them, so they are hazards and not findings.

## 5. Proofs

The theorems hold for every value of the constants that satisfies the named
assumption of the module (`ServerAssumption`, `PartitionerAssumption`,
`LocalAssumption`, `ClusterAssumption`, `NodeAssumption`, `StoreAssumption`,
`DeploymentAssumption` and, that the value for no model is none, `NoneIsNoModel`). TLC
evaluates those assumptions in every run.

**ModelServerProofs** (any number of requests, any sizes and limits)

* `ServerTypes` (`TypeOK`) and `ReservationsCounted` (`ActiveCountExact`). The counter equals the
  cardinality of the set of handlers between reservation and release; the lemma
  `GotoCount` says how that set changes with one `pc`.
* `MutualExclusion`: `Locks`, which program points hold which mutex; everything
  below rests on it.
* `SingleFlight`: from `Contents`, which relates the load numbers in `g_model` to
  the points of the loader and of the watchdog.
* `WholeSnapshots`: a copy is never torn, from `Contents` and the lock.
* `SharedSnapshot`: requests of one epoch share one copy.
* `MemoryLimit`: what the reserved requests use stays within the limit. The
  inductive invariant `Accounted` bounds the slots that were in use when the limit
  was last compared; products are handled by one lemma, `ProductMonotone`.

**PartitionerProofs** (any number of nodes, layers and RAM values)

* `LayersAllocated` (`AllLayersAllocated`, with the types) and `OrderNotExceeded`
  (`IndexInOrder`). The sums are
  recursive functions; the lemmas `SumUpdate`, `SumMonotone` and `SumDivision` are
  proved by an induction over sets (`PrefixInduction`), as the library's
  induction theorems need second-order instances. `LeftOver` bounds what the floors
  leave by the nodes that can be given one more.
* `AlwaysSpareLayer`: the exception of the third loop is unreachable.
* `TwinsStayClose`: nodes of equal RAM differ by one layer at most.
* `SharesRoundedOnce`: `ShareRoundedOnce`. By `ShareInv` every node has the floor of its
  share, or one layer more if the second loop has been through it, and that loop goes by
  the remainders. What the nodes have too much and too little adds up to 0 (`SumDivision`),
  so that no node can be a whole layer off (`WithinOne`) with all others at most exact.
* `PlansArePipelines`: `PlanIsPipeline`, from the invariant `Cut` that the shards made
  so far end where the running sum does.

**LocalDecodeProofs** (any number of calls, layers and tokens, any prompts, any
length of the context)

* The inductive invariant is `TypeOK` with `CallInv`, stated for one call at a time.
  `CacheHoldsContext` alone is not inductive: between two tokens it speaks of all
  layers, while a token walks through them some layers have it and others do not.
  `Cached` says which (`layer[r]` divides them) and what `tls_x` holds meanwhile;
  `Lengthwise` relates the tokens fed to the prompt and the tokens produced. The
  lemma `BlockEffect` shows that attention over such a cache yields the context of
  the token; `Frame` that the steps of one call leave the others alone.
* `LocalTypes` (`TypeOK`), `PositionsInContext` (`InContext`, so `KVCache::append` never
  refuses a write) and `CacheIsContext` (`CacheHoldsContext`).
* `ImplementsDecoder`: `LocalDecode` implements `Decoder`. Taking a prompt token or a
  sampled token out of the last layer is a step of `Decoder`; the embedding and the
  layers are stutters. The invariant is needed for `Sample`, whose logits are what is
  left in `x`: the proof needs them to be the tokens fed.

**ClusterPipelineProofs** (any number of requests, workers and tokens, any prompts,
batches and length of the context, any number of crashes)

* `Inv` is `TypeOK` with `Values` (what is computed with is not empty) and `Lengthwise`
  (the tokens fed, the prompt and the tokens produced); without the lengths a position
  could leave the cache and `TypeOK` would not be inductive. `ClusterTypes` follows.
* `ClientsGetText`: `ClientGetsText`, with no further assumption: late calls, restarts
  with a shard and clients that leave included. `Client` adds where a request is when
  its client has what it has.
* `LostCacheIsNotUsed`: `WorkerFailureAnswers502`, provided workers are started without
  a model (`~Preloaded`), as the coordinator expects. It is about what the client of a
  request that is not a stream reads: an error, or nothing yet. `CrashInv` says that a
  worker which is ready has not lost a cache. With `Preloaded` it is false, which is the
  finding of `cluster_restart`.
* `ImplementsDecoder`: `RefinesDecoder`, provided workers are started without a model
  and no call is given up before it is executed (`MaxTimeouts = 0`, without which it is
  false: `cluster_late_call`). `Cached` says what each worker's slots hold, up to the
  position reached, and which workers the token on its way has passed; `Mutex` that
  nobody else writes meanwhile; `ForwardCache` that a worker makes of them the text of
  the token. Slots beyond the position may hold anything, so the proof does not use
  that the workers were reset. Acquiring the mutex, a prompt token, a sampled token and
  giving up are steps of `Decoder`, all others are stutters.

**DeploymentProofs** (any number of deployments, workers, layers, experts and deaths, any
checkpoints and files)

* The invariant is that of `PartitionerProofs`, carried through the stage "planning" and
  the start of workers, with what each worker holds (`HeldInv`), what the workers have
  answered (`AnswersInv`), what the daemon has spawned (`DaemonInv`) and what has been
  pushed (`PushInv`).
* `ServesPipelines`: `ServingIsPipeline`. The lemma `Chains` shows that answers which
  pass the coordinator's tests, first layer 0, each next one where the last ended, the
  last one last, are a pipeline over all layers, whatever plans they came from.
* `PlansInPlace`: the properties of a plan where the coordinator and the daemon ask for
  it; `DeploymentTypes`: `DeployTypeOK`.
* What files hold is the work of three groups of lemmas, for any number of layers. The
  library's theorems about recursive definitions are out of reach, so each recursive
  function of the model (the picked entries of a list, the flattening of a list of lists,
  the places of fields in a file) is first shown to satisfy its recursion equation
  (`Recursion`), and then what is wanted of its n-th value by induction (`PickedSteps`,
  `FlattenSteps`, `FieldSteps`). `PickedFacts` and `FlattenFacts` say
  what is kept, in which order, and that no name comes twice (`Once`). From these
  follow the records of a converted file by name (`DecomposedOf`), what a reader that
  loses its place still reads (`ParsedFacts`, `ReadFacts`) and the layers of a GGUF file
  (`GgufLayersOf`); `DirectoryFacts` joins the formats.
* `ShardsTogether`: `ShardsMakeTheModel`. A record is kept by the range of its layer alone,
  the head by the last range; since ranges chain, exactly one worker keeps each
  (`RangesCover`, `KeptByOne`), and `LoadInv`, that a worker which has a shard did
  not throw when it loaded it, says that what it keeps is what it holds. The embedding and
  the final norm go by the flags given with the range (`Embeds`, `Normalizes`), and the
  ends of the pipeline are the workers that are given them.
* `ComputesAsDevice`: `ClusterComputesAsDevice`, split as the property is: a GGUF model
  (`GgufAgrees`), a converted one on one worker (`SoleAgrees`) and on several
  (`SplitAgrees`). Both directions are proved: under the condition every worker
  finds its layers and the device's head size; without it one does not.
* `MoteReadsWhatItWrote`: `MoteRoundTrip`. By `FileLays` the fields of layer i of a file of
  experts lie at a place which is the sum of the lengths before it, and by
  `ReadsWhatLies` the reader, which adds up the lengths it finds, comes to the same
  place; `SerializedFacts` says of which layers the one term that is written is all there
  is. `MoteInv` adds that experts are only made of models that have the layers for it.

* `LoadsWhatWasWritten`: `LoadsAsConverted`, whose clauses are equivalences, so that each
  exception is proved to be one and no other to exist. Converted files: `StoredRecords`
  says which names have records, `RecordParts` in which of them a reader gets lost
  (`Loses`: it takes the record for an old one, or the length did not fit its 32 bits),
  `ConvertedReads` that it gets all records up to the first of these and none behind
  it; from where that record stands follow the layers and norms that are there
  (`ConvertedWhole`), a load that throws (`ConvertedThrows`) and a forward pass that
  finds what it needs (`ConvertedRuns`). GGUF files: `MetadataOf` and `TensorsOf` say what is
  written, `LostInFlags` that only an array of flags makes the reader lose its way, `ValueOf`
  and `TensorFound` what a search by key or name gets; then `GgufLoadsWhen` and `GgufWhole`.
  Weights: of the 2^16 patterns every one comes out exact or is a subnormal half or
  bfloat16 (`F16Converted`, `BF16Converted`, `Fp16Read`); `ShiftsFacts` is the arithmetic of the
  loop that looks for the leading bit. The property had said that no subnormal half of
  a GGUF file comes out exact, and TLC had agreed on the weights it was given; the proof
  could not be completed for fractions from 32 to 63, whose leading bit is where the wrong
  exponent of `gguf_loader.h:105` is the right one. It was corrected, and those weights
  and their neighbours are in the run.

**ModelStoreProofs** (any number of models, commands, imports and kills, files of any
length)

* The invariant `StoreInv` is the types of the commands with `ConvertInv`: as long as
  no converted file was truncated or deleted under another command, a command that has
  a file open made it and has written as much as it says (`WritesOwn`), a command that
  goes on to the next step finds the files before it whole (`RestsOn`), and so are those
  of every entry of the registry and of every entry a command has read and will write
  back. The last is what overlapping writers of `models.json` make necessary: they bring
  entries back.
* `RegistryListsWholeModels`: `RegisteredIsWhole`. `MarkedModelsHaveWeights`: the half of
  `MarkerImpliesWeights` that is about `pull` and `rm`.
* `StoreTypes`: `TypeOK`. `TypesInv` adds what the ranges rest on: an import at work has a
  model and a file left to get (`ImportShape`), and a command writes no chunk
  beyond the last (`CommandsBounded`).
* `MarkersImplyWeights`: `MarkerImpliesWeights`, by `PastInv`: an import that is past a file
  has left one under its name. Imports of one model share the name of
  the temporary file, so that the one an import streams to may be gone: then another
  import has renamed it, and it is there under the final name, which is what `Past` says.
* `ImportsAreWhole`: `ImportsLeaveWholeFiles`. `SourceInv` says of the source that a file has
  all that was written of it; `CopyInv` of the copies that each is whole, or that some
  import streams to it which has written all it has got there (`Complete`). The two
  writers of one inode make this subtle: the second to open it truncates what the
  first has written, and the file that is renamed by the first is completed by the second.

**NodeClusterProofs** (any number of nodes, calls, threads and faults)

* `NodeTypes`: `TypeOK`. Only the ports need more than the types: `Shape` says that a call
  which looks for one has no worker there yet, so that the workers which answer are of
  other calls, fewer than the ports (`PortLeft`, a pigeonhole on an injection).
  `OthersOnlyKilled` says that a step of one call leaves the others alone but for killing
  their workers.

**NodeSafetyProofs** (the same)

* `NothingLeftBehind`: `NoOrphans`. Two invariants. `EndInv` holds whatever happens: once
  the pool of a daemon has run dry (`NobodyBusy`) nobody can spawn on its node again, so
  that the second `shutdown_children` kills the last process (`KillsAll`); a start, a
  record or a call of a peer that comes between the two is why one would not do.
* `Calm` holds as long as calls do not overlap and peers answer: every worker that runs is
  on its call's list, on its way to it, or still to be stopped, by the handler or by
  `Node::stop` (`Kept`, `Taken`); and as `stop_local_worker` kills by port, `worker_pids_`
  has every worker that runs (`Named`). For this no two workers of a node may have a port
  in common, which only holds because at most one call places workers (`Alone`), so that
  every other worker that runs is up and answers when the ports are scanned (`Apart`,
  `Coming`).
* `ClustersAreWhole`: `ClusterWhole`, by adding `Whole` to the two: a participant is on
  the call's list of workers or still due to be placed (`Listed`); a worker a call counts
  on, to serve or to be there to be stopped, runs (`Ready`), and so do those left to
  `Node::stop` (`StillToStop`); and the process that answers on a cluster's port is the
  cluster's (`ClusterPorts`, `ClusterUp`). The core is `KillsOwn`: while a daemon is up,
  nobody but its own call kills a worker that is due, although the kill is by port.
* `BudgetIsKept`: `BudgetHonoured`, by `Budget`: the clusters on the lists of the daemons
  a call has asked are no more than it has counted, and those on all lists are fewer than
  the budget from the comparison to the record (`Counted`). It holds because meanwhile
  no other call records (`Alone`), so that lists only get shorter.

Only model-checked: the liveness properties (`EveryRequestAnswered`,
`EveryRequestEnds`, `EveryCallReturns`, `EveryStartEnds`, `EveryImportEnds`,
`DeploymentEnds`), which need ENABLED and fairness and are out of the prover's reach.
Every safety property of a passing run has a theorem.

## 6. Not modelled

* Kernels, dequantisation, sampling, schedulers: floating-point arithmetic, SIMD and
  measured times. The packed-term cache of `src/dispatcher.cpp` is a hazard.
* The tokenizer: pure functions on text; a prompt is a sequence of tokens.
* Rate limiter and SSE frames of the API server: the limiter depends on real time
  and client addresses, and `ModelServer` lets it refuse any request at any time;
  of the frames `ModelServer` keeps begin and end. The stream of the coordinator,
  which buffers in the same way, is modelled.
* Of the daemon: `pull-model`, whose command is in `ModelStore`, and the list of
  models. Of the converter: the decomposition into terms (arithmetic), downloads.
* Desktop application: a shell around the engine's process; its two races are a
  hazard.
* Benchmark, terminal output, logger, user interfaces, tests, scripts, legacy
  programs: no state that others read.
* Of the files: writes of `save_mote_model` that fail after the file was opened, sizes
  beyond `SizesBounded`, and the `int` product in `load_layer_norms`, which overflows
  only for a hidden size of 2^29 or more.
* How a stream of the coordinator that lost a worker is told from one that did not: it
  is not, see `cluster_restart` in section 4. `ClientGetsText` is about its text.
* An empty prompt in `LocalDecode`: `generate` would start from the end-of-text token,
  but each of its callers refuses one first.
* What an import that failed leaves, two starts that count clusters at the same time
  and two writers of `models.json` are hazards without a property: nothing in the code
  keeps them apart.
* The HTTP and JSON libraries: what matters of them is modelled at its use (one
  thread per request, pools, time-outs, shared ports).

## 7. Plan

Order: what decides whether answers are right first (server, generation,
partition), then what manages processes, then files.

1. *done* `ModelServer`, `Decoder`, `LocalDecode`, `Partitioner`.
2. *done* `ClusterPipeline` with streams; `NodeCluster` with the end of a daemon.
3. *done* `Deployment`, the start-up of the coordinator over `Partitioner`, over the
   files of `ModelFiles`, `GgufFile`, `MoteFile`.
4. *done* `ModelStore`.
5. `DesktopServer`: `ServerManager` and the conversion flag under overlapping commands.
6. `RateLimit`: the window per client against "at most n in any window", and the
   cap on remembered clients.
7. *done* Theorems about `ClusterPipeline`, `Deployment` and the commands of
   `ModelStore`; all safety properties of `NodeCluster`.
8. *done* What `ModelStore` says of imports; what shards, clusters and files of experts
   hold; what a device loads. Every safety property of a passing run is proved; the
   liveness properties stay with TLC.
