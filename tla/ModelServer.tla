----------------------------- MODULE ModelServer -----------------------------
(***************************************************************************)
(* The life of the model inside `terllama serve`: the handler threads of   *)
(* POST /v1/chat/completions and POST /v1/completions, the automatic       *)
(* reload, the admission against --memory-limit, the shared snapshot of    *)
(* the model, and the keep-alive watchdog that unloads it.                 *)
(*                                                                         *)
(* Threads meet in g_model (under g_model_mutex, here modelLock), in the   *)
(* snapshot cache (under g_snapshot_mutex) and in the atomics              *)
(* g_active_requests and g_last_request_time.  g_model.loaded is also read *)
(* without the mutex, as the code does.  g_snapshot_mutex is a leaf: no    *)
(* code takes another lock or blocks while it holds it, so each of its     *)
(* critical sections is one step here.  The mutexes that are held across   *)
(* other locks, g_model_mutex and g_admission_mutex, are variables.        *)
(*                                                                         *)
(* A request is one call of a handler; both handlers have the same control *)
(* flow.  The weights (embedding, layers, norms) and the RoPE tables are   *)
(* each abstracted to the number of the load that wrote them, 0 when they  *)
(* are empty; cfg and the tokenizer survive an unload and are left out.    *)
(***************************************************************************)
EXTENDS Integers, FiniteSets

CONSTANTS
    Requests,        \* the requests that may arrive, one handler call each
    None,            \* no thread, no snapshot
    MemoryLimits,    \* values of --memory-limit, 0 when the option is absent
    ModelBytes,      \* size of the loaded model, from its vectors
    FileBytes,       \* size of the model's files, used while it is unloaded
    KvBytes,         \* one KV cache, from the loaded configuration
    DefaultKvBytes   \* one KV cache as guessed while the model is unloaded

(* The watchdog's name as the holder of a lock. *)
Keeper == "watchdog"

Snapshot == [weights : Nat, rope : Nat, copy : Requests]

ASSUME ServerAssumption ==
    /\ IsFiniteSet(Requests)
    /\ None \notin Requests /\ Keeper \notin Requests /\ None # Keeper
    /\ None \notin Snapshot
    /\ MemoryLimits \subseteq Nat
    /\ ModelBytes \in Nat /\ FileBytes \in Nat
    /\ KvBytes \in Nat /\ DefaultKvBytes \in Nat

VARIABLES
    \* ---- one handler call each ----
    pc,          \* where the handler is
    est,         \* what try_reserve_request has read so far
    stream,      \* the "stream" field of the body
    held,        \* the snapshot in the handler's hands
    heldEpoch,   \* value of `epoch` when get_model_snapshot returned
    \* ---- shared ----
    memoryLimit, \* g_memory_limit, set before the threads start
    modelLock,   \* holder of g_model_mutex
    admLock,     \* holder of g_admission_mutex
    model,       \* contents of g_model
    loaded,      \* g_model.loaded
    cache,       \* g_snapshot_cache
    active,      \* g_active_requests
    idle,        \* now - g_last_request_time > keep_alive_ms
    watchdog,    \* where the watchdog thread is
    \* ---- history ----
    loads,       \* successful loads so far; numbers the contents of the model
    unloads,     \* unloads so far
    epoch        \* invalidations of the snapshot cache so far

dataVars    == <<est, stream, held, heldEpoch>>
handlerVars == <<pc, dataVars>>
lockVars    == <<modelLock, admLock>>
modelVars   == <<model, loaded, loads, unloads>>
cacheVars   == <<cache, epoch>>
sharedVars  == <<lockVars, modelVars, cacheVars, active>>
ambientVars == <<memoryLimit, idle, watchdog>>
vars == <<handlerVars, sharedVars, ambientVars>>

(* Program points that hold the reservation taken by try_reserve_request   *)
(* and still to be returned by the destructor of RequestGuard.             *)
ReservedPoints == {"parse", "tokenize", "snapCheck", "snapCopy", "snapStore",
                   "start", "streaming", "generating", "release"}
Points == ReservedPoints \cup
          {"idle", "check", "initLock", "initBody", "initRope", "initDrop",
           "admit", "admitModel", "admitKv", "admitCount", "admitDecide",
           "stamp", "done"}

Reserved == {r \in Requests : pc[r] \in ReservedPoints}

(* The requests inside generate or generate_stream: each owns a KV cache.  *)
Generating == {r \in Requests : pc[r] \in {"streaming", "generating"}}

TypeOK ==
    /\ pc \in [Requests -> Points]
    /\ est \in [Requests -> [model : Nat, kv : Nat, active : Nat]]
    /\ stream \in [Requests -> BOOLEAN]
    /\ held \in [Requests -> Snapshot \cup {None}]
    /\ heldEpoch \in [Requests -> Nat]
    /\ memoryLimit \in MemoryLimits
    /\ modelLock \in Requests \cup {Keeper, None}
    /\ admLock \in Requests \cup {None}
    /\ model \in [weights : Nat, rope : Nat]
    /\ loaded \in BOOLEAN
    /\ cache \in Snapshot \cup {None}
    /\ active \in Nat
    /\ idle \in BOOLEAN
    /\ watchdog \in {"sleep", "lock", "clear", "clearRope", "drop"}
    /\ loads \in Nat /\ unloads \in Nat /\ epoch \in Nat

-----------------------------------------------------------------------------
(* serve_main has loaded the model once (or exited) and stamped the clock  *)
(* before the watchdog and the HTTP server start.                          *)
Init ==
    /\ pc = [r \in Requests |-> "idle"]
    /\ est = [r \in Requests |-> [model |-> 0, kv |-> 0, active |-> 0]]
    /\ stream = [r \in Requests |-> FALSE]
    /\ held = [r \in Requests |-> None]
    /\ heldEpoch = [r \in Requests |-> 0]
    /\ memoryLimit \in MemoryLimits
    /\ modelLock = None
    /\ admLock = None
    /\ model = [weights |-> 1, rope |-> 1]
    /\ loaded = TRUE
    /\ cache = None
    /\ active = 0
    /\ idle = FALSE
    /\ watchdog = "sleep"
    /\ loads = 1
    /\ unloads = 0
    /\ epoch = 1

Goto(r, from, to) == /\ pc[r] = from
                     /\ pc' = [pc EXCEPT ![r] = to]

(* invalidate_model_snapshot *)
InvalidateSnapshot == /\ cache' = None
                      /\ epoch' = epoch + 1

-----------------------------------------------------------------------------
(* The handler up to its admission. *)

(* Stamp the clock; a bad API key or the rate limit ends the call at once. *)
Arrive(r) ==
    /\ \/ Goto(r, "idle", "check")
       \/ Goto(r, "idle", "done")
    /\ idle' = FALSE
    /\ UNCHANGED <<dataVars, sharedVars, memoryLimit, watchdog>>

(* Read g_model.loaded without the mutex.  The model directory is never    *)
(* empty here: the load that started the server has stored it.             *)
CheckLoaded(r) ==
    /\ Goto(r, "check", IF loaded THEN "admit" ELSE "initLock")
    /\ UNCHANGED <<dataVars, sharedVars, ambientVars>>

(* init_server: take g_model_mutex ... *)
InitLock(r) ==
    /\ Goto(r, "initLock", "initBody")
    /\ modelLock = None
    /\ modelLock' = r
    /\ UNCHANGED <<dataVars, admLock, modelVars, cacheVars, active,
                   ambientVars>>

(* ... another request has loaded it meanwhile ... *)
InitAlreadyLoaded(r) ==
    /\ Goto(r, "initBody", "admit")
    /\ loaded
    /\ modelLock' = None
    /\ UNCHANGED <<dataVars, admLock, modelVars, cacheVars, active,
                   ambientVars>>

(* ... load_model_from throws, the handler answers 500 ... *)
InitFails(r) ==
    /\ Goto(r, "initBody", "done")
    /\ ~loaded
    /\ modelLock' = None
    /\ UNCHANGED <<dataVars, admLock, modelVars, cacheVars, active,
                   ambientVars>>

(* Mutant of InitWeights: `loaded` is not looked at again under the mutex. *)
InitWeights_NoRecheck(r) ==
    /\ Goto(r, "initBody", "initRope")
    /\ model' = [model EXCEPT !.weights = loads + 1]
    /\ UNCHANGED <<dataVars, lockVars, loaded, loads, unloads, cacheVars,
                   active, ambientVars>>

(* ... or the weights are copied in, ... *)
InitWeights(r) ==
    /\ Goto(r, "initBody", "initRope")
    /\ ~loaded
    /\ model' = [model EXCEPT !.weights = loads + 1]
    /\ UNCHANGED <<dataVars, lockVars, loaded, loads, unloads, cacheVars,
                   active, ambientVars>>

(* ... the RoPE tables built and the flag raised, seen at once by readers  *)
(* without the mutex, ...                                                  *)
InitRope(r) ==
    /\ Goto(r, "initRope", "initDrop")
    /\ model' = [model EXCEPT !.rope = loads + 1]
    /\ loaded' = TRUE
    /\ loads' = loads + 1
    /\ UNCHANGED <<dataVars, lockVars, unloads, cacheVars, active,
                   ambientVars>>

(* ... and the cached snapshot dropped before the mutex is released.       *)
InitDrop(r) ==
    /\ Goto(r, "initDrop", "admit")
    /\ InvalidateSnapshot
    /\ modelLock' = None
    /\ UNCHANGED <<dataVars, admLock, modelVars, active, ambientVars>>

-----------------------------------------------------------------------------
(* try_reserve_request. *)

(* Without a limit the slot is taken at once, under g_admission_mutex. *)
AdmitUnlimited(r) ==
    /\ memoryLimit = 0
    /\ Goto(r, "admit", "parse")
    /\ admLock = None
    /\ active' = active + 1
    /\ UNCHANGED <<dataVars, lockVars, modelVars, cacheVars, ambientVars>>

(* Mutant of AdmitLock: the check and the reservation without the mutex. *)
AdmitLock_NoMutex(r) ==
    /\ memoryLimit > 0
    /\ Goto(r, "admit", "admitModel")
    /\ UNCHANGED <<dataVars, sharedVars, ambientVars>>

AdmitLock(r) ==
    /\ memoryLimit > 0
    /\ Goto(r, "admit", "admitModel")
    /\ admLock = None
    /\ admLock' = r
    /\ UNCHANGED <<dataVars, modelLock, modelVars, cacheVars, active,
                   ambientVars>>

(* get_model_size_bytes and get_kv_cache_size_bytes take g_model_mutex one *)
(* after the other; the model may be unloaded or reloaded in between.      *)
ReadModelSize(r) ==
    /\ Goto(r, "admitModel", "admitKv")
    /\ modelLock = None
    /\ est' = [est EXCEPT ![r].model = IF loaded THEN ModelBytes ELSE FileBytes]
    /\ UNCHANGED <<stream, held, heldEpoch, sharedVars, ambientVars>>

ReadKvSize(r) ==
    /\ Goto(r, "admitKv", "admitCount")
    /\ modelLock = None
    /\ est' = [est EXCEPT ![r].kv = IF loaded THEN KvBytes ELSE DefaultKvBytes]
    /\ UNCHANGED <<stream, held, heldEpoch, sharedVars, ambientVars>>

(* The slots in use can only shrink until admLock is given back. *)
ReadActive(r) ==
    /\ Goto(r, "admitCount", "admitDecide")
    /\ est' = [est EXCEPT ![r].active = active]
    /\ UNCHANGED <<stream, held, heldEpoch, sharedVars, ambientVars>>

Projected(r) == est[r].model + (est[r].active + 1) * est[r].kv

AdmitAccept(r) ==
    /\ Goto(r, "admitDecide", "parse")
    /\ Projected(r) <= memoryLimit
    /\ active' = active + 1
    /\ admLock' = None
    /\ UNCHANGED <<dataVars, modelLock, modelVars, cacheVars, ambientVars>>

(* Mutant of AdmitReject: the guard is built before the answer is known. *)
AdmitReject_Releases(r) ==
    /\ Goto(r, "admitDecide", "release")
    /\ Projected(r) > memoryLimit
    /\ admLock' = None
    /\ UNCHANGED <<dataVars, modelLock, modelVars, cacheVars, active,
                   ambientVars>>

(* 503: nothing was reserved, there is nothing to release. *)
AdmitReject(r) ==
    /\ Goto(r, "admitDecide", "done")
    /\ Projected(r) > memoryLimit
    /\ admLock' = None
    /\ UNCHANGED <<dataVars, modelLock, modelVars, cacheVars, active,
                   ambientVars>>

-----------------------------------------------------------------------------
(* The body, the prompt and the snapshot. *)

(* Mutant of Parse: the guard is built after the body has been accepted. *)
Parse_GuardTooLate(r) ==
    /\ \/ Goto(r, "parse", "done")
       \/ Goto(r, "parse", "tokenize")
    /\ stream' \in {[stream EXCEPT ![r] = b] : b \in BOOLEAN}
    /\ UNCHANGED <<est, held, heldEpoch, sharedVars, ambientVars>>

(* An invalid body, no message or prompt, or a bad max_tokens answers 400  *)
(* or 500 and unwinds; otherwise the body says whether to stream.          *)
Parse(r) ==
    /\ \/ Goto(r, "parse", "release")
       \/ Goto(r, "parse", "tokenize")
    /\ stream' \in {[stream EXCEPT ![r] = b] : b \in BOOLEAN}
    /\ UNCHANGED <<est, held, heldEpoch, sharedVars, ambientVars>>

(* Mutant of Tokenize: g_model_mutex still held over get_model_snapshot. *)
Tokenize_KeepsMutex(r) ==
    /\ Goto(r, "tokenize", "snapCheck")
    /\ modelLock = None
    /\ modelLock' = r
    /\ UNCHANGED <<dataVars, admLock, modelVars, cacheVars, active,
                   ambientVars>>

(* Tokenize under g_model_mutex; an empty or too long prompt unwinds. *)
Tokenize(r) ==
    /\ \/ Goto(r, "tokenize", "release")
       \/ Goto(r, "tokenize", "snapCheck")
    /\ modelLock = None
    /\ UNCHANGED <<dataVars, sharedVars, ambientVars>>

(* get_model_snapshot: share the cached copy ... *)
SnapshotHit(r) ==
    /\ Goto(r, "snapCheck", "start")
    /\ cache # None
    /\ held' = [held EXCEPT ![r] = cache]
    /\ heldEpoch' = [heldEpoch EXCEPT ![r] = epoch]
    /\ UNCHANGED <<est, stream, sharedVars, ambientVars>>

SnapshotMiss(r) ==
    /\ Goto(r, "snapCheck", "snapCopy")
    /\ cache = None
    /\ UNCHANGED <<dataVars, sharedVars, ambientVars>>

(* Mutant of SnapshotCopy: the copy is made without g_model_mutex. *)
SnapshotCopy_NoMutex(r) ==
    /\ Goto(r, "snapCopy", "snapStore")
    /\ held' = [held EXCEPT ![r] = [weights |-> model.weights,
                                    rope    |-> model.rope,
                                    copy    |-> r]]
    /\ UNCHANGED <<est, stream, heldEpoch, sharedVars, ambientVars>>

(* ... or copy g_model under g_model_mutex, whatever it holds by now, ... *)
SnapshotCopy(r) ==
    /\ Goto(r, "snapCopy", "snapStore")
    /\ modelLock = None
    /\ held' = [held EXCEPT ![r] = [weights |-> model.weights,
                                    rope    |-> model.rope,
                                    copy    |-> r]]
    /\ UNCHANGED <<est, stream, heldEpoch, sharedVars, ambientVars>>

(* Mutant of SnapshotStore: the loser of a race keeps its own copy. *)
SnapshotStore_KeepsOwn(r) ==
    /\ Goto(r, "snapStore", "start")
    /\ cache' = IF cache = None THEN held[r] ELSE cache
    /\ heldEpoch' = [heldEpoch EXCEPT ![r] = epoch]
    /\ UNCHANGED <<est, stream, held, lockVars, modelVars, epoch, active,
                   ambientVars>>

(* ... and offer the copy to the cache; the loser of a race takes the      *)
(* winner's copy and drops its own.                                        *)
SnapshotStore(r) ==
    /\ Goto(r, "snapStore", "start")
    /\ cache' = IF cache = None THEN held[r] ELSE cache
    /\ held' = [held EXCEPT ![r] = cache']
    /\ heldEpoch' = [heldEpoch EXCEPT ![r] = epoch]
    /\ UNCHANGED <<est, stream, lockVars, modelVars, epoch, active,
                   ambientVars>>

-----------------------------------------------------------------------------
(* Generation and the end of the call. *)

(* The content provider runs without a lock; it holds the snapshot and the *)
(* reservation.  If the client is gone before the body, it never runs.     *)
StartStream(r) ==
    /\ stream[r]
    /\ \/ Goto(r, "start", "streaming")
       \/ Goto(r, "start", "release")
    /\ UNCHANGED <<dataVars, sharedVars, ambientVars>>

EndStream(r) ==
    /\ Goto(r, "streaming", "release")
    /\ UNCHANGED <<dataVars, sharedVars, ambientVars>>

(* Without streaming, g_model_mutex is held for the whole generation. *)
StartGenerate(r) ==
    /\ ~stream[r]
    /\ Goto(r, "start", "generating")
    /\ modelLock = None
    /\ modelLock' = r
    /\ UNCHANGED <<dataVars, admLock, modelVars, cacheVars, active,
                   ambientVars>>

EndGenerate(r) ==
    /\ Goto(r, "generating", "release")
    /\ modelLock' = None
    /\ UNCHANGED <<dataVars, admLock, modelVars, cacheVars, active,
                   ambientVars>>

(* ~RequestGuard first gives the slot back and only then stamps the clock. *)
ReleaseSlot(r) ==
    /\ Goto(r, "release", "stamp")
    /\ active' = active - 1
    /\ held' = [held EXCEPT ![r] = None]
    /\ UNCHANGED <<est, stream, heldEpoch, lockVars, modelVars, cacheVars,
                   ambientVars>>

StampEnd(r) ==
    /\ Goto(r, "stamp", "done")
    /\ idle' = FALSE
    /\ UNCHANGED <<dataVars, sharedVars, memoryLimit, watchdog>>

-----------------------------------------------------------------------------
(* The keep-alive watchdog. *)

(* No handler has stamped the clock for longer than --keep-alive. *)
TimePasses ==
    /\ ~idle
    /\ idle' = TRUE
    /\ UNCHANGED <<handlerVars, sharedVars, memoryLimit, watchdog>>

(* GET /v1/models and GET /health stamp the clock and touch nothing else. *)
TouchOnly ==
    /\ idle
    /\ idle' = FALSE
    /\ UNCHANGED <<handlerVars, sharedVars, memoryLimit, watchdog>>

(* The decision to unload is taken without any lock ... *)
WatchdogCheck ==
    /\ watchdog = "sleep"
    /\ loaded /\ idle /\ active = 0
    /\ watchdog' = "lock"
    /\ UNCHANGED <<handlerVars, sharedVars, memoryLimit, idle>>

(* ... and never taken again once g_model_mutex is there. *)
WatchdogLock ==
    /\ watchdog = "lock"
    /\ modelLock = None
    /\ modelLock' = Keeper
    /\ watchdog' = "clear"
    /\ UNCHANGED <<handlerVars, admLock, modelVars, cacheVars, active,
                   memoryLimit, idle>>

WatchdogClear ==
    /\ watchdog = "clear"
    /\ model' = [model EXCEPT !.weights = 0]
    /\ watchdog' = "clearRope"
    /\ UNCHANGED <<handlerVars, lockVars, loaded, loads, unloads, cacheVars,
                   active, memoryLimit, idle>>

WatchdogClearRope ==
    /\ watchdog = "clearRope"
    /\ model' = [model EXCEPT !.rope = 0]
    /\ loaded' = FALSE
    /\ unloads' = unloads + 1
    /\ watchdog' = "drop"
    /\ UNCHANGED <<handlerVars, lockVars, loads, cacheVars, active,
                   memoryLimit, idle>>

WatchdogDrop ==
    /\ watchdog = "drop"
    /\ InvalidateSnapshot
    /\ modelLock' = None
    /\ watchdog' = "sleep"
    /\ UNCHANGED <<handlerVars, admLock, modelVars, active, memoryLimit,
                   idle>>

-----------------------------------------------------------------------------
(* Everything a handler does once the request is there. *)
Reload(r) == \/ InitLock(r) \/ InitAlreadyLoaded(r) \/ InitFails(r)
             \/ InitWeights(r) \/ InitRope(r) \/ InitDrop(r)
Admission(r) == \/ AdmitUnlimited(r) \/ AdmitLock(r) \/ ReadModelSize(r)
                \/ ReadKvSize(r) \/ ReadActive(r) \/ AdmitAccept(r)
                \/ AdmitReject(r)
TakeSnapshot(r) == \/ SnapshotHit(r) \/ SnapshotMiss(r) \/ SnapshotCopy(r)
                   \/ SnapshotStore(r)
Handle(r) == \/ CheckLoaded(r) \/ Reload(r) \/ Admission(r)
             \/ Parse(r) \/ Tokenize(r) \/ TakeSnapshot(r)
             \/ StartStream(r) \/ EndStream(r)
             \/ StartGenerate(r) \/ EndGenerate(r)
             \/ ReleaseSlot(r) \/ StampEnd(r)

Unload == \/ WatchdogLock \/ WatchdogClear \/ WatchdogClearRope \/ WatchdogDrop

Next == \/ \E r \in Requests : Arrive(r) \/ Handle(r)
        \/ TimePasses \/ TouchOnly
        \/ WatchdogCheck \/ Unload

Spec == Init /\ [][Next]_vars

(* Threads are scheduled: a handler or an unload that can go on, goes on.  *)
(* Nobody promises that a request arrives, that time passes without one,   *)
(* or that the watchdog finds the server idle.                             *)
Fairness == /\ \A r \in Requests : WF_vars(Handle(r))
            /\ WF_vars(Unload)

FairSpec == Spec /\ Fairness

-----------------------------------------------------------------------------
(* g_active_requests is the number of calls between a successful           *)
(* reservation and the destructor of their guard, whatever early return,   *)
(* stream or answer ends them: no path leaks a slot or gives it back       *)
(* twice, so the watchdog's test "active = 0" means what it says.          *)
ActiveCountExact == active = Cardinality(Reserved)

(* try_reserve_request promises that the projected memory and the          *)
(* reservation are atomic.  So the KV caches that are really alive fit in  *)
(* the limit beside the model: exactly while the model was never unloaded, *)
(* and by the sizes guessed for an unloaded model (its files, a default KV *)
(* cache) when an admission may have run against those.                    *)
Least(a, b) == IF a <= b THEN a ELSE b
CountedModel == IF unloads = 0 THEN ModelBytes ELSE Least(ModelBytes, FileBytes)
CountedKv    == IF unloads = 0 THEN KvBytes ELSE Least(KvBytes, DefaultKvBytes)
MemoryLimitHonoured ==
    memoryLimit > 0 /\ Generating # {} =>
        CountedModel + Cardinality(Generating) * CountedKv <= memoryLimit

(* A snapshot in use or in the cache never mixes two states of g_model,    *)
(* such as new weights with the RoPE tables of an unloaded model: loading, *)
(* unloading and copying exclude each other through g_model_mutex.         *)
NoTornSnapshot ==
    \A s \in {cache} \cup {held[r] : r \in Requests} :
        s # None => s.weights = s.rope

(* "Concurrent requests share the cached snapshot": two requests given a   *)
(* snapshot with no invalidation in between hold one copy of the model,    *)
(* even when both of them built one.                                       *)
HoldsSnapshot(r) == pc[r] \in {"start", "streaming", "generating", "release"}
                    /\ held[r] # None
OneCopyPerEpoch ==
    \A r1, r2 \in Requests :
        HoldsSnapshot(r1) /\ HoldsSnapshot(r2) /\ heldEpoch[r1] = heldEpoch[r2]
            => held[r1].copy = held[r2].copy

(* Requests that find the model unloaded together load it once: there is   *)
(* at most one load for the start and for each unload.                     *)
SingleFlightLoad == loads <= unloads + 1

(* Each call is answered: no order of admission, reload, tokenizing,       *)
(* snapshot and generation over the two mutexes leaves it waiting for ever.*)
EveryRequestAnswered ==
    \A r \in Requests : pc[r] = "check" ~> pc[r] = "done"

(* "Model (re)loaded: drop any stale snapshot so the next request builds a *)
(* fresh cached copy" (init_server): with the model loaded and its mutex   *)
(* free, the cache is empty or holds that load.                            *)
ReloadDropsStaleSnapshot ==
    loaded /\ modelLock = None /\ cache # None => cache.weights = model.weights
==============================================================================
