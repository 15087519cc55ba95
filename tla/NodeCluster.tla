------------------------------ MODULE NodeCluster ------------------------------
(***************************************************************************)
(* Starting and stopping clusters with terllama-node: the handlers of      *)
(* start-model and stop-model on the leader, of start-worker and           *)
(* stop-worker on its peers, and the processes they spawn and kill.        *)
(*                                                                         *)
(* Every node runs one daemon on a host of its own and may lead.  A        *)
(* daemon serves its HTTP API with a pool of Threads threads.  A call to a *)
(* peer waits in the peer's backlog for a thread; the caller gives up      *)
(* after a time-out, and the call is executed all the same when a thread   *)
(* gets to it.  A port is free when nobody answers GET /health on it, and  *)
(* two processes may listen on one port (the server library sets           *)
(* SO_REUSEPORT), where either may answer.                                 *)
(*                                                                         *)
(* A start-model call spawns at most one worker per node and one cluster   *)
(* process, so processes are named by the call.  The model's files, the    *)
(* shard plan (Partitioner) and the import of files by peers appear as     *)
(* reasons to refuse a call.                                               *)
(***************************************************************************)
EXTENDS Integers, FiniteSets

CONSTANTS
    Nodes,        \* the daemons
    Starts,       \* the start-model calls that may be made, to any daemon
    None,         \* no process
    Limits,       \* values of kMaxRunningClusters to look at
    Threads,      \* size of a daemon's thread pool
    MaxFaults     \* bound on expired, unreachable and stopped peers

ASSUME NodeAssumption ==
    /\ IsFiniteSet(Nodes) /\ Nodes # {}
    /\ IsFiniteSet(Starts) /\ None \notin Starts
    /\ Limits \subseteq Nat \ {0} /\ Threads \in Nat \ {0}
    /\ MaxFaults \in Nat

(* Ports are scanned from a base upwards; no more than one per call is     *)
(* ever in use, so that the scan never reaches the end of the port range.  *)
Ports == 1 .. Cardinality(Starts)

VARIABLES
    \* ---- the handler of start-model, later that of stop-model ----
    pc,          \* where it is
    leader,      \* the daemon that serves the call
    parts,       \* participants: the leader and its live peers
    todo,        \* the nodes its loop still has to visit
    count,       \* total_running
    at,          \* the node it is busy with
    workers,     \* the nodes in its list of workers
    outcome,     \* how it ends when its workers are stopped
    \* ---- its calls of start-worker and stop-worker ----
    startCall, stopCall,
    \* ---- processes ----
    worker,      \* terllama-worker of each call on each node
    port,        \* the port given to it, 0 before
    cluster,     \* terllama-cluster of each call, on its leader
    clusterPort, \* its port
    \* ---- daemons ----
    maxClusters, \* kMaxRunningClusters, the same in all of them
    peers,       \* peers_
    workerPids,  \* worker_pids_
    running,     \* running_
    daemon,      \* up, or where Node::stop has come to
    toStop,      \* the workers at peers it still has to stop, with their start
    \* ---- history ----
    faults,
    disturbed    \* start-model calls overlapped, or a peer did not answer

planVars == <<leader, parts, count>>
loopVars == <<todo, at, workers, outcome>>
callVars == <<startCall, stopCall>>
workerVars == <<worker, port, workerPids>>
clusterVars == <<cluster, clusterPort, running>>
daemonVars == <<daemon, toStop>>
peerVars == <<maxClusters, peers, faults, daemonVars>>
vars == <<pc, planVars, loopVars, callVars, workerVars, clusterVars, peerVars,
          disturbed>>

(* Program points of handle_start_model, and those of the loop that stops  *)
(* workers, in cleanup_partial_cluster and handle_stop_model.              *)
Starting == {"own", "count", "place", "spawn", "health", "call", "called",
             "cluster"}
Unwinding == {"unwind", "unwindWait"}
Ended == {"refused", "failed", "answered", "stopped"}

ProcessStates == {"none", "starting", "healthy", "dead"}

TypeOK ==
    /\ pc \in [Starts -> {"new"} \cup Starting \cup Unwinding \cup Ended]
    /\ leader \in [Starts -> Nodes \cup {None}]
    /\ parts \in [Starts -> SUBSET Nodes] /\ todo \in [Starts -> SUBSET Nodes]
    /\ count \in [Starts -> Nat]
    /\ at \in [Starts -> Nodes \cup {None}]
    /\ workers \in [Starts -> SUBSET Nodes]
    /\ outcome \in [Starts -> {"failed", "stopped"}]
    /\ startCall \in
         [Starts -> [Nodes -> {"none", "queued", "waiting", "ok", "failed"}]]
    /\ stopCall \in [Starts -> [Nodes -> {"none", "queued", "done"}]]
    /\ worker \in [Starts -> [Nodes -> ProcessStates]]
    /\ port \in [Starts -> [Nodes -> Ports \cup {0}]]
    /\ cluster \in [Starts -> ProcessStates]
    /\ clusterPort \in [Starts -> Ports \cup {0}]
    /\ maxClusters \in Limits
    /\ peers \in [Nodes -> SUBSET Nodes]
    /\ workerPids \in [Nodes -> [Ports -> Starts \cup {None}]]
    /\ running \in [Nodes -> SUBSET Starts]
    /\ daemon \in [Nodes -> {"up", "stopping", "draining", "leaving", "exited"}]
    /\ toStop \in [Nodes -> SUBSET (Starts \X Nodes)]
    /\ faults \in 0 .. MaxFaults /\ disturbed \in BOOLEAN

(* The daemons are up and have heard of each other. *)
Init ==
    /\ pc = [s \in Starts |-> "new"]
    /\ leader = [s \in Starts |-> None]
    /\ parts = [s \in Starts |-> {}] /\ todo = [s \in Starts |-> {}]
    /\ count = [s \in Starts |-> 0]
    /\ at = [s \in Starts |-> None]
    /\ workers = [s \in Starts |-> {}]
    /\ outcome = [s \in Starts |-> "failed"]
    /\ startCall = [s \in Starts |-> [n \in Nodes |-> "none"]]
    /\ stopCall = [s \in Starts |-> [n \in Nodes |-> "none"]]
    /\ worker = [s \in Starts |-> [n \in Nodes |-> "none"]]
    /\ port = [s \in Starts |-> [n \in Nodes |-> 0]]
    /\ cluster = [s \in Starts |-> "none"]
    /\ clusterPort = [s \in Starts |-> 0]
    /\ maxClusters \in Limits
    /\ peers = [n \in Nodes |-> Nodes \ {n}]
    /\ workerPids = [n \in Nodes |-> [p \in Ports |-> None]]
    /\ running = [n \in Nodes |-> {}]
    /\ daemon = [n \in Nodes |-> "up"]
    /\ toStop = [n \in Nodes |-> {}]
    /\ faults = 0 /\ disturbed = FALSE

Alive(state) == state \in {"starting", "healthy"}
Kill(state) == IF Alive(state) THEN "dead" ELSE state

(* A thread of n's pool is idle.  The pool runs until its calls are done.   *)
Serving(n) == daemon[n] \notin {"leaving", "exited"}
Busy(n) ==
    Cardinality({s \in Starts : /\ leader[s] = n
                                /\ pc[s] \in Starting \cup Unwinding})
    + Cardinality({s \in Starts : startCall[s][n] = "waiting"})
Free(n) == Serving(n) /\ Busy(n) < Threads

(* Somebody answers on the port. *)
Answers(n, p) ==
    \E s \in Starts : worker[s][n] = "healthy" /\ port[s][n] = p
ClusterAnswers(n, p) ==
    \E s \in Starts : /\ leader[s] = n /\ clusterPort[s] = p
                      /\ cluster[s] = "healthy"

Least(S) == CHOOSE p \in S : \A q \in S : p <= q

(* Mutant of FreePort: the first port, taken or not. *)
FreePort_First(n) == Least(Ports)

(* find_free_worker_port *)
FreePort(n) == Least({p \in Ports : ~Answers(n, p)})

(* find_free_cluster_port: a port that nobody listens on yet. *)
FreeClusterPort(n) == Least({p \in Ports : ~ClusterAnswers(n, p)})

-----------------------------------------------------------------------------
(* handle_start_model: is there room for another cluster? *)

(* The model is not to be had, or its layers are unknown; or the peers     *)
(* that live now are the participants.                                     *)
Begin(s, n) ==
    /\ pc[s] = "new"
    /\ Free(n)
    /\ leader' = [leader EXCEPT ![s] = n]
    /\ \/ /\ pc' = [pc EXCEPT ![s] = "refused"]
          /\ UNCHANGED <<parts, todo, disturbed>>
       \/ /\ pc' = [pc EXCEPT ![s] = "own"]
          /\ parts' = [parts EXCEPT ![s] = peers[n] \cup {n}]
          /\ todo' = [todo EXCEPT ![s] = peers[n]]
          /\ disturbed' = (disturbed \/ \E q \in Starts : pc[q] \in Starting)
    /\ UNCHANGED <<count, at, workers, outcome, callVars, workerVars,
                   clusterVars, peerVars>>

CountOwn(s) ==
    /\ pc[s] = "own"
    /\ count' = [count EXCEPT ![s] = Cardinality(running[leader[s]])]
    /\ pc' = [pc EXCEPT ![s] = "count"]
    /\ UNCHANGED <<leader, parts, loopVars, callVars, workerVars, clusterVars,
                   peerVars, disturbed>>

(* peer_running_count, ... *)
CountPeer(s, n) ==
    /\ pc[s] = "count"
    /\ n \in todo[s]
    /\ Free(n)
    /\ count' = [count EXCEPT ![s] = @ + Cardinality(running[n])]
    /\ todo' = [todo EXCEPT ![s] = @ \ {n}]
    /\ UNCHANGED <<pc, leader, parts, at, workers, outcome, callVars,
                   workerVars, clusterVars, peerVars, disturbed>>

(* Mutant of CountPeerFails: the error code is added to the count. *)
CountPeerFails_ErrorCode(s, n) ==
    /\ pc[s] = "count"
    /\ n \in todo[s]
    /\ \/ ~Free(n) /\ UNCHANGED faults
       \/ faults < MaxFaults /\ faults' = faults + 1
    /\ todo' = [todo EXCEPT ![s] = @ \ {n}]
    /\ count' = [count EXCEPT ![s] = @ - 1]
    /\ disturbed' = TRUE
    /\ UNCHANGED <<pc, leader, parts, at, workers, outcome, callVars,
                   workerVars, clusterVars, maxClusters, peers, daemonVars>>

(* ... which takes a peer that is busy or unreachable to run none.         *)
CountPeerFails(s, n) ==
    /\ pc[s] = "count"
    /\ n \in todo[s]
    /\ \/ ~Free(n) /\ UNCHANGED faults
       \/ faults < MaxFaults /\ faults' = faults + 1
    /\ todo' = [todo EXCEPT ![s] = @ \ {n}]
    /\ disturbed' = TRUE
    /\ UNCHANGED <<pc, planVars, at, workers, outcome, callVars, workerVars,
                   clusterVars, maxClusters, peers, daemonVars>>

(* Mutant of Decide: one cluster too many. *)
Decide_OneMore(s) ==
    /\ pc[s] = "count"
    /\ todo[s] = {}
    /\ \/ pc' = [pc EXCEPT ![s] = "refused"] /\ UNCHANGED todo
       \/ /\ count[s] <= maxClusters
          /\ pc' = [pc EXCEPT ![s] = "place"]
          /\ todo' = [todo EXCEPT ![s] = parts[s]]
    /\ UNCHANGED <<planVars, at, workers, outcome, callVars, workerVars,
                   clusterVars, peerVars, disturbed>>

(* 409 when the budget is used up; no plan, or a peer that cannot import   *)
(* the model, is an error that leaves nothing to clean up either.          *)
Decide(s) ==
    /\ pc[s] = "count"
    /\ todo[s] = {}
    /\ \/ pc' = [pc EXCEPT ![s] = "refused"] /\ UNCHANGED todo
       \/ /\ count[s] < maxClusters
          /\ pc' = [pc EXCEPT ![s] = "place"]
          /\ todo' = [todo EXCEPT ![s] = parts[s]]
    /\ UNCHANGED <<planVars, at, workers, outcome, callVars, workerVars,
                   clusterVars, peerVars, disturbed>>

-----------------------------------------------------------------------------
(* One worker per participant, the leader's first. *)

FindPort(s, n) ==
    /\ pc[s] = "place"
    /\ n \in todo[s]
    /\ leader[s] \in todo[s] => n = leader[s]
    /\ at' = [at EXCEPT ![s] = n]
    /\ port' = [port EXCEPT ![s][n] = FreePort(n)]
    /\ pc' = [pc EXCEPT ![s] = IF n = leader[s] THEN "spawn" ELSE "call"]
    /\ UNCHANGED <<planVars, todo, workers, outcome, callVars, worker,
                   workerPids, clusterVars, peerVars, disturbed>>

(* The process, worker_pids_ and children_. *)
Spawn(s, n) ==
    /\ worker' = [worker EXCEPT ![s][n] = "starting"]
    /\ workerPids' = [workerPids EXCEPT ![n][port[s][n]] = s]
    /\ UNCHANGED port

(* workers.push_back, and the next participant. *)
Placed(s) ==
    /\ workers' = [workers EXCEPT ![s] = @ \cup {at[s]}]
    /\ todo' = [todo EXCEPT ![s] = @ \ {at[s]}]
    /\ pc' = [pc EXCEPT ![s] = "place"]
    /\ UNCHANGED <<at, outcome>>

(* cleanup_partial_cluster, for the workers that are on the list.          *)
Unwind(s) ==
    /\ todo' = [todo EXCEPT ![s] = workers[s]]
    /\ outcome' = [outcome EXCEPT ![s] = "failed"]
    /\ pc' = [pc EXCEPT ![s] = "unwind"]
    /\ UNCHANGED <<at, workers>>

(* The local worker; without a process for it the call fails. *)
SpawnLocal(s) ==
    /\ pc[s] = "spawn"
    /\ \/ /\ Spawn(s, leader[s])
          /\ pc' = [pc EXCEPT ![s] = "health"]
          /\ UNCHANGED loopVars
       \/ /\ Unwind(s)
          /\ UNCHANGED workerVars
    /\ UNCHANGED <<planVars, callVars, clusterVars, peerVars, disturbed>>

LocalHealthy(s) ==
    /\ pc[s] = "health"
    /\ Answers(leader[s], port[s][leader[s]])
    /\ Placed(s)
    /\ UNCHANGED <<planVars, callVars, workerVars, clusterVars, peerVars,
                   disturbed>>

(* The worker is killed; worker_pids_ still names it. *)
LocalUnhealthy(s) ==
    /\ pc[s] = "health"
    /\ ~Answers(leader[s], port[s][leader[s]])
    /\ worker' = [worker EXCEPT ![s][leader[s]] = Kill(@)]
    /\ Unwind(s)
    /\ UNCHANGED <<planVars, callVars, port, workerPids, clusterVars, peerVars,
                   disturbed>>

CallWorker(s) ==
    /\ pc[s] = "call"
    /\ startCall' = [startCall EXCEPT ![s][at[s]] = "queued"]
    /\ pc' = [pc EXCEPT ![s] = "called"]
    /\ UNCHANGED <<planVars, loopVars, stopCall, workerVars, clusterVars,
                   peerVars, disturbed>>

CalledOk(s) ==
    /\ pc[s] = "called"
    /\ startCall[s][at[s]] = "ok"
    /\ Placed(s)
    /\ UNCHANGED <<planVars, callVars, workerVars, clusterVars, peerVars,
                   disturbed>>

CalledFailed(s) ==
    /\ pc[s] = "called"
    /\ startCall[s][at[s]] = "failed"
    /\ Unwind(s)
    /\ UNCHANGED <<planVars, callVars, workerVars, clusterVars, peerVars,
                   disturbed>>

(* Mutant of GiveUp: no time-out while the peer has not accepted the call. *)
GiveUp_OnceServed(s) ==
    /\ pc[s] = "called"
    /\ startCall[s][at[s]] = "waiting"
    /\ Unwind(s)
    /\ disturbed' = TRUE
    /\ UNCHANGED <<planVars, callVars, workerVars, clusterVars, peerVars>>

(* The time-out expires; the peer executes the call later or goes on       *)
(* executing it.                                                           *)
GiveUp(s) ==
    /\ pc[s] = "called"
    /\ startCall[s][at[s]] \in {"queued", "waiting"}
    /\ Unwind(s)
    /\ disturbed' = TRUE
    /\ UNCHANGED <<planVars, callVars, workerVars, clusterVars, peerVars>>

-----------------------------------------------------------------------------
(* handle_start_worker and handle_stop_worker at a peer. *)

(* The process is spawned, or the payload or fork fails. *)
StartWorker(s, n) ==
    /\ startCall[s][n] = "queued"
    /\ Free(n)
    /\ \/ /\ Spawn(s, n)
          /\ startCall' = [startCall EXCEPT ![s][n] = "waiting"]
       \/ /\ startCall' = [startCall EXCEPT ![s][n] = "failed"]
          /\ UNCHANGED workerVars
    /\ UNCHANGED <<pc, planVars, loopVars, stopCall, clusterVars, peerVars,
                   disturbed>>

WorkerUp(s, n) ==
    /\ startCall[s][n] = "waiting"
    /\ Answers(n, port[s][n])
    /\ startCall' = [startCall EXCEPT ![s][n] = "ok"]
    /\ UNCHANGED <<pc, planVars, loopVars, stopCall, workerVars, clusterVars,
                   peerVars, disturbed>>

(* Mutant of WorkerNotUp: the error is answered, the process stays. *)
WorkerNotUp_NoKill(s, n) ==
    /\ startCall[s][n] = "waiting"
    /\ ~Answers(n, port[s][n])
    /\ workerPids' = [workerPids EXCEPT ![n][port[s][n]] = None]
    /\ startCall' = [startCall EXCEPT ![s][n] = "failed"]
    /\ UNCHANGED <<pc, planVars, loopVars, stopCall, worker, port, clusterVars,
                   peerVars, disturbed>>

WorkerNotUp(s, n) ==
    /\ startCall[s][n] = "waiting"
    /\ ~Answers(n, port[s][n])
    /\ worker' = [worker EXCEPT ![s][n] = Kill(@)]
    /\ workerPids' = [workerPids EXCEPT ![n][port[s][n]] = None]
    /\ startCall' = [startCall EXCEPT ![s][n] = "failed"]
    /\ UNCHANGED <<pc, planVars, loopVars, stopCall, port, clusterVars,
                   peerVars, disturbed>>

(* stop_local_worker: kill whatever worker_pids_ has for the port.         *)
StopOnPort(n, p) ==
    /\ worker' = IF workerPids[n][p] = None THEN worker
                 ELSE [worker EXCEPT ![workerPids[n][p]][n] = Kill(@)]
    /\ workerPids' = [workerPids EXCEPT ![n][p] = None]
    /\ UNCHANGED port

StopWorker(s, n) ==
    /\ stopCall[s][n] = "queued"
    /\ Free(n)
    /\ StopOnPort(n, port[s][n])
    /\ stopCall' = [stopCall EXCEPT ![s][n] = "done"]
    /\ UNCHANGED <<pc, planVars, loopVars, startCall, clusterVars, peerVars,
                   disturbed>>

-----------------------------------------------------------------------------
(* The cluster process, and stopping the cluster. *)

SpawnCluster(s) ==
    /\ pc[s] = "place"
    /\ todo[s] = {}
    /\ \/ /\ clusterPort' = [clusterPort EXCEPT ![s] = FreeClusterPort(leader[s])]
          /\ cluster' = [cluster EXCEPT ![s] = "starting"]
          /\ pc' = [pc EXCEPT ![s] = "cluster"]
          /\ UNCHANGED loopVars
       \/ /\ Unwind(s)
          /\ UNCHANGED <<cluster, clusterPort>>
    /\ UNCHANGED <<planVars, callVars, workerVars, running, peerVars,
                   disturbed>>

Record(s) ==
    /\ pc[s] = "cluster"
    /\ ClusterAnswers(leader[s], clusterPort[s])
    /\ running' = [running EXCEPT ![leader[s]] = @ \cup {s}]
    /\ pc' = [pc EXCEPT ![s] = "answered"]
    /\ UNCHANGED <<planVars, loopVars, callVars, workerVars, cluster,
                   clusterPort, peerVars, disturbed>>

ClusterNotUp(s) ==
    /\ pc[s] = "cluster"
    /\ ~ClusterAnswers(leader[s], clusterPort[s])
    /\ cluster' = [cluster EXCEPT ![s] = Kill(@)]
    /\ Unwind(s)
    /\ UNCHANGED <<planVars, callVars, workerVars, clusterPort, running,
                   peerVars, disturbed>>

(* handle_stop_model: the record goes first, so that a second stop of the  *)
(* same cluster finds none.                                                *)
StopModel(s) ==
    /\ pc[s] = "answered"
    /\ s \in running[leader[s]]
    /\ Free(leader[s])
    /\ running' = [running EXCEPT ![leader[s]] = @ \ {s}]
    /\ cluster' = [cluster EXCEPT ![s] = Kill(@)]
    /\ todo' = [todo EXCEPT ![s] = workers[s]]
    /\ outcome' = [outcome EXCEPT ![s] = "stopped"]
    /\ pc' = [pc EXCEPT ![s] = "unwind"]
    /\ UNCHANGED <<planVars, at, workers, callVars, workerVars, clusterPort,
                   peerVars, disturbed>>

UnwindLocal(s) ==
    /\ pc[s] = "unwind"
    /\ leader[s] \in todo[s]
    /\ StopOnPort(leader[s], port[s][leader[s]])
    /\ todo' = [todo EXCEPT ![s] = @ \ {leader[s]}]
    /\ UNCHANGED <<pc, planVars, at, workers, outcome, callVars, clusterVars,
                   peerVars, disturbed>>

(* A peer that has expired is passed over: its worker goes on running. *)
UnwindUnknown(s, n) ==
    /\ pc[s] = "unwind"
    /\ n \in todo[s] /\ leader[s] \notin todo[s]
    /\ n \notin peers[leader[s]]
    /\ todo' = [todo EXCEPT ![s] = @ \ {n}]
    /\ UNCHANGED <<pc, planVars, at, workers, outcome, callVars, workerVars,
                   clusterVars, peerVars, disturbed>>

UnwindCall(s, n) ==
    /\ pc[s] = "unwind"
    /\ n \in todo[s] /\ leader[s] \notin todo[s]
    /\ n \in peers[leader[s]]
    /\ stopCall' = [stopCall EXCEPT ![s][n] = "queued"]
    /\ at' = [at EXCEPT ![s] = n]
    /\ pc' = [pc EXCEPT ![s] = "unwindWait"]
    /\ UNCHANGED <<planVars, todo, workers, outcome, startCall, workerVars,
                   clusterVars, peerVars, disturbed>>

(* The answer to stop-worker, or its time-out, which is ignored. *)
UnwindNext(s) ==
    /\ pc[s] = "unwindWait"
    /\ disturbed' = (disturbed \/ stopCall[s][at[s]] = "queued")
    /\ todo' = [todo EXCEPT ![s] = @ \ {at[s]}]
    /\ pc' = [pc EXCEPT ![s] = "unwind"]
    /\ UNCHANGED <<planVars, at, workers, outcome, callVars, workerVars,
                   clusterVars, peerVars>>

UnwindEnd(s) ==
    /\ pc[s] = "unwind"
    /\ todo[s] = {}
    /\ pc' = [pc EXCEPT ![s] = outcome[s]]
    /\ UNCHANGED <<planVars, loopVars, callVars, workerVars, clusterVars,
                   peerVars, disturbed>>

-----------------------------------------------------------------------------
(* Processes come up or exit while they load; peers expire and are heard   *)
(* of again.                                                               *)

WorkerLoads(s, n) ==
    /\ worker[s][n] = "starting"
    /\ worker' = [worker EXCEPT ![s][n] = "healthy"]
    /\ UNCHANGED <<pc, planVars, loopVars, callVars, port, workerPids,
                   clusterVars, peerVars, disturbed>>

ClusterLoads(s) ==
    /\ cluster[s] = "starting"
    /\ cluster' = [cluster EXCEPT ![s] = "healthy"]
    /\ UNCHANGED <<pc, planVars, loopVars, callVars, workerVars, clusterPort,
                   running, peerVars, disturbed>>

Expire(n, m) ==
    /\ faults < MaxFaults
    /\ m \in peers[n]
    /\ peers' = [peers EXCEPT ![n] = @ \ {m}]
    /\ faults' = faults + 1
    /\ disturbed' = TRUE
    /\ UNCHANGED <<pc, planVars, loopVars, callVars, workerVars, clusterVars,
                   maxClusters, daemonVars>>

Beacon(n, m) ==
    /\ m \in Nodes \ (peers[n] \cup {n})
    /\ daemon[n] = "up" /\ daemon[m] = "up"
    /\ peers' = [peers EXCEPT ![n] = @ \cup {m}]
    /\ UNCHANGED <<pc, planVars, loopVars, callVars, workerVars, clusterVars,
                   maxClusters, faults, daemonVars, disturbed>>

-----------------------------------------------------------------------------
(* The end of a daemon: Node::stop, called by the handler of SIGINT and    *)
(* SIGTERM while the pool goes on, and once more by the destructor, when   *)
(* the pool has ended.  The signal is taken to come while no lock is held. *)

(* Its clusters are taken off the list, their workers at peers are due. *)
TakeRunning(n, state) ==
    /\ daemon' = [daemon EXCEPT ![n] = state]
    /\ toStop' = [toStop EXCEPT ![n] =
                     {x \in running[n] \X (Nodes \ {n}) : x[2] \in workers[x[1]]}]
    /\ running' = [running EXCEPT ![n] = {}]
    /\ UNCHANGED <<pc, planVars, loopVars, callVars, workerVars, cluster,
                   clusterPort, maxClusters, peers, disturbed>>

Signal(n) ==
    /\ daemon[n] = "up"
    /\ faults < MaxFaults /\ faults' = faults + 1
    /\ TakeRunning(n, "stopping")

(* stop-worker at a peer: answered, or given up, and then the peer executes *)
(* it later if it is still there; a peer that has expired is passed over.  *)
StopAtPeer(n, s, m) ==
    /\ daemon[n] \in {"stopping", "leaving"}
    /\ <<s, m>> \in toStop[n]
    /\ toStop' = [toStop EXCEPT ![n] = @ \ {<<s, m>>}]
    /\ \/ /\ m \in peers[n] /\ Free(m)
          /\ StopOnPort(m, port[s][m])
          /\ UNCHANGED <<stopCall, disturbed>>
       \/ /\ stopCall' = IF m \in peers[n]
                         THEN [stopCall EXCEPT ![s][m] = "queued"] ELSE stopCall
          /\ disturbed' = TRUE
          /\ UNCHANGED workerVars
    /\ UNCHANGED <<pc, planVars, loopVars, startCall, clusterVars, maxClusters,
                   peers, faults, daemon>>

(* shutdown_children, then the server takes no more calls. *)
KillChildren(n, state) ==
    /\ toStop[n] = {}
    /\ daemon' = [daemon EXCEPT ![n] = state]
    /\ worker' = [s \in Starts |-> [worker[s] EXCEPT ![n] = Kill(@)]]
    /\ cluster' = [s \in Starts |-> IF leader[s] = n THEN Kill(cluster[s])
                                     ELSE cluster[s]]
    /\ UNCHANGED <<pc, planVars, loopVars, callVars, port, workerPids,
                   clusterPort, running, maxClusters, peers, faults, toStop,
                   disturbed>>

(* Mutant of Drained: no second Node::stop. *)
Drained_Exits(n) ==
    /\ daemon[n] = "draining"
    /\ Busy(n) = 0
    /\ daemon' = [daemon EXCEPT ![n] = "exited"]
    /\ UNCHANGED <<pc, planVars, loopVars, callVars, workerVars, clusterVars,
                   maxClusters, peers, faults, toStop, disturbed>>

(* All calls are done, run() returns: the destructor. *)
Drained(n) ==
    /\ daemon[n] = "draining"
    /\ Busy(n) = 0
    /\ TakeRunning(n, "leaving")
    /\ UNCHANGED faults

Stop(n) ==
    \/ \E s \in Starts, m \in Nodes : StopAtPeer(n, s, m)
    \/ daemon[n] = "stopping" /\ KillChildren(n, "draining")
    \/ Drained(n)
    \/ daemon[n] = "leaving" /\ KillChildren(n, "exited")

-----------------------------------------------------------------------------
Handle(s) ==
    \/ CountOwn(s) \/ Decide(s) \/ SpawnLocal(s) \/ LocalHealthy(s)
    \/ LocalUnhealthy(s) \/ CallWorker(s) \/ CalledOk(s) \/ CalledFailed(s)
    \/ GiveUp(s) \/ SpawnCluster(s) \/ Record(s) \/ ClusterNotUp(s)
    \/ UnwindLocal(s) \/ UnwindNext(s) \/ UnwindEnd(s)
    \/ \E n \in Nodes : \/ CountPeer(s, n) \/ CountPeerFails(s, n)
                        \/ FindPort(s, n)
                        \/ UnwindUnknown(s, n) \/ UnwindCall(s, n)

Serve(s, n) ==
    StartWorker(s, n) \/ WorkerUp(s, n) \/ WorkerNotUp(s, n) \/ StopWorker(s, n)

(* All calls have been made and answered; anything else that stops is a    *)
(* deadlock.                                                               *)
Finished == /\ \A s \in Starts : pc[s] \in Ended
            /\ UNCHANGED vars

Next ==
    \/ \E s \in Starts :
          \/ Handle(s) \/ StopModel(s) \/ ClusterLoads(s)
          \/ \E n \in Nodes : \/ Begin(s, n) \/ Serve(s, n)
                              \/ WorkerLoads(s, n)
    \/ \E n, m \in Nodes : Expire(n, m) \/ Beacon(n, m)
    \/ \E n \in Nodes : Signal(n) \/ Stop(n)
    \/ Finished

Spec == Init /\ [][Next]_vars

(* The threads of a pool run; every wait of a handler has a time-out. *)
FairSpec == /\ Spec
            /\ \A s \in Starts : WF_vars(Handle(s))
            /\ \A s \in Starts, n \in Nodes : WF_vars(Serve(s, n))
            /\ \A n \in Nodes : WF_vars(Stop(n))

-----------------------------------------------------------------------------
(* When start-model calls do not overlap and peers answer, a start that    *)
(* failed and a cluster that was stopped leave no process on any node,     *)
(* wherever the start failed and whatever is stopped at the same time; nor *)
(* does a daemon that has exited, which in any case leaves none on its own *)
(* node, whatever its handlers were doing when the signal came.            *)
NoOrphans ==
    /\ ~disturbed =>
        \A s \in Starts :
            \/ pc[s] \in {"refused", "failed", "stopped"}
            \/ pc[s] = "answered" /\ daemon[leader[s]] = "exited"
            => /\ ~Alive(cluster[s])
               /\ \A n \in Nodes : ~Alive(worker[s][n])
    /\ \A n \in Nodes : daemon[n] = "exited" =>
        \A s \in Starts : /\ ~Alive(worker[s][n])
                          /\ leader[s] = n => ~Alive(cluster[s])

(* A cluster that runs, on daemons none of which is being stopped, has a   *)
(* worker of its own on every participant, it alone answers on its port,   *)
(* and its daemon would find it to stop it.                                *)
ClusterWhole ==
    ~disturbed =>
        \A l \in Nodes : \A s \in running[l] :
          (\A n \in parts[s] : daemon[n] = "up") =>
            /\ cluster[s] = "healthy"
            /\ \A n \in parts[s] :
                  /\ n \in workers[s]
                  /\ workerPids[n][port[s][n]] = s
                  /\ {q \in Starts : /\ worker[q][n] = "healthy"
                                     /\ port[q][n] = port[s][n]} = {s}

(* kMaxRunningClusters, over all nodes whose daemon is not being stopped.  *)
BudgetHonoured ==
    ~disturbed =>
        Cardinality({s \in Starts : /\ pc[s] = "answered"
                                    /\ daemon[leader[s]] = "up"}) <= maxClusters

(* Every start-model call is answered, even when all the threads of two    *)
(* daemons wait for each other, or a daemon is stopped meanwhile.          *)
EveryStartEnds == \A s \in Starts : pc[s] = "own" ~> pc[s] \in Ended
=============================================================================
