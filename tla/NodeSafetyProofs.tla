--------------------------- MODULE NodeSafetyProofs ---------------------------
(***************************************************************************)
(* The safety of NodeCluster, for any number of nodes and start-model      *)
(* calls, any size of the thread pools and any number of faults: nothing   *)
(* is left behind (NoOrphans), a cluster that was answered for is whole    *)
(* (ClusterWhole), and there are no more than allowed (BudgetHonoured).    *)
(***************************************************************************)
EXTENDS NodeClusterProofs

-----------------------------------------------------------------------------
(* A daemon that ends.                                                     *)

\* Clusters on a daemon's list are its own, and have been answered for.
Recorded ==
    \A l \in Nodes : \A s \in running[l] : pc[s] = "answered" /\ leader[s] = l

\* Node::stop does not go on before the workers at peers are dealt with.
StopsDone ==
    \A n \in Nodes : daemon[n] \in {"up", "draining", "exited"} => toStop[n] = {}

\* No thread of the daemon is busy, and no cluster is on its list.
Idle(n) ==
    /\ running[n] = {}
    /\ \A s \in Starts : /\ leader[s] = n => pc[s] \notin Starting \cup Unwinding
                         /\ startCall[s][n] # "waiting"

\* No process runs on the node.
Empty(n) ==
    \A s \in Starts : /\ ~Alive(worker[s][n])
                      /\ leader[s] = n => ~Alive(cluster[s])

DaemonsEnd ==
    \A n \in Nodes : /\ daemon[n] \in {"leaving", "exited"} => Idle(n)
                     /\ daemon[n] = "exited" => Empty(n)

EndInv == Recorded /\ StopsDone /\ DaemonsEnd

\* What the handler of a call changes outside of the call.
LEMMA HandleLocal ==
  ASSUME TypeOK, Shaped, NEW s \in Starts, Handle(s)
  PROVE  /\ pc[s] \in Starting \cup Unwinding /\ leader[s] \in Nodes
         /\ leader' = leader /\ daemon' = daemon /\ toStop' = toStop /\ peers' = peers
         /\ \A n \in Nodes : n # leader[s] =>
               running'[n] = running[n] /\ \A q \in Starts : worker'[q][n] = worker[q][n]
         /\ \A q \in Starts, n \in Nodes :
               startCall'[q][n] = "waiting" => startCall[q][n] = "waiting"
         /\ \A q \in Starts : q # s => cluster'[q] = cluster[q]
<1> USE DEF planVars, loopVars, callVars, workerVars, clusterVars, peerVars,
            daemonVars, Unwind, TypeOK, Starting, Unwinding
<1> DEFINE Local ==
        /\ leader' = leader /\ daemon' = daemon /\ toStop' = toStop /\ peers' = peers
        /\ \A n \in Nodes : n # leader[s] =>
              running'[n] = running[n] /\ \A q \in Starts : worker'[q][n] = worker[q][n]
        /\ \A q \in Starts, n \in Nodes :
              startCall'[q][n] = "waiting" => startCall[q][n] = "waiting"
        /\ \A q \in Starts : q # s => cluster'[q] = cluster[q]
<1>1. pc[s] \in Starting \cup Unwinding
  BY DEF Handle, CountOwn, Decide, SpawnLocal, LocalHealthy, LocalUnhealthy, CallWorker,
         CalledOk, CalledFailed, GiveUp, SpawnCluster, Record, ClusterNotUp, UnwindLocal,
         UnwindNext, UnwindEnd, CountPeer, CountPeerFails, FindPort, UnwindUnknown,
         UnwindCall
<1>2. leader[s] \in Nodes
  BY <1>1 DEF Shaped, Shape
<1> SUFFICES Local
  BY <1>1, <1>2
<1>3. CASE CountOwn(s) \/ Decide(s)
  BY <1>3 DEF CountOwn, Decide
<1>4. ASSUME NEW n \in Nodes, CountPeer(s, n) \/ CountPeerFails(s, n) \/ FindPort(s, n)
      PROVE  Local
  BY <1>4 DEF CountPeer, CountPeerFails, FindPort
<1>5. CASE SpawnLocal(s) \/ LocalHealthy(s) \/ LocalUnhealthy(s)
  BY <1>2, <1>5 DEF SpawnLocal, Spawn, LocalHealthy, Placed, LocalUnhealthy
<1>6. CASE CallWorker(s) \/ CalledOk(s) \/ CalledFailed(s) \/ GiveUp(s)
  <2>1. CASE CallWorker(s)
    BY <2>1 DEF CallWorker
  <2>2. CASE CalledOk(s) \/ CalledFailed(s) \/ GiveUp(s)
    BY <2>2 DEF CalledOk, Placed, CalledFailed, GiveUp
  <2> QED BY <1>6, <2>1, <2>2
<1>7. CASE SpawnCluster(s) \/ Record(s) \/ ClusterNotUp(s)
  BY <1>2, <1>7 DEF SpawnCluster, Record, ClusterNotUp
<1>8. CASE UnwindLocal(s)
  BY <1>2, <1>8 DEF UnwindLocal, StopOnPort
<1>9. ASSUME NEW n \in Nodes, UnwindUnknown(s, n) \/ UnwindCall(s, n) PROVE Local
  BY <1>9 DEF UnwindUnknown, UnwindCall
<1>10. CASE UnwindNext(s) \/ UnwindEnd(s)
  BY <1>10 DEF UnwindNext, UnwindEnd
<1> QED
  BY <1>3, <1>4, <1>5, <1>6, <1>7, <1>8, <1>9, <1>10 DEF Handle

\* A daemon that serves no more is left alone.
LEMMA StaysIdle ==
  ASSUME TypeOK, Shaped, NEW s \in Starts, StepOf(s), NEW n \in Nodes,
         ~Serving(n), Idle(n)
  PROVE  Idle(n)' /\ (Empty(n) => Empty(n)')
<1> USE DEF planVars, loopVars, callVars, workerVars, clusterVars, peerVars,
            daemonVars, TypeOK, Idle, Empty
<1>0. ~Free(n)
  BY DEF Free
<1>1. ASSUME NEW q \in Starts, q # s
      PROVE  /\ pc'[q] = pc[q] /\ leader'[q] = leader[q] /\ startCall'[q] = startCall[q]
             /\ WorkersMayDie(q)
             /\ cluster'[q] = cluster[q] \/ ~Alive(cluster'[q])
  BY <1>1, OthersOnlyKilled DEF OnlyKilled, Alive
<1>2. CASE Handle(s)
  <2>1. leader[s] # n
    BY <1>2, HandleLocal
  <2>2. leader' = leader /\ running'[n] = running[n]
    BY <1>2, <2>1, HandleLocal
  <2>3. \A q \in Starts : /\ worker'[q][n] = worker[q][n]
                          /\ startCall'[q][n] = "waiting" => startCall[q][n] = "waiting"
    BY <1>2, <2>1, HandleLocal
  <2>4. \A q \in Starts : q # s => pc'[q] = pc[q] /\ cluster'[q] = cluster[q]
    BY <1>1, <1>2, HandleLocal
  <2> QED BY <2>1, <2>2, <2>3, <2>4
<1>3. ASSUME NEW m \in Nodes, Begin(s, m) PROVE Idle(n)' /\ (Empty(n) => Empty(n)')
  BY <1>0, <1>3 DEF Begin
<1>4. CASE StopModel(s)
  BY <1>0, <1>4 DEF StopModel
<1>5. ASSUME NEW m \in Nodes, Serve(s, m) PROVE Idle(n)' /\ (Empty(n) => Empty(n)')
  <2>1. m # n
    BY <1>0, <1>5 DEF Serve, StartWorker, WorkerUp, WorkerNotUp, StopWorker
  <2>2. /\ pc' = pc /\ leader' = leader /\ running' = running /\ cluster' = cluster
        /\ \A q \in Starts : startCall'[q][n] = startCall[q][n]
    BY <1>5, <2>1 DEF Serve, StartWorker, WorkerUp, WorkerNotUp, StopWorker
  <2>3. \A q \in Starts : worker'[q][n] = worker[q][n]
    BY <1>5, <2>1 DEF Serve, StartWorker, Spawn, WorkerUp, WorkerNotUp, StopWorker,
                      StopOnPort
  <2> QED BY <2>2, <2>3
<1>6. ASSUME NEW m \in Nodes, WorkerLoads(s, m)
      PROVE  Idle(n)' /\ (Empty(n) => Empty(n)')
  BY <1>6 DEF WorkerLoads, Alive
<1>7. CASE ClusterLoads(s)
  BY <1>7 DEF ClusterLoads, Alive
<1> QED
  BY <1>2, <1>3, <1>4, <1>5, <1>6, <1>7 DEF StepOf

\* A daemon whose threads are all idle has nothing to do.
LEMMA NobodyBusy ==
  ASSUME TypeOK, NEW n \in Nodes, Busy(n) = 0
  PROVE  \A s \in Starts : /\ leader[s] = n => pc[s] \notin Starting \cup Unwinding
                           /\ startCall[s][n] # "waiting"
<1> DEFINE Led == {s \in Starts : leader[s] = n /\ pc[s] \in Starting \cup Unwinding}
           Served == {s \in Starts : startCall[s][n] = "waiting"}
<1>1. IsFiniteSet(Led) /\ IsFiniteSet(Served)
  <2>1. Led \subseteq Starts /\ Served \subseteq Starts
    OBVIOUS
  <2> QED BY <2>1, NodeAssumption, FS_Subset
<1>2. Cardinality(Led) + Cardinality(Served) = 0
  BY DEF Busy
<1> HIDE DEF Led, Served
<1>3. Cardinality(Led) \in Nat /\ Cardinality(Served) \in Nat
  BY <1>1, FS_CardinalityType
<1>4. Cardinality(Led) = 0 /\ Cardinality(Served) = 0
  BY <1>2, <1>3
<1>5. Led = {} /\ Served = {}
  BY <1>1, <1>4, FS_EmptySet
<1> QED
  BY <1>5 DEF Led, Served

\* No call changes anything about a daemon but its lists.
LEMMA DaemonsStay ==
  ASSUME TypeOK, Shaped, NEW s \in Starts, StepOf(s)
  PROVE  daemon' = daemon /\ toStop' = toStop /\ peers' = peers
<1> USE DEF peerVars, daemonVars
<1>1. CASE Handle(s)
  BY <1>1, HandleLocal
<1>2. CASE StopModel(s) \/ ClusterLoads(s)
  BY <1>2 DEF StopModel, ClusterLoads
<1>3. ASSUME NEW m \in Nodes, Begin(s, m) \/ Serve(s, m) \/ WorkerLoads(s, m)
      PROVE  daemon' = daemon /\ toStop' = toStop /\ peers' = peers
  BY <1>3 DEF Begin, Serve, StartWorker, WorkerUp, WorkerNotUp, StopWorker, WorkerLoads
<1> QED
  BY <1>1, <1>2, <1>3 DEF StepOf

\* Only these two steps change the list of clusters.
LEMMA ListFrame ==
  ASSUME NEW s \in Starts, StepOf(s), ~Record(s), ~StopModel(s)
  PROVE  running' = running
BY DEF clusterVars, StepOf, Handle, CountOwn, Decide, SpawnLocal, LocalHealthy,
       LocalUnhealthy, CallWorker, CalledOk, CalledFailed, GiveUp, SpawnCluster,
       ClusterNotUp, UnwindLocal, UnwindNext, UnwindEnd, CountPeer,
       CountPeerFails, FindPort, UnwindUnknown, UnwindCall, ClusterLoads,
       Begin, Serve, StartWorker, WorkerUp, WorkerNotUp, StopWorker, WorkerLoads

\* No call puts another on a list.
LEMMA OthersListed ==
  ASSUME TypeOK, NEW s \in Starts, StepOf(s), NEW l \in Nodes, NEW q \in running'[l], q # s
  PROVE  q \in running[l]
<1>1. CASE Record(s) \/ StopModel(s)
  <2>1. \/ running' = [running EXCEPT ![leader[s]] = @ \cup {s}]
        \/ running' = [running EXCEPT ![leader[s]] = @ \ {s}]
    BY <1>1 DEF Record, StopModel
  <2>2. running \in [Nodes -> SUBSET Starts]
    BY DEF TypeOK
  <2> QED BY <2>1, <2>2
<1> QED
  BY <1>1, ListFrame

\* Every step of a call keeps what is known about daemons that end.
LEMMA EndStepOf ==
  ASSUME TypeOK, Shaped, EndInv, TypeOK', NEW s \in Starts, StepOf(s)
  PROVE  EndInv'
<1> USE DEF planVars, loopVars, callVars, workerVars, clusterVars, peerVars,
            daemonVars, TypeOK
<1>1. daemon' = daemon /\ toStop' = toStop
  BY DaemonsStay
<1>2. Recorded'
  <2> SUFFICES ASSUME NEW l \in Nodes, NEW q \in Starts, q \in running'[l]
               PROVE  pc'[q] = "answered" /\ leader'[q] = l
    BY DEF Recorded
  <2>1. CASE q # s
    <3>1. pc'[q] = pc[q] /\ leader'[q] = leader[q]
      BY <2>1, OthersOnlyKilled DEF OnlyKilled
    <3>2. q \in running[l]
      BY <2>1, OthersListed
    <3> QED BY <3>1, <3>2 DEF EndInv, Recorded
  <2>2. CASE q = s /\ Record(s)
    BY <2>2 DEF EndInv, Recorded, Record, Shaped, Shape
  <2>3. CASE q = s /\ StopModel(s)
    BY <2>3 DEF EndInv, Recorded, StopModel
  <2>4. CASE q = s /\ ~Record(s) /\ ~StopModel(s)
    <3>1. running' = running
      BY <2>4, ListFrame
    <3>2. pc[s] = "answered" /\ leader[s] = l
      BY <2>4, <3>1 DEF EndInv, Recorded
    <3>3. ~Handle(s)
      BY <3>2, HandleLocal DEF Starting, Unwinding
    <3>4. pc'[s] = pc[s] /\ leader'[s] = leader[s]
      BY <2>4, <3>2, <3>3 DEF StepOf, ClusterLoads, Begin, Serve, StartWorker, WorkerUp,
                         WorkerNotUp, StopWorker, WorkerLoads
    <3> QED BY <2>4, <3>2, <3>4
  <2> QED BY <2>1, <2>2, <2>3, <2>4
<1>3. StopsDone'
  BY <1>1 DEF EndInv, StopsDone
<1>4. DaemonsEnd'
  <2> SUFFICES ASSUME NEW n \in Nodes
               PROVE  /\ daemon[n] \in {"leaving", "exited"} => Idle(n)'
                      /\ daemon[n] = "exited" => Empty(n)'
    BY <1>1 DEF DaemonsEnd
  <2> QED BY StaysIdle DEF EndInv, DaemonsEnd, Serving
<1> QED
  BY <1>2, <1>3, <1>4 DEF EndInv

\* shutdown_children leaves no process on the node.
LEMMA KillsAll ==
  ASSUME TypeOK, NEW n \in Nodes, NEW d, KillChildren(n, d)
  PROVE  /\ Empty(n)'
         /\ \A m \in Nodes, q \in Starts : m # n => worker'[q][m] = worker[q][m]
<1>1. /\ worker' = [q \in Starts |-> [worker[q] EXCEPT ![n] = Kill(@)]]
      /\ cluster' = [q \in Starts |-> IF leader[q] = n THEN Kill(cluster[q])
                                                     ELSE cluster[q]]
      /\ leader' = leader
  BY DEF KillChildren, planVars
<1>2. worker \in [Starts -> [Nodes -> ProcessStates]] /\ cluster \in [Starts -> ProcessStates]
  BY DEF TypeOK
<1>3. \A x \in ProcessStates : ~Alive(Kill(x))
  BY KillFacts
<1>4. \A q \in Starts : /\ worker'[q][n] = Kill(worker[q][n])
                        /\ leader[q] = n => cluster'[q] = Kill(cluster[q])
  BY <1>1, <1>2
<1>5. \A m \in Nodes, q \in Starts : m # n => worker'[q][m] = worker[q][m]
  BY <1>1, <1>2
<1> QED
  BY <1>1, <1>2, <1>3, <1>4, <1>5 DEF Empty

\* Every step of a daemon does.
LEMMA EndDaemonStep ==
  ASSUME TypeOK, Shaped, EndInv, TypeOK', NEW n \in Nodes, DaemonStep(n)
  PROVE  EndInv'
<1> USE DEF planVars, loopVars, callVars, workerVars, clusterVars, peerVars,
            daemonVars, TypeOK
<1>0. \A q \in Starts : OnlyKilled(q)
  BY DaemonsKill DEF DaemonStep
<1>1. pc' = pc /\ leader' = leader /\ startCall' = startCall
  BY DEF DaemonStep, Expire, Beacon, Signal, Stop, TakeRunning, Drained, StopAtPeer,
         KillChildren
<1>2. \A m \in Nodes : running'[m] = running[m] \/ running'[m] = {}
  <2>1. CASE running' = running
    BY <2>1
  <2>2. CASE Signal(n) \/ Drained(n)
    BY <2>2 DEF Signal, Drained, TakeRunning
  <2> QED BY <2>1, <2>2 DEF DaemonStep, Expire, Beacon, Stop, StopAtPeer, KillChildren
<1>3. \A m \in Nodes : Idle(m) => Idle(m)'
  BY <1>1, <1>2 DEF Idle
<1>4. \A m \in Nodes : Empty(m) => Empty(m)'
  <2>1. \A q \in Starts, m \in Nodes : ~Alive(worker[q][m]) => ~Alive(worker'[q][m])
    BY <1>0 DEF OnlyKilled, WorkersMayDie, Alive
  <2>2. \A q \in Starts : ~Alive(cluster[q]) => ~Alive(cluster'[q])
    BY <1>0 DEF OnlyKilled, Alive
  <2> QED BY <1>1, <2>1, <2>2 DEF Empty
<1>5. Recorded'
  <2> SUFFICES ASSUME NEW l \in Nodes, NEW q \in Starts, q \in running'[l]
               PROVE  pc'[q] = "answered" /\ leader'[q] = l
    BY DEF Recorded
  <2> QED BY <1>1, <1>2 DEF EndInv, Recorded
<1>6. ASSUME NEW m \in Nodes, Expire(n, m) \/ Beacon(n, m) PROVE EndInv'
  <2>1. daemon' = daemon /\ toStop' = toStop
    BY <1>6 DEF Expire, Beacon
  <2> QED BY <1>3, <1>4, <1>5, <2>1 DEF EndInv, StopsDone, DaemonsEnd
<1>7. CASE Signal(n)
  <2>1. /\ daemon' = [daemon EXCEPT ![n] = "stopping"]
        /\ \A m \in Nodes : m # n => toStop'[m] = toStop[m]
    BY <1>7 DEF Signal, TakeRunning
  <2> QED BY <1>3, <1>4, <1>5, <2>1 DEF EndInv, StopsDone, DaemonsEnd
<1>8. ASSUME NEW s \in Starts, NEW m \in Nodes, StopAtPeer(n, s, m) PROVE EndInv'
  <2>1. /\ daemon' = daemon /\ daemon[n] \in {"stopping", "leaving"}
        /\ \A k \in Nodes : k # n => toStop'[k] = toStop[k]
    BY <1>8 DEF StopAtPeer
  <2> QED BY <1>3, <1>4, <1>5, <2>1 DEF EndInv, StopsDone, DaemonsEnd
<1>9. CASE daemon[n] = "stopping" /\ KillChildren(n, "draining")
  <2>1. daemon' = [daemon EXCEPT ![n] = "draining"] /\ toStop' = toStop /\ toStop[n] = {}
    BY <1>9 DEF KillChildren
  <2> QED BY <1>3, <1>4, <1>5, <2>1 DEF EndInv, StopsDone, DaemonsEnd
<1>10. CASE Drained(n)
  <2>1. /\ daemon' = [daemon EXCEPT ![n] = "leaving"] /\ running'[n] = {}
        /\ \A m \in Nodes : m # n => toStop'[m] = toStop[m]
    BY <1>10 DEF Drained, TakeRunning
  <2>2. Idle(n)'
    BY <1>1, <1>10, <2>1, NobodyBusy DEF Drained, Idle
  <2> QED BY <1>3, <1>4, <1>5, <2>1, <2>2 DEF EndInv, StopsDone, DaemonsEnd
<1>11. CASE daemon[n] = "leaving" /\ KillChildren(n, "exited")
  <2>1. daemon' = [daemon EXCEPT ![n] = "exited"] /\ toStop' = toStop /\ toStop[n] = {}
    BY <1>11 DEF KillChildren
  <2>2. Empty(n)'
    BY <1>11, KillsAll
  <2> QED BY <1>3, <1>4, <1>5, <1>11, <2>1, <2>2 DEF EndInv, StopsDone, DaemonsEnd
<1> QED
  BY <1>6, <1>7, <1>8, <1>9, <1>10, <1>11 DEF DaemonStep, Stop

-----------------------------------------------------------------------------
(* Calls that do not overlap, and peers that answer.                       *)

\* Only the call made at this moment is under way at a peer.
Asked(s) ==
    \A n \in Nodes : startCall[s][n] \in {"queued", "waiting"} =>
        pc[s] = "called" /\ at[s] = n
AskedStop(s) ==
    \A n \in Nodes : stopCall[s][n] = "queued" => pc[s] = "unwindWait" /\ at[s] = n

\* A worker of the call that runs is on its list, on the way to it, or still
\* to be stopped.
Kept(s, n) ==
    \/ n \in workers[s] /\ pc[s] \in Starting \cup {"answered"}
    \/ pc[s] = "health" /\ n = leader[s]
    \/ pc[s] = "called" /\ n = at[s] /\ startCall[s][n] \in {"waiting", "ok"}
    \/ /\ pc[s] \in Unwinding /\ n \in todo[s]
       /\ pc[s] = "unwindWait" /\ n = at[s] => stopCall[s][n] = "queued"

\* Somebody waits for the worker to come up.
Coming(s, n) == \/ pc[s] = "health" /\ n = leader[s]
                \/ startCall[s][n] = "waiting"

Own(s) ==
    /\ Asked(s) /\ AskedStop(s)
    /\ \A n \in Nodes : /\ Alive(worker[s][n]) => Kept(s, n)
                        /\ worker[s][n] = "starting" => Coming(s, n)
    /\ Alive(cluster[s]) => pc[s] \in {"cluster", "answered"}

\* worker_pids_ has every worker that runs.
Named ==
    \A s \in Starts, n \in Nodes : Alive(worker[s][n]) => workerPids[n][port[s][n]] = s

\* The port a call has found is not that of another worker.
Apart ==
    \A s, q \in Starts :
        pc[s] \in Placing \ {"place"} /\ q # s /\ Alive(worker[q][at[s]]) =>
            port[q][at[s]] # port[s][at[s]]

Alone == \A s, q \in Starts : pc[s] \in Starting /\ pc[q] \in Starting => s = q

\* A cluster that its daemon has taken off the list has no worker but those
\* the daemon still has to stop.
Taken ==
    \A s \in Starts : pc[s] = "answered" /\ s \notin running[leader[s]] =>
        /\ daemon[leader[s]] # "up"
        /\ \A n \in Nodes \ {leader[s]} :
              Alive(worker[s][n]) => <<s, n>> \in toStop[leader[s]]

Known == \A n \in Nodes : peers[n] = Nodes \ {n}

InOrder == (\A s \in Starts : Own(s)) /\ Named /\ Apart /\ Alone /\ Taken /\ Known

Calm == ~disturbed => InOrder

\* A call of which processes were killed is still in order.
LEMMA KilledOwn ==
  ASSUME TypeOK, NEW q \in Starts, Own(q), OnlyKilled(q), stopCall'[q] = stopCall[q]
  PROVE  Own(q)'
<1>1. /\ pc'[q] = pc[q] /\ leader'[q] = leader[q] /\ todo'[q] = todo[q]
      /\ at'[q] = at[q] /\ workers'[q] = workers[q] /\ startCall'[q] = startCall[q]
  BY DEF OnlyKilled
<1>2. \A n \in Nodes : /\ Alive(worker'[q][n]) => Alive(worker[q][n])
                       /\ worker'[q][n] = "starting" => worker[q][n] = "starting"
  BY DEF OnlyKilled, WorkersMayDie, Alive
<1>3. Alive(cluster'[q]) => Alive(cluster[q])
  BY DEF OnlyKilled, Alive
<1>4. \A n \in Nodes : (Kept(q, n) => Kept(q, n)') /\ (Coming(q, n) => Coming(q, n)')
  BY <1>1 DEF Kept, Coming
<1>5. Asked(q)' /\ AskedStop(q)'
  BY <1>1 DEF Own, Asked, AskedStop
<1> QED
  BY <1>1, <1>2, <1>3, <1>4, <1>5 DEF Own

\* Whoever answers on the port of a worker that is waited for is that worker.
LEMMA AnswersItself ==
  ASSUME TypeOK, Apart, NEW s \in Starts, pc[s] \in Placing \ {"place"},
         at[s] \in Nodes, Answers(at[s], port[s][at[s]])
  PROVE  worker[s][at[s]] = "healthy"
BY DEF Apart, Answers, Alive

\* stop_local_worker with the port of a call's worker kills it.
LEMMA StopsItself ==
  ASSUME TypeOK, Shaped, Named, NEW s \in Starts, NEW n \in Nodes,
         StopOnPort(n, port[s][n])
  PROVE  ~Alive(worker'[s][n]) /\ WorkersMayDie(s)
<1>1. WorkersMayDie(s)
  BY StopOnPortKills
<1>2. CASE Alive(worker[s][n])
  <2>1. port[s][n] \in Ports
    BY <1>2 DEF Shaped, Shape, Untouched, Alive
  <2>2. workerPids[n][port[s][n]] = s
    BY <1>2 DEF Named
  <2> QED BY <1>1, <2>1, <2>2, StopOnPortKills
<1>3. CASE ~Alive(worker[s][n])
  BY <1>1, <1>3 DEF WorkersMayDie, Alive
<1> QED
  BY <1>1, <1>2, <1>3

\* The call whose handler takes a step, up to the placing of workers.
LEMMA OwnCount ==
  ASSUME TypeOK, Shaped, InOrder, ~disturbed', NEW s \in Starts, NEW n \in Nodes,
         \/ Begin(s, n) \/ CountOwn(s) \/ CountPeer(s, n) \/ CountPeerFails(s, n)
         \/ Decide(s) \/ FindPort(s, n)
  PROVE  Own(s)'
<1> USE DEF planVars, loopVars, callVars, workerVars, clusterVars, TypeOK,
            Own, Asked, AskedStop, Kept, Coming, Starting, Unwinding
<1>0. Own(s)
  BY DEF InOrder
<1>1. CASE Begin(s, n)
  BY <1>0, <1>1 DEF Begin
<1>2. CASE CountOwn(s) \/ CountPeer(s, n) \/ CountPeerFails(s, n)
  BY <1>0, <1>2 DEF CountOwn, CountPeer, CountPeerFails
<1>3. CASE Decide(s)
  <2>1. \A m \in Nodes : Untouched(s, m)
    BY <1>3 DEF Decide, Shaped, Shape
  <2> QED BY <1>0, <1>3, <2>1 DEF Decide, Untouched, Alive
<1>4. CASE FindPort(s, n)
  BY <1>0, <1>4 DEF FindPort
<1> QED
  BY <1>1, <1>2, <1>3, <1>4

\* While it places workers.
LEMMA OwnPlace ==
  ASSUME TypeOK, Shaped, InOrder, ~disturbed', NEW s \in Starts,
         \/ SpawnLocal(s) \/ LocalHealthy(s) \/ LocalUnhealthy(s) \/ CallWorker(s)
         \/ CalledOk(s) \/ CalledFailed(s) \/ GiveUp(s)
  PROVE  Own(s)'
<1> USE DEF planVars, loopVars, callVars, workerVars, clusterVars, TypeOK,
            Own, Asked, AskedStop, Kept, Coming, Starting, Unwinding, Unwind
<1>0. Own(s) /\ Apart
  BY DEF InOrder
<1>1. CASE SpawnLocal(s)
  <2>1. CASE Spawn(s, leader[s]) /\ pc' = [pc EXCEPT ![s] = "health"] /\ UNCHANGED loopVars
    BY <1>0, <1>1, <2>1 DEF SpawnLocal, Spawn, Alive
  <2>2. CASE Unwind(s) /\ UNCHANGED workerVars
    BY <1>0, <1>1, <2>2 DEF SpawnLocal
  <2> QED BY <1>1, <2>1, <2>2 DEF SpawnLocal
<1>2. CASE LocalHealthy(s)
  <2>1. at[s] = leader[s] /\ leader[s] \in Nodes
    BY <1>2 DEF LocalHealthy, Shaped, Shape
  <2>2. worker[s][at[s]] = "healthy"
    BY <1>0, <1>2, <2>1, AnswersItself DEF LocalHealthy, Placing
  <2> QED BY <1>0, <1>2, <2>1, <2>2 DEF LocalHealthy, Placed
<1>3. CASE LocalUnhealthy(s)
  <2>1. leader[s] \in Nodes
    BY <1>3 DEF LocalUnhealthy, Shaped, Shape
  <2>2. ~Alive(worker'[s][leader[s]]) /\ worker'[s][leader[s]] # "starting"
    BY <1>3, <2>1 DEF LocalUnhealthy, Kill, Alive
  <2>3. \A m \in Nodes : m # leader[s] => worker'[s][m] = worker[s][m]
    BY <1>3 DEF LocalUnhealthy
  <2> QED BY <1>0, <1>3, <2>2, <2>3 DEF LocalUnhealthy
<1>4. CASE CallWorker(s)
  <2>1. worker[s][at[s]] = "none" /\ startCall[s][at[s]] = "none" /\ at[s] \in Nodes
    BY <1>4 DEF CallWorker, Shaped, Shape, Untouched, Placing
  <2> QED BY <1>0, <1>4, <2>1 DEF CallWorker
<1>5. CASE CalledOk(s)
  BY <1>0, <1>5 DEF CalledOk, Placed
<1>6. CASE CalledFailed(s)
  BY <1>0, <1>6 DEF CalledFailed
<1>7. CASE GiveUp(s)
  BY <1>7 DEF GiveUp
<1> QED
  BY <1>1, <1>2, <1>3, <1>4, <1>5, <1>6, <1>7

\* With its cluster process, and while its workers are stopped.
LEMMA OwnUnwind ==
  ASSUME TypeOK, Shaped, InOrder, ~disturbed', NEW s \in Starts, NEW n \in Nodes,
         \/ SpawnCluster(s) \/ Record(s) \/ ClusterNotUp(s) \/ StopModel(s)
         \/ UnwindLocal(s) \/ UnwindUnknown(s, n) \/ UnwindCall(s, n)
         \/ UnwindNext(s) \/ UnwindEnd(s)
  PROVE  Own(s)'
<1> USE DEF planVars, loopVars, callVars, workerVars, clusterVars, TypeOK,
            Own, Asked, AskedStop, Kept, Coming, Starting, Unwinding, Unwind
<1>0. Own(s) /\ Named /\ Known
  BY DEF InOrder
<1>1. CASE SpawnCluster(s)
  <2>1. CASE cluster' = [cluster EXCEPT ![s] = "starting"] /\ pc' = [pc EXCEPT ![s] = "cluster"]
             /\ UNCHANGED loopVars
    BY <1>0, <1>1, <2>1 DEF SpawnCluster
  <2>2. CASE Unwind(s) /\ UNCHANGED <<cluster, clusterPort>>
    BY <1>0, <1>1, <2>2 DEF SpawnCluster
  <2> QED BY <1>1, <2>1, <2>2 DEF SpawnCluster
<1>2. CASE Record(s)
  BY <1>0, <1>2 DEF Record
<1>3. ~Alive(Kill(cluster[s]))
  BY KillFacts
<1>4. CASE ClusterNotUp(s)
  BY <1>0, <1>3, <1>4 DEF ClusterNotUp
<1>5. CASE StopModel(s)
  BY <1>0, <1>3, <1>5 DEF StopModel
<1>6. CASE UnwindLocal(s)
  <2>1. leader[s] \in Nodes
    BY <1>6 DEF UnwindLocal, Shaped, Shape
  <2>2. ~Alive(worker'[s][leader[s]]) /\ WorkersMayDie(s)
    BY <1>0, <1>6, <2>1, StopsItself DEF UnwindLocal
  <2>3. \A m \in Nodes : /\ Alive(worker'[s][m]) => Alive(worker[s][m]) /\ m # leader[s]
                         /\ worker'[s][m] = "starting" => worker[s][m] = "starting"
    BY <2>2 DEF WorkersMayDie, Alive
  <2> QED BY <1>0, <1>6, <2>3 DEF UnwindLocal
<1>7. CASE UnwindUnknown(s, n)
  <2>1. leader[s] \in Nodes
    BY <1>7 DEF UnwindUnknown, Shaped, Shape
  <2> QED BY <1>0, <1>7, <2>1 DEF UnwindUnknown, Known
<1>8. CASE UnwindCall(s, n)
  BY <1>0, <1>8 DEF UnwindCall
<1>9. CASE UnwindNext(s)
  <2>1. pc[s] = "unwindWait" /\ stopCall[s][at[s]] # "queued"
    BY <1>9 DEF UnwindNext
  <2>2. \A m \in Nodes : Alive(worker[s][m]) => m \in todo[s] /\ m # at[s]
    BY <1>0, <2>1
  <2>3. /\ UNCHANGED <<planVars, at, workers, outcome, callVars, workerVars, clusterVars>>
        /\ todo' = [todo EXCEPT ![s] = @ \ {at[s]}]
        /\ pc' = [pc EXCEPT ![s] = "unwind"]
    BY <1>9 DEF UnwindNext
  <2> QED BY <1>0, <2>1, <2>2, <2>3
<1>10. CASE UnwindEnd(s)
  BY <1>0, <1>10 DEF UnwindEnd
<1> QED
  BY <1>1, <1>2, <1>4, <1>5, <1>6, <1>7, <1>8, <1>9, <1>10

\* A call that peers serve, or whose processes come up.
LEMMA OwnServe ==
  ASSUME TypeOK, Shaped, InOrder, ~disturbed', NEW s \in Starts, NEW n \in Nodes,
         Serve(s, n) \/ WorkerLoads(s, n) \/ ClusterLoads(s)
  PROVE  Own(s)'
<1> USE DEF planVars, loopVars, callVars, workerVars, clusterVars, TypeOK,
            Own, Asked, AskedStop, Kept, Coming, Starting, Unwinding
<1>0. Own(s) /\ Named /\ Apart
  BY DEF InOrder
<1>1. CASE StartWorker(s, n)
  <2>1. pc[s] = "called" /\ at[s] = n
    BY <1>0, <1>1 DEF StartWorker
  <2>2. CASE Spawn(s, n) /\ startCall' = [startCall EXCEPT ![s][n] = "waiting"]
    BY <1>0, <1>1, <2>1, <2>2 DEF StartWorker, Spawn, Alive
  <2>3. CASE startCall' = [startCall EXCEPT ![s][n] = "failed"] /\ UNCHANGED workerVars
    BY <1>0, <1>1, <2>1, <2>3 DEF StartWorker
  <2> QED BY <1>1, <2>2, <2>3 DEF StartWorker
<1>2. CASE WorkerUp(s, n)
  <2>1. pc[s] = "called" /\ at[s] = n
    BY <1>0, <1>2 DEF WorkerUp
  <2>2. worker[s][n] = "healthy"
    BY <1>0, <1>2, <2>1, AnswersItself DEF WorkerUp, Placing
  <2> QED BY <1>0, <1>2, <2>1, <2>2 DEF WorkerUp
<1>3. CASE WorkerNotUp(s, n)
  <2>1. pc[s] = "called" /\ at[s] = n
    BY <1>0, <1>3 DEF WorkerNotUp
  <2>2. ~Alive(worker'[s][n]) /\ worker'[s][n] # "starting"
    BY <1>3 DEF WorkerNotUp, Kill, Alive
  <2>3. \A m \in Nodes : m # n => worker'[s][m] = worker[s][m]
    BY <1>3 DEF WorkerNotUp
  <2> QED BY <1>0, <1>3, <2>1, <2>2, <2>3 DEF WorkerNotUp
<1>4. CASE StopWorker(s, n)
  <2>1. pc[s] = "unwindWait" /\ at[s] = n
    BY <1>0, <1>4 DEF StopWorker
  <2>2. ~Alive(worker'[s][n]) /\ WorkersMayDie(s)
    BY <1>0, <1>4, StopsItself DEF StopWorker
  <2>3. \A m \in Nodes : /\ Alive(worker'[s][m]) => Alive(worker[s][m]) /\ m # n
                         /\ worker'[s][m] = "starting" => worker[s][m] = "starting"
    BY <2>2 DEF WorkersMayDie, Alive
  <2> QED BY <1>0, <1>4, <2>1, <2>3 DEF StopWorker
<1>5. CASE WorkerLoads(s, n)
  BY <1>0, <1>5 DEF WorkerLoads, Alive
<1>6. CASE ClusterLoads(s)
  BY <1>0, <1>6 DEF ClusterLoads, Alive
<1> QED
  BY <1>1, <1>2, <1>3, <1>4, <1>5, <1>6 DEF Serve

-----------------------------------------------------------------------------
(* Ports, lists and peers under the steps of calls.                        *)

NoNewWorker ==
    /\ port' = port
    /\ \A q \in Starts, m \in Nodes : Alive(worker'[q][m]) => Alive(worker[q][m])

SameWait(q) ==
    pc'[q] \in Placing \ {"place"} => pc[q] \in Placing \ {"place"} /\ at'[q] = at[q]

\* The steps that give a call a port, or a process on it.
Spawns(s) == \E n \in Nodes :
    /\ pc[s] \in Placing \ {"place"} /\ at[s] = n /\ Spawn(s, n)
    /\ pc'[s] \in Placing \ {"place"} /\ at'[s] = n

Keeps(s) == NoNewWorker /\ SameWait(s)

\* Processes killed at most: nobody is given a port or a process.
LEMMA KilledOnly ==
  ASSUME NEW s \in Starts, port' = port,
         \A q \in Starts : WorkersMayDie(q), SameWait(s)
  PROVE  Keeps(s)
BY DEF Keeps, NoNewWorker, WorkersMayDie, Alive

\* Any other step of a call leaves ports alone and kills at most.
LEMMA PortCases ==
  ASSUME TypeOK, Shaped, InOrder, NEW s \in Starts, StepOf(s)
  PROVE  (\E n \in Nodes : FindPort(s, n)) \/ Spawns(s) \/ Keeps(s)
<1> USE DEF planVars, loopVars, callVars, workerVars, clusterVars, Placing, SameWait
<1> DEFINE Goal == (\E n \in Nodes : FindPort(s, n)) \/ Spawns(s) \/ Keeps(s)
<1>1. CASE worker' = worker /\ port' = port /\ SameWait(s)
  BY <1>1 DEF Keeps, NoNewWorker
<1>2. CASE CountOwn(s) \/ Decide(s) \/ CallWorker(s) \/ CalledOk(s) \/ CalledFailed(s)
           \/ GiveUp(s) \/ SpawnCluster(s) \/ Record(s) \/ ClusterNotUp(s)
           \/ UnwindNext(s) \/ UnwindEnd(s) \/ LocalHealthy(s) \/ StopModel(s)
           \/ ClusterLoads(s)
  <2>1. pc \in [Starts -> {"new"} \cup Starting \cup Unwinding \cup Ended]
        /\ at \in [Starts -> Nodes \cup {None}]
    BY DEF TypeOK
  <2>2. worker' = worker /\ port' = port
    BY <1>2 DEF CountOwn, Decide, CallWorker, CalledOk, CalledFailed, GiveUp, SpawnCluster,
                Record, ClusterNotUp, UnwindNext, UnwindEnd, LocalHealthy, StopModel,
                ClusterLoads
  <2>3. outcome[s] \in {"failed", "stopped"}
    BY DEF TypeOK
  <2>4. SameWait(s)
    <3>1. CASE CountOwn(s) \/ Decide(s) \/ CallWorker(s)
      BY <2>1, <3>1 DEF CountOwn, Decide, CallWorker
    <3>2. CASE CalledOk(s) \/ CalledFailed(s) \/ GiveUp(s) \/ LocalHealthy(s)
      BY <2>1, <3>2 DEF CalledOk, CalledFailed, GiveUp, LocalHealthy, Placed, Unwind
    <3>3. CASE SpawnCluster(s) \/ Record(s) \/ ClusterNotUp(s) \/ ClusterLoads(s)
      BY <2>1, <3>3 DEF SpawnCluster, Record, ClusterNotUp, ClusterLoads, Unwind
    <3>4. CASE UnwindNext(s) \/ UnwindEnd(s) \/ StopModel(s)
      BY <2>1, <2>3, <3>4 DEF UnwindNext, UnwindEnd, StopModel
    <3> QED BY <1>2, <3>1, <3>2, <3>3, <3>4
  <2> QED BY <1>1, <2>2, <2>4
<1>3. ASSUME NEW n \in Nodes, CountPeer(s, n) \/ CountPeerFails(s, n) \/ Begin(s, n)
             \/ UnwindUnknown(s, n) \/ UnwindCall(s, n) \/ WorkerUp(s, n)
      PROVE  Goal
  <2>1. pc \in [Starts -> {"new"} \cup Starting \cup Unwinding \cup Ended]
    BY DEF TypeOK
  <2>2. worker' = worker /\ port' = port
    BY <1>3 DEF CountPeer, CountPeerFails, Begin, UnwindUnknown, UnwindCall, WorkerUp
  <2>3. SameWait(s)
    BY <1>3, <2>1 DEF CountPeer, CountPeerFails, Begin, UnwindUnknown, UnwindCall, WorkerUp
  <2> QED BY <1>1, <2>2, <2>3
<1>4. CASE SpawnLocal(s)
  <2>1. at[s] = leader[s] /\ leader[s] \in Nodes
    BY <1>4 DEF SpawnLocal, Shaped, Shape
  <2>2. CASE Spawn(s, leader[s]) /\ pc' = [pc EXCEPT ![s] = "health"] /\ UNCHANGED loopVars
    BY <1>4, <2>1, <2>2 DEF SpawnLocal, Spawns, TypeOK
  <2>3. CASE Unwind(s) /\ UNCHANGED workerVars
    BY <1>1, <2>3 DEF Unwind, TypeOK
  <2> QED BY <1>4, <2>2, <2>3 DEF SpawnLocal
<1>5. CASE LocalUnhealthy(s)
  <2>1. port' = port /\ \A q \in Starts : WorkersMayDie(q)
    BY <1>5, KillFacts DEF LocalUnhealthy, WorkersMayDie, TypeOK
  <2>2. SameWait(s)
    BY <1>5 DEF LocalUnhealthy, Unwind, TypeOK
  <2> QED BY <2>1, <2>2, KilledOnly
<1>6. ASSUME NEW n \in Nodes, StartWorker(s, n) PROVE Goal
  <2>1. pc[s] = "called" /\ at[s] = n
    BY <1>6 DEF StartWorker, InOrder, Own, Asked
  <2>2. CASE Spawn(s, n)
    BY <1>6, <2>1, <2>2 DEF StartWorker, Spawns
  <2>3. CASE UNCHANGED workerVars
    BY <1>1, <1>6, <2>3 DEF StartWorker
  <2> QED BY <1>6, <2>2, <2>3 DEF StartWorker
<1>7. ASSUME NEW n \in Nodes, WorkerNotUp(s, n) PROVE Goal
  <2>1. port' = port /\ \A q \in Starts : WorkersMayDie(q)
    BY <1>7, KillFacts DEF WorkerNotUp, WorkersMayDie, TypeOK
  <2>2. SameWait(s)
    BY <1>7 DEF WorkerNotUp
  <2> QED BY <2>1, <2>2, KilledOnly
<1>8. ASSUME NEW n \in Nodes, StopWorker(s, n) PROVE Goal
  <2>1. port' = port /\ \A q \in Starts : WorkersMayDie(q)
    BY <1>8, StopOnPortKills DEF StopWorker, StopOnPort
  <2>2. SameWait(s)
    BY <1>8 DEF StopWorker
  <2> QED BY <2>1, <2>2, KilledOnly
<1>9. CASE UnwindLocal(s)
  <2>1. leader[s] \in Nodes
    BY <1>9 DEF UnwindLocal, Shaped, Shape
  <2>2. port' = port /\ \A q \in Starts : WorkersMayDie(q)
    BY <1>9, <2>1, StopOnPortKills DEF UnwindLocal, StopOnPort
  <2>3. SameWait(s)
    BY <1>9 DEF UnwindLocal
  <2> QED BY <2>2, <2>3, KilledOnly
<1>10. ASSUME NEW n \in Nodes, WorkerLoads(s, n) PROVE Goal
  BY <1>10 DEF WorkerLoads, Keeps, NoNewWorker, Alive, TypeOK
<1> QED
  BY <1>2, <1>3, <1>4, <1>5, <1>6, <1>7, <1>8, <1>9, <1>10 DEF StepOf, Handle, Serve

\* Only the other calls' program points matter to Alone.
LEMMA AloneStep ==
  ASSUME TypeOK, Shaped, InOrder, ~disturbed', NEW s \in Starts, StepOf(s)
  PROVE  Alone' /\ Known'
<1> USE DEF planVars, loopVars, callVars, workerVars, clusterVars, peerVars
<1>1. \A q \in Starts : q # s => pc'[q] = pc[q]
  BY OthersOnlyKilled DEF OnlyKilled
<1>2. \/ pc'[s] \in Starting => pc[s] \in Starting
      \/ \A q \in Starts : pc[q] \notin Starting
  <2>1. CASE pc[s] \in Starting
    BY <2>1
  <2>2. CASE pc[s] \notin Starting /\ Handle(s)
    <3>1. pc \in [Starts -> {"new"} \cup Starting \cup Unwinding \cup Ended]
          /\ outcome[s] \in {"failed", "stopped"}
      BY DEF TypeOK
    <3>2. CASE UnwindLocal(s) \/ UnwindNext(s) \/ UnwindEnd(s)
      BY <3>1, <3>2 DEF UnwindLocal, UnwindNext, UnwindEnd, Starting
    <3>3. ASSUME NEW n \in Nodes, UnwindUnknown(s, n) \/ UnwindCall(s, n)
          PROVE  pc'[s] \notin Starting
      BY <3>1, <3>3 DEF UnwindUnknown, UnwindCall, Starting
    <3> QED BY <2>2, <3>2, <3>3 DEF Starting, Handle, CountOwn, Decide, SpawnLocal,
          LocalHealthy, LocalUnhealthy, CallWorker, CalledOk, CalledFailed, GiveUp,
          SpawnCluster, Record, ClusterNotUp, CountPeer, CountPeerFails, FindPort
  <2>3. ASSUME NEW n \in Nodes, Begin(s, n)
        PROVE  \/ pc'[s] \in Starting => pc[s] \in Starting
               \/ \A q \in Starts : pc[q] \notin Starting
    <3>1. CASE pc' = [pc EXCEPT ![s] = "refused"]
      BY <3>1 DEF TypeOK, Starting
    <3>2. CASE disturbed' = (disturbed \/ \E q \in Starts : pc[q] \in Starting)
      BY <3>2
    <3> QED BY <2>3, <3>1, <3>2 DEF Begin
  <2>4. CASE StopModel(s)
    BY <2>4 DEF StopModel, TypeOK, Starting
  <2>5. ASSUME NEW n \in Nodes, Serve(s, n) \/ WorkerLoads(s, n) \/ ClusterLoads(s)
        PROVE  pc'[s] = pc[s]
    BY <2>5 DEF Serve, StartWorker, WorkerUp, WorkerNotUp, StopWorker, WorkerLoads,
                ClusterLoads
  <2> QED BY <2>1, <2>2, <2>3, <2>4, <2>5, StepOfCases
<1>3. Alone'
  BY <1>1, <1>2 DEF InOrder, Alone
<1>4. peers' = peers
  BY DaemonsStay
<1> QED
  BY <1>3, <1>4 DEF InOrder, Known

\* A port is found where no worker that runs has it.
LEMMA ApartStep ==
  ASSUME TypeOK, Shaped, InOrder, NEW s \in Starts, StepOf(s)
  PROVE  Apart'
<1> SUFFICES ASSUME NEW x \in Starts, NEW q \in Starts, q # x,
                    pc'[x] \in Placing \ {"place"}, Alive(worker'[q][at'[x]])
             PROVE  port'[q][at'[x]] # port'[x][at'[x]]
  BY DEF Apart
<1>0. Apart /\ Alone /\ (\A y \in Starts : Own(y))
  BY DEF InOrder
<1>1. \A y \in Starts : y # s => /\ pc'[y] = pc[y] /\ at'[y] = at[y] /\ port'[y] = port[y]
                                 /\ WorkersMayDie(y)
  BY OthersOnlyKilled DEF OnlyKilled
<1>2. \A y \in Starts \ {s} : pc[s] \in Starting => pc'[y] \notin Placing
  BY <1>0, <1>1 DEF Alone, Starting, Placing
<1>3. ASSUME NEW n \in Nodes, FindPort(s, n) PROVE port'[q][at'[x]] # port'[x][at'[x]]
  <2>1. pc[s] = "place" /\ x = s
    BY <1>2, <1>3 DEF FindPort, Starting, Placing
  <2>2. at'[s] = n /\ port'[s][n] = FreePort(n) /\ worker' = worker
    BY <1>3 DEF FindPort, TypeOK, workerVars
  <2>3. pc[q] \notin Starting
    BY <1>0, <2>1 DEF Alone, Starting
  <2>4. worker[q][n] = "healthy"
    BY <1>0, <2>1, <2>2, <2>3 DEF Own, Coming, Asked, Alive, Starting
  <2>5. worker[s][n] # "healthy"
    BY <1>3 DEF FindPort, Shaped, Shape, Untouched, Placing
  <2>6. ~Answers(n, FreePort(n))
    BY <2>5, WorkerPortFree
  <2>7. port'[q] = port[q]
    BY <1>1, <2>1
  <2> QED BY <2>1, <2>2, <2>4, <2>6, <2>7 DEF Answers
<1>4. CASE Spawns(s)
  <2>1. x = s /\ pc[s] \in Placing \ {"place"} /\ at'[s] = at[s] /\ port' = port
    BY <1>2, <1>4 DEF Spawns, Spawn, Starting, Placing
  <2>2. Alive(worker[q][at[s]])
    <3>1. at[s] \in Nodes
      BY <1>4 DEF Spawns
    <3> QED BY <1>1, <2>1, <3>1 DEF WorkersMayDie, Alive
  <2> QED BY <1>0, <2>1, <2>2 DEF Apart
<1>5. CASE Keeps(s)
  <2>1. pc[x] \in Placing \ {"place"} /\ at'[x] = at[x]
    BY <1>1, <1>5 DEF Keeps, SameWait
  <2>2. at[x] \in Nodes
    BY <2>1 DEF Shaped, Shape, TypeOK
  <2>3. port' = port /\ Alive(worker[q][at[x]])
    BY <1>5, <2>1, <2>2 DEF Keeps, NoNewWorker
  <2> QED BY <1>0, <2>1, <2>3 DEF Apart
<1> QED
  BY <1>3, <1>4, <1>5, PortCases

\* stop_local_worker keeps the names of all workers it does not kill.
LEMMA StopKeepsNames ==
  ASSUME TypeOK, Shaped, Named, NEW n \in Nodes, NEW p, StopOnPort(n, p)
  PROVE  Named'
<1> SUFFICES ASSUME NEW q \in Starts, NEW m \in Nodes, Alive(worker'[q][m])
             PROVE  workerPids'[m][port'[q][m]] = q
  BY DEF Named
<1>1. port' = port /\ workerPids' = [workerPids EXCEPT ![n][p] = None]
  BY DEF StopOnPort
<1>2. Alive(worker[q][m])
  BY StopOnPortKills DEF WorkersMayDie, Alive
<1>3. workerPids[m][port[q][m]] = q /\ port[q][m] \in Ports
  BY <1>2 DEF Named, Shaped, Shape, Untouched, Alive
<1>4. ~(m = n /\ port[q][m] = p)
  BY <1>3, StopOnPortKills
<1>5. workerPids \in [Nodes -> [Ports -> Starts \cup {None}]]
  BY DEF TypeOK
<1> QED
  BY <1>1, <1>3, <1>4, <1>5

\* A spawned worker takes no other's name away.
LEMMA NamedStep ==
  ASSUME TypeOK, Shaped, InOrder, NEW s \in Starts, StepOf(s)
  PROVE  Named'
<1> SUFFICES ASSUME NEW q \in Starts, NEW m \in Nodes, Alive(worker'[q][m])
             PROVE  workerPids'[m][port'[q][m]] = q
  BY DEF Named
<1> USE DEF planVars, loopVars, callVars, workerVars, clusterVars
<1>0. Named /\ Apart /\ (\A y \in Starts : Own(y))
  BY DEF InOrder
<1>t. /\ workerPids \in [Nodes -> [Ports -> Starts \cup {None}]]
      /\ port \in [Starts -> [Nodes -> Ports \cup {0}]]
      /\ worker \in [Starts -> [Nodes -> ProcessStates]]
  BY DEF TypeOK
<1>p. \A y \in Starts, k \in Nodes : Alive(worker[y][k]) =>
         workerPids[k][port[y][k]] = y /\ port[y][k] \in Ports
  BY <1>0 DEF Named, Shaped, Shape, Untouched, Alive
<1>1. ASSUME NEW n \in Nodes, FindPort(s, n) PROVE workerPids'[m][port'[q][m]] = q
  <2>1. worker' = worker /\ workerPids' = workerPids
        /\ port' = [port EXCEPT ![s][n] = FreePort(n)]
    BY <1>1 DEF FindPort
  <2>2. ~Alive(worker[s][n])
    BY <1>1 DEF FindPort, Shaped, Shape, Untouched, Placing, Alive
  <2> QED BY <1>t, <1>p, <2>1, <2>2
<1>2. CASE Spawns(s)
  <2>1. PICK n \in Nodes : /\ pc[s] \in Placing \ {"place"} /\ at[s] = n /\ Spawn(s, n)
    BY <1>2 DEF Spawns
  <2>2. /\ worker' = [worker EXCEPT ![s][n] = "starting"] /\ port' = port
        /\ workerPids' = [workerPids EXCEPT ![n][port[s][n]] = s]
    BY <2>1 DEF Spawn
  <2>3. port[s][n] \in Ports
    BY <2>1 DEF Shaped, Shape
  <2>4. CASE q = s /\ m = n
    BY <1>t, <2>2, <2>3, <2>4
  <2>5. CASE ~(q = s /\ m = n)
    <3>1. Alive(worker[q][m])
      BY <1>t, <2>2, <2>5
    <3>2. m = n => port[q][m] # port[s][n]
      BY <1>0, <2>1, <2>5, <3>1 DEF Apart
    <3> QED BY <1>t, <1>p, <2>2, <3>1, <3>2
  <2> QED BY <2>4, <2>5
<1>3. ASSUME NEW n \in Nodes, StopWorker(s, n) PROVE workerPids'[m][port'[q][m]] = q
  <2>1. Named'
    BY <1>0, <1>3, StopKeepsNames DEF StopWorker
  <2> QED BY <2>1 DEF Named
<1>4. CASE UnwindLocal(s)
  <2>1. leader[s] \in Nodes
    BY <1>4 DEF UnwindLocal, Shaped, Shape
  <2>2. Named'
    BY <1>0, <1>4, <2>1, StopKeepsNames DEF UnwindLocal
  <2> QED BY <2>2 DEF Named
<1>5. ASSUME NEW n \in Nodes, WorkerNotUp(s, n) PROVE workerPids'[m][port'[q][m]] = q
  <2>1. pc[s] = "called" /\ at[s] = n
    BY <1>0, <1>5 DEF WorkerNotUp, Own, Asked
  <2>2. /\ worker' = [worker EXCEPT ![s][n] = Kill(@)] /\ port' = port
        /\ workerPids' = [workerPids EXCEPT ![n][port[s][n]] = None]
    BY <1>5 DEF WorkerNotUp
  <2>3. ~Alive(worker'[s][n])
    BY <1>t, <2>2, KillFacts
  <2>4. Alive(worker[q][m]) /\ ~(q = s /\ m = n)
    BY <1>t, <2>2, <2>3
  <2>5. m = n => port[q][m] # port[s][n]
    BY <1>0, <2>1, <2>4 DEF Apart, Placing
  <2> QED BY <1>t, <1>p, <2>2, <2>4, <2>5
<1>6. CASE Keeps(s) /\ workerPids' = workerPids
  BY <1>p, <1>6 DEF Keeps, NoNewWorker
<1>7. CASE Keeps(s) /\ workerPids' # workerPids
  <2>1. ~Spawn(s, leader[s]) \/ ~SpawnLocal(s)
    <3> SUFFICES ASSUME Spawn(s, leader[s]), SpawnLocal(s) PROVE FALSE
      OBVIOUS
    <3>1. leader[s] \in Nodes /\ worker[s][leader[s]] = "none"
      BY DEF SpawnLocal, Shaped, Shape, Untouched, Placing
    <3>2. worker'[s][leader[s]] = "starting"
      BY <1>t, <3>1 DEF Spawn
    <3> QED BY <1>7, <3>1, <3>2 DEF Keeps, NoNewWorker, Alive
  <2>2. \A n \in Nodes : ~Spawn(s, n) \/ ~StartWorker(s, n)
    <3> SUFFICES ASSUME NEW n \in Nodes, Spawn(s, n), StartWorker(s, n) PROVE FALSE
      OBVIOUS
    <3>1. worker[s][n] = "none"
      BY DEF StartWorker, Shaped, Shape
    <3>2. worker'[s][n] = "starting"
      BY <1>t DEF Spawn
    <3> QED BY <1>7, <3>1, <3>2 DEF Keeps, NoNewWorker, Alive
  <2>3. \E n \in Nodes : StopWorker(s, n) \/ UnwindLocal(s) \/ WorkerNotUp(s, n)
    BY <1>7, <2>1, <2>2, StepOfCases
       DEF Handle, CountOwn, Decide, SpawnLocal, LocalHealthy,
           LocalUnhealthy, CallWorker, CalledOk, CalledFailed, GiveUp, SpawnCluster,
           Record, ClusterNotUp, UnwindNext, UnwindEnd, CountPeer,
           CountPeerFails, FindPort, UnwindUnknown, UnwindCall, StopModel, ClusterLoads,
           Begin, Serve, StartWorker, WorkerUp, WorkerLoads
  <2> QED BY <1>3, <1>4, <1>5, <2>3
<1> QED
  BY <1>1, <1>2, <1>6, <1>7, PortCases

\* The handler answers when it records the cluster, and only then.
LEMMA HandleNotAnswered ==
  ASSUME TypeOK, NEW s \in Starts, Handle(s), ~Record(s)
  PROVE  pc'[s] # "answered"
<1>t. /\ pc \in [Starts -> {"new"} \cup Starting \cup Unwinding \cup Ended]
      /\ outcome[s] \in {"failed", "stopped"}
  BY DEF TypeOK
<1>1. CASE CountOwn(s) \/ Decide(s) \/ CallWorker(s) \/ CalledOk(s) \/ CalledFailed(s)
           \/ GiveUp(s) \/ LocalHealthy(s) \/ LocalUnhealthy(s)
  BY <1>t, <1>1 DEF CountOwn, Decide, CallWorker, CalledOk, CalledFailed, GiveUp,
                    LocalHealthy, LocalUnhealthy, Placed, Unwind
<1>2. CASE SpawnLocal(s) \/ SpawnCluster(s) \/ ClusterNotUp(s) \/ UnwindLocal(s)
           \/ UnwindNext(s) \/ UnwindEnd(s)
  BY <1>t, <1>2 DEF SpawnLocal, SpawnCluster, ClusterNotUp, UnwindLocal, UnwindNext,
                    UnwindEnd, Unwind
<1>3. ASSUME NEW n \in Nodes, CountPeer(s, n) \/ CountPeerFails(s, n)
             \/ FindPort(s, n) \/ UnwindUnknown(s, n) \/ UnwindCall(s, n)
      PROVE  pc'[s] # "answered"
  BY <1>t, <1>3 DEF CountPeer, CountPeerFails, FindPort, UnwindUnknown, UnwindCall
<1> QED
  BY <1>1, <1>2, <1>3 DEF Handle

\* A cluster is on its daemon's list until it is stopped.
LEMMA TakenStep ==
  ASSUME TypeOK, Shaped, InOrder, NEW s \in Starts, StepOf(s)
  PROVE  Taken'
<1> SUFFICES ASSUME NEW q \in Starts, pc'[q] = "answered", q \notin running'[leader'[q]]
             PROVE  /\ daemon'[leader'[q]] # "up"
                    /\ \A n \in Nodes \ {leader'[q]} :
                          Alive(worker'[q][n]) => <<q, n>> \in toStop'[leader'[q]]
  BY DEF Taken
<1> USE DEF planVars, loopVars, callVars, workerVars, clusterVars, peerVars, daemonVars
<1>1. daemon' = daemon /\ toStop' = toStop
  BY DaemonsStay
<1>2. /\ pc[q] = "answered" /\ leader'[q] = leader[q] /\ q \notin running[leader[q]]
      /\ \A n \in Nodes : Alive(worker'[q][n]) => Alive(worker[q][n])
  <2>t. /\ pc \in [Starts -> {"new"} \cup Starting \cup Unwinding \cup Ended]
        /\ running \in [Nodes -> SUBSET Starts]
        /\ outcome[s] \in {"failed", "stopped"}
    BY DEF TypeOK
  <2>1. CASE q # s
    <3>1. pc[q] = "answered" /\ leader'[q] = leader[q] /\ WorkersMayDie(q)
      BY <2>1, OthersOnlyKilled DEF OnlyKilled
    <3>2. leader[q] \in Nodes
      BY <3>1 DEF Shaped, Shape
    <3>3. CASE Record(s) \/ StopModel(s)
      <4>1. \/ running' = [running EXCEPT ![leader[s]] = @ \cup {s}]
            \/ running' = [running EXCEPT ![leader[s]] = @ \ {s}]
        BY <3>3 DEF Record, StopModel
      <4> QED BY <2>t, <2>1, <3>1, <3>2, <4>1 DEF WorkersMayDie, Alive
    <3>4. CASE ~Record(s) /\ ~StopModel(s)
      BY <3>1, <3>4, ListFrame DEF WorkersMayDie, Alive
    <3> QED BY <3>3, <3>4
  <2>2. CASE q = s
    <3>1. ~Record(s)
      <4>1. Record(s) => leader[s] \in Nodes
        BY DEF Record, Shaped, Shape
      <4> QED BY <2>t, <2>2, <4>1 DEF Record
    <3>2. ~StopModel(s)
      BY <2>t, <2>2 DEF StopModel
    <3>3. running' = running
      BY <3>1, <3>2, ListFrame
    <3>4. ~Handle(s)
      BY <2>2, <3>1, HandleNotAnswered
    <3>5. ASSUME NEW n \in Nodes, Begin(s, n) PROVE FALSE
      BY <2>t, <2>2, <3>5 DEF Begin
    <3>6. pc[s] = "answered" /\ leader' = leader
      BY <2>2, <3>2, <3>4, <3>5 DEF StepOf, ClusterLoads, Serve, StartWorker, WorkerUp,
                               WorkerNotUp, StopWorker, WorkerLoads
    <3>7. Keeps(s)
      BY <3>6, PortCases DEF FindPort, Spawns, Placing
    <3> QED BY <2>2, <3>3, <3>6, <3>7 DEF Keeps, NoNewWorker
  <2> QED BY <2>1, <2>2
<1> QED
  BY <1>1, <1>2 DEF InOrder, Taken

\* Every step of a call keeps the calls in order.
LEMMA OrderStepOf ==
  ASSUME TypeOK, Shaped, InOrder, ~disturbed', NEW s \in Starts, StepOf(s)
  PROVE  InOrder'
<1>1. PICK n \in Nodes :
         \/ Handle(s) \/ Begin(s, n) \/ StopModel(s)
         \/ Serve(s, n) \/ WorkerLoads(s, n) \/ ClusterLoads(s)
  BY StepOfCases
<1>2. Own(s)'
  BY <1>1, OwnCount, OwnPlace, OwnUnwind, OwnServe DEF Handle
<1>3. ASSUME NEW q \in Starts, q # s PROVE Own(q)'
  BY <1>3, OthersOnlyKilled, KilledOwn DEF InOrder
<1> QED
  BY <1>2, <1>3, AloneStep, ApartStep, NamedStep, TakenStep DEF InOrder

\* So does every step of a daemon, as long as peers answer.
LEMMA OrderDaemonStep ==
  ASSUME TypeOK, Shaped, EndInv, InOrder, ~disturbed', NEW n \in Nodes, DaemonStep(n)
  PROVE  InOrder'
<1> USE DEF planVars, loopVars, callVars, workerVars, clusterVars, peerVars, daemonVars
<1>0. \A q \in Starts : OnlyKilled(q)
  BY DaemonsKill DEF DaemonStep
<1>1. stopCall' = stopCall
  BY DEF DaemonStep, Expire, Beacon, Signal, Stop, TakeRunning, Drained, StopAtPeer,
         KillChildren
<1>2. \A q \in Starts : Own(q)'
  BY <1>0, <1>1, KilledOwn DEF InOrder
<1>3. /\ pc' = pc /\ at' = at /\ port' = port /\ leader' = leader
      /\ \A q \in Starts, m \in Nodes : Alive(worker'[q][m]) => Alive(worker[q][m])
  <2>1. pc' = pc /\ at' = at /\ leader' = leader /\ port' = port
    BY DEF DaemonStep, Expire, Beacon, Signal, Stop, TakeRunning, Drained, StopAtPeer,
           StopOnPort, KillChildren
  <2> QED BY <1>0, <2>1 DEF OnlyKilled, WorkersMayDie, Alive
<1>4. Apart'
  <2>1. \A x \in Starts : pc[x] \in Placing \ {"place"} => at[x] \in Nodes
    BY DEF Shaped, Shape, TypeOK
  <2> QED BY <1>3, <2>1 DEF InOrder, Apart
<1>5. Alone'
  BY <1>3 DEF InOrder, Alone
<1>6. Known'
  <2>1. peers' = peers
    BY DEF DaemonStep, Expire, Beacon, Signal, Stop, TakeRunning, Drained, StopAtPeer,
           KillChildren, InOrder, Known
  <2> QED BY <2>1 DEF InOrder, Known
<1>7. Named'
  <2>1. CASE workerPids' = workerPids
    BY <1>3, <2>1 DEF InOrder, Named
  <2>2. ASSUME NEW s \in Starts, NEW m \in Nodes, StopOnPort(m, port[s][m]) PROVE Named'
    BY <2>2, StopKeepsNames DEF InOrder
  <2> QED BY <2>1, <2>2 DEF DaemonStep, Expire, Beacon, Signal, Stop, TakeRunning, Drained,
                            StopAtPeer, KillChildren
<1>8. Taken'
  <2> SUFFICES ASSUME NEW q \in Starts, pc[q] = "answered", q \notin running'[leader[q]]
               PROVE  /\ daemon'[leader[q]] # "up"
                      /\ \A m \in Nodes \ {leader[q]} :
                            Alive(worker'[q][m]) => <<q, m>> \in toStop'[leader[q]]
    BY <1>3 DEF Taken
  <2>t. /\ leader[q] \in Nodes
        /\ running \in [Nodes -> SUBSET Starts]
        /\ toStop \in [Nodes -> SUBSET (Starts \X Nodes)]
        /\ daemon \in [Nodes -> {"up", "stopping", "draining", "leaving", "exited"}]
    BY DEF Shaped, Shape, TypeOK
  <2>i. q \notin running[leader[q]] =>
           /\ daemon[leader[q]] # "up"
           /\ \A m \in Nodes \ {leader[q]} :
                 Alive(worker[q][m]) => <<q, m>> \in toStop[leader[q]]
    BY DEF InOrder, Taken
  <2>1. ASSUME NEW m \in Nodes, Expire(n, m) \/ Beacon(n, m)
        PROVE  running' = running /\ daemon' = daemon /\ toStop' = toStop
    BY <2>1 DEF Expire, Beacon
  <2>2. ASSUME NEW d, d # "up", TakeRunning(n, d), toStop[n] = {}
        PROVE  /\ daemon'[leader[q]] # "up"
               /\ \A m \in Nodes \ {leader[q]} :
                     Alive(worker'[q][m]) => <<q, m>> \in toStop'[leader[q]]
    <3>1. /\ daemon' = [daemon EXCEPT ![n] = d]
          /\ toStop' = [toStop EXCEPT ![n] =
                          {x \in running[n] \X (Nodes \ {n}) : x[2] \in workers[x[1]]}]
          /\ running' = [running EXCEPT ![n] = {}]
      BY <2>2 DEF TakeRunning
    <3>2. CASE leader[q] # n
      BY <1>3, <2>t, <2>i, <3>1, <3>2
    <3>3. CASE leader[q] = n /\ q \in running[n]
      <4>1. \A m \in Nodes \ {n} : Alive(worker'[q][m]) => m \in workers[q]
        BY <1>3 DEF InOrder, Own, Kept, Unwinding
      <4>2. \A m \in Nodes \ {n} : m \in workers[q] => <<q, m>> \in toStop'[n]
        BY <2>t, <3>1, <3>3
      <4> QED BY <2>2, <2>t, <3>1, <3>3, <4>1, <4>2
    <3>4. CASE leader[q] = n /\ q \notin running[n]
      BY <1>3, <2>2, <2>t, <2>i, <3>1, <3>4
    <3> QED BY <3>2, <3>3, <3>4
  <2>3. CASE Signal(n)
    <3>1. toStop[n] = {}
      BY <2>3 DEF Signal, EndInv, StopsDone
    <3> QED BY <2>2, <2>3, <3>1 DEF Signal
  <2>4. CASE Drained(n)
    <3>1. toStop[n] = {}
      BY <2>4 DEF Drained, EndInv, StopsDone
    <3> QED BY <2>2, <2>4, <3>1 DEF Drained
  <2>5. ASSUME NEW s \in Starts, NEW m \in Nodes, StopAtPeer(n, s, m)
        PROVE  /\ daemon'[leader[q]] # "up"
               /\ \A k \in Nodes \ {leader[q]} :
                     Alive(worker'[q][k]) => <<q, k>> \in toStop'[leader[q]]
    <3>1. /\ daemon' = daemon /\ running' = running
          /\ toStop' = [toStop EXCEPT ![n] = @ \ {<<s, m>>}]
      BY <2>5 DEF StopAtPeer
    <3>2. StopOnPort(m, port[s][m])
      BY <2>5 DEF StopAtPeer
    <3>3. ~Alive(worker'[s][m])
      BY <3>2, StopsItself DEF InOrder
    <3>4. \A k \in Nodes : Alive(worker'[q][k]) => <<q, k>> # <<s, m>>
      BY <3>3
    <3> QED BY <1>3, <2>t, <2>i, <3>1, <3>4
  <2>6. ASSUME NEW d, d # "up", KillChildren(n, d)
        PROVE  /\ daemon'[leader[q]] # "up"
               /\ \A m \in Nodes \ {leader[q]} :
                     Alive(worker'[q][m]) => <<q, m>> \in toStop'[leader[q]]
    <3>1. daemon' = [daemon EXCEPT ![n] = d] /\ toStop' = toStop /\ running' = running
      BY <2>6 DEF KillChildren
    <3> QED BY <1>3, <2>t, <2>i, <2>6, <3>1
  <2> QED BY <1>3, <2>i, <2>1, <2>3, <2>4, <2>5, <2>6 DEF DaemonStep, Stop
<1> QED
  BY <1>2, <1>4, <1>5, <1>6, <1>7, <1>8 DEF InOrder

-----------------------------------------------------------------------------
(* Nothing is left behind.                                                 *)

OrphanInv == TypeOK /\ Shaped /\ EndInv /\ Calm

\* No call has been made at the start.
LEMMA InitOrphan == Init => OrphanInv
<1> SUFFICES ASSUME Init PROVE OrphanInv
  OBVIOUS
<1>1. TypeOK /\ Shaped
  BY InitShaped
<1>2. EndInv
  BY DEF Init, EndInv, Recorded, StopsDone, DaemonsEnd
<1>3. Calm
  BY DEF Init, Calm, InOrder, Own, Asked, AskedStop, Alive, Named, Apart, Alone, Taken, Known,
         Starting, Placing
<1> QED
  BY <1>1, <1>2, <1>3 DEF OrphanInv

\* A disturbance is not forgotten.
LEMMA StaysDisturbed ==
  ASSUME TypeOK, (\E s \in Starts : StepOf(s)) \/ (\E n \in Nodes : DaemonStep(n)), ~disturbed'
  PROVE  ~disturbed
<1> USE DEF peerVars, TypeOK
<1>1. ASSUME NEW s \in Starts, StepOf(s) PROVE ~disturbed
  BY <1>1 DEF StepOf, Handle, CountOwn, Decide, SpawnLocal, LocalHealthy,
        LocalUnhealthy, CallWorker, CalledOk, CalledFailed, GiveUp, SpawnCluster,
        Record, ClusterNotUp, UnwindLocal, UnwindNext, UnwindEnd, CountPeer,
        CountPeerFails, FindPort, UnwindUnknown, UnwindCall, StopModel, ClusterLoads,
        Begin, Serve, StartWorker, WorkerUp, WorkerNotUp, StopWorker, WorkerLoads
<1>2. ASSUME NEW n \in Nodes, DaemonStep(n) PROVE ~disturbed
  BY <1>2 DEF DaemonStep, Expire, Beacon, Signal, Stop, TakeRunning, Drained, StopAtPeer,
        KillChildren
<1> QED
  BY <1>1, <1>2

\* Every step keeps the invariant.
LEMMA OrphanStep == OrphanInv /\ [Next]_vars => OrphanInv'
<1> SUFFICES ASSUME OrphanInv, [Next]_vars PROVE OrphanInv'
  OBVIOUS
<1>0. TypeOK /\ Shaped /\ EndInv /\ Calm
  BY DEF OrphanInv
<1>1. TypeOK' /\ Shaped'
  BY <1>0, ShapedStep
<1>2. ASSUME NEW s \in Starts, StepOf(s) PROVE OrphanInv'
  <2>1. EndInv'
    BY <1>0, <1>1, <1>2, EndStepOf
  <2>2. Calm'
    BY <1>0, <1>2, StaysDisturbed, OrderStepOf DEF Calm
  <2> QED BY <1>1, <2>1, <2>2 DEF OrphanInv
<1>3. ASSUME NEW n \in Nodes, DaemonStep(n) PROVE OrphanInv'
  <2>1. EndInv'
    BY <1>0, <1>1, <1>3, EndDaemonStep
  <2>2. Calm'
    BY <1>0, <1>3, StaysDisturbed, OrderDaemonStep DEF Calm
  <2> QED BY <1>1, <2>1, <2>2 DEF OrphanInv
<1>4. CASE UNCHANGED vars
  <2> USE <1>4 DEF vars, planVars, loopVars, callVars, workerVars, clusterVars, peerVars,
                   daemonVars
  <2>1. EndInv'
    BY <1>0 DEF EndInv, Recorded, StopsDone, DaemonsEnd, Idle, Empty
  <2>2. InOrder => InOrder'
    BY DEF InOrder, Own, Asked, AskedStop, Kept, Coming, Named, Apart, Alone, Taken, Known
  <2>3. Calm'
    BY <1>0, <2>2 DEF Calm
  <2> QED BY <1>1, <2>1, <2>3 DEF OrphanInv
<1> QED
  BY <1>2, <1>3, <1>4, StepCases

\* A start that failed and a cluster that was stopped leave no process on any
\* node, as long as start-model calls do not overlap and peers answer; and a
\* daemon that has exited leaves none on its own, whatever its handlers were
\* doing when the signal came.
THEOREM NothingLeftBehind == Spec => []NoOrphans
<1>1. OrphanInv => NoOrphans
  <2> SUFFICES ASSUME OrphanInv PROVE NoOrphans
    OBVIOUS
  <2>0. TypeOK /\ Shaped /\ EndInv /\ Calm
    BY DEF OrphanInv
  <2>1. ASSUME NEW n \in Nodes, daemon[n] = "exited"
        PROVE  Idle(n) /\ Empty(n) /\ toStop[n] = {}
    BY <2>0, <2>1 DEF EndInv, DaemonsEnd, StopsDone
  <2>2. ASSUME ~disturbed, NEW s \in Starts, pc[s] \in {"refused", "failed", "stopped"}
        PROVE  ~Alive(cluster[s]) /\ \A n \in Nodes : ~Alive(worker[s][n])
    BY <2>0, <2>2 DEF Calm, InOrder, Own, Kept, Starting, Unwinding
  <2>3. ASSUME ~disturbed, NEW s \in Starts, pc[s] = "answered", daemon[leader[s]] = "exited"
        PROVE  ~Alive(cluster[s]) /\ \A n \in Nodes : ~Alive(worker[s][n])
    <3>1. leader[s] \in Nodes
      BY <2>0, <2>3 DEF Shaped, Shape
    <3>2. Idle(leader[s]) /\ Empty(leader[s]) /\ toStop[leader[s]] = {}
      BY <2>1, <2>3, <3>1
    <3>3. \A n \in Nodes \ {leader[s]} : ~Alive(worker[s][n])
      BY <2>0, <2>3, <3>2 DEF Calm, InOrder, Taken, Idle
    <3> QED BY <3>2, <3>3 DEF Empty
  <2> QED BY <2>1, <2>2, <2>3 DEF NoOrphans, Empty
<1> QED
  BY <1>1, InitOrphan, OrphanStep, PTL DEF Spec

-----------------------------------------------------------------------------
(* A cluster on a list is whole.                                           *)

\* Every participant is on the list of workers, or still due.
Listed(s) ==
    /\ pc[s] \in Placing =>
          /\ parts[s] \subseteq todo[s] \cup workers[s]
          /\ todo[s] \cap workers[s] = {}
    /\ pc[s] \in {"cluster", "answered"} => parts[s] \subseteq workers[s]
    /\ pc[s] \in Starting \cup {"answered"} => leader[s] \in parts[s]

OnList(s) == pc[s] = "answered" /\ s \in running[leader[s]]

\* The call counts on the worker, to serve or to be there to be stopped.
Due(s, n) ==
    \/ n \in workers[s] /\ (pc[s] \in Starting \/ OnList(s))
    \/ pc[s] = "called" /\ n = at[s] /\ startCall[s][n] = "ok"
    \/ /\ pc[s] \in Unwinding /\ n \in todo[s]
       /\ pc[s] = "unwindWait" /\ n = at[s] => stopCall[s][n] = "queued"

Runs(s, n) == daemon[n] = "up" => worker[s][n] = "healthy"

Ready == \A s \in Starts, n \in Nodes : Due(s, n) => Runs(s, n)

\* What Node::stop still has to stop are workers of clusters off the list.
StillToStop ==
    \A l \in Nodes, s \in Starts, n \in Nodes : <<s, n>> \in toStop[l] =>
        pc[s] = "answered" /\ leader[s] = l /\ s \notin running[l] /\ Runs(s, n)

\* The port of a cluster that comes up is not that of another.
ClusterPorts ==
    \A s, q \in Starts :
        pc[s] = "cluster" /\ q # s /\ leader[q] = leader[s] /\ Alive(cluster[q]) =>
            clusterPort[q] # clusterPort[s]

ClusterUp ==
    \A s \in Starts :
        /\ cluster[s] = "starting" => pc[s] = "cluster"
        /\ OnList(s) /\ daemon[leader[s]] = "up" => cluster[s] = "healthy"

Whole == (\A s \in Starts : Listed(s)) /\ Ready /\ StillToStop /\ ClusterPorts /\ ClusterUp

\* A handler leaves the participants of all calls alone, and the leader and
\* the cluster's port of all others.
LEMMA OthersParts ==
  ASSUME TypeOK, NEW s \in Starts, StepOf(s), NEW q \in Starts, q # s
  PROVE  parts'[q] = parts[q] /\ leader'[q] = leader[q] /\ clusterPort'[q] = clusterPort[q]
<1> USE DEF planVars, clusterVars
<1>1. CASE (\E n \in Nodes : Begin(s, n)) \/ SpawnCluster(s)
  BY <1>1 DEF Begin, SpawnCluster, TypeOK
<1>2. CASE ~(\E n \in Nodes : Begin(s, n)) /\ ~SpawnCluster(s)
  BY <1>2 DEF StepOf, Handle, CountOwn, Decide, SpawnLocal, LocalHealthy,
        LocalUnhealthy, CallWorker, CalledOk, CalledFailed, GiveUp,
        Record, ClusterNotUp, UnwindLocal, UnwindNext, UnwindEnd, CountPeer,
        CountPeerFails, FindPort, UnwindUnknown, UnwindCall, StopModel, ClusterLoads,
        Serve, StartWorker, WorkerUp, WorkerNotUp, StopWorker, WorkerLoads
<1> QED
  BY <1>1, <1>2

\* What is due moves to the list.
LEMMA ListedStep ==
  ASSUME TypeOK, Shaped, NEW s \in Starts, StepOf(s), Listed(s)
  PROVE  Listed(s)'
<1> USE DEF planVars, loopVars, callVars, workerVars, clusterVars, peerVars, Listed,
            Placing, Starting, Unwind
<1>t. /\ pc \in [Starts -> {"new"} \cup Starting \cup Unwinding \cup Ended]
      /\ leader \in [Starts -> Nodes \cup {None}]
      /\ parts \in [Starts -> SUBSET Nodes] /\ todo \in [Starts -> SUBSET Nodes]
      /\ workers \in [Starts -> SUBSET Nodes] /\ outcome \in [Starts -> {"failed", "stopped"}]
  BY DEF TypeOK
<1>0. /\ pc[s] \in {"own", "count"} => workers[s] = {}
      /\ pc[s] \in Placing \ {"place"} => at[s] \in todo[s]
  BY DEF Shaped, Shape
<1>1. CASE UNCHANGED <<pc, planVars, todo, workers>>
  BY <1>1
<1>2. ASSUME NEW n \in Nodes, Begin(s, n) PROVE Listed(s)'
  <2>1. CASE pc' = [pc EXCEPT ![s] = "refused"]
    BY <1>t, <2>1
  <2>2. CASE /\ pc' = [pc EXCEPT ![s] = "own"]
             /\ parts' = [parts EXCEPT ![s] = peers[n] \cup {n}]
    BY <1>t, <1>2, <2>2 DEF Begin
  <2> QED BY <1>2, <2>1, <2>2 DEF Begin
<1>3. CASE CountOwn(s) \/ Decide(s)
  BY <1>t, <1>0, <1>3 DEF CountOwn, Decide
<1>4. ASSUME NEW n \in Nodes, CountPeer(s, n) \/ CountPeerFails(s, n) \/ FindPort(s, n)
             \/ UnwindUnknown(s, n) \/ UnwindCall(s, n)
      PROVE  Listed(s)'
  BY <1>t, <1>4 DEF CountPeer, CountPeerFails, FindPort, UnwindUnknown, UnwindCall
<1>5. CASE SpawnLocal(s) \/ CallWorker(s)
  BY <1>t, <1>5 DEF SpawnLocal, CallWorker
<1>6. CASE LocalHealthy(s) \/ CalledOk(s)
  BY <1>t, <1>0, <1>6 DEF LocalHealthy, CalledOk, Placed
<1>7. CASE LocalUnhealthy(s) \/ CalledFailed(s) \/ GiveUp(s) \/ ClusterNotUp(s)
  BY <1>t, <1>7 DEF LocalUnhealthy, CalledFailed, GiveUp, ClusterNotUp
<1>8. CASE SpawnCluster(s) \/ Record(s)
  BY <1>t, <1>8 DEF SpawnCluster, Record
<1>9. CASE StopModel(s) \/ UnwindLocal(s) \/ UnwindNext(s) \/ UnwindEnd(s)
  BY <1>t, <1>9 DEF StopModel, UnwindLocal, UnwindNext, UnwindEnd
<1>10. ASSUME NEW n \in Nodes, Serve(s, n) \/ WorkerLoads(s, n) \/ ClusterLoads(s)
       PROVE  Listed(s)'
  BY <1>1, <1>10 DEF Serve, StartWorker, WorkerUp, WorkerNotUp, StopWorker, WorkerLoads,
                     ClusterLoads
<1> QED
  BY <1>2, <1>3, <1>4, <1>5, <1>6, <1>7, <1>8, <1>9, <1>10, StepOfCases DEF Handle

\* While the peer's daemon is up only its own call kills a worker that is due.
LEMMA KillsOwn ==
  ASSUME TypeOK, Shaped, InOrder, Ready, NEW s \in Starts, StepOf(s),
         NEW q \in Starts, q # s, NEW n \in Nodes, daemon[n] = "up"
  PROVE  worker'[q][n] = worker[q][n]
<1> USE DEF planVars, loopVars, callVars, workerVars, clusterVars, peerVars
<1>t. worker \in [Starts -> [Nodes -> ProcessStates]]
  BY DEF TypeOK
<1>0. ASSUME NEW m \in Nodes, StopOnPort(m, port[s][m]), Due(s, m)
      PROVE  worker'[q][n] = worker[q][n]
  <2>1. CASE m # n
    BY <1>t, <1>0, <2>1 DEF StopOnPort
  <2>2. CASE m = n
    <3>1. worker[s][n] = "healthy"
      BY <1>0, <2>2 DEF Ready, Runs
    <3>2. workerPids[n][port[s][n]] = s
      BY <3>1 DEF InOrder, Named, Alive
    <3> QED BY <1>t, <1>0, <2>2, <3>2, NodeAssumption DEF StopOnPort
  <2> QED BY <2>1, <2>2
<1>1. CASE UnwindLocal(s)
  <2>1. leader[s] \in Nodes /\ Due(s, leader[s])
    BY <1>1 DEF UnwindLocal, Shaped, Shape, Due, Unwinding
  <2> QED BY <1>0, <1>1, <2>1 DEF UnwindLocal
<1>2. ASSUME NEW m \in Nodes, StopWorker(s, m) PROVE worker'[q][n] = worker[q][n]
  <2>1. Due(s, m)
    BY <1>2 DEF StopWorker, InOrder, Own, AskedStop, Shaped, Shape, Due, Unwinding
  <2> QED BY <1>0, <1>2, <2>1 DEF StopWorker
<1>3. ASSUME NEW m \in Nodes, Serve(s, m), ~StopWorker(s, m)
      PROVE  worker'[q][n] = worker[q][n]
  BY <1>t, <1>3 DEF Serve, StartWorker, Spawn, WorkerUp, WorkerNotUp
<1>4. ASSUME NEW m \in Nodes, WorkerLoads(s, m) PROVE worker'[q][n] = worker[q][n]
  BY <1>t, <1>4 DEF WorkerLoads
<1>5. CASE SpawnLocal(s) \/ LocalUnhealthy(s)
  BY <1>t, <1>5 DEF SpawnLocal, Spawn, LocalUnhealthy
<1>6. CASE worker' = worker
  BY <1>6
<1> QED
  BY <1>1, <1>2, <1>3, <1>4, <1>5, <1>6, StepOfCases
     DEF Handle, CountOwn, Decide, LocalHealthy, CallWorker, CalledOk, CalledFailed,
         GiveUp, SpawnCluster, Record, ClusterNotUp, UnwindNext, UnwindEnd, CountPeer,
         CountPeerFails, FindPort, UnwindUnknown, UnwindCall, StopModel, ClusterLoads, Begin

\* The handler's own workers are there when it counts on them.
LEMMA ReadyPlace ==
  ASSUME TypeOK, Shaped, InOrder, Ready, ~disturbed', NEW s \in Starts, Listed(s), NEW m \in Nodes,
         \/ Begin(s, m) \/ CountOwn(s) \/ CountPeer(s, m) \/ CountPeerFails(s, m)
         \/ Decide(s) \/ FindPort(s, m) \/ SpawnLocal(s) \/ LocalHealthy(s)
         \/ LocalUnhealthy(s) \/ CallWorker(s) \/ CalledOk(s) \/ CalledFailed(s)
         \/ GiveUp(s),
         NEW n \in Nodes, Due(s, n)', daemon[n] = "up"
  PROVE  worker'[s][n] = "healthy"
<1> USE DEF planVars, loopVars, callVars, workerVars, clusterVars, peerVars,
            Starting, Unwinding, Unwind, Due, OnList
<1>t. /\ pc \in [Starts -> {"new"} \cup Starting \cup Unwinding \cup Ended]
      /\ todo \in [Starts -> SUBSET Nodes] /\ workers \in [Starts -> SUBSET Nodes]
      /\ at \in [Starts -> Nodes \cup {None}]
      /\ startCall \in [Starts -> [Nodes -> {"none", "queued", "waiting", "ok", "failed"}]]
      /\ worker \in [Starts -> [Nodes -> ProcessStates]]
  BY DEF TypeOK
<1>0. Due(s, n) => worker[s][n] = "healthy"
  BY DEF Ready, Runs
<1>s. /\ pc[s] \in {"new", "own", "count", "refused"} => workers[s] = {}
      /\ pc[s] \in Placing \ {"place"} => at[s] \in todo[s] /\ at[s] \notin workers[s]
      /\ pc[s] \in {"spawn", "health"} => at[s] = leader[s]
      /\ pc[s] # "new" => leader[s] \in Nodes
  BY DEF Shaped, Shape, Listed
<1>1. CASE Begin(s, m) \/ CountOwn(s) \/ CountPeer(s, m) \/ CountPeerFails(s, m) \/ Decide(s)
  BY <1>t, <1>0, <1>s, <1>1 DEF Begin, CountOwn, CountPeer, CountPeerFails, Decide
<1>2. CASE FindPort(s, m)
  BY <1>t, <1>0, <1>2 DEF FindPort
<1>3. CASE SpawnLocal(s)
  <2>1. CASE Spawn(s, leader[s]) /\ pc' = [pc EXCEPT ![s] = "health"] /\ UNCHANGED loopVars
    BY <1>t, <1>0, <1>s, <1>3, <2>1 DEF SpawnLocal, Spawn, Placing
  <2>2. CASE Unwind(s) /\ UNCHANGED workerVars
    BY <1>t, <1>0, <1>3, <2>2 DEF SpawnLocal
  <2> QED BY <1>3, <2>1, <2>2 DEF SpawnLocal
<1>4. CASE LocalHealthy(s)
  <2>1. worker[s][at[s]] = "healthy"
    BY <1>s, <1>4, AnswersItself DEF LocalHealthy, Placing, InOrder
  <2> QED BY <1>t, <1>0, <1>4, <2>1 DEF LocalHealthy, Placed
<1>5. CASE LocalUnhealthy(s)
  BY <1>t, <1>0, <1>s, <1>5 DEF LocalUnhealthy, Placing
<1>6. CASE CallWorker(s)
  BY <1>t, <1>0, <1>s, <1>6 DEF CallWorker, Placing
<1>7. CASE CalledOk(s)
  BY <1>t, <1>0, <1>7 DEF CalledOk, Placed
<1>8. CASE CalledFailed(s)
  BY <1>t, <1>0, <1>8 DEF CalledFailed
<1>9. CASE GiveUp(s)
  BY <1>9 DEF GiveUp
<1> QED
  BY <1>1, <1>2, <1>3, <1>4, <1>5, <1>6, <1>7, <1>8, <1>9

\* And until they are stopped.
LEMMA ReadyUnwind ==
  ASSUME TypeOK, Shaped, InOrder, Ready, ~disturbed', NEW s \in Starts, Listed(s), NEW m \in Nodes,
         \/ SpawnCluster(s) \/ Record(s) \/ ClusterNotUp(s) \/ StopModel(s)
         \/ UnwindLocal(s) \/ UnwindUnknown(s, m) \/ UnwindCall(s, m)
         \/ UnwindNext(s) \/ UnwindEnd(s)
         \/ Serve(s, m) \/ WorkerLoads(s, m) \/ ClusterLoads(s),
         NEW n \in Nodes, Due(s, n)', daemon[n] = "up"
  PROVE  worker'[s][n] = "healthy"
<1> USE DEF planVars, loopVars, callVars, workerVars, clusterVars, peerVars,
            Starting, Unwinding, Unwind, Due, OnList
<1>t. /\ pc \in [Starts -> {"new"} \cup Starting \cup Unwinding \cup Ended]
      /\ todo \in [Starts -> SUBSET Nodes] /\ workers \in [Starts -> SUBSET Nodes]
      /\ at \in [Starts -> Nodes \cup {None}] /\ outcome \in [Starts -> {"failed", "stopped"}]
      /\ startCall \in [Starts -> [Nodes -> {"none", "queued", "waiting", "ok", "failed"}]]
      /\ stopCall \in [Starts -> [Nodes -> {"none", "queued", "done"}]]
      /\ worker \in [Starts -> [Nodes -> ProcessStates]]
  BY DEF TypeOK
<1>0. Due(s, n) => worker[s][n] = "healthy"
  BY DEF Ready, Runs
<1>o. /\ \A k \in Nodes : startCall[s][k] \in {"queued", "waiting"} =>
            pc[s] = "called" /\ at[s] = k /\ k \notin workers[s]
      /\ \A k \in Nodes : stopCall[s][k] = "queued" => pc[s] = "unwindWait" /\ at[s] = k
  BY DEF InOrder, Own, Asked, AskedStop, Shaped, Shape, Listed, Placing
<1>1. CASE SpawnCluster(s) \/ Record(s) \/ ClusterNotUp(s)
  BY <1>t, <1>0, <1>1 DEF SpawnCluster, Record, ClusterNotUp
<1>2. CASE StopModel(s)
  BY <1>t, <1>0, <1>2 DEF StopModel
<1>3. CASE UnwindLocal(s)
  <2>1. leader[s] \in Nodes
    BY <1>3 DEF UnwindLocal, Shaped, Shape
  <2>2. n # leader[s] /\ Due(s, n)
    BY <1>t, <1>3 DEF UnwindLocal
  <2>3. worker'[s][n] = worker[s][n]
    BY <1>t, <1>3, <2>1, <2>2 DEF UnwindLocal, StopOnPort
  <2> QED BY <1>0, <2>2, <2>3
<1>4. CASE UnwindUnknown(s, m) \/ UnwindCall(s, m)
  BY <1>t, <1>0, <1>4 DEF UnwindUnknown, UnwindCall
<1>5. CASE UnwindNext(s) \/ UnwindEnd(s)
  <2>1. CASE UnwindNext(s)
    <3>1. worker' = worker /\ n \in todo[s] /\ n # at[s] /\ pc[s] = "unwindWait"
      BY <1>t, <2>1 DEF UnwindNext
    <3> QED BY <1>0, <3>1
  <2>2. CASE UnwindEnd(s)
    BY <1>t, <2>2 DEF UnwindEnd
  <2> QED BY <1>5, <2>1, <2>2
<1>6. CASE StartWorker(s, m)
  <2>1. CASE Spawn(s, m) /\ startCall' = [startCall EXCEPT ![s][m] = "waiting"]
    BY <1>t, <1>0, <1>o, <1>6, <2>1 DEF StartWorker, Spawn
  <2>2. CASE startCall' = [startCall EXCEPT ![s][m] = "failed"] /\ UNCHANGED workerVars
    BY <1>t, <1>0, <1>o, <1>6, <2>2 DEF StartWorker
  <2> QED BY <1>6, <2>1, <2>2 DEF StartWorker
<1>7. CASE WorkerUp(s, m)
  <2>1. pc[s] = "called" /\ at[s] = m
    BY <1>o, <1>7 DEF WorkerUp
  <2>2. worker[s][m] = "healthy"
    BY <1>7, <2>1, AnswersItself DEF WorkerUp, InOrder, Placing
  <2> QED BY <1>t, <1>0, <1>o, <1>7, <2>1, <2>2 DEF WorkerUp
<1>8. CASE WorkerNotUp(s, m)
  BY <1>t, <1>0, <1>o, <1>8 DEF WorkerNotUp
<1>9. CASE StopWorker(s, m)
  <2>1. n # m /\ Due(s, n)
    BY <1>t, <1>o, <1>9 DEF StopWorker
  <2>2. worker'[s][n] = worker[s][n]
    BY <1>t, <1>9, <2>1 DEF StopWorker, StopOnPort
  <2> QED BY <1>0, <2>1, <2>2
<1>10. CASE WorkerLoads(s, m)
  BY <1>t, <1>0, <1>10 DEF WorkerLoads
<1>11. CASE ClusterLoads(s)
  BY <1>t, <1>0, <1>11 DEF ClusterLoads
<1> QED
  BY <1>1, <1>2, <1>3, <1>4, <1>5, <1>6, <1>7, <1>8, <1>9, <1>10, <1>11 DEF Serve

\* Workers are ready, and those left to Node::stop are.
LEMMA ReadyStep ==
  ASSUME TypeOK, Shaped, InOrder, Whole, ~disturbed', NEW s \in Starts, StepOf(s)
  PROVE  Ready' /\ StillToStop'
<1> USE DEF planVars, loopVars, callVars, workerVars, clusterVars
<1>0. daemon' = daemon /\ toStop' = toStop
  BY DaemonsStay
<1>1. ASSUME NEW q \in Starts, q # s
      PROVE  /\ pc'[q] = pc[q] /\ leader'[q] = leader[q] /\ todo'[q] = todo[q]
             /\ at'[q] = at[q] /\ workers'[q] = workers[q] /\ startCall'[q] = startCall[q]
             /\ stopCall'[q] = stopCall[q]
             /\ \A l \in Nodes : q \in running'[l] => q \in running[l]
             /\ \A n \in Nodes : Runs(q, n) => Runs(q, n)'
  <2>1. \A l \in Nodes : q \in running'[l] => q \in running[l]
    BY <1>1, OthersListed
  <2>2. \A n \in Nodes : Runs(q, n) => Runs(q, n)'
    BY <1>0, <1>1, KillsOwn DEF Whole, Runs
  <2> QED BY <1>1, <2>1, <2>2, OthersOnlyKilled DEF OnlyKilled
<1>2. Ready'
  <2> SUFFICES ASSUME NEW q \in Starts, NEW n \in Nodes, Due(q, n)' PROVE Runs(q, n)'
    BY DEF Ready
  <2>1. CASE q = s
    <3> SUFFICES ASSUME daemon[n] = "up" PROVE worker'[s][n] = "healthy"
      BY <1>0, <2>1 DEF Runs
    <3>1. Listed(s) /\ Ready
      BY DEF Whole
    <3> QED BY <2>1, <3>1, StepOfCases, ReadyPlace, ReadyUnwind DEF Handle
  <2>2. CASE q # s
    <3>1. pc[q] # "new" => leader[q] \in Nodes
      BY DEF Shaped, Shape
    <3>2. Due(q, n)
      BY <1>1, <2>2, <3>1 DEF Due, OnList
    <3> QED BY <1>1, <2>2, <3>2 DEF Whole, Ready
  <2> QED BY <2>1, <2>2
<1>3. StillToStop'
  <2> SUFFICES ASSUME NEW l \in Nodes, NEW q \in Starts, NEW n \in Nodes,
                      <<q, n>> \in toStop[l]
               PROVE  pc'[q] = "answered" /\ leader'[q] = l /\ q \notin running'[l]
                      /\ Runs(q, n)'
    BY <1>0 DEF StillToStop
  <2>1. pc[q] = "answered" /\ leader[q] = l /\ q \notin running[l] /\ Runs(q, n)
    BY DEF Whole, StillToStop
  <2>2. CASE q # s
    BY <1>1, <2>1, <2>2
  <2>3. CASE q = s
    <3>1. ~Handle(s) /\ ~Record(s)
      BY <2>1, <2>3, HandleLocal DEF Starting, Unwinding, Handle
    <3>2. ~StopModel(s) /\ \A m \in Nodes : ~Begin(s, m)
      BY <2>1, <2>3 DEF StopModel, Begin
    <3>3. running' = running
      BY <3>1, <3>2, ListFrame
    <3>4. \A m \in Nodes : startCall[s][m] \notin {"queued", "waiting"}
                           /\ stopCall[s][m] # "queued"
      BY <2>1, <2>3 DEF InOrder, Own, Asked, AskedStop
    <3>5. \/ \E m \in Nodes : WorkerUp(s, m) \/ WorkerLoads(s, m)
          \/ ClusterLoads(s)
      BY <3>1, <3>2, <3>4 DEF StepOf, Serve, StartWorker, WorkerUp, WorkerNotUp, StopWorker
    <3>6. pc' = pc /\ leader' = leader
          /\ (worker[s][n] = "healthy" => worker'[s][n] = "healthy")
      <4>1. worker \in [Starts -> [Nodes -> ProcessStates]]
        BY DEF TypeOK
      <4> QED BY <3>5, <4>1 DEF WorkerUp, WorkerLoads, ClusterLoads
    <3> QED BY <1>0, <2>1, <2>3, <3>3, <3>6 DEF Runs
  <2> QED BY <2>2, <2>3
<1> QED
  BY <1>2, <1>3

\* Only its own call starts or stops a cluster's process.
LEMMA ClusterFrame ==
  ASSUME TypeOK, Shaped, NEW s \in Starts, StepOf(s)
  PROVE  /\ \A q \in Starts : q # s => cluster'[q] = cluster[q]
         /\ ~SpawnCluster(s) => /\ clusterPort' = clusterPort
                                /\ Alive(cluster'[s]) => Alive(cluster[s])
                                /\ cluster'[s] = "starting" => cluster[s] = "starting"
                                /\ pc'[s] = "cluster" => pc[s] = "cluster"
                                /\ leader'[s] = leader[s] \/ cluster'[s] = "none"
<1> USE DEF planVars, clusterVars
<1>t. /\ pc \in [Starts -> {"new"} \cup Starting \cup Unwinding \cup Ended]
      /\ cluster \in [Starts -> ProcessStates] /\ outcome \in [Starts -> {"failed", "stopped"}]
      /\ leader \in [Starts -> Nodes \cup {None}]
  BY DEF TypeOK
<1>1. CASE SpawnCluster(s)
  BY <1>t, <1>1 DEF SpawnCluster, Unwind
<1>2. ASSUME NEW n \in Nodes, Begin(s, n) PROVE cluster' = cluster /\ clusterPort' = clusterPort
        /\ cluster[s] = "none" /\ pc'[s] # "cluster"
  BY <1>t, <1>2 DEF Begin, Shaped, Shape
<1>3. CASE Record(s)
  BY <1>t, <1>3 DEF Record
<1>4. ~Alive(Kill(cluster[s])) /\ Kill(cluster[s]) # "starting"
  BY DEF Kill, Alive
<1>5. CASE ClusterNotUp(s) \/ StopModel(s)
  BY <1>t, <1>4, <1>5 DEF ClusterNotUp, StopModel, Unwind
<1>6. CASE ClusterLoads(s)
  BY <1>t, <1>6 DEF ClusterLoads, Alive
<1>7. CASE UNCHANGED <<cluster, clusterPort, leader>> /\ (pc'[s] = "cluster" => pc[s] = "cluster")
  BY <1>7
<1>8. CASE CountOwn(s) \/ Decide(s) \/ CallWorker(s) \/ SpawnLocal(s) \/ LocalUnhealthy(s)
  BY <1>t, <1>7, <1>8 DEF CountOwn, Decide, CallWorker, SpawnLocal, LocalUnhealthy, Unwind
<1>9. CASE LocalHealthy(s) \/ CalledOk(s) \/ CalledFailed(s) \/ GiveUp(s)
  BY <1>t, <1>7, <1>9 DEF LocalHealthy, CalledOk, CalledFailed, GiveUp, Placed, Unwind
<1>10. CASE UnwindLocal(s) \/ UnwindNext(s) \/ UnwindEnd(s)
  BY <1>t, <1>7, <1>10 DEF UnwindLocal, UnwindNext, UnwindEnd
<1>11. ASSUME NEW n \in Nodes, CountPeer(s, n) \/ CountPeerFails(s, n) \/ FindPort(s, n)
              \/ UnwindUnknown(s, n) \/ UnwindCall(s, n) \/ Serve(s, n) \/ WorkerLoads(s, n)
       PROVE  UNCHANGED <<cluster, clusterPort, leader>> /\ (pc'[s] = "cluster" => pc[s] = "cluster")
  BY <1>t, <1>11 DEF CountPeer, CountPeerFails, FindPort, UnwindUnknown, UnwindCall, Serve,
           StartWorker, WorkerUp, WorkerNotUp, StopWorker, WorkerLoads
<1> QED
  BY <1>1, <1>2, <1>3, <1>5, <1>6, <1>7, <1>8, <1>9, <1>10, <1>11, StepOfCases DEF Handle

\* Whoever answers on the port of a cluster that comes up is that cluster.
LEMMA ClusterAnswersItself ==
  ASSUME TypeOK, ClusterPorts, NEW s \in Starts, pc[s] = "cluster",
         ClusterAnswers(leader[s], clusterPort[s])
  PROVE  cluster[s] = "healthy"
BY DEF ClusterPorts, ClusterAnswers, Alive

\* A cluster's port is found where no other cluster has it.
LEMMA ClusterStep ==
  ASSUME TypeOK, Shaped, InOrder, Whole, NEW s \in Starts, StepOf(s)
  PROVE  ClusterPorts' /\ ClusterUp'
<1> USE DEF planVars, clusterVars
<1>0. ClusterPorts /\ ClusterUp /\ Alone /\ daemon' = daemon
  BY DaemonsStay DEF Whole, InOrder
<1>t. /\ pc \in [Starts -> {"new"} \cup Starting \cup Unwinding \cup Ended]
      /\ cluster \in [Starts -> ProcessStates]
      /\ clusterPort \in [Starts -> Ports \cup {0}]
  BY DEF TypeOK
<1>1. \A q \in Starts : q # s => /\ pc'[q] = pc[q] /\ leader'[q] = leader[q]
                                 /\ cluster'[q] = cluster[q]
                                 /\ clusterPort'[q] = clusterPort[q]
  BY OthersOnlyKilled, OthersParts, ClusterFrame DEF OnlyKilled
<1>2. ClusterPorts'
  <2> SUFFICES ASSUME NEW x \in Starts, NEW q \in Starts, pc'[x] = "cluster", q # x,
                      leader'[q] = leader'[x], Alive(cluster'[q])
               PROVE  clusterPort'[q] # clusterPort'[x]
    BY DEF ClusterPorts
  <2>1. CASE SpawnCluster(s)
    <3>1. pc[s] = "place" /\ leader' = leader
      BY <2>1 DEF SpawnCluster
    <3>2. x = s
      BY <1>0, <1>1, <3>1 DEF Alone, Starting
    <3>3. clusterPort'[s] = FreeClusterPort(leader[s])
      BY <1>t, <2>1, <3>2 DEF SpawnCluster, Unwind
    <3>4. pc[q] \notin Starting
      BY <1>0, <3>1, <3>2 DEF Alone, Starting
    <3>5. cluster[q] = "healthy"
      BY <1>0, <1>1, <3>2, <3>4 DEF ClusterUp, Alive, Starting
    <3>6. cluster[s] # "healthy" /\ leader[s] \in Nodes
      BY <3>1 DEF Shaped, Shape, Placing
    <3>7. ~ClusterAnswers(leader[s], FreeClusterPort(leader[s]))
      BY <3>6, ClusterPortFree
    <3> QED BY <1>1, <3>1, <3>2, <3>3, <3>5, <3>7 DEF ClusterAnswers
  <2>2. CASE ~SpawnCluster(s)
    <3>1. clusterPort' = clusterPort /\ Alive(cluster[q]) /\ pc[x] = "cluster"
      BY <1>1, <2>2, ClusterFrame
    <3>2. leader[q] = leader[x]
      <4>1. CASE q = s
        BY <1>1, <2>2, <4>1, ClusterFrame DEF Alive
      <4>2. CASE x = s
        <5>1. \A n \in Nodes : ~Begin(s, n)
          BY <3>1, <4>2 DEF Begin
        <5>2. leader' = leader
          BY <5>1, HandleLocal DEF StepOf, StopModel, ClusterLoads, Serve, StartWorker,
                 WorkerUp, WorkerNotUp, StopWorker, WorkerLoads
        <5> QED BY <5>2
      <4> QED BY <1>1, <4>1, <4>2
    <3> QED BY <1>0, <3>1, <3>2 DEF ClusterPorts
  <2> QED BY <2>1, <2>2
<1>3. ClusterUp'
  <2>1. ASSUME NEW q \in Starts, q # s
        PROVE  /\ cluster'[q] = "starting" => pc'[q] = "cluster"
               /\ OnList(q)' /\ daemon'[leader'[q]] = "up" => cluster'[q] = "healthy"
    <3>1. OnList(q)' => OnList(q)
      <4>1. pc[q] = "answered" => leader[q] \in Nodes
        BY DEF Shaped, Shape
      <4> QED BY <1>1, <2>1, <4>1, OthersListed DEF OnList
    <3> QED BY <1>0, <1>1, <2>1, <3>1 DEF ClusterUp
  <2>2. cluster'[s] = "starting" => pc'[s] = "cluster"
    <3> SUFFICES ASSUME cluster'[s] = "starting" PROVE pc'[s] = "cluster"
      OBVIOUS
    <3>1. CASE SpawnCluster(s)
      <4>1. cluster[s] = "none"
        BY <3>1 DEF SpawnCluster, Shaped, Shape, Placing
      <4> QED BY <1>t, <3>1, <4>1 DEF SpawnCluster
    <3>2. CASE ~SpawnCluster(s)
      <4>1. cluster[s] = "starting" /\ pc[s] = "cluster"
        BY <1>0, <3>2, ClusterFrame DEF ClusterUp
      <4>2. ~Record(s)
        BY <1>0, <4>1, ClusterAnswersItself DEF Record
      <4>3. ~ClusterNotUp(s)
        BY <1>t, <4>1 DEF ClusterNotUp, Kill, Alive
      <4>4. pc'[s] = pc[s]
        <5>1. ~Handle(s)
          BY <4>1, <4>2, <4>3 DEF Handle, CountOwn, Decide, SpawnLocal, LocalHealthy,
             LocalUnhealthy, CallWorker, CalledOk, CalledFailed, GiveUp, SpawnCluster,
             UnwindLocal, UnwindNext, UnwindEnd, CountPeer,
             CountPeerFails, FindPort, UnwindUnknown, UnwindCall
        <5> QED BY <4>1, <5>1 DEF StepOf, StopModel, ClusterLoads, Begin, Serve, StartWorker,
                   WorkerUp, WorkerNotUp, StopWorker, WorkerLoads
      <4> QED BY <4>1, <4>4
    <3> QED BY <3>1, <3>2
  <2>3. OnList(s)' /\ daemon'[leader'[s]] = "up" => cluster'[s] = "healthy"
    <3> SUFFICES ASSUME OnList(s)', daemon[leader'[s]] = "up" PROVE cluster'[s] = "healthy"
      BY <1>0
    <3>1. CASE Record(s)
      BY <1>0, <3>1, ClusterAnswersItself DEF Record
    <3>2. CASE ~Record(s)
      <4>1. ~StopModel(s)
        BY <1>t DEF StopModel, OnList
      <4>2. running' = running
        BY <3>2, <4>1, ListFrame
      <4>3. ~Handle(s)
        BY <3>2, HandleNotAnswered DEF OnList
      <4>4. \A n \in Nodes : ~Begin(s, n)
        BY <1>t DEF Begin, OnList
      <4>5. pc' = pc /\ leader' = leader
            /\ (cluster[s] = "healthy" => cluster'[s] = "healthy")
        BY <1>t, <4>1, <4>3, <4>4 DEF StepOf, ClusterLoads, Serve, StartWorker,
                   WorkerUp, WorkerNotUp, StopWorker, WorkerLoads
      <4> QED BY <1>0, <4>2, <4>5 DEF OnList, ClusterUp
    <3> QED BY <3>1, <3>2
  <2> QED BY <2>1, <2>2, <2>3 DEF ClusterUp
<1> QED
  BY <1>2, <1>3

\* A daemon that ends kills on its own node, and elsewhere what it had left to
\* stop.
LEMMA DaemonKillsOwn ==
  ASSUME TypeOK, InOrder, Whole, ~disturbed', NEW n \in Nodes, DaemonStep(n),
         NEW q \in Starts, NEW k \in Nodes, daemon'[k] = "up"
  PROVE  \/ worker'[q][k] = worker[q][k]
         \/ <<q, k>> \in toStop[n] /\ <<q, k>> \notin toStop'[n]
<1> USE DEF planVars, loopVars, callVars, workerVars, clusterVars, peerVars, daemonVars
<1>t. /\ worker \in [Starts -> [Nodes -> ProcessStates]]
      /\ toStop \in [Nodes -> SUBSET (Starts \X Nodes)]
      /\ daemon \in [Nodes -> {"up", "stopping", "draining", "leaving", "exited"}]
  BY DEF TypeOK
<1>1. CASE worker' = worker
  BY <1>1
<1>2. ASSUME NEW s \in Starts, NEW m \in Nodes, StopAtPeer(n, s, m)
      PROVE  \/ worker'[q][k] = worker[q][k]
             \/ <<q, k>> \in toStop[n] /\ <<q, k>> \notin toStop'[n]
  <2>1. /\ StopOnPort(m, port[s][m]) /\ daemon' = daemon
        /\ <<s, m>> \in toStop[n] /\ toStop' = [toStop EXCEPT ![n] = @ \ {<<s, m>>}]
    BY <1>2 DEF StopAtPeer
  <2>2. CASE m # k
    BY <1>t, <2>1, <2>2 DEF StopOnPort
  <2>3. CASE m = k
    <3>1. worker[s][k] = "healthy"
      BY <2>1, <2>3 DEF Whole, StillToStop, Runs
    <3>2. workerPids[k][port[s][k]] = s
      BY <3>1 DEF InOrder, Named, Alive
    <3>3. q # s => worker'[q][k] = worker[q][k]
      BY <1>t, <2>1, <2>3, <3>2, NodeAssumption DEF StopOnPort
    <3> QED BY <1>t, <2>1, <2>3, <3>3
  <2> QED BY <2>2, <2>3
<1>3. ASSUME NEW d, d # "up", KillChildren(n, d) PROVE worker'[q][k] = worker[q][k]
  <2>1. k # n
    BY <1>t, <1>3 DEF KillChildren
  <2> QED BY <1>3, <2>1, KillsAll
<1> QED
  BY <1>1, <1>2, <1>3 DEF DaemonStep, Stop, Expire, Beacon, Signal, Drained, TakeRunning

\* What the end of a daemon leaves of calls and lists.
LEMMA DaemonFrame ==
  ASSUME TypeOK, NEW n \in Nodes, DaemonStep(n)
  PROVE  /\ pc' = pc /\ planVars' = planVars /\ loopVars' = loopVars
         /\ startCall' = startCall /\ clusterPort' = clusterPort
         /\ \A m \in Nodes : /\ running'[m] = running[m] \/ running'[m] = {}
                             /\ daemon'[m] = "up" => daemon[m] = "up"
         /\ \A q \in Starts : \/ cluster'[q] = cluster[q]
                              \/ /\ ~Alive(cluster'[q])
                                 /\ leader[q] = n /\ daemon'[n] # "up"
<1> USE DEF planVars, loopVars, callVars, workerVars, clusterVars, peerVars, daemonVars
<1>t. /\ cluster \in [Starts -> ProcessStates] /\ running \in [Nodes -> SUBSET Starts]
      /\ daemon \in [Nodes -> {"up", "stopping", "draining", "leaving", "exited"}]
  BY DEF TypeOK
<1>1. ASSUME NEW m \in Nodes, Expire(n, m) \/ Beacon(n, m)
      PROVE  UNCHANGED <<pc, planVars, loopVars, callVars, clusterVars, daemon>>
  BY <1>1 DEF Expire, Beacon
<1>2. CASE Signal(n) \/ Drained(n)
  BY <1>t, <1>2 DEF Signal, Drained, TakeRunning
<1>3. ASSUME NEW s \in Starts, NEW m \in Nodes, StopAtPeer(n, s, m)
      PROVE  UNCHANGED <<pc, planVars, loopVars, startCall, clusterVars, daemon>>
  BY <1>3 DEF StopAtPeer
<1>4. ASSUME NEW d, d # "up", KillChildren(n, d)
      PROVE  /\ UNCHANGED <<pc, planVars, loopVars, callVars, clusterPort, running>>
             /\ daemon' = [daemon EXCEPT ![n] = d]
             /\ \A q \in Starts : \/ cluster'[q] = cluster[q]
                                  \/ ~Alive(cluster'[q]) /\ leader[q] = n
  <2>1. \A x \in ProcessStates : ~Alive(Kill(x))
    BY KillFacts
  <2> QED BY <1>t, <1>4, <2>1 DEF KillChildren
<1>5. CASE daemon[n] = "stopping" /\ KillChildren(n, "draining")
  BY <1>t, <1>4, <1>5
<1>6. CASE daemon[n] = "leaving" /\ KillChildren(n, "exited")
  BY <1>t, <1>4, <1>6
<1> QED
  BY <1>1, <1>2, <1>3, <1>5, <1>6 DEF DaemonStep, Stop

\* A cluster of daemons that are up is not touched by the end of another.
LEMMA WholeDaemonStep ==
  ASSUME TypeOK, Shaped, EndInv, InOrder, Whole, ~disturbed', NEW n \in Nodes, DaemonStep(n)
  PROVE  Whole'
<1>0. /\ pc' = pc /\ leader' = leader /\ parts' = parts /\ todo' = todo /\ at' = at
      /\ workers' = workers /\ startCall' = startCall /\ clusterPort' = clusterPort
  BY DaemonFrame DEF planVars, loopVars
<1>1. \A m \in Nodes : /\ running'[m] = running[m] \/ running'[m] = {}
                       /\ daemon'[m] = "up" => daemon[m] = "up"
  BY DaemonFrame
<1>2. \A q \in Starts : \/ cluster'[q] = cluster[q]
                        \/ /\ ~Alive(cluster'[q])
                           /\ leader[q] = n /\ daemon'[n] # "up"
  BY DaemonFrame
<1>3. stopCall' = stopCall
  BY DEF DaemonStep, Expire, Beacon, Signal, Stop, TakeRunning, Drained, StopAtPeer,
         KillChildren, callVars
<1>l. \A q \in Starts : pc[q] = "answered" => leader[q] \in Nodes
  BY DEF Shaped, Shape
<1>4. \A q \in Starts : OnList(q)' => OnList(q)
  BY <1>0, <1>1, <1>l DEF OnList
<1>5. \A q \in Starts, k \in Nodes :
         Runs(q, k) => Runs(q, k)' \/ (<<q, k>> \in toStop[n] /\ <<q, k>> \notin toStop'[n])
  BY <1>1, DaemonKillsOwn DEF Runs
<1>6. \A q \in Starts : Listed(q)'
  BY <1>0 DEF Whole, Listed
<1>7. Ready'
  <2> SUFFICES ASSUME NEW q \in Starts, NEW k \in Nodes, Due(q, k)' PROVE Runs(q, k)'
    BY DEF Ready
  <2>1. Due(q, k)
    BY <1>0, <1>3, <1>4 DEF Due
  <2>2. <<q, k>> \notin toStop[n]
    <3>1. <<q, k>> \in toStop[n] => pc[q] = "answered" /\ ~OnList(q)
      BY DEF Whole, StillToStop, OnList
    <3> QED BY <2>1, <3>1 DEF Due, Starting, Unwinding
  <2> QED BY <1>5, <2>1, <2>2 DEF Whole, Ready
<1>8. StillToStop'
  <2> SUFFICES ASSUME NEW l \in Nodes, NEW q \in Starts, NEW k \in Nodes,
                      <<q, k>> \in toStop'[l]
               PROVE  /\ pc[q] = "answered" /\ leader[q] = l /\ q \notin running'[l]
                      /\ Runs(q, k)'
    BY <1>0 DEF StillToStop
  <2>1. CASE <<q, k>> \in toStop[l]
    <3>1. pc[q] = "answered" /\ leader[q] = l /\ q \notin running[l] /\ Runs(q, k)
      BY <2>1 DEF Whole, StillToStop
    <3>2. <<q, k>> \in toStop[n] => l = n
      BY <3>1 DEF Whole, StillToStop
    <3> QED BY <1>1, <1>5, <3>1, <3>2
  <2>2. CASE <<q, k>> \notin toStop[l]
    <3>1. \E d : TakeRunning(n, d)
      <4>1. toStop \in [Nodes -> SUBSET (Starts \X Nodes)]
        BY DEF TypeOK
      <4> QED BY <2>2, <4>1 DEF DaemonStep, Expire, Beacon, Stop, StopAtPeer, KillChildren,
                                Signal, Drained, peerVars, daemonVars
    <3>2. /\ toStop' = [toStop EXCEPT ![n] =
                          {x \in running[n] \X (Nodes \ {n}) : x[2] \in workers[x[1]]}]
          /\ running' = [running EXCEPT ![n] = {}] /\ worker' = worker
      BY <3>1 DEF TakeRunning, workerVars
    <3>3. l = n /\ q \in running[n] /\ k \in workers[q] /\ q \notin running'[n]
      BY <2>2, <3>2 DEF TypeOK
    <3>4. pc[q] = "answered" /\ leader[q] = n
      BY <3>3 DEF EndInv, Recorded
    <3>5. Runs(q, k)
      BY <3>3, <3>4 DEF Whole, Ready, Due, OnList
    <3> QED BY <1>1, <3>2, <3>3, <3>4, <3>5 DEF Runs
  <2> QED BY <2>1, <2>2
<1>9. ClusterPorts'
  BY <1>0, <1>2 DEF Whole, ClusterPorts
<1>10. ClusterUp'
  BY <1>0, <1>1, <1>2, <1>4, <1>l DEF Whole, ClusterUp, OnList, Alive
<1> QED
  BY <1>6, <1>7, <1>8, <1>9, <1>10 DEF Whole

WholeInv == OrphanInv /\ (~disturbed => Whole)

\* No cluster runs at the start.
LEMMA InitWhole == Init => WholeInv
<1> SUFFICES ASSUME Init PROVE WholeInv
  OBVIOUS
<1>1. OrphanInv
  BY InitOrphan
<1>2. Whole
  BY DEF Init, Whole, Listed, OnList, Due, Runs, Ready, StillToStop, ClusterPorts, ClusterUp,
         Alive, Starting, Unwinding, Placing
<1> QED
  BY <1>1, <1>2 DEF WholeInv

\* Every step keeps running clusters whole.
LEMMA WholeStep == WholeInv /\ [Next]_vars => WholeInv'
<1> SUFFICES ASSUME WholeInv, [Next]_vars PROVE WholeInv'
  OBVIOUS
<1>0. OrphanInv' /\ OrphanInv /\ (~disturbed => Whole)
  BY OrphanStep DEF WholeInv
<1>1. ASSUME NEW s \in Starts, StepOf(s), ~disturbed' PROVE Whole'
  <2>1. TypeOK /\ Shaped /\ InOrder /\ Whole
    BY <1>0, <1>1, StaysDisturbed DEF OrphanInv, Calm
  <2>2. \A q \in Starts : Listed(q)'
    <3>1. ASSUME NEW q \in Starts, q # s PROVE Listed(q)'
      <4>1. /\ pc'[q] = pc[q] /\ todo'[q] = todo[q] /\ workers'[q] = workers[q]
            /\ parts'[q] = parts[q] /\ leader'[q] = leader[q]
        BY <1>1, <2>1, <3>1, OthersOnlyKilled, OthersParts DEF OnlyKilled
      <4> QED BY <2>1, <4>1 DEF Whole, Listed
    <3>2. Listed(s)'
      BY <1>1, <2>1, ListedStep DEF Whole
    <3> QED BY <3>1, <3>2
  <2> QED BY <1>1, <2>1, <2>2, ReadyStep, ClusterStep DEF Whole
<1>2. ASSUME NEW n \in Nodes, DaemonStep(n), ~disturbed' PROVE Whole'
  BY <1>0, <1>2, StaysDisturbed, WholeDaemonStep DEF OrphanInv, Calm
<1>3. CASE UNCHANGED vars
  BY <1>0, <1>3 DEF WholeInv, vars, planVars, loopVars, callVars, workerVars, clusterVars,
       peerVars, daemonVars, Whole, Listed, OnList, Due, Runs, Ready, StillToStop,
       ClusterPorts, ClusterUp
<1> QED
  BY <1>0, <1>1, <1>2, <1>3, StepCases DEF WholeInv

\* A cluster on the list of its daemon has its process, and on every
\* participant a worker which alone answers on its port and which worker_pids_
\* names, as long as calls do not overlap, peers answer and none of its daemons
\* is being stopped.
THEOREM ClustersAreWhole == Spec => []ClusterWhole
<1>1. WholeInv => ClusterWhole
  <2> SUFFICES ASSUME WholeInv, ~disturbed, NEW l \in Nodes, NEW s \in running[l],
                      \A n \in parts[s] : daemon[n] = "up"
               PROVE  /\ cluster[s] = "healthy"
                      /\ \A n \in parts[s] :
                            /\ n \in workers[s]
                            /\ workerPids[n][port[s][n]] = s
                            /\ {q \in Starts : /\ worker[q][n] = "healthy"
                                               /\ port[q][n] = port[s][n]} = {s}
    BY DEF ClusterWhole
  <2>0. TypeOK /\ EndInv /\ InOrder /\ Whole
    BY DEF WholeInv, OrphanInv, Calm
  <2>1. s \in Starts /\ pc[s] = "answered" /\ leader[s] = l /\ OnList(s)
    BY <2>0 DEF TypeOK, EndInv, Recorded, OnList
  <2>2. l \in parts[s] /\ parts[s] \subseteq workers[s] /\ parts[s] \subseteq Nodes
    BY <2>0, <2>1 DEF Whole, Listed, TypeOK
  <2>3. cluster[s] = "healthy"
    BY <2>0, <2>1, <2>2 DEF Whole, ClusterUp
  <2>4. ASSUME NEW n \in parts[s]
        PROVE  /\ n \in workers[s]
               /\ workerPids[n][port[s][n]] = s
               /\ {q \in Starts : /\ worker[q][n] = "healthy"
                                  /\ port[q][n] = port[s][n]} = {s}
    <3>1. n \in workers[s] /\ n \in Nodes
      BY <2>2
    <3>2. worker[s][n] = "healthy"
      BY <2>0, <2>1, <3>1 DEF Whole, Ready, Due, Runs
    <3>3. \A q \in Starts : worker[q][n] = "healthy" => workerPids[n][port[q][n]] = q
      BY <2>0, <3>1 DEF InOrder, Named, Alive
    <3> QED BY <2>1, <3>1, <3>2, <3>3
  <2> QED BY <2>3, <2>4
<1> QED
  BY <1>1, InitWhole, WholeStep, PTL DEF Spec

-----------------------------------------------------------------------------
(* The budget.                                                             *)

\* The clusters on lists, and those among them of daemons outside T.
OnLists == {q \in Starts : OnList(q)}
OnListsBut(T) == {q \in OnLists : leader[q] \notin T}

\* What a call has counted, and what it goes on with after the comparison.
Counted(s) ==
    /\ pc[s] = "own" => todo[s] = Nodes \ {leader[s]}
    /\ pc[s] = "count" => Cardinality(OnListsBut(todo[s])) <= count[s]
    /\ pc[s] \in Placing \cup {"cluster"} => Cardinality(OnLists) < maxClusters

Budget == Cardinality(OnLists) <= maxClusters /\ \A s \in Starts : Counted(s)

\* Sets of calls are finite, and a subset has no more members.
LEMMA CallSets ==
  ASSUME NEW S, S \subseteq Starts, NEW T, T \subseteq S
  PROVE  /\ IsFiniteSet(S) /\ IsFiniteSet(T)
         /\ Cardinality(S) \in Nat /\ Cardinality(T) \in Nat
         /\ Cardinality(T) <= Cardinality(S)
<1>1. IsFiniteSet(S)
  BY NodeAssumption, FS_Subset
<1>2. IsFiniteSet(T) /\ Cardinality(T) <= Cardinality(S)
  BY <1>1, FS_Subset
<1> QED
  BY <1>1, <1>2, FS_CardinalityType

\* Two sets have no more members together than apart.
LEMMA CallUnion ==
  ASSUME NEW S, S \subseteq Starts, NEW T, T \subseteq Starts, NEW U, U \subseteq S \cup T
  PROVE  Cardinality(U) <= Cardinality(S) + Cardinality(T)
<1>1. IsFiniteSet(S) /\ IsFiniteSet(T) /\ S \cup T \subseteq Starts /\ S \cap T \subseteq Starts
  BY CallSets
<1>2. Cardinality(S \cup T) = Cardinality(S) + Cardinality(T) - Cardinality(S \cap T)
  BY <1>1, FS_Union
<1>3. Cardinality(U) <= Cardinality(S \cup T) /\ Cardinality(U) \in Nat
      /\ Cardinality(S \cup T) \in Nat /\ Cardinality(S \cap T) \in Nat
      /\ Cardinality(S) \in Nat /\ Cardinality(T) \in Nat
  BY <1>1, CallSets
<1> QED
  BY <1>2, <1>3

\* With fewer clusters on the lists the budget is still kept.
LEMMA FewerCounted ==
  ASSUME TypeOK, TypeOK', NEW q \in Starts, Counted(q), OnLists' \subseteq OnLists,
         \A x \in OnLists' : leader'[x] = leader[x],
         maxClusters' = maxClusters,
         pc'[q] \in {"own", "count"} => /\ pc'[q] = pc[q] /\ leader'[q] = leader[q]
                                        /\ todo'[q] = todo[q] /\ count'[q] = count[q],
         pc'[q] \in Placing \cup {"cluster"} => pc[q] \in Placing \cup {"cluster"}
  PROVE  Counted(q)'
<1>0. OnLists \subseteq Starts /\ \A T : OnListsBut(T) \subseteq OnLists
  BY DEF OnLists, OnListsBut
<1>1. (pc[q] = "own" => todo[q] = Nodes \ {leader[q]})'
  BY DEF Counted
<1>2. (pc[q] = "count" => Cardinality(OnListsBut(todo[q])) <= count[q])'
  <2> SUFFICES ASSUME pc'[q] = "count"
               PROVE  Cardinality(OnListsBut(todo[q])') <= count'[q]
    OBVIOUS
  <2>1. OnListsBut(todo[q])' \subseteq OnListsBut(todo[q])
    BY DEF OnListsBut
  <2>2. Cardinality(OnListsBut(todo[q])) <= count[q] /\ count[q] \in Nat
    BY DEF Counted, TypeOK
  <2>3. OnListsBut(todo[q]) \subseteq Starts
    BY <1>0
  <2>4. /\ Cardinality(OnListsBut(todo[q])') <= Cardinality(OnListsBut(todo[q]))
        /\ Cardinality(OnListsBut(todo[q])') \in Nat
        /\ Cardinality(OnListsBut(todo[q])) \in Nat
    BY <2>1, <2>3, CallSets
  <2> QED BY <2>2, <2>4
<1>3. (pc[q] \in Placing \cup {"cluster"} => Cardinality(OnLists) < maxClusters)'
  <2> SUFFICES ASSUME pc'[q] \in Placing \cup {"cluster"}
               PROVE  Cardinality(OnLists') < maxClusters
    BY DEF Placing
  <2>1. Cardinality(OnLists) < maxClusters /\ maxClusters \in Nat
    BY NodeAssumption DEF Counted, TypeOK
  <2>2. /\ Cardinality(OnLists') <= Cardinality(OnLists)
        /\ Cardinality(OnLists') \in Nat /\ Cardinality(OnLists) \in Nat
    BY <1>0, CallSets
  <2> QED BY <2>1, <2>2
<1> QED
  BY <1>1, <1>2, <1>3 DEF Counted

\* Only a handler counts, and only for its own call; nobody sets the budget.
LEMMA CountFrame ==
  ASSUME TypeOK, NEW s \in Starts, StepOf(s)
  PROVE  maxClusters' = maxClusters /\ \A q \in Starts : q # s => count'[q] = count[q]
<1> USE DEF planVars, peerVars
<1>1. CASE CountOwn(s) \/ \E n \in Nodes : CountPeer(s, n)
  BY <1>1 DEF CountOwn, CountPeer, TypeOK
<1>2. CASE ~CountOwn(s) /\ ~\E n \in Nodes : CountPeer(s, n)
  BY <1>2 DEF StepOf, Handle, Decide, SpawnLocal, LocalHealthy,
        LocalUnhealthy, CallWorker, CalledOk, CalledFailed, GiveUp, SpawnCluster,
        Record, ClusterNotUp, UnwindLocal, UnwindNext, UnwindEnd, CountPeerFails,
        FindPort, UnwindUnknown, UnwindCall, StopModel, ClusterLoads, Begin,
        Serve, StartWorker, WorkerUp, WorkerNotUp, StopWorker, WorkerLoads
<1> QED
  BY <1>1, <1>2

\* The steps up to the comparison are the only ones at which a call counts.
LEMMA CountCases ==
  ASSUME TypeOK, NEW s \in Starts, StepOf(s)
  PROVE  \/ \E n \in Nodes : Begin(s, n) \/ CountPeer(s, n) \/ CountPeerFails(s, n)
         \/ CountOwn(s) \/ Decide(s)
         \/ /\ pc'[s] \in {"own", "count"} =>
                  /\ pc'[s] = pc[s] /\ leader'[s] = leader[s]
                  /\ todo'[s] = todo[s] /\ count'[s] = count[s]
            /\ pc'[s] \in Placing \cup {"cluster"} => pc[s] \in Placing \cup {"cluster"}
<1> USE DEF planVars, loopVars, Placing
<1> DEFINE Later == /\ pc'[s] \in {"own", "count"} =>
                          /\ pc'[s] = pc[s] /\ leader'[s] = leader[s]
                          /\ todo'[s] = todo[s] /\ count'[s] = count[s]
                    /\ pc'[s] \in Placing \cup {"cluster"} =>
                          pc[s] \in Placing \cup {"cluster"}
<1>t. /\ pc \in [Starts -> {"new"} \cup Starting \cup Unwinding \cup Ended]
      /\ outcome[s] \in {"failed", "stopped"}
  BY DEF TypeOK
<1>1. CASE SpawnLocal(s) \/ LocalHealthy(s) \/ LocalUnhealthy(s) \/ CallWorker(s)
           \/ CalledOk(s) \/ CalledFailed(s) \/ GiveUp(s)
  BY <1>t, <1>1 DEF SpawnLocal, LocalHealthy, LocalUnhealthy, CallWorker, CalledOk,
                    CalledFailed, GiveUp, Placed, Unwind
<1>2. CASE SpawnCluster(s) \/ Record(s) \/ ClusterNotUp(s) \/ StopModel(s)
           \/ UnwindLocal(s) \/ UnwindNext(s) \/ UnwindEnd(s)
  BY <1>t, <1>2 DEF SpawnCluster, Record, ClusterNotUp, StopModel, UnwindLocal, UnwindNext,
                    UnwindEnd, Unwind
<1>3. ASSUME NEW n \in Nodes, FindPort(s, n) \/ UnwindUnknown(s, n) \/ UnwindCall(s, n)
             \/ Serve(s, n) \/ WorkerLoads(s, n) \/ ClusterLoads(s)
      PROVE  Later
  BY <1>t, <1>3 DEF FindPort, UnwindUnknown, UnwindCall, Serve, StartWorker, WorkerUp,
           WorkerNotUp, StopWorker, WorkerLoads, ClusterLoads
<1> QED
  BY <1>1, <1>2, <1>3, StepOfCases DEF Handle

\* No step but a record puts a cluster on a list.
LEMMA OnListsShrink ==
  ASSUME TypeOK, Shaped, NEW s \in Starts, StepOf(s), ~Record(s)
  PROVE  OnLists' \subseteq OnLists /\ \A x \in OnLists' : leader'[x] = leader[x]
<1> SUFFICES ASSUME NEW x \in Starts, OnList(x)'
             PROVE  OnList(x) /\ leader'[x] = leader[x]
  BY DEF OnLists
<1>l. pc[x] = "answered" => leader[x] \in Nodes
  BY DEF Shaped, Shape
<1>1. CASE x # s
  <2>1. pc'[x] = pc[x] /\ leader'[x] = leader[x]
    BY <1>1, OthersOnlyKilled DEF OnlyKilled
  <2> QED BY <1>l, <1>1, <2>1, OthersListed DEF OnList
<1>2. CASE x = s
  <2>t. pc \in [Starts -> {"new"} \cup Starting \cup Unwinding \cup Ended]
    BY DEF TypeOK
  <2>1. ~StopModel(s) /\ \A n \in Nodes : ~Begin(s, n)
    BY <1>2, <2>t DEF StopModel, Begin, OnList
  <2>2. ~Handle(s)
    BY <1>2, HandleNotAnswered DEF OnList
  <2>3. running' = running
    BY <2>1, ListFrame
  <2>4. pc' = pc /\ leader' = leader
    BY <2>1, <2>2 DEF StepOf, ClusterLoads, Serve, StartWorker, WorkerUp, WorkerNotUp,
                      StopWorker, WorkerLoads, planVars
  <2> QED BY <1>2, <2>3, <2>4 DEF OnList
<1> QED
  BY <1>1, <1>2

\* A call that goes on after the comparison is the only one, so that the
\* cluster it records is within the budget.
LEMMA BudgetStepOf ==
  ASSUME TypeOK, TypeOK', Shaped, EndInv, InOrder, Budget, ~disturbed',
         NEW s \in Starts, StepOf(s)
  PROVE  Budget'
<1> USE DEF planVars, loopVars, clusterVars
<1>t. /\ pc \in [Starts -> {"new"} \cup Starting \cup Unwinding \cup Ended]
      /\ leader \in [Starts -> Nodes \cup {None}] /\ todo \in [Starts -> SUBSET Nodes]
      /\ count \in [Starts -> Nat] /\ running \in [Nodes -> SUBSET Starts]
      /\ maxClusters \in Nat
  BY NodeAssumption DEF TypeOK
<1>0. /\ Cardinality(OnLists) <= maxClusters /\ (\A q \in Starts : Counted(q))
      /\ maxClusters' = maxClusters /\ OnLists \subseteq Starts
      /\ \A T : OnListsBut(T) \subseteq Starts
  BY CountFrame DEF Budget, OnLists, OnListsBut
<1>1. \A q \in Starts : q # s => /\ pc'[q] = pc[q] /\ leader'[q] = leader[q]
                                 /\ todo'[q] = todo[q] /\ count'[q] = count[q]
  BY OthersOnlyKilled, CountFrame DEF OnlyKilled
<1>2. CASE Record(s)
  <2>1. /\ pc[s] = "cluster" /\ pc' = [pc EXCEPT ![s] = "answered"] /\ leader' = leader
        /\ running' = [running EXCEPT ![leader[s]] = @ \cup {s}]
    BY <1>2 DEF Record
  <2>2. OnLists' \subseteq OnLists \cup {s}
    <3>1. \A q \in Starts \ {s} : OnList(q)' => OnList(q)
      <4>1. \A q \in Starts : pc[q] = "answered" => leader[q] \in Nodes
        BY DEF Shaped, Shape
      <4> QED BY <1>t, <2>1, <4>1 DEF OnList
    <3> QED BY <3>1 DEF OnLists
  <2>3. Cardinality(OnLists) < maxClusters
    BY <1>0, <2>1 DEF Counted
  <2>4. Cardinality(OnLists') <= Cardinality(OnLists) + Cardinality({s})
    BY <1>0, <2>2, CallUnion
  <2>5. Cardinality({s}) = 1
    BY FS_Singleton
  <2>6. OnLists' \subseteq Starts
    BY <2>2, <1>0
  <2>7. Cardinality(OnLists') <= maxClusters
    BY <1>0, <1>t, <2>3, <2>4, <2>5, <2>6, CallSets
  <2>8. \A q \in Starts : pc'[q] \notin Starting
    <3>1. \A q \in Starts : q # s => pc[q] \notin Starting
      BY <2>1 DEF InOrder, Alone, Starting
    <3> QED BY <1>t, <2>1, <3>1 DEF Starting
  <2> QED BY <1>0, <2>7, <2>8 DEF Budget, Counted, Starting, Placing
<1>3. CASE ~Record(s)
  <2>1. OnLists' \subseteq OnLists /\ \A x \in OnLists' : leader'[x] = leader[x]
    BY <1>3, OnListsShrink
  <2>2. Cardinality(OnLists') <= maxClusters
    <3>1. /\ Cardinality(OnLists') <= Cardinality(OnLists)
          /\ Cardinality(OnLists') \in Nat /\ Cardinality(OnLists) \in Nat
      BY <1>0, <2>1, CallSets
    <3> QED BY <1>0, <1>t, <3>1
  <2>3. \A q \in Starts : q # s => Counted(q)'
    BY <1>0, <1>1, <2>1, FewerCounted
  <2>4. Counted(s)'
    <3>1. ASSUME NEW n \in Nodes, Begin(s, n) PROVE Counted(s)'
      <4>1. peers[n] = Nodes \ {n}
        BY DEF InOrder, Known
      <4>2. leader'[s] = n
        BY <1>t, <3>1 DEF Begin
      <4>3. \/ pc'[s] = "refused"
            \/ pc'[s] = "own" /\ todo'[s] = peers[n]
        BY <1>t, <3>1 DEF Begin
      <4> QED BY <4>1, <4>2, <4>3 DEF Counted, Placing
    <3>2. CASE CountOwn(s)
      <4>1. /\ pc[s] = "own" /\ pc'[s] = "count" /\ leader' = leader /\ todo' = todo
            /\ count'[s] = Cardinality(running[leader[s]])
        BY <1>t, <3>2 DEF CountOwn
      <4>2. OnListsBut(todo[s])' \subseteq running[leader[s]]
        <5>1. todo[s] = Nodes \ {leader[s]}
          BY <1>0, <4>1 DEF Counted
        <5>2. \A x \in OnLists' : leader[x] \in Nodes /\ x \in running[leader[x]]
          BY <2>1 DEF OnLists, OnList, Shaped, Shape
        <5> QED BY <4>1, <5>1, <5>2 DEF OnListsBut
      <4>3. running[leader[s]] \subseteq Starts
        <5>1. leader[s] \in Nodes
          BY <4>1 DEF Shaped, Shape
        <5> QED BY <1>t, <5>1
      <4>4. Cardinality(OnListsBut(todo[s])') <= count'[s]
        BY <4>1, <4>2, <4>3, CallSets
      <4> QED BY <4>1, <4>4 DEF Counted, Placing
    <3>3. ASSUME NEW n \in Nodes, CountPeer(s, n) PROVE Counted(s)'
      <4>1. /\ pc[s] = "count" /\ pc' = pc /\ leader' = leader
            /\ todo'[s] = todo[s] \ {n}
            /\ count'[s] = count[s] + Cardinality(running[n])
        BY <1>t, <3>3 DEF CountPeer
      <4>2. OnListsBut(todo[s])' \subseteq OnListsBut(todo[s]) \cup running[n]
        <5>1. \A x \in OnLists' : x \in OnLists /\ x \in running[leader[x]]
          BY <2>1 DEF OnLists, OnList
        <5> QED BY <4>1, <5>1 DEF OnListsBut
      <4>3. OnListsBut(todo[s]) \subseteq Starts /\ running[n] \subseteq Starts
        BY <1>0, <1>t
      <4>4. Cardinality(OnListsBut(todo[s])')
              <= Cardinality(OnListsBut(todo[s])) + Cardinality(running[n])
        BY <4>2, <4>3, CallUnion
      <4>5. Cardinality(OnListsBut(todo[s])) <= count[s]
        BY <1>0, <4>1 DEF Counted
      <4>6. /\ Cardinality(OnListsBut(todo[s])) \in Nat /\ Cardinality(running[n]) \in Nat
            /\ count[s] \in Nat
        BY <1>t, <4>3, CallSets
      <4>7. OnListsBut(todo[s])' \subseteq Starts
        BY <4>2, <4>3
      <4>8. Cardinality(OnListsBut(todo[s])') \in Nat
        BY <4>7, CallSets
      <4>9. Cardinality(OnListsBut(todo[s])') <= count'[s]
        BY <4>1, <4>4, <4>5, <4>6, <4>8
      <4> QED BY <4>1, <4>9 DEF Counted, Placing
    <3>4. ASSUME NEW n \in Nodes, CountPeerFails(s, n) PROVE Counted(s)'
      BY <3>4 DEF CountPeerFails
    <3>5. CASE Decide(s)
      <4>1. /\ pc[s] = "count" /\ todo[s] = {}
            /\ pc'[s] = "refused" \/ (pc'[s] = "place" /\ count[s] < maxClusters)
        BY <1>t, <3>5 DEF Decide
      <4>2. OnListsBut({}) = OnLists
        BY DEF OnListsBut
      <4>3. Cardinality(OnLists) <= count[s]
        BY <1>0, <4>1, <4>2 DEF Counted
      <4>4. /\ Cardinality(OnLists') <= Cardinality(OnLists)
            /\ Cardinality(OnLists') \in Nat /\ Cardinality(OnLists) \in Nat
        BY <1>0, <2>1, CallSets
      <4> QED BY <1>0, <1>t, <4>1, <4>3, <4>4 DEF Counted, Placing
    <3>6. CASE /\ pc'[s] \in {"own", "count"} =>
                     /\ pc'[s] = pc[s] /\ leader'[s] = leader[s]
                     /\ todo'[s] = todo[s] /\ count'[s] = count[s]
               /\ pc'[s] \in Placing \cup {"cluster"} => pc[s] \in Placing \cup {"cluster"}
      BY <1>0, <2>1, <3>6, FewerCounted
    <3> QED BY <3>1, <3>2, <3>3, <3>4, <3>5, <3>6, CountCases
  <2>5. \A q \in Starts : Counted(q)'
    BY <2>3, <2>4
  <2> QED BY <1>0, <2>2, <2>5 DEF Budget
<1> QED
  BY <1>2, <1>3

\* The end of a daemon only takes clusters off its list.
LEMMA BudgetDaemonStep ==
  ASSUME TypeOK, TypeOK', Shaped, Budget, NEW n \in Nodes, DaemonStep(n)
  PROVE  Budget'
<1>1. /\ pc' = pc /\ leader' = leader /\ todo' = todo /\ count' = count
      /\ \A m \in Nodes : running'[m] = running[m] \/ running'[m] = {}
  BY DaemonFrame DEF planVars, loopVars
<1>2. maxClusters' = maxClusters
  BY DEF DaemonStep, Expire, Beacon, Signal, Stop, TakeRunning, Drained, StopAtPeer,
         KillChildren, peerVars
<1>3. \A q \in Starts : pc[q] = "answered" => leader[q] \in Nodes
  BY DEF Shaped, Shape
<1>4. OnLists' \subseteq OnLists /\ \A x \in OnLists' : leader'[x] = leader[x]
  BY <1>1, <1>3 DEF OnLists, OnList
<1>5. \A q \in Starts : Counted(q)'
  BY <1>1, <1>2, <1>4, FewerCounted DEF Budget
<1>6. Cardinality(OnLists') <= maxClusters'
  <2>1. OnLists \subseteq Starts
    BY DEF OnLists
  <2>2. /\ Cardinality(OnLists') <= Cardinality(OnLists)
        /\ Cardinality(OnLists') \in Nat /\ Cardinality(OnLists) \in Nat
    BY <1>4, <2>1, CallSets
  <2>3. Cardinality(OnLists) <= maxClusters /\ maxClusters \in Nat
    BY NodeAssumption DEF Budget, TypeOK
  <2> QED BY <1>2, <2>2, <2>3
<1> QED
  BY <1>5, <1>6 DEF Budget

BudgetInv == OrphanInv /\ (~disturbed => Budget)

\* There is room for clusters at the start.
LEMMA InitBudget == Init => BudgetInv
<1> SUFFICES ASSUME Init PROVE BudgetInv
  OBVIOUS
<1>1. OnLists = {} /\ \A s \in Starts : pc[s] = "new"
  BY DEF Init, OnLists, OnList
<1>2. Cardinality(OnLists) = 0 /\ maxClusters \in Nat
  BY <1>1, FS_EmptySet, NodeAssumption DEF Init
<1>3. Budget
  BY <1>1, <1>2 DEF Budget, Counted, Placing
<1> QED
  BY <1>3, InitOrphan DEF BudgetInv

\* Every step keeps the budget.
LEMMA BudgetStep == BudgetInv /\ [Next]_vars => BudgetInv'
<1> SUFFICES ASSUME BudgetInv, [Next]_vars PROVE BudgetInv'
  OBVIOUS
<1>0. OrphanInv /\ OrphanInv' /\ (~disturbed => Budget)
  BY OrphanStep DEF BudgetInv
<1>t. TypeOK /\ TypeOK' /\ Shaped /\ EndInv /\ (~disturbed => InOrder)
  BY <1>0 DEF OrphanInv, Calm
<1>1. ASSUME NEW s \in Starts, StepOf(s), ~disturbed' PROVE Budget'
  BY <1>0, <1>t, <1>1, StaysDisturbed, BudgetStepOf
<1>2. ASSUME NEW n \in Nodes, DaemonStep(n), ~disturbed' PROVE Budget'
  BY <1>0, <1>t, <1>2, StaysDisturbed, BudgetDaemonStep
<1>3. CASE UNCHANGED vars
  <2> USE <1>3 DEF vars, planVars, loopVars, clusterVars, peerVars
  <2>1. OnLists' = OnLists /\ \A T : OnListsBut(T)' = OnListsBut(T)
    BY DEF OnLists, OnList, OnListsBut
  <2>2. (~disturbed => Budget)'
    BY <1>0, <2>1 DEF Budget, Counted
  <2> QED BY <1>0, <2>2 DEF BudgetInv
<1> QED
  BY <1>0, <1>1, <1>2, <1>3, StepCases DEF BudgetInv

\* kMaxRunningClusters bounds the clusters of all daemons that are not being
\* stopped, although they are counted one daemon after the other and the new
\* one is recorded long after, as long as calls do not overlap and every peer
\* answers when it is asked.
THEOREM BudgetIsKept == Spec => []BudgetHonoured
<1>1. BudgetInv => BudgetHonoured
  <2> SUFFICES ASSUME BudgetInv, ~disturbed
               PROVE  Cardinality({s \in Starts : /\ pc[s] = "answered"
                                                  /\ daemon[leader[s]] = "up"}) <= maxClusters
    BY DEF BudgetHonoured
  <2> DEFINE Up == {s \in Starts : pc[s] = "answered" /\ daemon[leader[s]] = "up"}
  <2>1. Up \subseteq OnLists /\ OnLists \subseteq Starts
    BY DEF BudgetInv, OrphanInv, Calm, InOrder, Taken, OnLists, OnList
  <2>2. Cardinality(OnLists) <= maxClusters /\ maxClusters \in Nat
    BY NodeAssumption DEF BudgetInv, OrphanInv, TypeOK, Budget
  <2>3. /\ Cardinality(Up) <= Cardinality(OnLists)
        /\ Cardinality(Up) \in Nat /\ Cardinality(OnLists) \in Nat
    BY <2>1, CallSets
  <2> QED BY <2>2, <2>3
<1> QED
  BY <1>1, InitBudget, BudgetStep, PTL DEF Spec
===============================================================================
