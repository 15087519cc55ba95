--------------------------- MODULE NodeClusterProofs ---------------------------
(***************************************************************************)
(* Proofs about NodeCluster, for any number of nodes and start-model       *)
(* calls, any size of the thread pools and any number of faults.           *)
(***************************************************************************)
EXTENDS NodeCluster, FiniteSetTheorems, WellFoundedInduction, TLAPS

-----------------------------------------------------------------------------
(* A free port.                                                            *)

\* The least of some ports is one of them.
LEMMA LeastPort ==
  ASSUME NEW S, S \subseteq Ports, S # {}
  PROVE  Least(S) \in S
<1>1. Ports \subseteq Nat
  BY DEF Ports
<1>2. \E p \in S : \A q \in S : ~(<<q, p>> \in OpToRel(<, Nat))
  BY <1>1, NatLessThanWellFounded, WFMin
<1>3. \A p, q \in Nat : q < p => <<q, p>> \in OpToRel(<, Nat)
  BY DEF OpToRel
<1>4. PICK p \in S : \A q \in S : ~(<<q, p>> \in OpToRel(<, Nat))
  BY <1>2
<1>5. ASSUME NEW q \in S PROVE p <= q
  <2>1. p \in Nat /\ q \in Nat /\ ~(<<q, p>> \in OpToRel(<, Nat))
    BY <1>1, <1>4
  <2>2. \A x, y \in Nat : ~(y < x) => x <= y
    OBVIOUS
  <2> QED BY <2>1, <2>2, <1>3
<1> QED
  BY <1>5 DEF Least

\* As many ports as calls: the calls other than s cannot take them all.
LEMMA PortLeft ==
  ASSUME NEW s \in Starts, NEW h \in [Ports -> Starts \ {s}],
         \A p, q \in Ports : h[p] = h[q] => p = q
  PROVE  FALSE
<1> DEFINE Others == Starts \ {s}
<1>1. IsFiniteSet(Starts) /\ Cardinality(Starts) \in Nat
  BY NodeAssumption, FS_CardinalityType
<1>2. IsFiniteSet(Others) /\ Cardinality(Others) = Cardinality(Starts) - 1
  BY <1>1, FS_RemoveElement
<1>3. Cardinality(Ports) = Cardinality(Starts)
  <2>1. Cardinality(1 .. Cardinality(Starts)) =
          IF 1 > Cardinality(Starts) THEN 0 ELSE Cardinality(Starts) - 1 + 1
    BY <1>1, FS_Interval
  <2> QED BY <1>1, <2>1 DEF Ports
<1>4. h \in Injection(Ports, Others)
  BY DEF Injection, IsInjective
<1>5. Cardinality(Ports) <= Cardinality(Others)
  <2> HIDE DEF Others
  <2> QED BY <1>2, <1>4, FS_Injection
<1> QED
  BY <1>1, <1>2, <1>3, <1>5

\* A worker that is not up yet finds a port on which nobody answers.
LEMMA WorkerPortFree ==
  ASSUME NEW s \in Starts, NEW n \in Nodes, worker[s][n] # "healthy"
  PROVE  FreePort(n) \in Ports /\ ~Answers(n, FreePort(n))
<1> DEFINE F == {p \in Ports : ~Answers(n, p)}
<1>1. F # {}
  <2> SUFFICES ASSUME \A p \in Ports : Answers(n, p) PROVE FALSE
    OBVIOUS
  <2> DEFINE h == [p \in Ports |->
                     CHOOSE q \in Starts : worker[q][n] = "healthy" /\ port[q][n] = p]
  <2>1. ASSUME NEW p \in Ports
        PROVE  h[p] \in Starts /\ worker[h[p]][n] = "healthy" /\ port[h[p]][n] = p
    BY DEF Answers
  <2> HIDE DEF h
  <2>2. h \in [Ports -> Starts \ {s}]
    BY <2>1 DEF h
  <2>3. \A p, q \in Ports : h[p] = h[q] => p = q
    BY <2>1
  <2> QED BY <2>2, <2>3, PortLeft
<1>2. Least(F) \in F
  BY <1>1, LeastPort
<1> QED
  BY <1>2 DEF FreePort

\* The same for the cluster process.
LEMMA ClusterPortFree ==
  ASSUME NEW s \in Starts, NEW n \in Nodes, cluster[s] # "healthy"
  PROVE  FreeClusterPort(n) \in Ports /\ ~ClusterAnswers(n, FreeClusterPort(n))
<1> DEFINE F == {p \in Ports : ~ClusterAnswers(n, p)}
<1>1. F # {}
  <2> SUFFICES ASSUME \A p \in Ports : ClusterAnswers(n, p) PROVE FALSE
    OBVIOUS
  <2> DEFINE h == [p \in Ports |->
                     CHOOSE q \in Starts : cluster[q] = "healthy" /\ clusterPort[q] = p]
  <2>1. ASSUME NEW p \in Ports
        PROVE  h[p] \in Starts /\ cluster[h[p]] = "healthy" /\ clusterPort[h[p]] = p
    BY DEF ClusterAnswers
  <2> HIDE DEF h
  <2>2. h \in [Ports -> Starts \ {s}]
    BY <2>1 DEF h
  <2>3. \A p, q \in Ports : h[p] = h[q] => p = q
    BY <2>1
  <2> QED BY <2>2, <2>3, PortLeft
<1>2. Least(F) \in F
  BY <1>1, LeastPort
<1> QED
  BY <1>2 DEF FreeClusterPort

-----------------------------------------------------------------------------
(* Types, and what a call has done at each program point.                  *)

Untouched(s, n) == worker[s][n] = "none" /\ startCall[s][n] = "none"

Placing == {"place", "spawn", "health", "call", "called"}

\* A worker that is due has not been asked for; a port is found before it is
\* used; the node a call is busy with is one it still has to visit.
Shape(s) ==
    /\ pc[s] # "new" => leader[s] \in Nodes
    /\ pc[s] \in {"new", "own", "count", "refused"} =>
          /\ \A n \in Nodes : Untouched(s, n)
          /\ cluster[s] = "none" /\ workers[s] = {}
    /\ pc[s] \in Placing =>
          /\ cluster[s] = "none"
          /\ \A n \in todo[s] :
                n # at[s] \/ pc[s] \in {"place", "spawn", "call"} => Untouched(s, n)
    /\ pc[s] \in Placing \ {"place"} =>
          at[s] \in todo[s] /\ port[s][at[s]] \in Ports
    /\ pc[s] \in {"spawn", "health"} => at[s] = leader[s]
    /\ pc[s] = "unwindWait" => at[s] \in todo[s]
    /\ \A n \in Nodes :
          /\ ~Untouched(s, n) => port[s][n] \in Ports
          /\ startCall[s][n] = "queued" => worker[s][n] = "none"

Shaped == \A s \in Starts : Shape(s)

\* The two invariants hold at the start.
LEMMA InitShaped == Init => TypeOK /\ Shaped
<1> SUFFICES ASSUME Init PROVE TypeOK /\ Shaped
  OBVIOUS
<1>1. TypeOK
  <2>1. /\ pc \in [Starts -> {"new"} \cup Starting \cup Unwinding \cup Ended]
        /\ leader \in [Starts -> Nodes \cup {None}] /\ at \in [Starts -> Nodes \cup {None}]
        /\ parts \in [Starts -> SUBSET Nodes] /\ todo \in [Starts -> SUBSET Nodes]
        /\ count \in [Starts -> Nat] /\ workers \in [Starts -> SUBSET Nodes]
        /\ outcome \in [Starts -> {"failed", "stopped"}]
    BY DEF Init
  <2>2. /\ startCall \in
             [Starts -> [Nodes -> {"none", "queued", "waiting", "ok", "failed"}]]
        /\ stopCall \in [Starts -> [Nodes -> {"none", "queued", "done"}]]
        /\ worker \in [Starts -> [Nodes -> ProcessStates]]
        /\ port \in [Starts -> [Nodes -> Ports \cup {0}]]
        /\ cluster \in [Starts -> ProcessStates]
        /\ clusterPort \in [Starts -> Ports \cup {0}]
    BY DEF Init, ProcessStates
  <2>3. /\ maxClusters \in Limits /\ peers \in [Nodes -> SUBSET Nodes]
        /\ workerPids \in [Nodes -> [Ports -> Starts \cup {None}]]
        /\ running \in [Nodes -> SUBSET Starts]
        /\ daemon \in [Nodes -> {"up", "stopping", "draining", "leaving", "exited"}]
        /\ toStop \in [Nodes -> SUBSET (Starts \X Nodes)]
    BY DEF Init
  <2>4. faults \in 0 .. MaxFaults /\ disturbed \in BOOLEAN
    <3>1. faults = 0 /\ disturbed = FALSE
      BY DEF Init
    <3>2. 0 \in 0 .. MaxFaults
      BY NodeAssumption
    <3> QED BY <3>1, <3>2
  <2> QED BY <2>1, <2>2, <2>3, <2>4 DEF TypeOK
<1>2. Shaped
  BY DEF Init, Shaped, Shape, Untouched, Placing
<1> QED
  BY <1>1, <1>2

\* A killed process is dead, any other process as it was.
LEMMA KillFacts ==
  ASSUME NEW x \in ProcessStates
  PROVE  /\ Kill(x) \in ProcessStates /\ ~Alive(Kill(x))
         /\ Kill(x) = x \/ (Kill(x) = "dead" /\ Alive(x))
BY DEF Kill, Alive, ProcessStates

\* stop_local_worker leaves types alone.
LEMMA StopOnPortType ==
  ASSUME TypeOK, NEW n \in Nodes, NEW p, StopOnPort(n, p)
  PROVE  /\ worker' \in [Starts -> [Nodes -> ProcessStates]]
         /\ workerPids' \in [Nodes -> [Ports -> Starts \cup {None}]]
         /\ port' = port
<1>1. \A x \in ProcessStates : Kill(x) \in ProcessStates
  BY KillFacts
<1> QED
  BY <1>1 DEF StopOnPort, TypeOK

\* A spawned process leaves types alone.
LEMMA SpawnType ==
  ASSUME TypeOK, NEW s \in Starts, NEW n, Spawn(s, n)
  PROVE  /\ worker' \in [Starts -> [Nodes -> ProcessStates]]
         /\ workerPids' \in [Nodes -> [Ports -> Starts \cup {None}]]
         /\ port' = port
BY DEF Spawn, TypeOK, ProcessStates

\* Every step keeps the types: the handler up to the placing of workers.
LEMMA TypesCount ==
  ASSUME TypeOK, Shaped, NEW s \in Starts, NEW n \in Nodes,
         \/ Begin(s, n) \/ CountOwn(s) \/ CountPeer(s, n) \/ CountPeerFails(s, n)
         \/ Decide(s) \/ FindPort(s, n)
  PROVE  TypeOK'
<1> USE DEF TypeOK, planVars, loopVars, callVars, workerVars, clusterVars, peerVars,
            daemonVars, Starting, Ended
<1>1. CASE Begin(s, n)
  <2>1. CASE pc' = [pc EXCEPT ![s] = "refused"] /\ UNCHANGED <<parts, todo, disturbed>>
    BY <1>1, <2>1 DEF Begin
  <2>2. CASE /\ pc' = [pc EXCEPT ![s] = "own"]
             /\ parts' = [parts EXCEPT ![s] = peers[n] \cup {n}]
             /\ todo' = [todo EXCEPT ![s] = peers[n]]
             /\ disturbed' = (disturbed \/ \E q \in Starts : pc[q] \in Starting)
    BY <1>1, <2>2 DEF Begin
  <2> QED BY <1>1, <2>1, <2>2 DEF Begin
<1>2. \A l \in Nodes : Cardinality(running[l]) \in Nat
  BY NodeAssumption, FS_Subset, FS_CardinalityType
<1>3. CASE CountOwn(s)
  <2>1. leader[s] \in Nodes
    BY <1>3 DEF CountOwn, Shaped, Shape
  <2> QED BY <1>2, <1>3, <2>1 DEF CountOwn
<1>4. CASE CountPeer(s, n)
  BY <1>2, <1>4 DEF CountPeer
<1>5. CASE CountPeerFails(s, n)
  BY <1>5, NodeAssumption DEF CountPeerFails
<1>6. CASE Decide(s)
  <2>1. CASE pc' = [pc EXCEPT ![s] = "refused"] /\ UNCHANGED todo
    BY <1>6, <2>1 DEF Decide
  <2>2. CASE pc' = [pc EXCEPT ![s] = "place"] /\ todo' = [todo EXCEPT ![s] = parts[s]]
    BY <1>6, <2>2 DEF Decide
  <2> QED BY <1>6, <2>1, <2>2 DEF Decide
<1>7. CASE FindPort(s, n)
  <2>1. worker[s][n] = "none"
    BY <1>7 DEF FindPort, Shaped, Shape, Untouched, Placing
  <2>2. FreePort(n) \in Ports
    BY <2>1, WorkerPortFree
  <2> QED BY <1>7, <2>2 DEF FindPort
<1> QED
  BY <1>1, <1>3, <1>4, <1>5, <1>6, <1>7

\* The handler while it places workers.
LEMMA TypesPlace ==
  ASSUME TypeOK, Shaped, NEW s \in Starts,
         \/ SpawnLocal(s) \/ LocalHealthy(s) \/ LocalUnhealthy(s) \/ CallWorker(s)
         \/ CalledOk(s) \/ CalledFailed(s) \/ GiveUp(s)
  PROVE  TypeOK'
<1> USE DEF TypeOK, planVars, loopVars, callVars, workerVars, clusterVars, peerVars,
            daemonVars, Starting, Unwinding, Ended, Unwind
<1>0. /\ \A x \in ProcessStates : Kill(x) \in ProcessStates
      /\ pc[s] \in Placing \ {"place"} => at[s] \in Nodes
      /\ pc[s] # "new" => leader[s] \in Nodes
  BY KillFacts DEF Shaped, Shape
<1>1. CASE SpawnLocal(s)
  <2>1. CASE /\ Spawn(s, leader[s])
             /\ pc' = [pc EXCEPT ![s] = "health"] /\ UNCHANGED loopVars
    BY <1>1, <2>1, SpawnType DEF SpawnLocal
  <2>2. CASE Unwind(s) /\ UNCHANGED workerVars
    BY <1>1, <2>2 DEF SpawnLocal
  <2> QED BY <1>1, <2>1, <2>2 DEF SpawnLocal
<1>2. CASE LocalHealthy(s)
  BY <1>0, <1>2 DEF LocalHealthy, Placed, Placing
<1>3. CASE LocalUnhealthy(s)
  BY <1>0, <1>3 DEF LocalUnhealthy
<1>4. CASE CallWorker(s)
  BY <1>0, <1>4 DEF CallWorker
<1>5. CASE CalledOk(s)
  BY <1>0, <1>5 DEF CalledOk, Placed, Placing
<1>6. CASE CalledFailed(s)
  BY <1>6 DEF CalledFailed
<1>7. CASE GiveUp(s)
  BY <1>7 DEF GiveUp
<1> QED
  BY <1>1, <1>2, <1>3, <1>4, <1>5, <1>6, <1>7

\* The handlers at peers, the cluster process, and processes that come up.
LEMMA TypesServe ==
  ASSUME TypeOK, Shaped, NEW s \in Starts, NEW n \in Nodes,
         \/ StartWorker(s, n) \/ WorkerUp(s, n) \/ WorkerNotUp(s, n)
         \/ StopWorker(s, n) \/ SpawnCluster(s) \/ Record(s) \/ ClusterNotUp(s)
         \/ StopModel(s) \/ WorkerLoads(s, n) \/ ClusterLoads(s)
  PROVE  TypeOK'
<1> USE DEF TypeOK, planVars, loopVars, callVars, workerVars, clusterVars, peerVars,
            daemonVars, Starting, Unwinding, Ended, Unwind
<1>0. /\ \A x \in ProcessStates : Kill(x) \in ProcessStates
      /\ pc[s] # "new" => leader[s] \in Nodes
  BY KillFacts DEF Shaped, Shape
<1>1. CASE StartWorker(s, n)
  <2>1. CASE Spawn(s, n) /\ startCall' = [startCall EXCEPT ![s][n] = "waiting"]
    BY <1>1, <2>1, SpawnType DEF StartWorker
  <2>2. CASE startCall' = [startCall EXCEPT ![s][n] = "failed"] /\ UNCHANGED workerVars
    BY <1>1, <2>2 DEF StartWorker
  <2> QED BY <1>1, <2>1, <2>2 DEF StartWorker
<1>2. CASE WorkerUp(s, n)
  BY <1>2 DEF WorkerUp
<1>3. CASE WorkerNotUp(s, n)
  BY <1>0, <1>3 DEF WorkerNotUp
<1>4. CASE StopWorker(s, n)
  <2>1. StopOnPort(n, port[s][n])
    BY <1>4 DEF StopWorker
  <2>2. /\ worker' \in [Starts -> [Nodes -> ProcessStates]]
        /\ workerPids' \in [Nodes -> [Ports -> Starts \cup {None}]]
        /\ port' = port
    BY <2>1, StopOnPortType
  <2> QED BY <1>4, <2>2 DEF StopWorker
<1>5. CASE SpawnCluster(s)
  <2>1. cluster[s] = "none" /\ leader[s] \in Nodes
    BY <1>5 DEF SpawnCluster, Shaped, Shape, Placing
  <2>2. FreeClusterPort(leader[s]) \in Ports
    BY <2>1, ClusterPortFree
  <2>3. CASE /\ clusterPort' = [clusterPort EXCEPT ![s] = FreeClusterPort(leader[s])]
             /\ cluster' = [cluster EXCEPT ![s] = "starting"]
             /\ pc' = [pc EXCEPT ![s] = "cluster"] /\ UNCHANGED loopVars
    BY <1>5, <2>2, <2>3 DEF SpawnCluster, ProcessStates
  <2>4. CASE Unwind(s) /\ UNCHANGED <<cluster, clusterPort>>
    BY <1>5, <2>4 DEF SpawnCluster
  <2> QED BY <1>5, <2>3, <2>4 DEF SpawnCluster
<1>6. CASE Record(s)
  BY <1>0, <1>6 DEF Record
<1>7. CASE ClusterNotUp(s)
  BY <1>0, <1>7 DEF ClusterNotUp
<1>8. CASE StopModel(s)
  BY <1>0, <1>8 DEF StopModel
<1>9. CASE WorkerLoads(s, n)
  BY <1>9 DEF WorkerLoads, ProcessStates
<1>10. CASE ClusterLoads(s)
  BY <1>10 DEF ClusterLoads, ProcessStates
<1> QED
  BY <1>1, <1>2, <1>3, <1>4, <1>5, <1>6, <1>7, <1>8, <1>9, <1>10

\* Stopping the workers of a cluster.
LEMMA TypesUnwind ==
  ASSUME TypeOK, Shaped, NEW s \in Starts, NEW n \in Nodes,
         \/ UnwindLocal(s) \/ UnwindUnknown(s, n) \/ UnwindCall(s, n)
         \/ UnwindNext(s) \/ UnwindEnd(s)
  PROVE  TypeOK'
<1> USE DEF TypeOK, planVars, loopVars, callVars, workerVars, clusterVars, peerVars,
            daemonVars, Unwinding, Ended
<1>1. CASE UnwindLocal(s)
  <2>1. StopOnPort(leader[s], port[s][leader[s]]) /\ leader[s] \in Nodes
    BY <1>1 DEF UnwindLocal, Shaped, Shape
  <2>2. /\ worker' \in [Starts -> [Nodes -> ProcessStates]]
        /\ workerPids' \in [Nodes -> [Ports -> Starts \cup {None}]]
        /\ port' = port
    BY <2>1, StopOnPortType
  <2> QED BY <1>1, <2>2 DEF UnwindLocal
<1>2. CASE UnwindUnknown(s, n)
  BY <1>2 DEF UnwindUnknown
<1>3. CASE UnwindCall(s, n)
  BY <1>3 DEF UnwindCall
<1>4. CASE UnwindNext(s)
  BY <1>4 DEF UnwindNext
<1>5. CASE UnwindEnd(s)
  BY <1>5 DEF UnwindEnd
<1> QED
  BY <1>1, <1>2, <1>3, <1>4, <1>5

\* Peers come and go, daemons end.
LEMMA TypesDaemon ==
  ASSUME TypeOK, Shaped, NEW n \in Nodes,
         \/ (\E m \in Nodes : Expire(n, m) \/ Beacon(n, m)) \/ Signal(n) \/ Stop(n)
  PROVE  TypeOK'
<1> USE DEF TypeOK, planVars, loopVars, callVars, workerVars, clusterVars, peerVars,
            daemonVars
<1>0. \A x \in ProcessStates : Kill(x) \in ProcessStates
  BY KillFacts
<1>1. ASSUME NEW m \in Nodes, Expire(n, m) PROVE TypeOK'
  BY <1>1, NodeAssumption DEF Expire
<1>2. ASSUME NEW m \in Nodes, Beacon(n, m) PROVE TypeOK'
  BY <1>2 DEF Beacon
<1>3. CASE Signal(n)
  BY <1>3, NodeAssumption DEF Signal, TakeRunning
<1>4. ASSUME NEW s \in Starts, NEW m \in Nodes, StopAtPeer(n, s, m) PROVE TypeOK'
  <2>1. CASE StopOnPort(m, port[s][m]) /\ UNCHANGED <<stopCall, disturbed>>
    <3>1. /\ worker' \in [Starts -> [Nodes -> ProcessStates]]
          /\ workerPids' \in [Nodes -> [Ports -> Starts \cup {None}]]
          /\ port' = port
      BY <2>1, StopOnPortType
    <3> QED BY <1>4, <2>1, <3>1 DEF StopAtPeer
  <2>2. CASE /\ stopCall' = IF m \in peers[n]
                            THEN [stopCall EXCEPT ![s][m] = "queued"] ELSE stopCall
             /\ disturbed' = TRUE /\ UNCHANGED workerVars
    <3>1. stopCall' \in [Starts -> [Nodes -> {"none", "queued", "done"}]]
      BY <2>2
    <3> QED BY <1>4, <2>2, <3>1 DEF StopAtPeer
  <2> QED BY <1>4, <2>1, <2>2 DEF StopAtPeer
<1>5. CASE KillChildren(n, "draining") \/ KillChildren(n, "exited")
  <2>1. worker' = [q \in Starts |-> [worker[q] EXCEPT ![n] = Kill(@)]]
    BY <1>5 DEF KillChildren
  <2>2. worker' \in [Starts -> [Nodes -> ProcessStates]]
    BY <1>0, <2>1
  <2>3. cluster' \in [Starts -> ProcessStates]
    <3>1. cluster' = [q \in Starts |-> IF leader[q] = n THEN Kill(cluster[q])
                                                       ELSE cluster[q]]
      BY <1>5 DEF KillChildren
    <3> QED BY <1>0, <3>1
  <2>4. daemon' \in [Nodes -> {"up", "stopping", "draining", "leaving", "exited"}]
    BY <1>5 DEF KillChildren
  <2>5. UNCHANGED <<pc, planVars, loopVars, callVars, port, workerPids,
                    clusterPort, running, maxClusters, peers, faults, toStop,
                    disturbed>>
    BY <1>5 DEF KillChildren
  <2> QED BY <2>2, <2>3, <2>4, <2>5
<1>6. CASE Drained(n)
  BY <1>6 DEF Drained, TakeRunning
<1> QED
  BY <1>1, <1>2, <1>3, <1>4, <1>5, <1>6 DEF Stop

-----------------------------------------------------------------------------
(* What a step leaves of a call that it is not about.                      *)

\* Processes may be killed, all else is as it was.
WorkersMayDie(q) ==
    \A n \in Nodes : \/ worker'[q][n] = worker[q][n]
                     \/ worker'[q][n] = "dead" /\ Alive(worker[q][n])

OnlyKilled(q) ==
    /\ pc'[q] = pc[q] /\ leader'[q] = leader[q]
    /\ todo'[q] = todo[q] /\ at'[q] = at[q] /\ workers'[q] = workers[q]
    /\ startCall'[q] = startCall[q] /\ port'[q] = port[q]
    /\ WorkersMayDie(q)
    /\ cluster'[q] = cluster[q] \/ (cluster'[q] = "dead" /\ Alive(cluster[q]))

\* A call of which processes were killed is still in shape.
LEMMA KilledShape ==
  ASSUME TypeOK, NEW q \in Starts, Shape(q), OnlyKilled(q)
  PROVE  Shape(q)'
<1>1. \A n \in Nodes : Untouched(q, n)' <=> Untouched(q, n)
  BY DEF OnlyKilled, WorkersMayDie, Untouched, Alive
<1>2. \A n \in Nodes : worker[q][n] = "none" => worker'[q][n] = "none"
  BY DEF OnlyKilled, WorkersMayDie, Alive
<1>3. cluster[q] = "none" => cluster'[q] = "none"
  BY DEF OnlyKilled, Alive
<1>4. /\ pc'[q] = pc[q] /\ leader'[q] = leader[q]
      /\ todo'[q] = todo[q] /\ at'[q] = at[q] /\ workers'[q] = workers[q]
      /\ startCall'[q] = startCall[q] /\ port'[q] = port[q]
  BY DEF OnlyKilled
<1>5. (\A n \in Nodes : Untouched(q, n)) => (\A n \in Nodes : Untouched(q, n)')
  BY <1>1
<1>6. (pc[q] \in {"new", "own", "count", "refused"} =>
          /\ \A n \in Nodes : Untouched(q, n)
          /\ cluster[q] = "none" /\ workers[q] = {})'
  BY <1>3, <1>4, <1>5 DEF Shape
<1>7. (pc[q] \in Placing =>
          /\ cluster[q] = "none"
          /\ \A n \in todo[q] :
                n # at[q] \/ pc[q] \in {"place", "spawn", "call"} => Untouched(q, n))'
  <2>1. todo[q] \subseteq Nodes
    BY DEF TypeOK
  <2> QED BY <1>1, <1>3, <1>4, <2>1 DEF Shape
<1>8. (\A n \in Nodes :
          /\ ~Untouched(q, n) => port[q][n] \in Ports
          /\ startCall[q][n] = "queued" => worker[q][n] = "none")'
  BY <1>1, <1>2, <1>4 DEF Shape, Ports
<1> QED
  BY <1>4, <1>6, <1>7, <1>8 DEF Shape, Placing, Ports

\* stop_local_worker kills, and kills the worker the port belongs to.
LEMMA StopOnPortKills ==
  ASSUME TypeOK, NEW n \in Nodes, NEW p, StopOnPort(n, p)
  PROVE  /\ \A q \in Starts : WorkersMayDie(q)
         /\ \A q \in Starts : p \in Ports /\ workerPids[n][p] = q =>
                                 ~Alive(worker'[q][n])
<1>1. \A x \in ProcessStates : Kill(x) = x \/ (Kill(x) = "dead" /\ Alive(x))
  BY KillFacts
<1>2. \A x \in ProcessStates : ~Alive(Kill(x))
  BY KillFacts
<1>3. worker \in [Starts -> [Nodes -> ProcessStates]]
  BY DEF TypeOK
<1>4. CASE workerPids[n][p] = None
  BY <1>4, NodeAssumption DEF StopOnPort, WorkersMayDie
<1>5. CASE workerPids[n][p] # None
  <2> DEFINE o == workerPids[n][p]
  <2>1. worker' = [worker EXCEPT ![o][n] = Kill(@)]
    BY <1>5 DEF StopOnPort
  <2> HIDE DEF o
  <2>2. \A q \in Starts, m \in Nodes :
           \/ worker'[q][m] = worker[q][m]
           \/ q = o /\ m = n /\ worker'[q][m] = Kill(worker[q][m])
    BY <1>3, <2>1
  <2>3. \A q \in Starts : q = o => worker'[q][n] = Kill(worker[q][n])
    BY <1>3, <2>1
  <2> QED BY <1>1, <1>2, <1>3, <2>2, <2>3 DEF WorkersMayDie, o
<1> QED
  BY <1>4, <1>5

\* The steps of a call leave the other calls alone, but for processes killed.
LEMMA OthersHandle ==
  ASSUME TypeOK, Shaped, NEW s \in Starts, NEW n \in Nodes,
         Handle(s) \/ Begin(s, n) \/ StopModel(s),
         NEW q \in Starts, q # s
  PROVE  OnlyKilled(q) /\ stopCall'[q] = stopCall[q]
<1> USE DEF planVars, loopVars, callVars, workerVars, clusterVars, peerVars,
            Unwind, OnlyKilled, WorkersMayDie, TypeOK
<1>1. CASE Begin(s, n) \/ CountOwn(s) \/ Decide(s) \/ StopModel(s)
  BY <1>1 DEF Begin, CountOwn, Decide, StopModel
<1>2. ASSUME NEW m \in Nodes, CountPeer(s, m) \/ CountPeerFails(s, m) \/ FindPort(s, m)
      PROVE  OnlyKilled(q) /\ stopCall'[q] = stopCall[q]
  BY <1>2 DEF CountPeer, CountPeerFails, FindPort
<1>3. CASE SpawnLocal(s) \/ LocalHealthy(s) \/ LocalUnhealthy(s)
  BY <1>3 DEF SpawnLocal, Spawn, LocalHealthy, Placed, LocalUnhealthy
<1>4. CASE CallWorker(s) \/ CalledOk(s) \/ CalledFailed(s) \/ GiveUp(s)
  BY <1>4 DEF CallWorker, CalledOk, Placed, CalledFailed, GiveUp
<1>5. CASE SpawnCluster(s) \/ Record(s) \/ ClusterNotUp(s)
  BY <1>5 DEF SpawnCluster, Record, ClusterNotUp
<1>6. CASE UnwindLocal(s)
  <2>1. leader[s] \in Nodes /\ StopOnPort(leader[s], port[s][leader[s]])
    BY <1>6 DEF UnwindLocal, Shaped, Shape
  <2>2. WorkersMayDie(q) /\ port' = port
    BY <2>1, StopOnPortKills DEF StopOnPort
  <2> QED BY <1>6, <2>2 DEF UnwindLocal
<1>7. ASSUME NEW m \in Nodes, UnwindUnknown(s, m) \/ UnwindCall(s, m)
      PROVE  OnlyKilled(q) /\ stopCall'[q] = stopCall[q]
  BY <1>7 DEF UnwindUnknown, UnwindCall
<1>8. CASE UnwindNext(s) \/ UnwindEnd(s)
  BY <1>8 DEF UnwindNext, UnwindEnd
<1> QED
  BY <1>1, <1>2, <1>3, <1>4, <1>5, <1>6, <1>7, <1>8 DEF Handle

\* So do the handlers of peers, and processes that come up.
LEMMA OthersServe ==
  ASSUME TypeOK, NEW s \in Starts, NEW n \in Nodes,
         Serve(s, n) \/ WorkerLoads(s, n) \/ ClusterLoads(s),
         NEW q \in Starts, q # s
  PROVE  OnlyKilled(q) /\ stopCall'[q] = stopCall[q]
<1> USE DEF planVars, loopVars, callVars, workerVars, clusterVars, peerVars,
            OnlyKilled, WorkersMayDie, TypeOK
<1>1. CASE StartWorker(s, n)
  BY <1>1 DEF StartWorker, Spawn
<1>2. CASE WorkerUp(s, n) \/ WorkerNotUp(s, n)
  BY <1>2 DEF WorkerUp, WorkerNotUp
<1>3. CASE StopWorker(s, n)
  <2>1. WorkersMayDie(q) /\ port' = port
    BY <1>3, StopOnPortKills DEF StopOnPort, StopWorker
  <2> QED BY <1>3, <2>1 DEF StopWorker
<1>4. CASE WorkerLoads(s, n) \/ ClusterLoads(s)
  BY <1>4 DEF WorkerLoads, ClusterLoads
<1> QED
  BY <1>1, <1>2, <1>3, <1>4 DEF Serve

\* A daemon that ends kills, and does nothing else to a call.
LEMMA DaemonsKill ==
  ASSUME TypeOK, NEW n \in Nodes,
         \/ (\E m \in Nodes : Expire(n, m) \/ Beacon(n, m)) \/ Signal(n) \/ Stop(n),
         NEW q \in Starts
  PROVE  OnlyKilled(q)
<1> USE DEF planVars, loopVars, callVars, workerVars, clusterVars, peerVars,
            daemonVars, OnlyKilled, WorkersMayDie
<1>1. ASSUME NEW m \in Nodes, Expire(n, m) \/ Beacon(n, m) PROVE OnlyKilled(q)
  BY <1>1 DEF Expire, Beacon
<1>2. CASE Signal(n) \/ Drained(n)
  BY <1>2 DEF Signal, Drained, TakeRunning
<1>3. ASSUME NEW s \in Starts, NEW m \in Nodes, StopAtPeer(n, s, m)
      PROVE  OnlyKilled(q)
  <2>1. CASE StopOnPort(m, port[s][m])
    <3>1. WorkersMayDie(q) /\ port' = port
      BY <2>1, StopOnPortKills DEF StopOnPort
    <3> QED BY <1>3, <3>1 DEF StopAtPeer
  <2>2. CASE UNCHANGED workerVars
    BY <1>3, <2>2 DEF StopAtPeer
  <2> QED BY <1>3, <2>1, <2>2 DEF StopAtPeer
<1>4. CASE KillChildren(n, "draining") \/ KillChildren(n, "exited")
  <2>1. /\ worker' = [x \in Starts |-> [worker[x] EXCEPT ![n] = Kill(@)]]
        /\ cluster' = [x \in Starts |-> IF leader[x] = n THEN Kill(cluster[x])
                                         ELSE cluster[x]]
        /\ UNCHANGED <<pc, planVars, loopVars, callVars, port>>
    BY <1>4 DEF KillChildren
  <2>2. \A x \in ProcessStates : Kill(x) = x \/ (Kill(x) = "dead" /\ Alive(x))
    BY KillFacts
  <2>3. worker \in [Starts -> [Nodes -> ProcessStates]] /\ cluster \in [Starts -> ProcessStates]
    BY DEF TypeOK
  <2>4. WorkersMayDie(q)
    BY <2>1, <2>2, <2>3
  <2>5. cluster'[q] = cluster[q] \/ (cluster'[q] = "dead" /\ Alive(cluster[q]))
    BY <2>1, <2>2, <2>3
  <2> QED BY <2>1, <2>4, <2>5
<1> QED
  BY <1>1, <1>2, <1>3, <1>4 DEF Stop

-----------------------------------------------------------------------------
(* The types and the shape of every call are invariant.                    *)

\* The shape of the call whose handler takes a step.
LEMMA ShapeHandle ==
  ASSUME TypeOK, Shaped, NEW s \in Starts, NEW n \in Nodes,
         Handle(s) \/ Begin(s, n) \/ StopModel(s)
  PROVE  Shape(s)'
<1> USE DEF planVars, loopVars, callVars, workerVars, clusterVars, peerVars,
            Unwind, TypeOK, Shape, Untouched, Placing
<1>0. Shape(s)
  BY DEF Shaped
<1>1. CASE Begin(s, n)
  BY <1>0, <1>1 DEF Begin
<1>2. CASE CountOwn(s)
  BY <1>0, <1>2 DEF CountOwn
<1>3. CASE Decide(s)
  BY <1>0, <1>3 DEF Decide
<1>4. CASE StopModel(s)
  BY <1>0, <1>4 DEF StopModel
<1>5. ASSUME NEW m \in Nodes, CountPeer(s, m) \/ CountPeerFails(s, m) PROVE Shape(s)'
  BY <1>0, <1>5 DEF CountPeer, CountPeerFails
<1>6. ASSUME NEW m \in Nodes, FindPort(s, m) PROVE Shape(s)'
  <2>1. FreePort(m) \in Ports
    BY <1>0, <1>6, WorkerPortFree DEF FindPort
  <2> QED BY <1>0, <1>6, <2>1 DEF FindPort
<1>7. CASE SpawnLocal(s)
  <2>1. CASE Spawn(s, leader[s]) /\ pc' = [pc EXCEPT ![s] = "health"] /\ UNCHANGED loopVars
    BY <1>0, <1>7, <2>1 DEF SpawnLocal, Spawn
  <2>2. CASE Unwind(s) /\ UNCHANGED workerVars
    BY <1>0, <1>7, <2>2 DEF SpawnLocal
  <2> QED BY <1>7, <2>1, <2>2 DEF SpawnLocal
<1>8. CASE LocalHealthy(s)
  BY <1>0, <1>8 DEF LocalHealthy, Placed
<1>9. CASE LocalUnhealthy(s)
  BY <1>0, <1>9 DEF LocalUnhealthy, Kill, Alive
<1>10. CASE CallWorker(s)
  BY <1>0, <1>10 DEF CallWorker
<1>11. CASE CalledOk(s)
  BY <1>0, <1>11 DEF CalledOk, Placed
<1>12. CASE CalledFailed(s) \/ GiveUp(s)
  BY <1>0, <1>12 DEF CalledFailed, GiveUp
<1>13. CASE SpawnCluster(s)
  BY <1>0, <1>13 DEF SpawnCluster
<1>14. CASE Record(s)
  BY <1>0, <1>14 DEF Record
<1>15. CASE ClusterNotUp(s)
  BY <1>0, <1>15 DEF ClusterNotUp
<1>16. CASE UnwindLocal(s)
  <2>1. leader[s] \in Nodes /\ StopOnPort(leader[s], port[s][leader[s]])
    BY <1>0, <1>16 DEF UnwindLocal
  <2>2. WorkersMayDie(s) /\ port' = port
    BY <2>1, StopOnPortKills DEF StopOnPort
  <2> QED BY <1>0, <1>16, <2>2 DEF UnwindLocal, WorkersMayDie, Alive
<1>17. ASSUME NEW m \in Nodes, UnwindUnknown(s, m) \/ UnwindCall(s, m) PROVE Shape(s)'
  BY <1>0, <1>17 DEF UnwindUnknown, UnwindCall
<1>18. CASE UnwindNext(s)
  BY <1>0, <1>18 DEF UnwindNext
<1>19. CASE UnwindEnd(s)
  BY <1>0, <1>19 DEF UnwindEnd
<1> QED
  BY <1>1, <1>2, <1>3, <1>4, <1>5, <1>6, <1>7, <1>8, <1>9, <1>10, <1>11, <1>12,
     <1>13, <1>14, <1>15, <1>16, <1>17, <1>18, <1>19 DEF Handle

\* The shape of a call that a peer serves, or whose processes come up.
LEMMA ShapeServe ==
  ASSUME TypeOK, Shaped, NEW s \in Starts, NEW n \in Nodes,
         Serve(s, n) \/ WorkerLoads(s, n) \/ ClusterLoads(s)
  PROVE  Shape(s)'
<1> USE DEF planVars, loopVars, callVars, workerVars, clusterVars, peerVars,
            TypeOK, Shape, Untouched, Placing
<1>0. Shape(s)
  BY DEF Shaped
<1>1. CASE StartWorker(s, n)
  <2>1. CASE Spawn(s, n) /\ startCall' = [startCall EXCEPT ![s][n] = "waiting"]
    BY <1>0, <1>1, <2>1 DEF StartWorker, Spawn
  <2>2. CASE startCall' = [startCall EXCEPT ![s][n] = "failed"] /\ UNCHANGED workerVars
    BY <1>0, <1>1, <2>2 DEF StartWorker
  <2> QED BY <1>1, <2>1, <2>2 DEF StartWorker
<1>2. CASE WorkerUp(s, n)
  BY <1>0, <1>2 DEF WorkerUp
<1>3. CASE WorkerNotUp(s, n)
  BY <1>0, <1>3 DEF WorkerNotUp, Kill, Alive
<1>4. CASE StopWorker(s, n)
  <2>1. WorkersMayDie(s) /\ port' = port
    BY <1>4, StopOnPortKills DEF StopOnPort, StopWorker
  <2>2. OnlyKilled(s)
    BY <1>4, <2>1 DEF StopWorker, OnlyKilled
  <2> QED BY <1>0, <2>2, KilledShape
<1>5. CASE WorkerLoads(s, n)
  BY <1>0, <1>5 DEF WorkerLoads
<1>6. CASE ClusterLoads(s)
  BY <1>0, <1>6 DEF ClusterLoads
<1> QED
  BY <1>1, <1>2, <1>3, <1>4, <1>5, <1>6 DEF Serve

\* The steps of the system.
StepOf(s) ==
    \/ Handle(s) \/ StopModel(s) \/ ClusterLoads(s)
    \/ \E n \in Nodes : Begin(s, n) \/ Serve(s, n) \/ WorkerLoads(s, n)

DaemonStep(n) ==
    \/ \E m \in Nodes : Expire(n, m) \/ Beacon(n, m)
    \/ Signal(n) \/ Stop(n)

\* Every step is the step of a call or of a daemon, or leaves all as it is.
LEMMA StepCases ==
  [Next]_vars => \/ \E s \in Starts : StepOf(s)
                 \/ \E n \in Nodes : DaemonStep(n)
                 \/ UNCHANGED vars
BY DEF Next, StepOf, DaemonStep, Finished

\* Some node takes part in every step of a call.
LEMMA StepOfCases ==
  ASSUME NEW s \in Starts, StepOf(s)
  PROVE  \E n \in Nodes :
            \/ Handle(s) \/ Begin(s, n) \/ StopModel(s)
            \/ Serve(s, n) \/ WorkerLoads(s, n) \/ ClusterLoads(s)
BY NodeAssumption DEF StepOf

\* The other calls are left alone by every step of a call.
LEMMA OthersOnlyKilled ==
  ASSUME TypeOK, Shaped, NEW s \in Starts, StepOf(s), NEW q \in Starts, q # s
  PROVE  OnlyKilled(q) /\ stopCall'[q] = stopCall[q]
BY StepOfCases, OthersHandle, OthersServe

\* Every step keeps types and shape.
LEMMA ShapedStep == TypeOK /\ Shaped /\ [Next]_vars => TypeOK' /\ Shaped'
<1> SUFFICES ASSUME TypeOK, Shaped, [Next]_vars PROVE TypeOK' /\ Shaped'
  OBVIOUS
<1>1. ASSUME NEW s \in Starts, StepOf(s) PROVE TypeOK' /\ Shaped'
  <2>1. PICK n \in Nodes :
           \/ Handle(s) \/ Begin(s, n) \/ StopModel(s)
           \/ Serve(s, n) \/ WorkerLoads(s, n) \/ ClusterLoads(s)
    BY <1>1, StepOfCases
  <2>2. TypeOK'
    BY <2>1, TypesCount, TypesPlace, TypesServe, TypesUnwind DEF Handle, Serve
  <2>3. Shape(s)'
    BY <2>1, ShapeHandle, ShapeServe
  <2>4. ASSUME NEW q \in Starts, q # s PROVE Shape(q)'
    BY <1>1, <2>4, OthersOnlyKilled, KilledShape DEF Shaped
  <2>5. Shaped'
    BY <2>3, <2>4 DEF Shaped
  <2> QED BY <2>2, <2>5
<1>2. ASSUME NEW n \in Nodes, DaemonStep(n) PROVE TypeOK' /\ Shaped'
  <2>1. TypeOK'
    BY <1>2, TypesDaemon DEF DaemonStep
  <2>2. \A q \in Starts : OnlyKilled(q)
    BY <1>2, DaemonsKill DEF DaemonStep
  <2>3. Shaped'
    BY <2>2, KilledShape DEF Shaped
  <2> QED BY <2>1, <2>3
<1>3. CASE UNCHANGED vars
  <2> USE <1>3 DEF vars, planVars, loopVars, callVars, workerVars, clusterVars, peerVars,
                   daemonVars
  <2>1. TypeOK'
    BY DEF TypeOK
  <2>2. Shaped'
    BY DEF Shaped, Shape, Untouched
  <2> QED BY <2>1, <2>2
<1> QED
  BY <1>1, <1>2, <1>3, StepCases

\* The states of the handlers, daemons and processes.
THEOREM NodeTypes == Spec => []TypeOK
  BY InitShaped, ShapedStep, PTL DEF Spec
===============================================================================
