-------------------------- MODULE ModelServerProofs --------------------------
(***************************************************************************)
(* Proofs about ModelServer, for every set of requests, every memory limit *)
(* and all sizes.  They are layered: types and the reservation count, the  *)
(* two mutexes, the contents of the model, the snapshots, the memory       *)
(* limit; each layer uses the ones before it.                              *)
(***************************************************************************)
EXTENDS ModelServer, FiniteSetTheorems, TLAPS

TypesAndCount == TypeOK /\ ActiveCountExact

-----------------------------------------------------------------------------
(* Moving one handler to another program point changes the number of       *)
(* reservations by what the two points say: ModelServer counts program     *)
(* points, the code an atomic integer.                                     *)
LEMMA ReservedFinite ==
    IsFiniteSet(Reserved) /\ Cardinality(Reserved) \in Nat
<1>1. Reserved \in SUBSET Requests
  BY DEF Reserved
<1> QED
  BY <1>1, ServerAssumption, FS_Subset, FS_CardinalityType

\* Moving one call to a program point counts it in and out of a set of points.
LEMMA GotoCount ==
    ASSUME NEW r \in Requests, NEW from, NEW to, Goto(r, from, to),
           pc \in [Requests -> Points]
    PROVE  /\ from \in ReservedPoints /\ to \in ReservedPoints
                => Reserved' = Reserved
           /\ from \notin ReservedPoints /\ to \notin ReservedPoints
                => Reserved' = Reserved
           /\ from \notin ReservedPoints /\ to \in ReservedPoints
                => Cardinality(Reserved') = Cardinality(Reserved) + 1
           /\ from \in ReservedPoints /\ to \notin ReservedPoints
                => Cardinality(Reserved') = Cardinality(Reserved) - 1
<1>1. /\ pc[r] = from
      /\ \A q \in Requests : pc'[q] = IF q = r THEN to ELSE pc[q]
  BY DEF Goto
<1>2. to \in ReservedPoints => Reserved' = Reserved \cup {r}
  BY <1>1 DEF Reserved
<1>3. to \notin ReservedPoints => Reserved' = Reserved \ {r}
  BY <1>1 DEF Reserved
<1>4. r \in Reserved <=> from \in ReservedPoints
  BY <1>1 DEF Reserved
<1>5. /\ Cardinality(Reserved \cup {r}) =
            IF r \in Reserved THEN Cardinality(Reserved)
                              ELSE Cardinality(Reserved) + 1
      /\ Cardinality(Reserved \ {r}) =
            IF r \in Reserved THEN Cardinality(Reserved) - 1
                              ELSE Cardinality(Reserved)
  BY ReservedFinite, FS_AddElement, FS_RemoveElement
<1> HIDE DEF Reserved, ReservedPoints
<1> QED
  BY <1>2, <1>3, <1>4, <1>5

-----------------------------------------------------------------------------
(* Types and the count of reservations, together: that g_active_requests   *)
(* stays a natural number follows from its being the size of a set.        *)
LEMMA InitTypesAndCount == Init => TypesAndCount
<1> SUFFICES ASSUME Init PROVE TypesAndCount
  OBVIOUS
<1>1. TypeOK
  BY ServerAssumption DEF Init, TypeOK, Points
<1>2. Reserved = {}
  BY DEF Init, Reserved, ReservedPoints
<1> QED
  BY <1>1, <1>2, FS_EmptySet DEF TypesAndCount, ActiveCountExact, Init

(* The types, all but the sign of the counter. *)
TypeInt == /\ pc \in [Requests -> Points]
           /\ est \in [Requests -> [model : Nat, kv : Nat, active : Nat]]
           /\ stream \in [Requests -> BOOLEAN]
           /\ held \in [Requests -> Snapshot \cup {None}]
           /\ heldEpoch \in [Requests -> Nat]
           /\ memoryLimit \in MemoryLimits
           /\ modelLock \in Requests \cup {Keeper, None}
           /\ admLock \in Requests \cup {None}
           /\ model \in [weights : Nat, rope : Nat]
           /\ loaded \in BOOLEAN
           /\ cache \in Snapshot \cup {None}
           /\ idle \in BOOLEAN
           /\ watchdog \in {"sleep", "lock", "clear", "clearRope", "drop"}
           /\ loads \in Nat /\ unloads \in Nat /\ epoch \in Nat

\* The sizes memory is accounted in are numbers.
LEMMA SizesNat == /\ ModelBytes \in Nat /\ FileBytes \in Nat
                  /\ KvBytes \in Nat /\ DefaultKvBytes \in Nat
  BY ServerAssumption

\* Every step keeps the types and the count of reservations.
LEMMA TypesStep == TypesAndCount /\ [Next]_vars => TypesAndCount'
<1> SUFFICES ASSUME TypesAndCount, [Next]_vars PROVE TypesAndCount'
  OBVIOUS
<1> USE DEF TypesAndCount
<1>1. ASSUME NEW r \in Requests, Arrive(r) \/ CheckLoaded(r)
      PROVE  TypeInt' /\ ActiveCountExact'
  <2>1. TypeInt'
    BY <1>1 DEF TypeOK, TypeInt, Points, ReservedPoints, Arrive, CheckLoaded, Goto,
       dataVars, sharedVars, lockVars, modelVars, cacheVars, ambientVars
  <2>2. Reserved' = Reserved /\ active' = active
    BY <1>1, GotoCount DEF TypeOK, ReservedPoints, Arrive, CheckLoaded, sharedVars
  <2> QED
    BY <2>1, <2>2 DEF ActiveCountExact
<1>2. ASSUME NEW r \in Requests, Reload(r)
      PROVE  TypeInt' /\ ActiveCountExact'
  <2>1. TypeInt'
    <3> USE DEF TypeOK, TypeInt, Points, ReservedPoints, Goto, dataVars,
           sharedVars, lockVars, modelVars, cacheVars, ambientVars
    <3>1. CASE InitLock(r)
      BY <3>1 DEF InitLock
    <3>2. CASE InitAlreadyLoaded(r)
      BY <3>2 DEF InitAlreadyLoaded
    <3>3. CASE InitFails(r)
      BY <3>3 DEF InitFails
    <3>4. CASE InitWeights(r)
      BY <3>4 DEF InitWeights
    <3>5. CASE InitRope(r)
      BY <3>5 DEF InitRope
    <3>6. CASE InitDrop(r)
      BY <3>6 DEF InitDrop, InvalidateSnapshot
    <3> QED
      BY <1>2, <3>1, <3>2, <3>3, <3>4, <3>5, <3>6 DEF Reload
  <2>2. Reserved' = Reserved /\ active' = active
    <3>0. pc \in [Requests -> Points]
      BY DEF TypeOK
    <3>1. CASE InitLock(r)
      BY <3>0, <3>1, GotoCount DEF InitLock, ReservedPoints
    <3>2. CASE InitAlreadyLoaded(r)
      BY <3>0, <3>2, GotoCount DEF InitAlreadyLoaded, ReservedPoints
    <3>3. CASE InitFails(r)
      BY <3>0, <3>3, GotoCount DEF InitFails, ReservedPoints
    <3>4. CASE InitWeights(r)
      BY <3>0, <3>4, GotoCount DEF InitWeights, ReservedPoints
    <3>5. CASE InitRope(r)
      BY <3>0, <3>5, GotoCount DEF InitRope, ReservedPoints
    <3>6. CASE InitDrop(r)
      BY <3>0, <3>6, GotoCount DEF InitDrop, ReservedPoints
    <3> QED
      BY <1>2, <3>1, <3>2, <3>3, <3>4, <3>5, <3>6 DEF Reload
  <2> QED
    BY <2>1, <2>2 DEF ActiveCountExact
<1>3. ASSUME NEW r \in Requests, Admission(r)
      PROVE  TypeInt' /\ ActiveCountExact'
  <2>1. TypeInt'
    <3> USE DEF TypeOK, TypeInt, Points, ReservedPoints, Goto, dataVars,
           sharedVars, lockVars, modelVars, cacheVars, ambientVars
    <3>1. CASE AdmitUnlimited(r)
      BY <3>1 DEF AdmitUnlimited
    <3>2. CASE AdmitLock(r)
      BY <3>2 DEF AdmitLock
    <3>3. CASE ReadModelSize(r)
      BY <3>3, SizesNat DEF ReadModelSize
    <3>4. CASE ReadKvSize(r)
      BY <3>4, SizesNat DEF ReadKvSize
    <3>5. CASE ReadActive(r)
      BY <3>5 DEF ReadActive
    <3>6. CASE AdmitAccept(r)
      BY <3>6 DEF AdmitAccept
    <3>7. CASE AdmitReject(r)
      BY <3>7 DEF AdmitReject
    <3> QED
      BY <1>3, <3>1, <3>2, <3>3, <3>4, <3>5, <3>6, <3>7 DEF Admission
  <2>2. CASE AdmitUnlimited(r) \/ AdmitAccept(r)
    <3>1. Cardinality(Reserved') = Cardinality(Reserved) + 1
      BY <2>2, GotoCount DEF TypeOK, ReservedPoints, AdmitUnlimited, AdmitAccept
    <3>2. active' = active + 1
      BY <2>2 DEF AdmitUnlimited, AdmitAccept
    <3> QED
      BY <2>1, <3>1, <3>2 DEF ActiveCountExact
  <2>3. CASE ~(AdmitUnlimited(r) \/ AdmitAccept(r))
    <3>1. PICK from, to \in Points \ ReservedPoints : Goto(r, from, to)
      <4> USE DEF Points, ReservedPoints
      <4>1. CASE AdmitLock(r)
        BY <4>1 DEF AdmitLock
      <4>2. CASE ReadModelSize(r)
        BY <4>2 DEF ReadModelSize
      <4>3. CASE ReadKvSize(r)
        BY <4>3 DEF ReadKvSize
      <4>4. CASE ReadActive(r)
        BY <4>4 DEF ReadActive
      <4>5. CASE AdmitReject(r)
        BY <4>5 DEF AdmitReject
      <4> QED
        BY <1>3, <2>3, <4>1, <4>2, <4>3, <4>4, <4>5 DEF Admission
    <3>2. Reserved' = Reserved
      BY <3>1, GotoCount DEF TypeOK
    <3>3. active' = active
      BY <1>3, <2>3 DEF Admission, AdmitLock, ReadModelSize, ReadKvSize,
         ReadActive, AdmitReject, sharedVars
    <3> QED
      BY <2>1, <3>2, <3>3 DEF ActiveCountExact
  <2> QED
    BY <2>2, <2>3
<1>4. ASSUME NEW r \in Requests, Parse(r) \/ Tokenize(r) \/ TakeSnapshot(r)
      PROVE  TypeInt' /\ ActiveCountExact'
  <2>1. TypeInt'
    <3> USE DEF TypeOK, TypeInt, Points, ReservedPoints, Goto, dataVars,
           sharedVars, lockVars, modelVars, cacheVars, ambientVars
    <3>1. CASE Parse(r)
      <4>1. pc' \in [Requests -> Points]
        BY <3>1 DEF Parse
      <4>2. stream' \in [Requests -> BOOLEAN]
        BY <3>1 DEF Parse
      <4>3. /\ UNCHANGED <<est, held, heldEpoch, memoryLimit, modelLock, admLock>>
            /\ UNCHANGED <<model, loaded, cache, idle, watchdog>>
            /\ UNCHANGED <<loads, unloads, epoch>>
        BY <3>1 DEF Parse
      <4> QED
        BY <4>1, <4>2, <4>3
    <3>2. CASE Tokenize(r)
      BY <3>2 DEF Tokenize
    <3>3. CASE SnapshotHit(r)
      BY <3>3 DEF SnapshotHit
    <3>4. CASE SnapshotMiss(r)
      BY <3>4 DEF SnapshotMiss
    <3>5. CASE SnapshotCopy(r)
      BY <3>5 DEF SnapshotCopy, Snapshot
    <3>6. CASE SnapshotStore(r)
      BY <3>6 DEF SnapshotStore
    <3> QED
      BY <1>4, <3>1, <3>2, <3>3, <3>4, <3>5, <3>6 DEF TakeSnapshot
  <2>2. Reserved' = Reserved /\ active' = active
    BY <1>4, GotoCount DEF TypeOK, ReservedPoints, Parse, Tokenize,
       TakeSnapshot, SnapshotHit, SnapshotMiss, SnapshotCopy, SnapshotStore,
       sharedVars
  <2> QED
    BY <2>1, <2>2 DEF ActiveCountExact
<1>5. ASSUME NEW r \in Requests,
             \/ StartStream(r) \/ EndStream(r)
             \/ StartGenerate(r) \/ EndGenerate(r)
      PROVE  TypeInt' /\ ActiveCountExact'
  <2>1. TypeInt'
    BY <1>5 DEF TypeOK, TypeInt, Points, ReservedPoints, StartStream, EndStream,
       StartGenerate, EndGenerate, Goto,
       dataVars, sharedVars, lockVars, modelVars, cacheVars, ambientVars
  <2>2. Reserved' = Reserved /\ active' = active
    BY <1>5, GotoCount DEF TypeOK, ReservedPoints, StartStream, EndStream,
       StartGenerate, EndGenerate, sharedVars
  <2> QED
    BY <2>1, <2>2 DEF ActiveCountExact
<1>6. ASSUME NEW r \in Requests, ReleaseSlot(r) \/ StampEnd(r)
      PROVE  TypeInt' /\ ActiveCountExact'
  <2>1. TypeInt'
    BY <1>6 DEF TypeOK, TypeInt, Points, ReservedPoints, ReleaseSlot, StampEnd,
       Goto, dataVars, sharedVars, lockVars, modelVars, cacheVars, ambientVars
  <2>2. CASE ReleaseSlot(r)
    <3>1. Cardinality(Reserved') = Cardinality(Reserved) - 1
      BY <2>2, GotoCount DEF TypeOK, ReservedPoints, ReleaseSlot
    <3>2. active' = active - 1
      BY <2>2 DEF ReleaseSlot
    <3> QED
      BY <2>1, <3>1, <3>2 DEF ActiveCountExact
  <2>3. CASE StampEnd(r)
    <3>1. Reserved' = Reserved /\ active' = active
      BY <2>3, GotoCount DEF TypeOK, ReservedPoints, StampEnd, sharedVars
    <3> QED
      BY <2>1, <3>1 DEF ActiveCountExact
  <2> QED
    BY <1>6, <2>2, <2>3
<1>7. ASSUME TimePasses \/ TouchOnly \/ WatchdogCheck \/ Unload \/ UNCHANGED vars
      PROVE  TypeInt' /\ ActiveCountExact'
  <2>1. TypeInt'
    <3> USE DEF TypeOK, TypeInt, handlerVars, dataVars, sharedVars, lockVars,
           modelVars, cacheVars, ambientVars
    <3>1. CASE TimePasses \/ TouchOnly \/ WatchdogCheck
      BY <3>1 DEF TimePasses, TouchOnly, WatchdogCheck
    <3>2. CASE WatchdogLock
      BY <3>2 DEF WatchdogLock
    <3>3. CASE WatchdogClear
      BY <3>3 DEF WatchdogClear
    <3>4. CASE WatchdogClearRope
      <4>1. model' \in [weights : Nat, rope : Nat]
        BY <3>4 DEF WatchdogClearRope
      <4>2. unloads' \in Nat /\ watchdog' = "drop" /\ loaded' = FALSE
        BY <3>4 DEF WatchdogClearRope
      <4>3. UNCHANGED <<pc, est, stream, held, heldEpoch, modelLock, admLock,
                        loads, cache, epoch, memoryLimit, idle>>
        BY <3>4 DEF WatchdogClearRope
      <4> QED
        BY <4>1, <4>2, <4>3
    <3>5. CASE WatchdogDrop
      BY <3>5 DEF WatchdogDrop, InvalidateSnapshot
    <3>6. CASE UNCHANGED vars
      BY <3>6 DEF vars
    <3> QED
      BY <1>7, <3>1, <3>2, <3>3, <3>4, <3>5, <3>6 DEF Unload
  <2>2. pc' = pc /\ active' = active
    BY <1>7 DEF TimePasses, TouchOnly, WatchdogCheck, Unload,
       WatchdogLock, WatchdogClear, WatchdogClearRope, WatchdogDrop,
       vars, handlerVars, sharedVars
  <2>3. Reserved' = Reserved
    BY <2>2 DEF Reserved
  <2> QED
    BY <2>1, <2>2, <2>3 DEF ActiveCountExact
<1>8. TypeInt' /\ ActiveCountExact'
  BY <1>1, <1>2, <1>3, <1>4, <1>5, <1>6, <1>7 DEF Next, Handle
<1>9. active' \in Nat
  <2>1. (IsFiniteSet(Reserved) /\ Cardinality(Reserved) \in Nat)'
    BY ReservedFinite, PTL
  <2> QED
    BY <1>8, <2>1 DEF ActiveCountExact
<1> QED
  BY <1>8, <1>9 DEF TypeInt, TypeOK

(* The counter is exact and every variable keeps its type. *)
THEOREM ReservationsCounted == Spec => [](TypeOK /\ ActiveCountExact)
<1>1. Init => TypesAndCount
  BY InitTypesAndCount
<1>2. TypesAndCount /\ [Next]_vars => TypesAndCount'
  BY TypesStep
<1>3. Spec => []TypesAndCount
  BY <1>1, <1>2, PTL DEF Spec
<1> QED
  BY <1>3, PTL DEF TypesAndCount

(* Every variable keeps its type. *)
THEOREM ServerTypes == Spec => []TypeOK
  BY ReservationsCounted, PTL

-----------------------------------------------------------------------------
(* The mutexes.  Each has the holder its program points say, so no two     *)
(* threads are inside it: handlers and watchdog for g_model_mutex,         *)
(* handlers for g_admission_mutex.                                         *)
ModelPoints == {"initBody", "initRope", "initDrop", "generating"}
AdmPoints == {"admitModel", "admitKv", "admitCount", "admitDecide"}
Locks ==
    /\ \A r \in Requests : pc[r] \in ModelPoints <=> modelLock = r
    /\ watchdog \in {"clear", "clearRope", "drop"} <=> modelLock = Keeper
    /\ \A r \in Requests : pc[r] \in AdmPoints <=> admLock = r

\* Every step keeps the mutexes at the points inside their critical sections.
LEMMA LocksStep == TypeOK /\ Locks /\ [Next]_vars => Locks'
<1> SUFFICES ASSUME TypeOK, Locks, [Next]_vars PROVE Locks'
  OBVIOUS
<1> USE ServerAssumption DEF TypeOK, Locks, ModelPoints, AdmPoints, Goto
<1>1. ASSUME NEW r \in Requests, Arrive(r) \/ CheckLoaded(r)
      PROVE  Locks'
  BY <1>1 DEF Arrive, CheckLoaded, sharedVars, lockVars, ambientVars
<1>2. ASSUME NEW r \in Requests, Reload(r)
      PROVE  Locks'
  <2>1. CASE InitLock(r)
    BY <2>1 DEF InitLock, ambientVars
  <2>2. CASE InitAlreadyLoaded(r) \/ InitFails(r)
    BY <2>2 DEF InitAlreadyLoaded, InitFails, ambientVars
  <2>3. CASE InitWeights(r) \/ InitRope(r)
    BY <2>3 DEF InitWeights, InitRope, lockVars, ambientVars
  <2>4. CASE InitDrop(r)
    BY <2>4 DEF InitDrop, ambientVars
  <2> QED
    BY <1>2, <2>1, <2>2, <2>3, <2>4 DEF Reload
<1>3. ASSUME NEW r \in Requests, Admission(r)
      PROVE  Locks'
  <2>1. CASE AdmitUnlimited(r)
    BY <2>1 DEF AdmitUnlimited, lockVars, ambientVars
  <2>2. CASE AdmitLock(r)
    BY <2>2 DEF AdmitLock, ambientVars
  <2>3. CASE ReadModelSize(r) \/ ReadKvSize(r) \/ ReadActive(r)
    BY <2>3 DEF ReadModelSize, ReadKvSize, ReadActive, sharedVars, lockVars,
       ambientVars
  <2>4. CASE AdmitAccept(r) \/ AdmitReject(r)
    BY <2>4 DEF AdmitAccept, AdmitReject, ambientVars
  <2> QED
    BY <1>3, <2>1, <2>2, <2>3, <2>4 DEF Admission
<1>4. ASSUME NEW r \in Requests, Parse(r) \/ Tokenize(r) \/ TakeSnapshot(r)
      PROVE  Locks'
  BY <1>4 DEF Parse, Tokenize, TakeSnapshot, SnapshotHit, SnapshotMiss,
     SnapshotCopy, SnapshotStore, sharedVars, lockVars, ambientVars
<1>5. ASSUME NEW r \in Requests, StartStream(r) \/ EndStream(r)
      PROVE  Locks'
  BY <1>5 DEF StartStream, EndStream, sharedVars, lockVars, ambientVars
<1>6. ASSUME NEW r \in Requests, StartGenerate(r)
      PROVE  Locks'
  BY <1>6 DEF StartGenerate, ambientVars
<1>7. ASSUME NEW r \in Requests, EndGenerate(r)
      PROVE  Locks'
  BY <1>7 DEF EndGenerate, ambientVars
<1>8. ASSUME NEW r \in Requests, ReleaseSlot(r) \/ StampEnd(r)
      PROVE  Locks'
  BY <1>8 DEF ReleaseSlot, StampEnd, sharedVars, lockVars, ambientVars
<1>9. CASE TimePasses \/ TouchOnly \/ WatchdogCheck \/ UNCHANGED vars
  BY <1>9 DEF TimePasses, TouchOnly, WatchdogCheck, vars, handlerVars,
     sharedVars, lockVars, ambientVars
<1>10. CASE Unload
  <2>1. CASE WatchdogLock
    BY <2>1 DEF WatchdogLock, handlerVars
  <2>2. CASE WatchdogClear \/ WatchdogClearRope
    BY <2>2 DEF WatchdogClear, WatchdogClearRope, handlerVars, lockVars
  <2>3. CASE WatchdogDrop
    BY <2>3 DEF WatchdogDrop, handlerVars
  <2> QED
    BY <1>10, <2>1, <2>2, <2>3 DEF Unload
<1> HIDE DEF Locks
<1> QED
  BY <1>1, <1>2, <1>3, <1>4, <1>5, <1>6, <1>7, <1>8, <1>9, <1>10
     DEF Next, Handle

(* g_model_mutex and g_admission_mutex exclude. *)
THEOREM MutualExclusion == Spec => []Locks
<1>1. Init => Locks
  BY ServerAssumption DEF Init, Locks, ModelPoints, AdmPoints
<1>2. Spec => []TypeOK
  BY ReservationsCounted, PTL
<1>3. TypeOK /\ Locks /\ [Next]_vars => Locks'
  BY LocksStep
<1> QED
  BY <1>1, <1>2, <1>3, PTL DEF Spec

-----------------------------------------------------------------------------
(* The contents of g_model.  The flag `loaded` counts loads against        *)
(* unloads; weights and RoPE tables belong together except in the middle   *)
(* of a load or of an unload, which g_model_mutex hides.                   *)
Contents ==
    /\ loads >= 1
    /\ loads = unloads + IF loaded THEN 1 ELSE 0
    /\ watchdog \in {"lock", "clear", "clearRope"} => loaded
    /\ watchdog = "clearRope" => model.weights = 0
    /\ \A r \in Requests : pc[r] = "initRope" =>
          ~loaded /\ model.weights = loads + 1
    /\ modelLock = None => model.weights = model.rope
    /\ \A r \in Requests : pc[r] \in {"initBody", "initDrop", "generating"} =>
          model.weights = model.rope
    /\ watchdog \in {"clear", "drop"} => model.weights = model.rope

\* Every step keeps what the model, the cache and the snapshots hold.
LEMMA ContentsStep == TypeOK /\ Locks /\ Contents /\ [Next]_vars => Contents'
<1> SUFFICES ASSUME TypeOK, Locks, Contents, [Next]_vars PROVE Contents'
  OBVIOUS
<1> DEFINE Whole == model.weights = model.rope
<1> USE DEF Contents
(* A step of a handler that leaves the model and the watchdog alone. *)
<1>1. ASSUME NEW r \in Requests, NEW from, NEW to, Goto(r, from, to),
             UNCHANGED <<modelVars, watchdog>>,
             to # "initRope",
             modelLock' = None => Whole,
             to \in {"initBody", "initDrop", "generating"} => Whole
      PROVE  Contents'
  BY <1>1 DEF TypeOK, Goto, modelVars
<1>2. ASSUME NEW r \in Requests, Arrive(r) \/ CheckLoaded(r)
      PROVE  Contents'
  BY <1>1, <1>2 DEF Arrive, CheckLoaded, sharedVars, lockVars, ambientVars
<1>3. ASSUME NEW r \in Requests, Reload(r)
      PROVE  Contents'
  <2>1. CASE InitLock(r) \/ InitAlreadyLoaded(r) \/ InitFails(r) \/ InitDrop(r)
    BY <1>1, <2>1, ServerAssumption DEF InitLock, InitAlreadyLoaded, InitFails, InitDrop,
       Goto, ambientVars, modelVars
  <2>2. \A q \in Requests : pc[q] \in ModelPoints /\ pc[r] \in ModelPoints => q = r
    BY DEF Locks
  <2>3. pc[r] \in ModelPoints => /\ modelLock # None
                                 /\ watchdog \notin {"clear", "clearRope", "drop"}
    BY ServerAssumption DEF Locks
  <2>4. CASE InitWeights(r)
    BY <2>2, <2>3, <2>4 DEF InitWeights, Goto, TypeOK, ambientVars, lockVars,
       ModelPoints
  <2>5. CASE InitRope(r)
    BY <2>2, <2>3, <2>5 DEF InitRope, Goto, TypeOK, ambientVars, lockVars,
       ModelPoints
  <2> QED
    BY <1>3, <2>1, <2>4, <2>5 DEF Reload
<1>4. ASSUME NEW r \in Requests, Admission(r)
      PROVE  Contents'
  BY <1>1, <1>4 DEF Admission, AdmitUnlimited, AdmitLock, ReadModelSize,
     ReadKvSize, ReadActive, AdmitAccept, AdmitReject, sharedVars, lockVars,
     ambientVars
<1>5. ASSUME NEW r \in Requests, Parse(r) \/ Tokenize(r) \/ TakeSnapshot(r)
      PROVE  Contents'
  BY <1>1, <1>5 DEF Parse, Tokenize, TakeSnapshot, SnapshotHit, SnapshotMiss,
     SnapshotCopy, SnapshotStore, sharedVars, lockVars, ambientVars
<1>6. ASSUME NEW r \in Requests,
             \/ StartStream(r) \/ EndStream(r)
             \/ StartGenerate(r) \/ EndGenerate(r)
             \/ ReleaseSlot(r) \/ StampEnd(r)
      PROVE  Contents'
  <2>1. CASE StartGenerate(r) \/ EndGenerate(r)
    <3>1. Whole
      BY <2>1 DEF StartGenerate, EndGenerate, Goto
    <3> QED
      BY <1>1, <2>1, <3>1 DEF StartGenerate, EndGenerate, ambientVars
  <2>2. CASE \/ StartStream(r) \/ EndStream(r)
             \/ ReleaseSlot(r) \/ StampEnd(r)
    BY <1>1, <2>2 DEF StartStream, EndStream, ReleaseSlot, StampEnd, sharedVars,
       lockVars, ambientVars
  <2> QED
    BY <1>6, <2>1, <2>2
<1>7. CASE TimePasses \/ TouchOnly \/ WatchdogCheck \/ UNCHANGED vars
  BY <1>7 DEF TimePasses, TouchOnly, WatchdogCheck, vars, handlerVars,
     sharedVars, lockVars, modelVars, ambientVars
<1>8. CASE Unload
  <2>1. watchdog \in {"clear", "clearRope", "drop"} =>
          /\ modelLock # None
          /\ \A q \in Requests : pc[q] \notin ModelPoints
    BY ServerAssumption DEF Locks
  <2>2. CASE WatchdogLock
    BY <2>2, ServerAssumption DEF WatchdogLock, TypeOK, handlerVars, modelVars
  <2>3. CASE WatchdogClear
    BY <2>1, <2>3 DEF WatchdogClear, TypeOK, handlerVars, lockVars, ModelPoints
  <2>4. CASE WatchdogClearRope
    BY <2>1, <2>4 DEF WatchdogClearRope, TypeOK, handlerVars, lockVars, ModelPoints
  <2>5. CASE WatchdogDrop
    BY <2>1, <2>5 DEF WatchdogDrop, TypeOK, handlerVars, modelVars
  <2> QED
    BY <1>8, <2>2, <2>3, <2>4, <2>5 DEF Unload
<1> HIDE DEF Contents
<1> QED
  BY <1>2, <1>3, <1>4, <1>5, <1>6, <1>7, <1>8 DEF Next, Handle

\* So they hold it always.
LEMMA AlwaysContents == Spec => []Contents
<1>1. Init => Contents
  BY DEF Init, Contents
<1>2. Spec => [](TypeOK /\ Locks)
  BY ReservationsCounted, MutualExclusion, PTL
<1>3. TypeOK /\ Locks /\ Contents /\ [Next]_vars => Contents'
  BY ContentsStep
<1> QED
  BY <1>1, <1>2, <1>3, PTL DEF Spec

(* However many requests find the model unloaded, they load it once. *)
THEOREM SingleFlight == Spec => []SingleFlightLoad
<1>1. TypeOK /\ Contents => SingleFlightLoad
  BY DEF TypeOK, Contents, SingleFlightLoad
<1>2. Spec => [](TypeOK /\ Contents)
  BY ReservationsCounted, AlwaysContents, PTL
<1> QED
  BY <1>1, <1>2, PTL

(* A snapshot is in hand only where the handler can have one.              *)
HoldingPoints == {"start", "streaming", "generating", "release"}
Untorn ==
    /\ cache # None => cache.weights = cache.rope
    /\ \A r \in Requests : held[r] # None => held[r].weights = held[r].rope
    /\ \A r \in Requests :
          pc[r] \notin HoldingPoints \cup {"snapStore"} => held[r] = None
    /\ \A r \in Requests : pc[r] = "snapStore" => held[r] # None

\* No step makes a snapshot that mixes two states of the model.
LEMMA UntornStep ==
    TypeOK /\ Contents /\ Untorn /\ [Next]_vars => Untorn'
<1> SUFFICES ASSUME TypeOK, Contents, Untorn, [Next]_vars PROVE Untorn'
  OBVIOUS
<1> USE DEF Untorn, HoldingPoints
(* A handler that neither takes nor drops a snapshot. *)
<1>1. ASSUME NEW r \in Requests, NEW from, NEW to, Goto(r, from, to),
             held' = held, cache' \in {cache, None},
             to \in {"snapStore", "start", "streaming", "generating"}
                => from \in HoldingPoints,
             from \in HoldingPoints => to \in HoldingPoints,
             from # "snapStore", to # "snapStore"
      PROVE  Untorn'
  BY <1>1 DEF TypeOK, Goto
<1>2. ASSUME NEW r \in Requests, Arrive(r) \/ CheckLoaded(r)
      PROVE  Untorn'
  BY <1>1, <1>2 DEF Arrive, CheckLoaded, dataVars, sharedVars, cacheVars
<1>3. ASSUME NEW r \in Requests, Reload(r)
      PROVE  Untorn'
  BY <1>1, <1>3 DEF Reload, InitLock, InitAlreadyLoaded, InitFails,
     InitWeights, InitRope, InitDrop, InvalidateSnapshot, dataVars, cacheVars
<1>4. ASSUME NEW r \in Requests, Admission(r)
      PROVE  Untorn'
  BY <1>1, <1>4 DEF Admission, AdmitUnlimited, AdmitLock, ReadModelSize,
     ReadKvSize, ReadActive, AdmitAccept, AdmitReject, dataVars, sharedVars,
     cacheVars
<1>5. ASSUME NEW r \in Requests, Parse(r) \/ Tokenize(r) \/ SnapshotMiss(r)
      PROVE  Untorn'
  BY <1>1, <1>5 DEF Parse, Tokenize, SnapshotMiss, dataVars, sharedVars,
     cacheVars
<1>6. ASSUME NEW r \in Requests, SnapshotHit(r)
      PROVE  Untorn'
  BY <1>6 DEF SnapshotHit, Goto, TypeOK, sharedVars, cacheVars
<1>7. ASSUME NEW r \in Requests, SnapshotCopy(r)
      PROVE  Untorn'
  <2> DEFINE s == [weights |-> model.weights, rope |-> model.rope, copy |-> r]
  <2>1. s \in Snapshot /\ s.weights = s.rope
    BY <1>7 DEF SnapshotCopy, Contents, TypeOK, Snapshot
  <2>2. s # None
    BY <2>1, ServerAssumption
  <2>3. held' = [held EXCEPT ![r] = s] /\ cache' = cache
    BY <1>7 DEF SnapshotCopy, sharedVars, cacheVars
  <2>4. Goto(r, "snapCopy", "snapStore")
    BY <1>7 DEF SnapshotCopy
  <2> HIDE DEF s
  <2> QED
    BY <2>1, <2>2, <2>3, <2>4 DEF Goto, TypeOK
<1>8. ASSUME NEW r \in Requests, SnapshotStore(r)
      PROVE  Untorn'
  BY <1>8 DEF SnapshotStore, Goto, TypeOK
<1>9. ASSUME NEW r \in Requests,
             \/ StartStream(r) \/ EndStream(r)
             \/ StartGenerate(r) \/ EndGenerate(r) \/ StampEnd(r)
      PROVE  Untorn'
  BY <1>1, <1>9 DEF StartStream, EndStream, StartGenerate, EndGenerate,
     StampEnd, dataVars, sharedVars, cacheVars
<1>10. ASSUME NEW r \in Requests, ReleaseSlot(r)
       PROVE  Untorn'
  BY <1>10 DEF ReleaseSlot, Goto, TypeOK, cacheVars
<1>11. CASE TimePasses \/ TouchOnly \/ WatchdogCheck \/ Unload \/ UNCHANGED vars
  BY <1>11 DEF TimePasses, TouchOnly, WatchdogCheck, Unload, WatchdogLock,
     WatchdogClear, WatchdogClearRope, WatchdogDrop, InvalidateSnapshot, vars,
     handlerVars, dataVars, sharedVars, cacheVars
<1> HIDE DEF Untorn
<1> QED
  BY <1>2, <1>3, <1>4, <1>5, <1>6, <1>7, <1>8, <1>9, <1>10, <1>11
     DEF Next, Handle, TakeSnapshot

\* So no call ever has one.
LEMMA AlwaysUntorn == Spec => []Untorn
<1>1. Init => Untorn
  BY DEF Init, Untorn
<1>2. Spec => [](TypeOK /\ Contents)
  BY ReservationsCounted, AlwaysContents, PTL
<1>3. TypeOK /\ Contents /\ Untorn /\ [Next]_vars => Untorn'
  BY UntornStep
<1> QED
  BY <1>1, <1>2, <1>3, PTL DEF Spec

(* No snapshot mixes two states of the model. *)
THEOREM WholeSnapshots == Spec => []NoTornSnapshot
<1>1. Untorn => NoTornSnapshot
  BY DEF Untorn, NoTornSnapshot
<1> QED
  BY <1>1, AlwaysUntorn, PTL

(* Everybody who got a snapshot in the current epoch got the cached one.   *)
Shared ==
    \A r \in Requests : HoldsSnapshot(r) =>
        /\ heldEpoch[r] <= epoch
        /\ heldEpoch[r] = epoch => cache # None /\ held[r].copy = cache.copy

Copies == Shared /\ OneCopyPerEpoch

\* Every step keeps the copies that are shared within an epoch.
LEMMA CopiesStep ==
    TypeOK /\ Untorn /\ Copies /\ [Next]_vars => Copies'
<1> SUFFICES ASSUME TypeOK, Untorn, Copies, [Next]_vars PROVE Copies'
  OBVIOUS
<1> USE DEF Copies, Shared, OneCopyPerEpoch, HoldsSnapshot
(* A handler that takes no snapshot; it may drop its own or invalidate. *)
<1>1. ASSUME NEW r \in Requests, NEW from, NEW to, Goto(r, from, to),
             \/ held' = held
             \/ held' = [held EXCEPT ![r] = None],
             heldEpoch' = heldEpoch,
             \/ cache' = cache /\ epoch' = epoch
             \/ InvalidateSnapshot,
             to \in HoldingPoints => from \in HoldingPoints \/ held[r] = None
      PROVE  Copies'
  <2>1. \A q \in Requests : HoldsSnapshot(q)' =>
          /\ HoldsSnapshot(q)
          /\ held'[q] = held[q] /\ heldEpoch'[q] = heldEpoch[q]
    BY <1>1 DEF TypeOK, Goto, HoldingPoints
  <2>2. CASE cache' = cache /\ epoch' = epoch
    BY <2>1, <2>2 DEF TypeOK
  <2>3. CASE InvalidateSnapshot
    BY <2>1, <2>3 DEF TypeOK, InvalidateSnapshot
  <2> QED
    BY <1>1, <2>2, <2>3
(* A handler that takes the cached copy, or its own when there is none. *)
<1>2. ASSUME NEW r \in Requests, NEW s, s # None,
             pc[r] \in {"snapCheck", "snapStore"},
             Goto(r, pc[r], "start"),
             cache # None => s = cache,
             cache' = s, epoch' = epoch,
             held' = [held EXCEPT ![r] = s],
             heldEpoch' = [heldEpoch EXCEPT ![r] = epoch]
      PROVE  Copies'
  <2>1. /\ held'[r] = s /\ heldEpoch'[r] = epoch
        /\ \A q \in Requests \ {r} :
              held'[q] = held[q] /\ heldEpoch'[q] = heldEpoch[q] /\ pc'[q] = pc[q]
    BY <1>2 DEF TypeOK, Goto
  <2>2. \A q \in Requests \ {r} : HoldsSnapshot(q)' => HoldsSnapshot(q)
    BY <2>1
  <2>3. \A q \in Requests \ {r} : HoldsSnapshot(q) =>
          /\ heldEpoch[q] <= epoch
          /\ heldEpoch[q] = epoch => held[q].copy = s.copy
    BY <1>2
  <2>4. epoch \in Nat /\ \A q \in Requests : heldEpoch[q] \in Nat
    BY DEF TypeOK
  <2>5. Shared'
    BY <1>2, <2>1, <2>2, <2>3, <2>4
  <2>6. OneCopyPerEpoch'
    <3> SUFFICES ASSUME NEW r1 \in Requests, NEW r2 \in Requests,
                        HoldsSnapshot(r1)', HoldsSnapshot(r2)',
                        heldEpoch'[r1] = heldEpoch'[r2]
                 PROVE  held'[r1].copy = held'[r2].copy
      OBVIOUS
    <3>1. CASE r1 = r /\ r2 = r
      BY <3>1
    <3>2. CASE r1 = r /\ r2 # r
      BY <2>1, <2>2, <2>3, <3>2
    <3>3. CASE r1 # r /\ r2 = r
      BY <2>1, <2>2, <2>3, <3>3
    <3>4. CASE r1 # r /\ r2 # r
      BY <2>1, <2>2, <3>4
    <3> QED
      BY <3>1, <3>2, <3>3, <3>4
  <2> QED
    BY <2>5, <2>6
<1>3. ASSUME NEW r \in Requests, Arrive(r) \/ CheckLoaded(r)
      PROVE  Copies'
  BY <1>1, <1>3 DEF Arrive, CheckLoaded, dataVars, sharedVars, cacheVars,
     HoldingPoints
<1>4. ASSUME NEW r \in Requests, Reload(r)
      PROVE  Copies'
  BY <1>1, <1>4 DEF Reload, InitLock, InitAlreadyLoaded, InitFails,
     InitWeights, InitRope, InitDrop, dataVars, cacheVars, HoldingPoints
<1>5. ASSUME NEW r \in Requests, Admission(r)
      PROVE  Copies'
  BY <1>1, <1>5 DEF Admission, AdmitUnlimited, AdmitLock, ReadModelSize,
     ReadKvSize, ReadActive, AdmitAccept, AdmitReject, dataVars, sharedVars,
     cacheVars, HoldingPoints
<1>6. ASSUME NEW r \in Requests, Parse(r) \/ Tokenize(r) \/ SnapshotMiss(r)
      PROVE  Copies'
  <2>1. held[r] = None
    BY <1>6 DEF Parse, Tokenize, SnapshotMiss, Goto, Untorn, HoldingPoints
  <2> QED
    BY <1>1, <1>6, <2>1 DEF Parse, Tokenize, SnapshotMiss, dataVars,
       sharedVars, cacheVars, HoldingPoints
<1>7. ASSUME NEW r \in Requests, SnapshotHit(r)
      PROVE  Copies'
  BY <1>2, <1>7 DEF SnapshotHit, Goto, sharedVars, cacheVars
<1>8. ASSUME NEW r \in Requests, SnapshotCopy(r)
      PROVE  Copies'
  <2>1. \A q \in Requests : HoldsSnapshot(q)' =>
          /\ HoldsSnapshot(q)
          /\ held'[q] = held[q] /\ heldEpoch'[q] = heldEpoch[q]
    BY <1>8 DEF SnapshotCopy, Goto, TypeOK
  <2>2. cache' = cache /\ epoch' = epoch
    BY <1>8 DEF SnapshotCopy, sharedVars, cacheVars
  <2> QED
    BY <2>1, <2>2
<1>9. ASSUME NEW r \in Requests, SnapshotStore(r)
      PROVE  Copies'
  <2>1. held[r] # None
    BY <1>9 DEF SnapshotStore, Goto, Untorn
  <2> QED
    BY <1>2, <1>9, <2>1 DEF SnapshotStore, Goto
<1>10. ASSUME NEW r \in Requests,
              \/ StartStream(r) \/ EndStream(r)
              \/ StartGenerate(r) \/ EndGenerate(r)
              \/ ReleaseSlot(r) \/ StampEnd(r)
       PROVE  Copies'
  BY <1>1, <1>10 DEF StartStream, EndStream, StartGenerate, EndGenerate,
     ReleaseSlot, StampEnd, dataVars, sharedVars, cacheVars, HoldingPoints
<1>11. CASE TimePasses \/ TouchOnly \/ WatchdogCheck \/ Unload \/ UNCHANGED vars
  <2>1. pc' = pc /\ held' = held /\ heldEpoch' = heldEpoch
    BY <1>11 DEF TimePasses, TouchOnly, WatchdogCheck, Unload, WatchdogLock,
       WatchdogClear, WatchdogClearRope, WatchdogDrop, vars, handlerVars,
       dataVars
  <2>2. \/ cache' = cache /\ epoch' = epoch
        \/ InvalidateSnapshot
    BY <1>11 DEF TimePasses, TouchOnly, WatchdogCheck, Unload, WatchdogLock,
       WatchdogClear, WatchdogClearRope, WatchdogDrop, vars, sharedVars,
       cacheVars
  <2> QED
    BY <2>1, <2>2 DEF TypeOK, InvalidateSnapshot
<1> HIDE DEF Copies
<1> QED
  BY <1>3, <1>4, <1>5, <1>6, <1>7, <1>8, <1>9, <1>10, <1>11
     DEF Next, Handle, TakeSnapshot

(* Requests served between two invalidations share one copy of the model. *)
THEOREM SharedSnapshot == Spec => []OneCopyPerEpoch
<1>1. Init => Copies
  BY DEF Init, Copies, Shared, OneCopyPerEpoch, HoldsSnapshot
<1>2. Spec => [](TypeOK /\ Untorn)
  BY ReservationsCounted, AlwaysUntorn, PTL
<1>3. TypeOK /\ Untorn /\ Copies /\ [Next]_vars => Copies'
  BY CopiesStep
<1>4. Copies => OneCopyPerEpoch
  BY DEF Copies
<1> QED
  BY <1>1, <1>2, <1>3, <1>4, PTL DEF Spec

(* What an admission has read is at least what the model counts, and it    *)
(* decides on a number of slots that cannot have grown meanwhile.          *)
Accounted ==
    /\ \A r \in Requests : pc[r] \in AdmPoints => memoryLimit > 0
    /\ \A r \in Requests : pc[r] \in {"admitKv", "admitCount", "admitDecide"}
          => CountedModel <= est[r].model
    /\ \A r \in Requests : pc[r] \in {"admitCount", "admitDecide"}
          => CountedKv <= est[r].kv
    /\ \A r \in Requests : pc[r] = "admitDecide" => active <= est[r].active
    /\ memoryLimit > 0 /\ active > 0 =>
          CountedModel + active * CountedKv <= memoryLimit

\* More calls of the same size need no less memory.
LEMMA ProductMonotone ==
    ASSUME NEW a \in Nat, NEW b \in Nat, NEW c \in Nat, NEW d \in Nat,
           a <= b, c <= d
    PROVE  a * c <= b * d
<1>1. PICK x \in Nat : b = a + x
  <2>1. b - a \in Nat /\ b = a + (b - a)
    OBVIOUS
  <2> QED
    BY <2>1
<1>2. PICK y \in Nat : d = c + y
  <2>1. d - c \in Nat /\ d = c + (d - c)
    OBVIOUS
  <2> QED
    BY <2>1
<1>3. b * d = a * c + (a * y + x * c + x * y)
  BY <1>1, <1>2
<1>4. a * y \in Nat /\ x * c \in Nat /\ x * y \in Nat /\ a * c \in Nat
  BY <1>1, <1>2
<1> QED
  BY <1>3, <1>4

\* The memory accounted for is a number.
LEMMA CountedNat == CountedModel \in Nat /\ CountedKv \in Nat
  BY SizesNat DEF CountedModel, CountedKv, Least

(* The memory counted for `slots` caches never exceeds what it was when    *)
(* neither sizes nor slots have grown.                                     *)
LEMMA CountedMonotone ==
    ASSUME NEW m1 \in Nat, NEW m2 \in Nat, NEW k1 \in Nat, NEW k2 \in Nat,
           NEW n1 \in Nat, NEW n2 \in Nat, NEW limit \in Nat,
           m1 <= m2, n1 <= n2, k1 <= k2, m2 + n2 * k2 <= limit
    PROVE  m1 + n1 * k1 <= limit
<1>1. n1 * k1 <= n2 * k2
  BY ProductMonotone
<1>2. n1 * k1 \in Nat /\ n2 * k2 \in Nat
  OBVIOUS
<1> QED
  BY <1>1, <1>2

\* Every step keeps the memory accounted for within the limit.
LEMMA AccountedStep ==
    /\ TypeOK /\ TypeOK' /\ Locks /\ Contents /\ Accounted /\ [Next]_vars
    => Accounted'
<1> SUFFICES ASSUME TypeOK, TypeOK', Locks, Contents, Accounted, [Next]_vars
             PROVE  Accounted'
  OBVIOUS
<1>n. /\ CountedModel \in Nat /\ CountedModel' \in Nat
      /\ CountedKv \in Nat /\ CountedKv' \in Nat
      /\ active \in Nat /\ active' \in Nat /\ memoryLimit \in Nat
  <2>1. (CountedModel \in Nat /\ CountedKv \in Nat)'
    BY CountedNat, PTL
  <2> QED
    BY <2>1, CountedNat, ServerAssumption DEF TypeOK
(* A step that reserves nothing and reads nothing for an admission. *)
<1>1. ASSUME memoryLimit' = memoryLimit, est' = est, active' <= active,
             CountedModel' <= CountedModel, CountedKv' <= CountedKv,
             \A q \in Requests : pc'[q] \in AdmPoints =>
                 \/ pc'[q] = pc[q]
                 \/ pc'[q] = "admitModel" /\ memoryLimit > 0
      PROVE  Accounted'
  <2>1. memoryLimit > 0 /\ active' > 0 =>
           CountedModel' + active' * CountedKv' <= memoryLimit
    <3> SUFFICES ASSUME memoryLimit > 0, active' > 0
                 PROVE  CountedModel' + active' * CountedKv' <= memoryLimit
      OBVIOUS
    <3>1. CountedModel + active * CountedKv <= memoryLimit
      BY <1>n, <1>1 DEF Accounted
    <3> HIDE DEF CountedModel, CountedKv
    <3> QED
      BY <1>n, <1>1, <3>1, CountedMonotone
  <2>2. \A q \in Requests : /\ est[q].model \in Nat /\ est[q].kv \in Nat
                            /\ est[q].active \in Nat
    BY DEF TypeOK
  <2> HIDE DEF CountedModel, CountedKv
  <2>3. ASSUME NEW q \in Requests, pc'[q] \in AdmPoints
        PROVE  memoryLimit > 0
    BY <1>1, <2>3 DEF Accounted
  <2>4. ASSUME NEW q \in Requests,
               pc'[q] \in {"admitKv", "admitCount", "admitDecide"}
        PROVE  CountedModel' <= est[q].model
    <3>1. CountedModel <= est[q].model
      BY <1>1, <2>4 DEF Accounted, AdmPoints
    <3> QED
      BY <1>n, <1>1, <2>2, <3>1
  <2>5. ASSUME NEW q \in Requests, pc'[q] \in {"admitCount", "admitDecide"}
        PROVE  CountedKv' <= est[q].kv
    <3>1. CountedKv <= est[q].kv
      BY <1>1, <2>5 DEF Accounted, AdmPoints
    <3> QED
      BY <1>n, <1>1, <2>2, <3>1
  <2>6. ASSUME NEW q \in Requests, pc'[q] = "admitDecide"
        PROVE  active' <= est[q].active
    <3>1. active <= est[q].active
      BY <1>1, <2>6 DEF Accounted, AdmPoints
    <3> QED
      BY <1>n, <1>1, <2>2, <3>1
  <2> QED
    BY <1>1, <2>1, <2>3, <2>4, <2>5, <2>6 DEF Accounted
<1>2. unloads' = unloads =>
        CountedModel' = CountedModel /\ CountedKv' = CountedKv
  BY DEF CountedModel, CountedKv
<1>3. ASSUME NEW r \in Requests, NEW from, NEW to, Goto(r, from, to),
             UNCHANGED <<memoryLimit, est, unloads>>,
             active' <= active,
             to \in AdmPoints => to = "admitModel" /\ memoryLimit > 0
      PROVE  Accounted'
  BY <1>n, <1>1, <1>2, <1>3 DEF Goto, TypeOK
<1>4. ASSUME NEW r \in Requests, Arrive(r) \/ CheckLoaded(r)
      PROVE  Accounted'
  BY <1>n, <1>3, <1>4 DEF Arrive, CheckLoaded, dataVars, sharedVars, modelVars,
     ambientVars, AdmPoints
<1>5. ASSUME NEW r \in Requests, Reload(r)
      PROVE  Accounted'
  BY <1>n, <1>3, <1>5 DEF Reload, InitLock, InitAlreadyLoaded, InitFails,
     InitWeights, InitRope, InitDrop, dataVars, modelVars, ambientVars, AdmPoints
(* try_reserve_request *)
<1>6. \A q1, q2 \in Requests : pc[q1] \in AdmPoints /\ pc[q2] \in AdmPoints
         => q1 = q2
  BY DEF Locks
<1>7. unloads = 0 => loaded
  BY DEF Contents, TypeOK
<1>8. ASSUME NEW r \in Requests, Admission(r)
      PROVE  Accounted'
  <2>1. CASE AdmitUnlimited(r)
    BY <1>n, <1>2, <2>1 DEF AdmitUnlimited, Goto, TypeOK, Accounted, AdmPoints,
       dataVars, modelVars, ambientVars
  <2>2. CASE AdmitLock(r)
    BY <1>n, <1>3, <2>2 DEF AdmitLock, dataVars, modelVars, ambientVars, AdmPoints
  <2>3. CASE ReadModelSize(r)
    <3>1. CountedModel <= est'[r].model
      BY <1>7, <2>3, SizesNat DEF ReadModelSize, CountedModel, Least, TypeOK
    <3>2. /\ Goto(r, "admitModel", "admitKv")
          /\ UNCHANGED <<unloads, active, memoryLimit>>
          /\ \A q \in Requests \ {r} : est'[q] = est[q]
      BY <2>3 DEF ReadModelSize, TypeOK, sharedVars, modelVars, ambientVars
    <3> HIDE DEF CountedModel, CountedKv
    <3> QED
      BY <1>2, <3>1, <3>2 DEF Accounted, AdmPoints, Goto, TypeOK
  <2>4. CASE ReadKvSize(r)
    <3>1. CountedKv <= est'[r].kv
      BY <1>7, <2>4, SizesNat DEF ReadKvSize, CountedKv, Least, TypeOK
    <3>2. /\ Goto(r, "admitKv", "admitCount")
          /\ UNCHANGED <<unloads, active, memoryLimit>>
          /\ \A q \in Requests \ {r} : est'[q] = est[q]
          /\ est'[r].model = est[r].model
      BY <2>4 DEF ReadKvSize, TypeOK, sharedVars, modelVars, ambientVars
    <3> HIDE DEF CountedModel, CountedKv
    <3> QED
      BY <1>2, <3>1, <3>2 DEF Accounted, AdmPoints, Goto, TypeOK
  <2>5. CASE ReadActive(r)
    <3>1. /\ Goto(r, "admitCount", "admitDecide")
          /\ UNCHANGED <<unloads, active, memoryLimit>>
          /\ \A q \in Requests \ {r} : est'[q] = est[q]
          /\ est'[r].model = est[r].model /\ est'[r].kv = est[r].kv
          /\ est'[r].active = active
      BY <2>5 DEF ReadActive, TypeOK, sharedVars, modelVars, ambientVars
    <3> HIDE DEF CountedModel, CountedKv
    <3> QED
      BY <1>n, <1>2, <3>1 DEF Accounted, AdmPoints, Goto, TypeOK
  <2>6. CASE AdmitAccept(r)
    <3>1. /\ Goto(r, "admitDecide", "parse")
          /\ UNCHANGED <<unloads, est, memoryLimit>>
          /\ active' = active + 1
          /\ est[r].model + (est[r].active + 1) * est[r].kv <= memoryLimit
      BY <2>6 DEF AdmitAccept, Projected, dataVars, modelVars, ambientVars
    <3>2. /\ CountedModel <= est[r].model /\ CountedKv <= est[r].kv
          /\ active <= est[r].active
      BY <3>1 DEF Goto, Accounted
    <3>3. est[r].model \in Nat /\ est[r].kv \in Nat /\ est[r].active \in Nat
      BY DEF TypeOK
    <3> HIDE DEF CountedModel, CountedKv
    <3>4. CountedModel + (active + 1) * CountedKv <= memoryLimit
      <4>1. active + 1 \in Nat /\ est[r].active + 1 \in Nat
            /\ active + 1 <= est[r].active + 1
        BY <1>n, <3>2, <3>3
      <4> QED
        BY <1>n, <3>1, <3>2, <3>3, <4>1, CountedMonotone
    <3>5. \A q \in Requests : pc'[q] \notin AdmPoints
      BY <1>6, <3>1 DEF Goto, TypeOK, AdmPoints
    <3>6. CountedModel' = CountedModel /\ CountedKv' = CountedKv
      BY <1>2, <3>1
    <3> QED
      BY <3>1, <3>4, <3>5, <3>6 DEF Accounted, AdmPoints
  <2>7. CASE AdmitReject(r)
    BY <1>n, <1>3, <2>7 DEF AdmitReject, dataVars, modelVars, ambientVars, AdmPoints
  <2> QED
    BY <1>8, <2>1, <2>2, <2>3, <2>4, <2>5, <2>6, <2>7 DEF Admission
<1>9. ASSUME NEW r \in Requests, Parse(r) \/ Tokenize(r) \/ TakeSnapshot(r)
      PROVE  Accounted'
  BY <1>n, <1>3, <1>9 DEF Parse, Tokenize, TakeSnapshot, SnapshotHit,
     SnapshotMiss, SnapshotCopy, SnapshotStore, dataVars, sharedVars, modelVars,
     ambientVars, AdmPoints
<1>10. ASSUME NEW r \in Requests,
              \/ StartStream(r) \/ EndStream(r)
              \/ StartGenerate(r) \/ EndGenerate(r)
              \/ ReleaseSlot(r) \/ StampEnd(r)
       PROVE  Accounted'
  BY <1>n, <1>3, <1>10 DEF StartStream, EndStream, StartGenerate, EndGenerate,
     ReleaseSlot, StampEnd, dataVars, sharedVars, modelVars, ambientVars,
     AdmPoints
<1>11. CASE TimePasses \/ TouchOnly \/ WatchdogCheck \/ Unload \/ UNCHANGED vars
  <2>1. UNCHANGED <<memoryLimit, est, active, pc>>
    BY <1>11 DEF TimePasses, TouchOnly, WatchdogCheck, Unload, WatchdogLock,
       WatchdogClear, WatchdogClearRope, WatchdogDrop, vars, handlerVars,
       dataVars, sharedVars, ambientVars
  <2>2. unloads' = unloads \/ unloads' = unloads + 1
    BY <1>11 DEF TimePasses, TouchOnly, WatchdogCheck, Unload, WatchdogLock,
       WatchdogClear, WatchdogClearRope, WatchdogDrop, vars, sharedVars,
       modelVars
  <2>3. CountedModel' <= CountedModel /\ CountedKv' <= CountedKv
    BY <2>2, SizesNat DEF CountedModel, CountedKv, Least, TypeOK
  <2> QED
    BY <1>n, <1>1, <2>1, <2>3
<1> HIDE DEF Accounted
<1> QED
  BY <1>4, <1>5, <1>8, <1>9, <1>10, <1>11 DEF Next, Handle

\* So it always is.
LEMMA AlwaysAccounted == Spec => []Accounted
<1>1. Init => Accounted
  BY DEF Init, Accounted, AdmPoints
<1>2. Spec => [](TypeOK /\ Locks /\ Contents)
  BY ReservationsCounted, MutualExclusion, AlwaysContents, PTL
<1>3. TypeOK /\ TypeOK' /\ Locks /\ Contents /\ Accounted /\ [Next]_vars
      => Accounted'
  BY AccountedStep
<1> QED
  BY <1>1, <1>2, <1>3, PTL DEF Spec

(* The KV caches of the requests that generate fit in the limit. *)
THEOREM MemoryLimit == Spec => []MemoryLimitHonoured
<1>1. TypeOK /\ ActiveCountExact /\ Accounted => MemoryLimitHonoured
  <2> SUFFICES ASSUME TypeOK, ActiveCountExact, Accounted,
                      memoryLimit > 0, Generating # {}
               PROVE  CountedModel + Cardinality(Generating) * CountedKv
                        <= memoryLimit
    BY DEF MemoryLimitHonoured
  <2>1. Generating \subseteq Reserved
    BY DEF Generating, Reserved, ReservedPoints
  <2>2. /\ IsFiniteSet(Generating) /\ Cardinality(Generating) \in Nat
        /\ Cardinality(Generating) <= active
    BY <2>1, ReservedFinite, FS_Subset, FS_CardinalityType DEF ActiveCountExact
  <2>3. Cardinality(Generating) # 0
    BY <2>2, FS_EmptySet
  <2>4. active \in Nat /\ memoryLimit \in Nat
    BY ServerAssumption DEF TypeOK
  <2>5. CountedModel + active * CountedKv <= memoryLimit
    <3>1. active > 0
      BY <2>2, <2>3, <2>4
    <3> QED
      BY <3>1 DEF Accounted
  <2> HIDE DEF CountedModel, CountedKv
  <2> QED
    BY <2>2, <2>4, <2>5, CountedNat, CountedMonotone
<1>2. Spec => [](TypeOK /\ ActiveCountExact /\ Accounted)
  BY ReservationsCounted, AlwaysAccounted, PTL
<1> QED
  BY <1>1, <1>2, PTL
==============================================================================
