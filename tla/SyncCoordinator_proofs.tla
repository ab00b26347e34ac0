------------------------ MODULE SyncCoordinator_proofs ------------------------
(***************************************************************************)
(* Proofs about SyncCoordinator and the orchestrator that runs beside it,  *)
(* for all charges and thresholds, and any number of swings.               *)
(***************************************************************************)
EXTENDS SyncCoordinator, CommonLemmas, FiniteSetTheorems, SequenceTheorems

-----------------------------------------------------------------------------
(***************************************************************************)
(* The orchestrator.                                                       *)
(***************************************************************************)

\* No charge is both below the one threshold and above the other.
LEMMA BandIsOrdered ==
  ASSUME NEW level \in Levels
  PROVE  ~(IsLow(level) /\ IsHigh(level))
BY LevelsAssumption, ThresholdsAssumption DEF IsLow, IsHigh

\* The system starts settled, with a charge above the band.
LEMMA BandInit == OrchestratorInit => BandInv
<1> SUFFICES ASSUME OrchestratorInit PROVE BandInv
  OBVIOUS
<1>1. soc \in Levels /\ IsHigh(soc) /\ ~IsLow(soc)
  BY BandIsOrdered DEF OrchestratorInit
<1>2. OrchestratorTypeOK
  BY <1>1 DEF OrchestratorInit, OrchestratorTypeOK, Modes
<1> QED BY <1>1, <1>2 DEF OrchestratorInit, BandInv, Settled, AboutToShift

\* The battery may swing while the daemon still holds its reading.
LEMMA ChargeStep ==
  ASSUME BandInv, NEW level \in Levels, Charge(level)
  PROVE  BandInv'
<1> USE DEF BandInv, Charge, OrchestratorTypeOK, battery, daemon
<1>1. OrchestratorTypeOK'
  BY DEF Beyond
<1>2. (IsLow(soc) => side = "low")' /\ (IsHigh(soc) => side = "high")'
  BY BandIsOrdered DEF Beyond, IsLow, IsHigh
<1>3. CASE side' = side
  BY <1>1, <1>2, <1>3 DEF Settled, AboutToShift, IsLow, IsHigh
<1>4. CASE side' # side
  <2>1. swings' = swings + 1 /\ shifts' = shifts /\ (Settled <=> ~Settled')
    BY <1>1, <1>4 DEF Settled
  <2>2. AboutToShift <=> AboutToShift'
    BY DEF AboutToShift, IsLow, IsHigh
  <2> QED BY <1>1, <1>2, <2>1, <2>2
<1> QED BY <1>3, <1>4

\* A fresh reading on which the daemon will shift is one it has not answered.
LEMMA PollStep ==
  ASSUME BandInv, Poll
  PROVE  BandInv'
<1> USE DEF BandInv, Poll, OrchestratorTypeOK, battery
<1>1. OrchestratorTypeOK' /\ (IsLow(soc) => side = "low")' /\ (IsHigh(soc) => side = "high")'
  BY DEF IsLow, IsHigh
<1>2. AboutToShift' => ~Settled'
  BY DEF AboutToShift, Settled, IsLow, IsHigh
<1>3. Settled' <=> Settled
  BY DEF Settled
<1> QED BY <1>1, <1>2, <1>3

\* Both shifts answer the reading they were decided on.
LEMMA ShiftStep ==
  ASSUME BandInv, EnterTriage \/ LiftTriage
  PROVE  BandInv'
<1> USE DEF BandInv, EnterTriage, LiftTriage, Shift, OrchestratorTypeOK, battery
<1>1. OrchestratorTypeOK' /\ (IsLow(soc) => side = "low")' /\ (IsHigh(soc) => side = "high")'
  BY DEF IsLow, IsHigh, Modes
<1>2. AboutToShift /\ ~AboutToShift'
  BY DEF AboutToShift
<1>3. Settled <=> ~Settled'
  BY DEF Settled, Modes
<1>4. /\ shifts' = shifts + 1 /\ swings' = swings
      /\ shifts \in Nat /\ swings \in Nat
  OBVIOUS
<1>5. (shifts <= swings)' /\ (~Settled => shifts + 1 <= swings)'
  BY <1>2, <1>3, <1>4
<1> QED BY <1>1, <1>2, <1>5

\* A reading inside the band, and the end of the daemon, change nothing else.
LEMMA KeepStep ==
  ASSUME BandInv, Keep \/ StopDaemon \/ UNCHANGED orchestratorVars
  PROVE  BandInv'
BY DEF BandInv, Keep, StopDaemon, OrchestratorTypeOK, orchestratorVars, battery,
       daemon, Settled, AboutToShift, IsLow, IsHigh

\* Every step of the orchestrator preserves the invariant.
LEMMA BandStep ==
  ASSUME BandInv, [OrchestratorNext]_orchestratorVars
  PROVE  BandInv'
BY ChargeStep, PollStep, ShiftStep, KeepStep DEF OrchestratorNext

\* Nothing the coordinator does touches the orchestrator.
LEMMA CoordinatorKeepsApart ==
  [Next]_vars => [OrchestratorNext]_orchestratorVars
<1> SUFFICES ASSUME [Next]_vars PROVE [OrchestratorNext]_orchestratorVars
  OBVIOUS
<1>1. ASSUME NEW t \in Threads, Worker(t) PROVE UNCHANGED orchestratorVars
  BY <1>1 DEF Worker, Boundary, Work, Quit, ArriveEarly, ArriveAsMaster, OpenBarrier, Leave,
     Measure, FindSwap, ApplySwap, ClearSwap, FlipRegistry, SampleMode, CallHooks,
     CountFrame, outside
<1>2. RegisterSwap \/ Stop => UNCHANGED orchestratorVars
  BY DEF RegisterSwap, Stop, outside
<1> QED BY <1>1, <1>2 DEF Next, vars

\* However the polls, the shifts and the charge interleave, and however stale
\* the reading, the daemon of _run_state_machine shifts at most once for each
\* traversal of the hysteresis band.
THEOREM DaemonDoesNotFlap == Spec => []NoFlapping
<1>1. Init => BandInv
  BY BandInit DEF Init
<1>2. BandInv /\ [Next]_vars => BandInv'
  BY BandStep, CoordinatorKeepsApart
<1>3. BandInv => NoFlapping
  BY DEF BandInv, NoFlapping
<1> QED BY <1>1, <1>2, <1>3, PTL DEF Spec

-----------------------------------------------------------------------------
(***************************************************************************)
(* The coordinator: workers and layers.                                    *)
(***************************************************************************)

\* The layer after the last one is the first.
LEMMA LayerAfter ==
  ASSUME NEW l \in Layers
  PROVE  (l + 1) % NumLayers = IF l = LastLayer THEN 0 ELSE l + 1
<1>1. NumLayers \in Nat \ {0} /\ l \in Int /\ l + 1 \in Int /\ l < NumLayers /\ l >= 0
  BY BoundsAssumption DEF Layers
<1> DEFINE r == (l + 1) % NumLayers
           q == (l + 1) \div NumLayers
<1>2. r \in 0 .. NumLayers - 1 /\ q \in Int /\ l + 1 = (NumLayers * q) + r
  BY <1>1, DivMod
<1> HIDE DEF r, q
<1>3. CASE l = LastLayer
  <2>1. (NumLayers * q) + r = (NumLayers * 1) + 0
    BY <1>1, <1>2, <1>3 DEF LastLayer
  <2>2. r = 0
    BY <1>1, <1>2, <2>1, ModUnique
  <2> QED BY <1>3, <2>2 DEF r
<1>4. CASE l # LastLayer
  <2>1. l + 1 \in 0 .. NumLayers - 1
    BY <1>1, <1>4 DEF LastLayer
  <2>2. (NumLayers * q) + r = (NumLayers * 0) + (l + 1)
    BY <1>1, <1>2
  <2>3. r = l + 1
    BY <1>1, <1>2, <2>1, <2>2, ModUnique
  <2> QED BY <1>4, <2>3 DEF r
<1> QED BY <1>3, <1>4

LEMMA LayersTyped == LastLayer \in Layers /\ 0 \in Layers /\ Layers \subseteq Nat
  BY BoundsAssumption DEF LastLayer, Layers

LEMMA CountsThreads == NumThreads \in Nat \ {0} /\ IsFiniteSet(Threads)
  BY ThreadsAssumption, FS_CardinalityType, FS_EmptySet DEF NumThreads

\* The workers counted at a barrier are finitely many.
LEMMA ArrivedFinite ==
  ASSUME NEW l
  PROVE  IsFiniteSet(Arrived(l)) /\ Cardinality(Arrived(l)) \in Nat
<1>1. Arrived(l) \subseteq Threads
  BY DEF Arrived
<1> QED BY <1>1, CountsThreads, FS_Subset, FS_CardinalityType

\* The orchestrator's values keep their types.
LEMMA OrchestratorTypeStep ==
  ASSUME OrchestratorTypeOK, [OrchestratorNext]_orchestratorVars
  PROVE  OrchestratorTypeOK'
<1> USE DEF OrchestratorTypeOK, battery, daemon
<1>1. ASSUME NEW level \in Levels, Charge(level) PROVE OrchestratorTypeOK'
  BY <1>1 DEF Charge, Beyond
<1>2. CASE Poll
  BY <1>2 DEF Poll
<1>3. CASE EnterTriage \/ LiftTriage
  BY <1>3 DEF EnterTriage, LiftTriage, Shift, Modes
<1>4. CASE Keep \/ StopDaemon \/ UNCHANGED orchestratorVars
  BY <1>4 DEF Keep, StopDaemon, orchestratorVars
<1> QED BY <1>1, <1>2, <1>3, <1>4 DEF OrchestratorNext

LEMMA CoordinatorInit == Init => CoordinatorInv
<1> SUFFICES ASSUME Init PROVE CoordinatorInv
  OBVIOUS
<1> USE DEF Init
<1>1. LastLayer \in Layers /\ 0 \in Layers /\ NumThreads \in Nat \ {0} /\ NumLayers \in Nat \ {0}
  BY LayersTyped, CountsThreads, BoundsAssumption
<1>2. TypeOK
  <2>1. OrchestratorTypeOK
    BY BandInit DEF BandInv
  <2>2. <<>> \in Seq(1 .. NumSwaps)
    BY EmptySeq
  <2>3. /\ pc \in [Threads -> {"working", "arriving", "waiting", "gone"} \cup AsMaster]
        /\ layer \in [Threads -> Layers] /\ frame \in [Threads -> 0 .. NumFrames]
        /\ localGen \in [Threads -> 0 .. NumFrames]
        /\ seenFrame \in [Threads -> 0 .. NumFrames]
    BY <1>1, BoundsAssumption
  <2>4. /\ count \in [Layers -> 0 .. NumThreads - 1]
        /\ generation \in [Layers -> 0 .. NumFrames]
    BY <1>1, BoundsAssumption
  <2>5. /\ pending \in 0 .. NumSwaps /\ registered \in 0 .. NumSwaps
        /\ frameCounter \in 0 .. NumFrames
    BY BoundsAssumption
  <2>6. /\ stopped \in BOOLEAN /\ registryFlip \in BOOLEAN /\ mode \in Modes
        /\ buffers \in {Ping, Pong} \cup 1 .. NumSwaps
    BY Zenon DEF Modes
  <2>7. applied \in Seq(1 .. NumSwaps)
    BY <2>2
  <2> QED BY <2>1, <2>3, <2>4, <2>5, <2>6, <2>7 DEF TypeOK
<1>3. IsActive(0)
  <2>1. Arrived(0) = {} /\ Round = 0
    BY <1>1 DEF Arrived, Round
  <2>2. Cardinality(Arrived(0)) = 0
    BY <2>1, FS_EmptySet
  <2> QED BY <1>1, <2>1, <2>2, LayersTyped DEF IsActive, Here, Layers
<1>4. PlaceInv
  BY <1>1, <1>3 DEF PlaceInv, OneMaster, FramesCounted, EndsFrame, AsMaster, AtBoundary, Round
<1>5. SwapInv
  BY BoundsAssumption DEF SwapInv, SwapsInOrder
<1> QED BY <1>2, <1>4, <1>5 DEF CoordinatorInv

\* A master stays the master through its measurements and the boundary.
LEMMA MasterGoesOn ==
  ASSUME CoordinatorInv, NEW t \in Threads, NEW place \in AsMaster,
         pc[t] \in AsMaster, Goto(t, place),
         place \in AtBoundary => layer[t] = LastLayer,
         UNCHANGED <<layer, frame, barrierVars, frameCounter>>,
         \A u \in Threads : pc'[u] = "counting" => seenFrame'[u] = frameCounter
  PROVE  PlaceInv'
<1> USE DEF CoordinatorInv
<1>1. /\ pc'[t] = place
      /\ \A u \in Threads : u # t => pc'[u] = pc[u]
      /\ \A u \in Threads : /\ pc'[u] \in AsMaster <=> pc[u] \in AsMaster
                            /\ pc'[u] = "waiting" <=> pc[u] = "waiting"
                            /\ pc[u] = "working" <=> pc'[u] = "working"
  BY DEF Goto, TypeOK, AsMaster, AtBoundary
<1>2. UNCHANGED <<layer, frame, count, generation, localGen>> /\ Round' = Round
  BY DEF barrierVars, Round
<1>3. PICK l \in Layers : IsActive(l)
  BY DEF PlaceInv
<1>4. Arrived(l)' = Arrived(l)
  BY <1>1, <1>2 DEF Arrived
<1>5. ASSUME NEW u \in Threads PROVE Here(u, l)' \/ Behind(u, l)'
  <2>1. CASE u # t
    BY <1>1, <1>2, <1>3, <2>1 DEF IsActive, Here, Behind
  <2>2. CASE u = t
    <3>1. Behind(t, l)
      BY <1>3 DEF IsActive, Here, AsMaster, AtBoundary
    <3>2. place \in AtBoundary => l = 0
      BY <3>1, <1>3, LayersTyped DEF Behind, LastLayer, Layers
    <3> QED BY <1>1, <1>2, <2>2, <3>1, <3>2 DEF Behind, AsMaster, AtBoundary
  <2> QED BY <2>1, <2>2
<1>6. IsActive(l)'
  BY <1>2, <1>3, <1>4, <1>5 DEF IsActive
<1>7. OneMaster'
  BY <1>1 DEF PlaceInv, OneMaster
<1>8. FramesCounted'
  BY <1>1, <1>2 DEF PlaceInv, FramesCounted, EndsFrame
<1>9. \A u \in Threads : pc'[u] # "working" => frame'[u] < NumFrames
  BY <1>1, <1>2 DEF PlaceInv
<1> QED BY <1>3, <1>6, <1>7, <1>8, <1>9 DEF PlaceInv

\* A worker that leaves the layer before the active one enters the active one.
LEMMA CatchesUp ==
  ASSUME CoordinatorInv, NEW t \in Threads, NEW l \in Layers, IsActive(l), Behind(t, l),
         NextLayer(t), UNCHANGED <<count, generation>>,
         \A u \in Threads : u # t => localGen'[u] = localGen[u]
  PROVE  /\ IsActive(l)'
         /\ layer' \in [Threads -> Layers] /\ frame' \in [Threads -> 0 .. NumFrames]
         /\ pc'[t] = "working" /\ layer'[t] = l /\ frame'[t] = Round
         /\ \A u \in Threads : u # t => /\ pc'[u] = pc[u] /\ layer'[u] = layer[u]
                                        /\ frame'[u] = frame[u]
<1> USE DEF CoordinatorInv
<1>1. /\ layer'[t] = (layer[t] + 1) % NumLayers
      /\ frame'[t] = (IF layer[t] = LastLayer THEN frame[t] + 1 ELSE frame[t])
      /\ pc'[t] = "working"
      /\ \A u \in Threads : u # t => /\ pc'[u] = pc[u] /\ layer'[u] = layer[u]
                                     /\ frame'[u] = frame[u]
  BY DEF NextLayer, Goto, TypeOK
<1>2. UNCHANGED <<count, generation>> /\ Round' = Round
      /\ Round \in 0 .. NumFrames
  BY LayersTyped DEF Round, TypeOK
<1>3. l \in Nat /\ l <= LastLayer /\ LastLayer \in Nat /\ layer[t] \in Layers
  BY LayersTyped DEF Layers, LastLayer, TypeOK
<1>4. layer'[t] = l
  <2>1. CASE l = 0
    BY <1>1, <1>3, <2>1, LayerAfter DEF Behind
  <2>2. CASE l # 0
    BY <1>1, <1>3, <2>2, LayerAfter DEF Behind
  <2> QED BY <2>1, <2>2
<1>5. frame'[t] = Round
  BY <1>1, <1>2, <1>3 DEF Behind
<1>6. layer' \in [Threads -> Layers]
  <2>1. (layer[t] + 1) % NumLayers \in Layers
    BY <1>1, <1>4
  <2> QED BY <2>1 DEF NextLayer, TypeOK
<1>7. frame' \in [Threads -> 0 .. NumFrames]
  <2>1. (IF layer[t] = LastLayer THEN frame[t] + 1 ELSE frame[t]) \in 0 .. NumFrames
    BY <1>1, <1>2, <1>5
  <2> QED BY <2>1 DEF NextLayer, TypeOK
<1>8. Arrived(l)' = Arrived(l)
  <2>1. t \notin Arrived(l)
    BY <1>2, <1>3 DEF Arrived, Behind
  <2>2. t \notin Arrived(l)'
    BY <1>1 DEF Arrived
  <2>3. \A u \in Threads : u # t => (u \in Arrived(l)' <=> u \in Arrived(l))
    BY <1>1, <1>2 DEF Arrived
  <2> QED BY <2>1, <2>2, <2>3 DEF Arrived
<1>9. ASSUME NEW u \in Threads PROVE Here(u, l)' \/ Behind(u, l)'
  <2>1. CASE u = t
    BY <1>1, <1>2, <1>4, <1>5, <2>1 DEF Here
  <2>2. CASE u # t
    BY <1>1, <1>2, <2>2 DEF IsActive, Here, Behind
  <2> QED BY <2>1, <2>2
<1>10. IsActive(l)'
  BY <1>2, <1>8, <1>9 DEF IsActive
<1> QED BY <1>1, <1>4, <1>5, <1>6, <1>7, <1>10

\* A master is in the layer before the active one.
LEMMA MasterIsBehind ==
  ASSUME CoordinatorInv, NEW t \in Threads, pc[t] \in AsMaster,
         NEW l \in Layers, IsActive(l)
  PROVE  Behind(t, l) /\ (layer[t] = LastLayer <=> l = 0)
<1>1. Behind(t, l)
  BY DEF IsActive, Here, AsMaster, AtBoundary
<1>2. layer[t] = LastLayer <=> l = 0
  BY <1>1, LayersTyped DEF Behind, Layers, LastLayer
<1> QED BY <1>1, <1>2

\* Beginning the work of a layer, or leaving at the head of a frame.
LEMMA WorkStep ==
  ASSUME CoordinatorInv, NEW t \in Threads, Work(t) \/ Quit(t)
  PROVE  TypeOK' /\ PlaceInv'
<1> USE DEF CoordinatorInv
<1>1. /\ pc[t] = "working" /\ pc'[t] \in {"arriving", "gone"} /\ frame[t] < NumFrames
      /\ \A u \in Threads : u # t => pc'[u] = pc[u]
  BY DEF Work, Quit, Goto, TypeOK
<1>2. /\ UNCHANGED <<layer, frame, count, generation, localGen, frameCounter, seenFrame>>
      /\ Round' = Round
  BY DEF Work, Quit, barrierVars, frameVars, Round
<1>3. TypeOK'
  <2>1. pc' \in [Threads -> {"working", "arriving", "waiting", "gone"} \cup AsMaster]
    BY DEF Work, Quit, Goto, TypeOK
  <2> QED BY <2>1 DEF TypeOK, Work, Quit, swapVars, frameVars, barrierVars,
          outside, orchestratorVars, battery, daemon, OrchestratorTypeOK
<1>4. PICK l \in Layers : IsActive(l)
  BY DEF PlaceInv
<1>5. Arrived(l)' = Arrived(l)
  BY <1>1, <1>2 DEF Arrived
<1>6. ASSUME NEW u \in Threads PROVE Here(u, l)' \/ Behind(u, l)'
  <2>1. CASE u = t
    BY <1>1, <1>2, <1>4, <2>1 DEF IsActive, Here, Behind, AsMaster, AtBoundary
  <2>2. CASE u # t
    BY <1>1, <1>2, <1>4, <2>2 DEF IsActive, Here, Behind
  <2> QED BY <2>1, <2>2
<1>7. IsActive(l)'
  BY <1>2, <1>4, <1>5, <1>6 DEF IsActive
<1>8. \A u \in Threads : pc'[u] \in AsMaster <=> pc[u] \in AsMaster
  BY <1>1 DEF AsMaster, AtBoundary
<1>9. OneMaster'
  BY <1>8 DEF PlaceInv, OneMaster
<1>10. FramesCounted'
  BY <1>1, <1>2, <1>8 DEF PlaceInv, FramesCounted, EndsFrame
<1>11. \A u \in Threads : pc'[u] # "working" => frame'[u] < NumFrames
  BY <1>1, <1>2 DEF PlaceInv
<1> QED BY <1>3, <1>4, <1>7, <1>9, <1>10, <1>11 DEF PlaceInv

\* Finding the barrier not yet full.
LEMMA ArriveEarlyStep ==
  ASSUME CoordinatorInv, NEW t \in Threads, ArriveEarly(t)
  PROVE  TypeOK' /\ PlaceInv'
<1> USE DEF CoordinatorInv
<1>1. /\ pc[t] = "arriving" /\ pc'[t] = "waiting"
      /\ count[layer[t]] + 1 # NumThreads
      /\ \A u \in Threads : u # t => pc'[u] = pc[u]
  BY DEF ArriveEarly, Goto, TypeOK
<1>2. /\ UNCHANGED <<layer, frame, generation, frameCounter, seenFrame>>
      /\ Round' = Round
  BY DEF ArriveEarly, frameVars, Round
<1>3. PICK l \in Layers : IsActive(l)
  BY DEF PlaceInv
<1>4. Here(t, l)
  BY <1>1, <1>3 DEF IsActive, Behind, AsMaster, AtBoundary
<1>5. /\ layer[t] = l /\ frame[t] = Round /\ generation[l] = Round
      /\ count[l] = Cardinality(Arrived(l)) /\ l \in Nat /\ count[l] \in 0 .. NumThreads - 1
  BY <1>3, <1>4, LayersTyped DEF Here, IsActive, TypeOK
<1>6. /\ count' = [count EXCEPT ![l] = count[l] + 1]
      /\ localGen' = [localGen EXCEPT ![t] = Round]
  BY <1>5 DEF ArriveEarly
<1>7. TypeOK'
  <2>1. pc' \in [Threads -> {"working", "arriving", "waiting", "gone"} \cup AsMaster]
    BY DEF ArriveEarly, Goto, TypeOK
  <2>2. count[l] + 1 \in 0 .. NumThreads - 1
    BY <1>1, <1>5, CountsThreads
  <2>3. count' \in [Layers -> 0 .. NumThreads - 1]
    BY <1>6, <2>2 DEF TypeOK
  <2>4. localGen' \in [Threads -> 0 .. NumFrames]
    BY <1>6, LayersTyped DEF TypeOK, Round
  <2> QED BY <2>1, <2>3, <2>4 DEF TypeOK, ArriveEarly, swapVars, frameVars, outside,
     orchestratorVars, battery, daemon, OrchestratorTypeOK
<1>8. Arrived(l)' = Arrived(l) \cup {t} /\ t \notin Arrived(l)
  BY <1>1, <1>2, <1>5 DEF Arrived
<1>9. count'[l] = Cardinality(Arrived(l)')
  <2>1. Cardinality(Arrived(l)') = Cardinality(Arrived(l)) + 1
    BY <1>8, ArrivedFinite, FS_AddElement
  <2> QED BY <1>5, <1>6, <2>1 DEF TypeOK
<1>10. ASSUME NEW u \in Threads PROVE Here(u, l)' \/ Behind(u, l)'
  <2>1. CASE u = t
    BY <1>1, <1>2, <1>5, <1>6, <2>1 DEF Here, TypeOK
  <2>2. CASE u # t
    BY <1>1, <1>2, <1>3, <1>6, <2>2 DEF IsActive, Here, Behind, TypeOK
  <2> QED BY <2>1, <2>2
<1>11. \A k \in Layers : k # l => count'[k] = 0
  BY <1>3, <1>6 DEF IsActive, TypeOK
<1>12. IsActive(l)'
  BY <1>2, <1>3, <1>9, <1>10, <1>11 DEF IsActive
<1>13. \A u \in Threads : pc'[u] \in AsMaster <=> pc[u] \in AsMaster
  BY <1>1 DEF AsMaster, AtBoundary
<1>14. OneMaster'
  BY <1>13 DEF PlaceInv, OneMaster
<1>15. FramesCounted'
  BY <1>1, <1>2, <1>13 DEF PlaceInv, FramesCounted, EndsFrame
<1>16. \A u \in Threads : pc'[u] # "working" => frame'[u] < NumFrames
  BY <1>1, <1>2 DEF PlaceInv
<1> QED BY <1>3, <1>7, <1>12, <1>14, <1>15, <1>16 DEF PlaceInv

\* The last to arrive finds everybody else at its barrier, and makes the next
\* layer the active one.
LEMMA ArriveAsMasterStep ==
  ASSUME CoordinatorInv, NEW t \in Threads, ArriveAsMaster(t)
  PROVE  TypeOK' /\ PlaceInv'
<1> USE DEF CoordinatorInv
<1>1. /\ pc[t] = "arriving" /\ pc'[t] = "master"
      /\ count[layer[t]] + 1 = NumThreads
      /\ \A u \in Threads : u # t => pc'[u] = pc[u]
  BY DEF ArriveAsMaster, OpenBarrier, Goto, TypeOK
<1>2. UNCHANGED <<layer, frame, localGen, frameCounter, seenFrame>>
  BY DEF ArriveAsMaster, OpenBarrier, frameVars
<1>3. PICK l \in Layers : IsActive(l)
  BY DEF PlaceInv
<1>4. Here(t, l)
  BY <1>1, <1>3 DEF IsActive, Behind, AsMaster, AtBoundary
<1>5. /\ layer[t] = l /\ frame[t] = Round /\ generation[l] = Round
      /\ count[l] = Cardinality(Arrived(l)) /\ l \in Nat
      /\ Round \in Nat /\ Round < NumFrames
  <2>1. layer[t] = l /\ frame[t] = Round /\ l \in Nat
    BY <1>4, LayersTyped DEF Here
  <2>2. generation[l] = Round /\ count[l] = Cardinality(Arrived(l))
    BY <1>3, <2>1 DEF IsActive
  <2>3. Round \in Nat /\ frame[t] < NumFrames
    BY <1>1, LayersTyped DEF Round, TypeOK, PlaceInv
  <2> QED BY <2>1, <2>2, <2>3
<1>6. /\ count' = [count EXCEPT ![l] = 0]
      /\ generation' = [generation EXCEPT ![l] = Round + 1]
  BY <1>5 DEF ArriveAsMaster, OpenBarrier
<1>7. TypeOK'
  <2>1. pc' \in [Threads -> {"working", "arriving", "waiting", "gone"} \cup AsMaster]
    BY DEF ArriveAsMaster, OpenBarrier, Goto, TypeOK, AsMaster
  <2>2. count' \in [Layers -> 0 .. NumThreads - 1]
    BY <1>6, CountsThreads DEF TypeOK
  <2>3. generation' \in [Layers -> 0 .. NumFrames]
    BY <1>5, <1>6, BoundsAssumption DEF TypeOK
  <2> QED BY <2>1, <2>2, <2>3 DEF TypeOK, ArriveAsMaster, OpenBarrier, swapVars, frameVars,
          outside, orchestratorVars, battery, daemon, OrchestratorTypeOK
<1>8. \A u \in Threads : u # t => u \in Arrived(l)
  <2>1. t \notin Arrived(l) /\ Arrived(l) \subseteq Threads \ {t}
    BY <1>1 DEF Arrived
  <2>2. IsFiniteSet(Threads \ {t}) /\ Cardinality(Threads \ {t}) = NumThreads - 1
    BY CountsThreads, FS_RemoveElement DEF NumThreads
  <2>3. Cardinality(Arrived(l)) = NumThreads - 1
    BY <1>1, <1>5, ArrivedFinite, CountsThreads
  <2>4. Arrived(l) = Threads \ {t}
    BY <2>1, <2>2, <2>3, FS_Subset
  <2> QED BY <2>4
<1>9. ASSUME NEW u \in Threads
      PROVE  /\ layer[u] = l /\ frame[u] = Round
             /\ u # t => pc[u] = "waiting" /\ localGen[u] = Round
  <2>1. CASE u = t
    BY <1>5, <2>1
  <2>2. CASE u # t
    <3>1. layer[u] = l /\ frame[u] = Round /\ pc[u] = "waiting"
      BY <1>8, <2>2 DEF Arrived
    <3>2. Here(u, l)
      BY <1>3, <1>5, <3>1, LayersTyped DEF IsActive, Behind, LastLayer, Layers
    <3> QED BY <3>1, <3>2 DEF Here
  <2> QED BY <2>1, <2>2
<1> DEFINE m == IF l = LastLayer THEN 0 ELSE l + 1
<1>10. /\ m \in Layers
       /\ Round' = (IF l = LastLayer THEN Round + 1 ELSE Round)
       /\ l = (IF m = 0 THEN LastLayer ELSE m - 1)
       /\ m = 0 <=> l = LastLayer
       /\ m \in Nat
  <2>1. m \in Layers /\ l = (IF m = 0 THEN LastLayer ELSE m - 1) /\ (m = 0 <=> l = LastLayer)
        /\ m \in Nat
    BY <1>5, LayersTyped DEF Layers, LastLayer
  <2>2. Round' = (IF l = LastLayer THEN Round + 1 ELSE Round)
    BY <1>6, LayersTyped DEF Round, TypeOK
  <2> QED BY <2>1, <2>2
<1>11. \A k \in Layers : generation'[k] = (IF k < m THEN Round' + 1 ELSE Round')
  <2> SUFFICES ASSUME NEW k \in Layers
               PROVE  generation'[k] = (IF k < m THEN Round' + 1 ELSE Round')
    OBVIOUS
  <2>1. generation[k] = (IF k < l THEN Round + 1 ELSE Round) /\ k \in Nat /\ k <= LastLayer
        /\ LastLayer \in Nat
    BY <1>3, LayersTyped DEF IsActive, Layers, LastLayer
  <2>2. generation'[k] = (IF k = l THEN Round + 1 ELSE generation[k])
    BY <1>6 DEF TypeOK
  <2>3. CASE l = LastLayer
    BY <1>5, <1>10, <2>1, <2>2, <2>3
  <2>4. CASE l # LastLayer
    BY <1>5, <1>10, <2>1, <2>2, <2>4
  <2> QED BY <2>3, <2>4
<1> HIDE DEF m
<1>12. \A k \in Layers : count'[k] = 0
  BY <1>3, <1>6 DEF IsActive, TypeOK
<1>13. count'[m] = Cardinality(Arrived(m)')
  <2>1. Arrived(m)' = {}
    <3> SUFFICES ASSUME NEW u \in Arrived(m)' PROVE FALSE
      OBVIOUS
    <3>1. u \in Threads /\ layer[u] = m /\ frame[u] = Round'
      BY <1>2 DEF Arrived
    <3> QED BY <1>5, <1>9, <1>10, <3>1
  <2> QED BY <1>10, <1>12, <2>1, FS_EmptySet
<1>14. ASSUME NEW u \in Threads PROVE Behind(u, m)'
  <2>1. /\ layer'[u] = l /\ frame'[u] = Round /\ localGen'[u] = localGen[u]
        /\ pc'[u] = (IF u = t THEN "master" ELSE "waiting")
    BY <1>1, <1>2, <1>9
  <2>2. frame'[u] = (IF m = 0 THEN Round' - 1 ELSE Round')
    BY <1>5, <1>10, <2>1
  <2> QED BY <1>9, <1>10, <2>1, <2>2 DEF Behind, AsMaster, AtBoundary
<1>15. IsActive(m)'
  BY <1>11, <1>12, <1>13, <1>14 DEF IsActive
<1>16. \A u \in Threads : pc'[u] \in AsMaster <=> u = t
  BY <1>1, <1>9 DEF AsMaster, AtBoundary
<1>17. OneMaster'
  BY <1>16 DEF OneMaster
<1>18. FramesCounted'
  <2>1. \A u \in Threads : ~EndsFrame(u)
    BY <1>1, <1>9 DEF EndsFrame, AsMaster, AtBoundary
  <2>2. frameCounter = Round
    BY <2>1 DEF PlaceInv, FramesCounted
  <2>3. \A u \in Threads : EndsFrame(u)' <=> u = t /\ l = LastLayer
    BY <1>2, <1>9, <1>16 DEF EndsFrame
  <2> QED BY <1>1, <1>2, <1>9, <1>10, <2>2, <2>3 DEF FramesCounted
<1>19. \A u \in Threads : pc'[u] # "working" => frame'[u] < NumFrames
  BY <1>2, <1>5, <1>9
<1> QED BY <1>7, <1>10, <1>15, <1>17, <1>18, <1>19 DEF PlaceInv

\* Only a worker that is behind finds the generation of its barrier over.
LEMMA LeaveStep ==
  ASSUME CoordinatorInv, NEW t \in Threads, Leave(t)
  PROVE  TypeOK' /\ PlaceInv'
<1> USE DEF CoordinatorInv
<1>1. /\ pc[t] = "waiting" /\ generation[layer[t]] # localGen[t] /\ NextLayer(t)
      /\ localGen' = [localGen EXCEPT ![t] = 0]
      /\ UNCHANGED <<swapVars, frameVars, count, generation, outside>>
  BY DEF Leave
<1>2. PICK l \in Layers : IsActive(l)
  BY DEF PlaceInv
<1>3. Behind(t, l)
  <2>1. generation[l] = Round
    BY <1>2, LayersTyped DEF IsActive
  <2> QED BY <1>1, <1>2, <2>1 DEF IsActive, Here
<1>4. /\ IsActive(l)'
      /\ layer' \in [Threads -> Layers] /\ frame' \in [Threads -> 0 .. NumFrames]
      /\ pc'[t] = "working"
      /\ \A u \in Threads : u # t => /\ pc'[u] = pc[u] /\ layer'[u] = layer[u]
                                     /\ frame'[u] = frame[u]
  <2>1. \A u \in Threads : u # t => localGen'[u] = localGen[u]
    BY <1>1 DEF TypeOK
  <2> QED BY <1>1, <1>2, <1>3, <2>1, CatchesUp
<1>5. UNCHANGED <<frameCounter, seenFrame, generation>> /\ Round' = Round
  BY <1>1 DEF frameVars, Round
<1>6. TypeOK'
  <2>1. pc' \in [Threads -> {"working", "arriving", "waiting", "gone"} \cup AsMaster]
    BY <1>1 DEF NextLayer, Goto, TypeOK
  <2>2. localGen' \in [Threads -> 0 .. NumFrames]
    BY <1>1, BoundsAssumption DEF TypeOK
  <2> QED BY <1>1, <1>4, <2>1, <2>2 DEF TypeOK, swapVars, frameVars, outside,
          orchestratorVars, battery, daemon, OrchestratorTypeOK
<1>7. \A u \in Threads : /\ pc'[u] \in AsMaster <=> pc[u] \in AsMaster
                         /\ EndsFrame(u)' <=> EndsFrame(u)
  BY <1>1, <1>4 DEF AsMaster, AtBoundary, EndsFrame
<1>8. OneMaster'
  BY <1>7 DEF PlaceInv, OneMaster
<1>9. FramesCounted'
  <2>1. \A u \in Threads : EndsFrame(u)' => u # t
    BY <1>4 DEF EndsFrame, AsMaster, AtBoundary
  <2> QED BY <1>4, <1>5, <1>7, <2>1 DEF PlaceInv, FramesCounted
<1>10. \A u \in Threads : pc'[u] # "working" => frame'[u] < NumFrames
  BY <1>4 DEF PlaceInv
<1> QED BY <1>2, <1>4, <1>6, <1>8, <1>9, <1>10 DEF PlaceInv

\* The master goes on to the boundary, or to the next layer.
LEMMA MeasureStep ==
  ASSUME CoordinatorInv, NEW t \in Threads, Measure(t)
  PROVE  TypeOK' /\ PlaceInv'
<1> USE DEF CoordinatorInv
<1>1. pc[t] = "master" /\ UNCHANGED <<swapVars, frameVars, barrierVars, outside>>
  BY DEF Measure
<1>2. UNCHANGED <<frameCounter, seenFrame>> /\ Round' = Round
  BY <1>1 DEF frameVars, barrierVars, Round
<1>3. CASE layer[t] = LastLayer
  <2>1. Goto(t, "swapping") /\ UNCHANGED <<layer, frame>>
    BY <1>3 DEF Measure
  <2>2. TypeOK'
    <3>1. pc' \in [Threads -> {"working", "arriving", "waiting", "gone"} \cup AsMaster]
      BY <2>1 DEF Goto, TypeOK, AsMaster, AtBoundary
    <3> QED BY <1>1, <2>1, <3>1 DEF TypeOK, swapVars, frameVars, barrierVars,
            outside, orchestratorVars, battery, daemon, OrchestratorTypeOK
  <2>3. \A u \in Threads : pc'[u] = "counting" => seenFrame'[u] = frameCounter
    BY <1>2, <2>1 DEF Goto, TypeOK, PlaceInv, FramesCounted
  <2>4. "swapping" \in AsMaster /\ pc[t] \in AsMaster
    BY <1>1 DEF AsMaster, AtBoundary
  <2> QED BY <1>1, <1>2, <1>3, <2>1, <2>2, <2>3, <2>4, MasterGoesOn
<1>4. CASE layer[t] # LastLayer
  <2>1. NextLayer(t) /\ UNCHANGED <<count, generation, localGen>>
    BY <1>1, <1>4 DEF Measure, barrierVars
  <2>2. PICK l \in Layers : IsActive(l)
    BY DEF PlaceInv
  <2>3. Behind(t, l) /\ pc[t] \in AsMaster
    BY <1>1, <2>2, MasterIsBehind DEF AsMaster, AtBoundary
  <2>4. /\ IsActive(l)'
        /\ layer' \in [Threads -> Layers] /\ frame' \in [Threads -> 0 .. NumFrames]
        /\ pc'[t] = "working"
        /\ \A u \in Threads : u # t => /\ pc'[u] = pc[u] /\ layer'[u] = layer[u]
                                       /\ frame'[u] = frame[u]
    BY <2>1, <2>2, <2>3, CatchesUp
  <2>5. TypeOK'
    <3>1. pc' \in [Threads -> {"working", "arriving", "waiting", "gone"} \cup AsMaster]
      BY <2>1 DEF NextLayer, Goto, TypeOK
    <3> QED BY <1>1, <2>4, <3>1 DEF TypeOK, swapVars, frameVars, barrierVars,
            outside, orchestratorVars, battery, daemon, OrchestratorTypeOK
  <2>6. \A u \in Threads : /\ pc'[u] \in AsMaster <=> pc[u] \in AsMaster /\ u # t
                           /\ EndsFrame(u)' <=> EndsFrame(u)
    BY <1>4, <2>4 DEF AsMaster, AtBoundary, EndsFrame
  <2>7. OneMaster'
    BY <2>6 DEF PlaceInv, OneMaster
  <2>8. FramesCounted'
    <3>1. \A u \in Threads : EndsFrame(u)' => u # t
      BY <2>4 DEF EndsFrame, AsMaster, AtBoundary
    <3> QED BY <1>2, <2>4, <2>6, <3>1 DEF PlaceInv, FramesCounted
  <2>9. \A u \in Threads : pc'[u] # "working" => frame'[u] < NumFrames
    BY <2>4 DEF PlaceInv
  <2> QED BY <2>2, <2>4, <2>5, <2>7, <2>8, <2>9 DEF PlaceInv
<1> QED BY <1>3, <1>4

-----------------------------------------------------------------------------
(***************************************************************************)
(* The coordinator: the frame boundary.                                    *)
(***************************************************************************)

\* A step of the boundary that goes on to another one.
LEMMA BoundaryGoesOn ==
  ASSUME CoordinatorInv, NEW t \in Threads, NEW place \in AtBoundary \ {"counting"},
         pc[t] \in AtBoundary, Goto(t, place),
         UNCHANGED <<layer, frame, barrierVars, frameCounter, seenFrame>>
  PROVE  PlaceInv' /\ pc' \in [Threads -> {"working", "arriving", "waiting", "gone"} \cup AsMaster]
<1> USE DEF CoordinatorInv
<1>1. place \in AsMaster /\ pc[t] \in AsMaster
  BY DEF AsMaster
<1>2. layer[t] = LastLayer
  <2>1. PICK l \in Layers : IsActive(l)
    BY DEF PlaceInv
  <2> QED BY <1>1, <2>1, MasterIsBehind DEF Behind
<1>3. \A u \in Threads : pc'[u] = "counting" => seenFrame'[u] = frameCounter
  BY DEF Goto, TypeOK, PlaceInv, FramesCounted
<1>4. PlaceInv'
  BY <1>1, <1>2, <1>3, MasterGoesOn
<1> QED BY <1>1, <1>4 DEF Goto, TypeOK

LEMMA FindSwapStep ==
  ASSUME CoordinatorInv, NEW t \in Threads, FindSwap(t)
  PROVE  TypeOK' /\ PlaceInv'
<1>1. pc[t] \in AtBoundary /\ Goto(t, "applying") /\ "applying" \in AtBoundary \ {"counting"}
  BY DEF FindSwap, AtBoundary
<1>2. UNCHANGED <<layer, frame, barrierVars, frameCounter, seenFrame>>
  BY DEF FindSwap, frameVars
<1>3. PlaceInv' /\ pc' \in [Threads -> {"working", "arriving", "waiting", "gone"} \cup AsMaster]
  BY <1>1, <1>2, BoundaryGoesOn
<1>4. TypeOK'
  BY <1>3 DEF CoordinatorInv, TypeOK, FindSwap, swapVars, frameVars, barrierVars, outside,
     orchestratorVars, battery, daemon, OrchestratorTypeOK
<1> QED BY <1>3, <1>4

LEMMA ApplySwapStep ==
  ASSUME CoordinatorInv, NEW t \in Threads, ApplySwap(t)
  PROVE  TypeOK' /\ PlaceInv'
<1>1. pc[t] \in AtBoundary /\ Goto(t, "clearing") /\ "clearing" \in AtBoundary \ {"counting"}
  BY DEF ApplySwap, AtBoundary
<1>2. UNCHANGED <<layer, frame, barrierVars, frameCounter, seenFrame>>
  BY DEF ApplySwap, frameVars
<1>3. PlaceInv' /\ pc' \in [Threads -> {"working", "arriving", "waiting", "gone"} \cup AsMaster]
  BY <1>1, <1>2, BoundaryGoesOn
<1>4. pending \in 1 .. NumSwaps
  BY BoundsAssumption DEF CoordinatorInv, SwapInv, TypeOK, ApplySwap
<1>5. applied' \in Seq(1 .. NumSwaps)
  BY <1>4, AppendProperties DEF CoordinatorInv, TypeOK, ApplySwap
<1>6. TypeOK'
  BY <1>3, <1>4, <1>5 DEF CoordinatorInv, TypeOK, ApplySwap, frameVars, barrierVars, outside,
     orchestratorVars, battery, daemon, OrchestratorTypeOK
<1> QED BY <1>3, <1>6

LEMMA ClearSwapStep ==
  ASSUME CoordinatorInv, NEW t \in Threads, ClearSwap(t)
  PROVE  TypeOK' /\ PlaceInv'
<1>1. pc[t] \in AtBoundary /\ Goto(t, "sampling") /\ "sampling" \in AtBoundary \ {"counting"}
  BY DEF ClearSwap, AtBoundary
<1>2. UNCHANGED <<layer, frame, barrierVars, frameCounter, seenFrame>>
  BY DEF ClearSwap, frameVars
<1>3. PlaceInv' /\ pc' \in [Threads -> {"working", "arriving", "waiting", "gone"} \cup AsMaster]
  BY <1>1, <1>2, BoundaryGoesOn
<1>4. TypeOK'
  BY <1>3, BoundsAssumption DEF CoordinatorInv, TypeOK, ClearSwap, frameVars, barrierVars, outside,
     orchestratorVars, battery, daemon, OrchestratorTypeOK
<1> QED BY <1>3, <1>4

LEMMA FlipRegistryStep ==
  ASSUME CoordinatorInv, NEW t \in Threads, FlipRegistry(t)
  PROVE  TypeOK' /\ PlaceInv'
<1>1. pc[t] \in AtBoundary /\ Goto(t, "sampling") /\ "sampling" \in AtBoundary \ {"counting"}
  BY DEF FlipRegistry, AtBoundary
<1>2. UNCHANGED <<layer, frame, barrierVars, frameCounter, seenFrame>>
  BY DEF FlipRegistry, frameVars
<1>3. PlaceInv' /\ pc' \in [Threads -> {"working", "arriving", "waiting", "gone"} \cup AsMaster]
  BY <1>1, <1>2, BoundaryGoesOn
<1>4. registryFlip' \in BOOLEAN /\ buffers' \in {Ping, Pong} \cup 1 .. NumSwaps
  BY Zenon DEF FlipRegistry
<1>5. TypeOK'
  BY <1>3, <1>4 DEF CoordinatorInv, TypeOK, FlipRegistry, frameVars, barrierVars, outside,
     orchestratorVars, battery, daemon, OrchestratorTypeOK
<1> QED BY <1>3, <1>5

LEMMA SampleModeStep ==
  ASSUME CoordinatorInv, NEW t \in Threads, SampleMode(t)
  PROVE  TypeOK' /\ PlaceInv'
<1>1. pc[t] \in AtBoundary /\ Goto(t, "hooking") /\ "hooking" \in AtBoundary \ {"counting"}
  BY DEF SampleMode, AtBoundary
<1>2. UNCHANGED <<layer, frame, barrierVars, frameCounter, seenFrame>>
  BY DEF SampleMode
<1>3. PlaceInv' /\ pc' \in [Threads -> {"working", "arriving", "waiting", "gone"} \cup AsMaster]
  BY <1>1, <1>2, BoundaryGoesOn
<1>4. TypeOK'
  BY <1>3 DEF CoordinatorInv, TypeOK, SampleMode, swapVars, barrierVars, outside,
     orchestratorVars, battery, daemon, OrchestratorTypeOK
<1> QED BY <1>3, <1>4

LEMMA CallHooksStep ==
  ASSUME CoordinatorInv, NEW t \in Threads, CallHooks(t)
  PROVE  TypeOK' /\ PlaceInv'
<1> USE DEF CoordinatorInv
<1>1. /\ pc[t] = "hooking" /\ Goto(t, "counting")
      /\ seenFrame' = [seenFrame EXCEPT ![t] = frameCounter]
      /\ UNCHANGED <<layer, frame, barrierVars, frameCounter>>
  BY DEF CallHooks
<1>2. "counting" \in AsMaster /\ "counting" \in AtBoundary /\ pc[t] \in AsMaster
      /\ pc[t] \in AtBoundary
  BY <1>1 DEF AsMaster, AtBoundary
<1>3. layer[t] = LastLayer
  <2>1. PICK l \in Layers : IsActive(l)
    BY DEF PlaceInv
  <2> QED BY <1>2, <2>1, MasterIsBehind DEF Behind
<1>4. \A u \in Threads : pc'[u] = "counting" => seenFrame'[u] = frameCounter
  BY <1>1 DEF Goto, TypeOK, PlaceInv, FramesCounted
<1>5. PlaceInv'
  BY <1>1, <1>2, <1>3, <1>4, MasterGoesOn
<1>6. TypeOK'
  <2>1. pc' \in [Threads -> {"working", "arriving", "waiting", "gone"} \cup AsMaster]
    BY <1>1, <1>2 DEF Goto, TypeOK
  <2>2. seenFrame' \in [Threads -> 0 .. NumFrames]
    BY <1>1 DEF TypeOK
  <2> QED BY <2>1, <2>2 DEF TypeOK, CallHooks, swapVars, barrierVars, outside,
     orchestratorVars, battery, daemon, OrchestratorTypeOK
<1> QED BY <1>5, <1>6

\* Counting the frame ends the boundary, and the counter has caught up.
LEMMA CountFrameStep ==
  ASSUME CoordinatorInv, NEW t \in Threads, CountFrame(t)
  PROVE  TypeOK' /\ PlaceInv'
<1> USE DEF CoordinatorInv
<1>1. /\ pc[t] = "counting" /\ frameCounter' = seenFrame[t] + 1 /\ NextLayer(t)
      /\ UNCHANGED <<swapVars, mode, seenFrame, barrierVars, outside>>
  BY DEF CountFrame
<1>2. PICK l \in Layers : IsActive(l)
  BY DEF PlaceInv
<1>3. pc[t] \in AsMaster /\ pc[t] \in AtBoundary /\ Behind(t, l)
  BY <1>1, <1>2, MasterIsBehind DEF AsMaster, AtBoundary
<1>4. /\ layer[t] = LastLayer /\ frame[t] = Round - 1 /\ l = 0
  BY <1>3 DEF Behind
<1>5. /\ IsActive(l)'
      /\ layer' \in [Threads -> Layers] /\ frame' \in [Threads -> 0 .. NumFrames]
      /\ pc'[t] = "working"
      /\ \A u \in Threads : u # t => /\ pc'[u] = pc[u] /\ layer'[u] = layer[u]
                                     /\ frame'[u] = frame[u]
  BY <1>1, <1>2, <1>3, CatchesUp DEF barrierVars
<1>6. /\ frameCounter' = Round' /\ Round' = Round /\ Round \in 0 .. NumFrames
  <2>1. seenFrame[t] = frameCounter /\ frameCounter = frame[t]
    BY <1>1, <1>3, <1>4 DEF PlaceInv, FramesCounted, EndsFrame
  <2>2. Round' = Round /\ Round \in 0 .. NumFrames
    BY <1>1, LayersTyped DEF barrierVars, Round, TypeOK
  <2> QED BY <1>1, <1>4, <2>1, <2>2
<1>7. TypeOK'
  <2>1. pc' \in [Threads -> {"working", "arriving", "waiting", "gone"} \cup AsMaster]
    BY <1>1 DEF NextLayer, Goto, TypeOK
  <2>2. frameCounter' \in 0 .. NumFrames
    BY <1>6
  <2> QED BY <1>1, <1>5, <2>1, <2>2 DEF TypeOK, swapVars, barrierVars, outside,
     orchestratorVars, battery, daemon, OrchestratorTypeOK
<1>8. \A u \in Threads : pc'[u] \notin AsMaster
  BY <1>3, <1>5 DEF PlaceInv, OneMaster, AsMaster, AtBoundary
<1>9. OneMaster'
  BY <1>8 DEF OneMaster
<1>10. FramesCounted'
  BY <1>6, <1>8 DEF FramesCounted, EndsFrame, AsMaster, AtBoundary
<1>11. \A u \in Threads : pc'[u] # "working" => frame'[u] < NumFrames
  BY <1>5 DEF PlaceInv
<1> QED BY <1>2, <1>5, <1>7, <1>9, <1>10, <1>11 DEF PlaceInv

\* What is registered, and what the orchestrator does, moves no worker.
LEMMA PlaceKept ==
  ASSUME CoordinatorInv, UNCHANGED <<frameVars, barrierVars, placeVars>>
  PROVE  PlaceInv'
<1>1. UNCHANGED <<pc, layer, frame, count, generation, localGen, frameCounter, seenFrame>>
  BY DEF frameVars, barrierVars, placeVars
<1>2. PICK l \in Layers : IsActive(l)
  BY DEF CoordinatorInv, PlaceInv
<1>3. Arrived(l)' = Arrived(l) /\ Round' = Round
  BY <1>1 DEF Arrived, Round
<1>4. \A t \in Threads : Here(t, l)' \/ Behind(t, l)'
  BY <1>1, <1>2, <1>3 DEF IsActive, Here, Behind
<1>5. IsActive(l)'
  BY <1>1, <1>2, <1>3, <1>4 DEF IsActive
<1>6. OneMaster' /\ FramesCounted' /\ \A t \in Threads : pc'[t] # "working" => frame'[t] < NumFrames
  BY <1>1, <1>3 DEF CoordinatorInv, PlaceInv, OneMaster, FramesCounted, EndsFrame
<1> QED BY <1>2, <1>5, <1>6 DEF PlaceInv

LEMMA RegisterSwapStep ==
  ASSUME CoordinatorInv, RegisterSwap
  PROVE  TypeOK' /\ PlaceInv'
<1>1. PlaceInv'
  BY PlaceKept DEF RegisterSwap
<1>2. registered' \in 0 .. NumSwaps /\ pending' \in 0 .. NumSwaps
  BY BoundsAssumption DEF RegisterSwap, CoordinatorInv, TypeOK
<1>3. TypeOK'
  BY <1>2 DEF CoordinatorInv, TypeOK, RegisterSwap, frameVars, barrierVars, placeVars,
     outside, orchestratorVars, battery, daemon, OrchestratorTypeOK
<1> QED BY <1>1, <1>3

\* Setting stop_event moves nobody.
LEMMA StopStep ==
  ASSUME CoordinatorInv, Stop
  PROVE  CoordinatorInv'
<1>1. PlaceInv'
  BY PlaceKept DEF Stop
<1>2. TypeOK'
  BY DEF CoordinatorInv, TypeOK, Stop, swapVars, frameVars, barrierVars, placeVars,
     orchestratorVars, battery, daemon, OrchestratorTypeOK
<1>3. SwapInv'
  BY DEF CoordinatorInv, SwapInv, SwapsInOrder, Stop, swapVars, placeVars
<1> QED BY <1>1, <1>2, <1>3 DEF CoordinatorInv

LEMMA OrchestratorStep ==
  ASSUME CoordinatorInv, UNCHANGED coordinatorVars, [OrchestratorNext]_orchestratorVars
  PROVE  TypeOK' /\ PlaceInv'
<1>1. OrchestratorTypeOK'
  BY OrchestratorTypeStep DEF CoordinatorInv, TypeOK
<1>2. UNCHANGED <<swapVars, frameVars, barrierVars, placeVars, stopped>>
  BY DEF coordinatorVars
<1>3. PlaceInv'
  BY <1>2, PlaceKept
<1>4. TypeOK'
  BY <1>1, <1>2 DEF CoordinatorInv, TypeOK, swapVars, frameVars, barrierVars, placeVars
<1> QED BY <1>3, <1>4

-----------------------------------------------------------------------------
(***************************************************************************)
(* The coordinator: the registered swaps.                                  *)
(***************************************************************************)

\* Whatever leaves the registered pairs alone and no master at the swap.
LEMMA SwapKept ==
  ASSUME CoordinatorInv, UNCHANGED <<pending, registered, applied>>,
         \A t \in Threads : /\ pc'[t] = "applying" => pc[t] = "applying"
                            /\ pc[t] = "clearing" => pc'[t] = "clearing"
  PROVE  SwapInv'
BY DEF CoordinatorInv, SwapInv, SwapsInOrder

\* What a worker does outside of the swap.
LEMMA WorkersSwapNothing ==
  ASSUME CoordinatorInv, NEW t \in Threads,
         \/ Work(t) \/ Quit(t) \/ ArriveEarly(t) \/ ArriveAsMaster(t) \/ Leave(t) \/ Measure(t)
         \/ FlipRegistry(t) \/ SampleMode(t) \/ CallHooks(t) \/ CountFrame(t)
  PROVE  SwapInv'
<1>1. UNCHANGED <<pending, registered, applied>>
  BY DEF Work, Quit, ArriveEarly, ArriveAsMaster, OpenBarrier, Leave, Measure,
     FlipRegistry, SampleMode, CallHooks, CountFrame, swapVars
<1>2. \A u \in Threads : u # t => pc'[u] = pc[u]
  BY DEF Work, Quit, ArriveEarly, ArriveAsMaster, OpenBarrier, Leave, Measure,
     FlipRegistry, SampleMode, CallHooks, CountFrame, NextLayer, Goto, CoordinatorInv, TypeOK
<1>3. pc[t] # "clearing" /\ pc'[t] # "applying"
  BY DEF Work, Quit, ArriveEarly, ArriveAsMaster, OpenBarrier, Leave, Measure,
     FlipRegistry, SampleMode, CallHooks, CountFrame, NextLayer, Goto, CoordinatorInv, TypeOK
<1> QED BY <1>1, <1>2, <1>3, SwapKept

\* While a master is at the swap, nobody else is.
LEMMA AloneAtSwap ==
  ASSUME CoordinatorInv, NEW t \in Threads, pc[t] \in AsMaster
  PROVE  \A u \in Threads : u # t => pc[u] \notin {"applying", "clearing"}
BY DEF CoordinatorInv, PlaceInv, OneMaster, AsMaster, AtBoundary

LEMMA SwapSteps ==
  ASSUME CoordinatorInv, NEW t \in Threads, FindSwap(t) \/ ApplySwap(t) \/ ClearSwap(t)
  PROVE  SwapInv'
<1> USE DEF CoordinatorInv
<1>1. /\ pc[t] \in AsMaster
      /\ \A u \in Threads : u # t => pc'[u] = pc[u]
  BY DEF FindSwap, ApplySwap, ClearSwap, Goto, TypeOK, AsMaster, AtBoundary
<1>2. \A u \in Threads : u # t => pc[u] \notin {"applying", "clearing"}
  BY <1>1, AloneAtSwap
<1>3. applied \in Seq(1 .. NumSwaps) /\ Len(applied) \in Nat /\ DOMAIN applied = 1 .. Len(applied)
  BY LenProperties DEF TypeOK
<1>4. CASE FindSwap(t)
  <2>1. /\ pending # 0 /\ pc[t] = "swapping" /\ UNCHANGED <<pending, registered, applied>>
    BY <1>4 DEF FindSwap, swapVars
  <2>2. \A u \in Threads : pc[u] # "clearing"
    BY <1>2, <2>1
  <2> QED BY <2>1, <2>2 DEF SwapInv, SwapsInOrder
<1>5. CASE ApplySwap(t)
  <2>1. /\ pc[t] = "applying" /\ pc'[t] = "clearing" /\ UNCHANGED <<pending, registered>>
        /\ applied' = Append(applied, pending)
    BY <1>5 DEF ApplySwap, Goto, TypeOK
  <2>2. pending # 0 /\ pending \in 1 .. NumSwaps
    BY <2>1, BoundsAssumption DEF SwapInv, TypeOK
  <2>3. \A i \in 1 .. Len(applied) : applied[i] < pending
    BY <1>2, <2>1, <2>2 DEF SwapInv
  <2>4. /\ applied' \in Seq(1 .. NumSwaps) /\ Len(applied') = Len(applied) + 1
        /\ \A i \in 1 .. Len(applied) : applied'[i] = applied[i]
        /\ applied'[Len(applied) + 1] = pending
        /\ DOMAIN applied' = 1 .. Len(applied) + 1
    BY <1>3, <2>1, <2>2, AppendProperties, LenProperties
  <2>5. \A i \in 1 .. Len(applied) + 1 : i \in 1 .. Len(applied) \/ i = Len(applied) + 1
    BY <1>3
  <2>6. SwapsInOrder'
    <3> SUFFICES ASSUME NEW i \in 1 .. Len(applied) + 1, NEW j \in 1 .. Len(applied) + 1, i < j
                 PROVE  applied'[i] < applied'[j]
      BY <2>4 DEF SwapsInOrder
    <3>1. i \in 1 .. Len(applied)
      BY <1>3
    <3>2. CASE j \in 1 .. Len(applied)
      BY <1>3, <2>4, <3>1, <3>2 DEF SwapInv, SwapsInOrder
    <3>3. CASE j = Len(applied) + 1
      BY <2>3, <2>4, <3>1, <3>3
    <3> QED BY <2>5, <3>2, <3>3
  <2>7. \A i \in 1 .. Len(applied') : applied'[i] <= registered'
    BY <2>1, <2>4, <2>5 DEF SwapInv
  <2>8. pending' <= registered' /\ \A u \in Threads : pc'[u] = "applying" => pending' # 0
    BY <2>1, <2>2 DEF SwapInv
  <2> QED BY <2>1, <2>6, <2>7, <2>8 DEF SwapInv
<1>6. CASE ClearSwap(t)
  <2>1. /\ pc'[t] = "sampling" /\ pending' = 0 /\ UNCHANGED <<registered, applied>>
    BY <1>6 DEF ClearSwap, Goto, TypeOK
  <2>2. \A u \in Threads : pc'[u] # "applying"
    BY <1>1, <1>2, <2>1
  <2>3. registered \in Nat
    BY DEF TypeOK
  <2> QED BY <2>1, <2>2, <2>3 DEF SwapInv, SwapsInOrder
<1> QED BY <1>4, <1>5, <1>6

LEMMA RegisterSwapsLater ==
  ASSUME CoordinatorInv, RegisterSwap
  PROVE  SwapInv'
<1>1. /\ registered' = registered + 1 /\ pending' = registered + 1
      /\ UNCHANGED <<applied, pc>> /\ registered \in Nat
  BY DEF RegisterSwap, placeVars, CoordinatorInv, TypeOK
<1>2. \A i \in 1 .. Len(applied) : applied[i] \in Nat /\ applied[i] <= registered
  <2> SUFFICES ASSUME NEW i \in 1 .. Len(applied)
               PROVE  applied[i] \in Nat /\ applied[i] <= registered
    OBVIOUS
  <2>1. applied \in Seq(1 .. NumSwaps)
    BY DEF CoordinatorInv, TypeOK
  <2>2. applied[i] \in 1 .. NumSwaps
    BY <2>1, ElementOfSeq
  <2> QED BY <2>2 DEF CoordinatorInv, SwapInv
<1> QED BY <1>1, <1>2 DEF CoordinatorInv, SwapInv, SwapsInOrder

-----------------------------------------------------------------------------
LEMMA CoordinatorStep == CoordinatorInv /\ [Next]_vars => CoordinatorInv'
<1> SUFFICES ASSUME CoordinatorInv, [Next]_vars PROVE CoordinatorInv'
  OBVIOUS
<1>1. ASSUME NEW t \in Threads, Worker(t) PROVE CoordinatorInv'
  <2>1. TypeOK' /\ PlaceInv'
    BY <1>1, WorkStep, ArriveEarlyStep, ArriveAsMasterStep, LeaveStep, MeasureStep, FindSwapStep,
       ApplySwapStep, ClearSwapStep, FlipRegistryStep,
       SampleModeStep, CallHooksStep, CountFrameStep DEF Worker, Boundary
  <2>2. SwapInv'
    BY <1>1, WorkersSwapNothing, SwapSteps DEF Worker, Boundary
  <2> QED BY <2>1, <2>2 DEF CoordinatorInv
<1>2. CASE RegisterSwap
  BY <1>2, RegisterSwapStep, RegisterSwapsLater DEF CoordinatorInv
<1>3. CASE UNCHANGED coordinatorVars /\ [OrchestratorNext]_orchestratorVars
  <2>1. UNCHANGED <<pending, registered, applied, pc>>
    BY <1>3 DEF coordinatorVars, swapVars, placeVars
  <2>2. SwapInv'
    BY <2>1, SwapKept
  <2> QED BY <1>3, <2>2, OrchestratorStep DEF CoordinatorInv
<1> QED BY <1>1, <1>2, <1>3, StopStep DEF Next, vars

\* One layer is active at a time, and every worker is in it or on its way out
\* of the one before.
THEOREM CoordinatorInvariant == Spec => []CoordinatorInv
BY CoordinatorInit, CoordinatorStep, PTL DEF Spec

\* The coordinator's fields, frame numbers and generations keep their types.
THEOREM CoordinatorTypeCorrect == Spec => []TypeOK
<1>1. CoordinatorInv => TypeOK
  BY DEF CoordinatorInv
<1> QED BY <1>1, CoordinatorInvariant, PTL

\* No worker begins a layer before all have finished the one before it, for
\* any number of workers, layers and frames.
THEOREM LayersStayInLockstep == Spec => []LayersInLockstep
<1>1. CoordinatorInv => LayersInLockstep
  <2> SUFFICES ASSUME CoordinatorInv, NEW t \in Threads, NEW u \in Threads
               PROVE  Begun(t) <= Finished(u)
    BY DEF LayersInLockstep
  <2>1. PICK l \in Layers : IsActive(l)
    BY DEF CoordinatorInv, PlaceInv
  <2> DEFINE place == Round * NumLayers + l
  <2>2. /\ Round \in Nat /\ l \in Nat /\ NumLayers \in Nat \ {0} /\ LastLayer = NumLayers - 1
        /\ place \in Int /\ (Round - 1) * NumLayers = Round * NumLayers - NumLayers
        /\ Round * NumLayers \in Int
    <3>1. Round \in Nat /\ l \in Nat
      BY LayersTyped DEF Round, CoordinatorInv, TypeOK
    <3>2. NumLayers \in Nat \ {0} /\ LastLayer = NumLayers - 1
      BY BoundsAssumption DEF LastLayer
    <3>3. Round * NumLayers \in Int /\ (Round - 1) * NumLayers = Round * NumLayers - NumLayers
      BY <3>1, <3>2
    <3> QED BY <3>1, <3>2, <3>3
  <2>3. ASSUME NEW v \in Threads
        PROVE  Begun(v) \in Int /\ Begun(v) <= place /\ place <= Finished(v)
    <3>1. CASE Here(v, l)
      <4>1. Begun(v) = place
        BY <3>1 DEF Here, Begun
      <4>2. Finished(v) = Begun(v) \/ Finished(v) = Begun(v) + 1
        BY <2>2, <4>1 DEF Begun, Finished
      <4> QED BY <2>2, <4>1, <4>2
    <3>2. CASE Behind(v, l)
      <4>1. Begun(v) = place - 1
        <5>1. CASE l = 0
          <6>1. layer[v] = NumLayers - 1 /\ frame[v] = Round - 1
            BY <2>2, <3>2, <5>1 DEF Behind
          <6>2. Begun(v) = (Round * NumLayers - NumLayers) + (NumLayers - 1)
            BY <2>2, <6>1 DEF Begun
          <6> QED BY <2>2, <5>1, <6>2
        <5>2. CASE l # 0
          <6>1. layer[v] = l - 1 /\ frame[v] = Round
            BY <3>2, <5>2 DEF Behind
          <6> QED BY <2>2, <6>1 DEF Begun
        <5> QED BY <5>1, <5>2
      <4>2. Finished(v) = Begun(v) + 1
        BY <3>2 DEF Behind, Begun, Finished, AsMaster, AtBoundary
      <4> QED BY <2>2, <4>1, <4>2
    <3> QED BY <2>1, <3>1, <3>2 DEF IsActive
  <2> HIDE DEF place
  <2>4. Begun(t) <= place /\ place <= Finished(u) /\ place \in Int /\ Begun(t) \in Int
    BY <2>2, <2>3
  <2>5. Finished(u) \in Int
    <3>1. frame[u] \in Int /\ layer[u] \in Int
      <4>1. frame[u] \in 0 .. NumFrames /\ layer[u] \in Layers
        BY DEF CoordinatorInv, TypeOK
      <4>2. frame[u] \in Int
        BY <4>1, BoundsAssumption
      <4>3. layer[u] \in Nat
        BY <4>1, LayersTyped
      <4> QED BY <4>2, <4>3
    <3>2. frame[u] * NumLayers \in Int
      BY <2>2, <3>1
    <3> QED BY <3>1, <3>2 DEF Finished
  <2> QED BY <2>4, <2>5
<1> QED BY <1>1, CoordinatorInvariant, PTL

\* While a master runs the boundary of a frame, the others still wait at its
\* barrier or are in the first layer of the next frame, where they stay.
THEOREM BoundaryIsIsolated == Spec => []BoundaryIsolated
<1>1. CoordinatorInv => BoundaryIsolated
  <2> SUFFICES ASSUME CoordinatorInv, NEW t \in Threads, NEW u \in Threads,
                      pc[t] \in AtBoundary, u # t
               PROVE  \/ frame[u] = frame[t] /\ layer[u] = LastLayer /\ pc[u] = "waiting"
                      \/ frame[u] = frame[t] + 1 /\ layer[u] = 0 /\ pc[u] \notin AsMaster
    BY DEF BoundaryIsolated
  <2>1. PICK l \in Layers : IsActive(l)
    BY DEF CoordinatorInv, PlaceInv
  <2>2. pc[t] \in AsMaster /\ pc[u] \notin AsMaster
    BY DEF AsMaster, CoordinatorInv, PlaceInv, OneMaster
  <2>3. Behind(t, l)
    BY <2>1, <2>2, MasterIsBehind
  <2>4. l = 0 /\ frame[t] = Round - 1 /\ Round \in Int
    BY <2>3, LayersTyped DEF Behind, Round, CoordinatorInv, TypeOK
  <2>5. CASE Here(u, l)
    BY <2>2, <2>4, <2>5 DEF Here
  <2>6. CASE Behind(u, l)
    BY <2>2, <2>4, <2>6 DEF Behind
  <2> QED BY <2>1, <2>5, <2>6 DEF IsActive
<1> QED BY <1>1, CoordinatorInvariant, PTL

\* Registered pairs become active in the order they were registered, none of
\* them twice, although they are registered without a lock: what can happen is
\* that one is dropped.
THEOREM SwapsStayInOrder == Spec => []SwapsInOrder
<1>1. CoordinatorInv => SwapsInOrder
  BY DEF CoordinatorInv, SwapInv
<1> QED BY <1>1, CoordinatorInvariant, PTL
=============================================================================
