---------------------------- MODULE SyncCoordinator ----------------------------
(***************************************************************************)
(* SubsystemSyncCoordinator (src/backend/src/satcom_core/                  *)
(* subsystem_sync_coordinator.py): worker threads that pass through the    *)
(* same layers in lockstep, one barrier per layer.  The last thread to     *)
(* arrive at a barrier is its master: after the others have been released  *)
(* it works out the skew of their arrivals and, at the last layer, runs    *)
(* the frame boundary: swap the buffers, take over the power mode, call    *)
(* the hooks, count the frame.  Other threads meanwhile register buffer    *)
(* swaps, and the orchestrator shifts the mode.                            *)
(*                                                                         *)
(* A wait at a barrier is two steps here, arriving and leaving; what goes  *)
(* on inside it is HybridBarrier.  An arrival time is abstracted to the    *)
(* frame it was taken in, a pair of registered buffers to its number.      *)
(***************************************************************************)
EXTENDS EnergyOrchestrator, Sequences, FiniteSets

CONSTANTS
  Threads,    \* the DSP workers
  NumLayers,  \* layers, each with its barrier; the last one ends the frame
  NumFrames,  \* bound: frames a worker runs (NUM_CYCLES)
  NumSwaps    \* bound: calls of register_buffer_swap

ASSUME ThreadsAssumption == IsFiniteSet(Threads) /\ Threads # {}
ASSUME BoundsAssumption ==
  /\ NumLayers \in Nat \ {0}
  /\ NumFrames \in Nat
  /\ NumSwaps \in Nat

VARIABLES
  pc,            \* where each worker is
  layer,         \* the layer it is in
  frame,         \* how many frames it has finished
  count,         \* arrival count of each layer's barrier
  generation,    \* generation of each layer's barrier
  localGen,      \* the generation each worker waits for the end of
  pending,       \* _pending_buffer_swap, 0 when there is none
  registered,    \* history: registered pairs
  applied,       \* history: registered pairs made active, in order
  buffers,       \* the active buffers: a registered pair, or Ping or Pong
  registryFlip,  \* whether the double buffer's registry is flipped
  mode,          \* _current_mode
  frameCounter,  \* frame_counter
  seenFrame,     \* the frame_counter a master has loaded
  stopped        \* stop_event

swapVars == <<pending, registered, applied, buffers, registryFlip>>
frameVars == <<mode, frameCounter, seenFrame>>
barrierVars == <<count, generation, localGen>>
placeVars == <<pc, layer, frame>>
coordinatorVars == <<swapVars, frameVars, barrierVars, placeVars, stopped>>
vars == <<coordinatorVars, orchestratorVars>>

\* What the workers and the caller of swaps only look at.
outside == <<stopped, orchestratorVars>>

Layers == 0 .. NumLayers - 1
LastLayer == NumLayers - 1
NumThreads == Cardinality(Threads)

\* The two pairs the registry alternates between: ping is the input, or pong.
Ping == 0
Pong == -1

Init ==
  /\ OrchestratorInit
  /\ pc = [t \in Threads |-> "working"]
  /\ layer = [t \in Threads |-> 0]
  /\ frame = [t \in Threads |-> 0]
  /\ count = [l \in Layers |-> 0]
  /\ generation = [l \in Layers |-> 0]
  /\ localGen = [t \in Threads |-> 0]
  /\ pending = 0
  /\ registered = 0
  /\ applied = <<>>
  /\ buffers = Ping
  /\ registryFlip = FALSE
  /\ mode = "NOMINAL"
  /\ frameCounter = 0
  /\ seenFrame = [t \in Threads |-> 0]
  /\ stopped = FALSE

Goto(t, place) == pc' = [pc EXCEPT ![t] = place]

-----------------------------------------------------------------------------
\* enter_layer, the work of the layer, and exit_layer up to its barrier.  A
\* worker tests stop_event at the head of a frame only.
Work(t) ==
  /\ pc[t] = "working"
  /\ frame[t] < NumFrames
  /\ layer[t] = 0 => ~stopped
  /\ Goto(t, "arriving")
  /\ UNCHANGED <<swapVars, frameVars, barrierVars, layer, frame, outside>>

\* A slip: the event is tested before every layer.
QuitAnyLayer(t) ==
  /\ pc[t] = "working"
  /\ frame[t] < NumFrames
  /\ stopped
  /\ Goto(t, "gone")
  /\ UNCHANGED <<swapVars, frameVars, barrierVars, layer, frame, outside>>

\* A worker that finds stop_event set leaves without a word to the barriers.
Quit(t) ==
  /\ pc[t] = "working"
  /\ frame[t] < NumFrames
  /\ layer[t] = 0 /\ stopped
  /\ Goto(t, "gone")
  /\ UNCHANGED <<swapVars, frameVars, barrierVars, layer, frame, outside>>

ArriveEarly(t) ==
  /\ pc[t] = "arriving"
  /\ count[layer[t]] + 1 # NumThreads
  /\ count' = [count EXCEPT ![layer[t]] = @ + 1]
  /\ localGen' = [localGen EXCEPT ![t] = generation[layer[t]]]
  /\ Goto(t, "waiting")
  /\ UNCHANGED <<swapVars, frameVars, generation, layer, frame, outside>>

OpenBarrier(t) ==
  /\ generation' = [generation EXCEPT ![layer[t]] = @ + 1]
  /\ Goto(t, "master")
  /\ UNCHANGED <<swapVars, frameVars, localGen, layer, frame, outside>>

\* Slips: the barrier is built for one thread less than the workers, its count
\* is not reset, or its generation does not advance.
ArriveAsMasterTooEarly(t) ==
  /\ pc[t] = "arriving"
  /\ count[layer[t]] + 2 >= NumThreads
  /\ count' = [count EXCEPT ![layer[t]] = 0]
  /\ OpenBarrier(t)

ArriveAsMasterNoReset(t) ==
  /\ pc[t] = "arriving"
  /\ count[layer[t]] + 1 = NumThreads
  /\ OpenBarrier(t)
  /\ UNCHANGED count

ArriveAsMasterSilently(t) ==
  /\ pc[t] = "arriving"
  /\ count[layer[t]] + 1 = NumThreads
  /\ count' = [count EXCEPT ![layer[t]] = 0]
  /\ Goto(t, "master")
  /\ UNCHANGED <<swapVars, frameVars, generation, localGen, layer, frame,
                 outside>>

ArriveAsMaster(t) ==
  /\ pc[t] = "arriving"
  /\ count[layer[t]] + 1 = NumThreads
  /\ count' = [count EXCEPT ![layer[t]] = 0]
  /\ OpenBarrier(t)

\* exit_layer returns and the worker goes on to the next layer or frame.
NextLayer(t) ==
  /\ layer' = [layer EXCEPT ![t] = (@ + 1) % NumLayers]
  /\ frame' = [frame EXCEPT ![t] = IF layer[t] = LastLayer THEN @ + 1 ELSE @]
  /\ Goto(t, "working")

Leave(t) ==
  /\ pc[t] = "waiting"
  /\ generation[layer[t]] # localGen[t]
  /\ NextLayer(t)
  /\ localGen' = [localGen EXCEPT ![t] = 0]
  /\ UNCHANGED <<swapVars, frameVars, count, generation, outside>>

-----------------------------------------------------------------------------
\* The master works out the skew of the arrivals, which nothing else depends on.
Measure(t) ==
  /\ pc[t] = "master"
  /\ IF layer[t] = LastLayer
       THEN Goto(t, "swapping") /\ UNCHANGED <<layer, frame>>
       ELSE NextLayer(t)
  /\ UNCHANGED <<swapVars, frameVars, barrierVars, outside>>

-----------------------------------------------------------------------------
\* _execute_frame_boundary_hook.

FindSwap(t) ==
  /\ pc[t] = "swapping"
  /\ pending # 0
  /\ Goto(t, "applying")
  /\ UNCHANGED <<swapVars, frameVars, barrierVars, layer, frame, outside>>

ApplySwap(t) ==
  /\ pc[t] = "applying"
  /\ buffers' = pending
  /\ applied' = Append(applied, pending)
  /\ Goto(t, "clearing")
  /\ UNCHANGED <<pending, registered, registryFlip, frameVars, barrierVars,
                 layer, frame, outside>>

\* A slip: the applied pair stays registered.
KeepSwap(t) ==
  /\ pc[t] = "clearing"
  /\ Goto(t, "sampling")
  /\ UNCHANGED <<swapVars, frameVars, barrierVars, layer, frame, outside>>

ClearSwap(t) ==
  /\ pc[t] = "clearing"
  /\ pending' = 0
  /\ Goto(t, "sampling")
  /\ UNCHANGED <<registered, applied, buffers, registryFlip, frameVars,
                 barrierVars, layer, frame, outside>>

FlipRegistry(t) ==
  /\ pc[t] = "swapping"
  /\ pending = 0
  /\ registryFlip' = ~registryFlip
  /\ buffers' = IF registryFlip THEN Ping ELSE Pong
  /\ Goto(t, "sampling")
  /\ UNCHANGED <<pending, registered, applied, frameVars, barrierVars, layer,
                 frame, outside>>

SampleMode(t) ==
  /\ pc[t] = "sampling"
  /\ mode' = activeConfig
  /\ Goto(t, "hooking")
  /\ UNCHANGED <<swapVars, frameCounter, seenFrame, barrierVars, layer, frame,
                 outside>>

\* The hooks see frame_counter, which is read once more to be incremented.
CallHooks(t) ==
  /\ pc[t] = "hooking"
  /\ seenFrame' = [seenFrame EXCEPT ![t] = frameCounter]
  /\ Goto(t, "counting")
  /\ UNCHANGED <<swapVars, mode, frameCounter, barrierVars, layer, frame,
                 outside>>

CountFrame(t) ==
  /\ pc[t] = "counting"
  /\ frameCounter' = seenFrame[t] + 1
  /\ NextLayer(t)
  /\ UNCHANGED <<swapVars, mode, seenFrame, barrierVars, outside>>

-----------------------------------------------------------------------------
RegisterSwap ==
  /\ registered < NumSwaps
  /\ registered' = registered + 1
  /\ pending' = registered + 1
  /\ UNCHANGED <<applied, buffers, registryFlip, frameVars, barrierVars,
                 placeVars, outside>>

Boundary(t) ==
  \/ FindSwap(t)
  \/ ApplySwap(t)
  \/ ClearSwap(t)
  \/ FlipRegistry(t)
  \/ SampleMode(t)
  \/ CallHooks(t)
  \/ CountFrame(t)

\* The main thread ends the run, whatever the workers are doing.
Stop ==
  /\ ~stopped
  /\ stopped' = TRUE
  /\ UNCHANGED <<swapVars, frameVars, barrierVars, placeVars, orchestratorVars>>

Worker(t) ==
  \/ Work(t)
  \/ Quit(t)
  \/ ArriveEarly(t)
  \/ ArriveAsMaster(t)
  \/ Leave(t)
  \/ Measure(t)
  \/ Boundary(t)

Next ==
  \/ \E t \in Threads : Worker(t)
  \/ RegisterSwap
  \/ Stop
  \/ OrchestratorNext /\ UNCHANGED coordinatorVars

Spec == Init /\ [][Next]_vars

\* Every worker keeps running its loop.
FairSpec == Spec /\ \A t \in Threads : WF_vars(Worker(t))

-----------------------------------------------------------------------------
AtBoundary ==
  {"swapping", "applying", "clearing", "sampling", "hooking", "counting"}
AsMaster == {"master"} \cup AtBoundary

TypeOK ==
  /\ OrchestratorTypeOK
  /\ pc \in [Threads -> {"working", "arriving", "waiting", "gone"} \cup AsMaster]
  /\ layer \in [Threads -> Layers]
  /\ frame \in [Threads -> 0 .. NumFrames]
  /\ count \in [Layers -> 0 .. NumThreads - 1]
  /\ generation \in [Layers -> 0 .. NumFrames]
  /\ localGen \in [Threads -> 0 .. NumFrames]
  /\ pending \in 0 .. NumSwaps
  /\ registered \in 0 .. NumSwaps
  /\ applied \in Seq(1 .. NumSwaps)
  /\ buffers \in {Ping, Pong} \cup 1 .. NumSwaps
  /\ registryFlip \in BOOLEAN
  /\ mode \in Modes
  /\ frameCounter \in 0 .. NumFrames
  /\ seenFrame \in [Threads -> 0 .. NumFrames]
  /\ stopped \in BOOLEAN

\* How far a worker is, in layers finished; one that waits has finished its
\* layer's work.
Finished(t) ==
  frame[t] * NumLayers + layer[t] +
  (IF pc[t] \in {"working", "arriving", "gone"} THEN 0 ELSE 1)
Begun(t) == frame[t] * NumLayers + layer[t]

\* "No thread may begin layer L+1 before every thread has finished layer L"
\* (src/tests/ipc_sync_verifier.py).
LayersInLockstep == \A t, u \in Threads : Begun(t) <= Finished(u)

\* Although the boundary runs after the other workers were released, none of
\* them gets past the first layer of the next frame before it is over: the
\* buffers, the mode and the frame number are the same for every worker in
\* every other layer.
BoundaryIsolated ==
  \A t, u \in Threads : pc[t] \in AtBoundary /\ u # t =>
    \/ frame[u] = frame[t] /\ layer[u] = LastLayer /\ pc[u] = "waiting"
    \/ frame[u] = frame[t] + 1 /\ layer[u] = 0 /\ pc[u] \notin AsMaster

\* No registered pair of buffers is made active twice, or after a later one.
SwapsInOrder ==
  \A i, j \in DOMAIN applied : i < j => applied[i] < applied[j]

\* A worker that tested stop_event before it was set, and waits in the first
\* layer of a frame that another one has left at its head.
LeftBehind(t) ==
  /\ pc[t] = "waiting" /\ layer[t] = 0
  /\ \E u \in Threads : pc[u] = "gone" /\ frame[u] = frame[t]

\* Whenever stop_event is set, every worker runs all its frames or leaves, but
\* for those that wait for ever in the frame the others have left: nobody is
\* stranded in a later layer, or without a worker that has gone.
WorkersFinish ==
  <>[](\A t \in Threads :
         frame[t] = NumFrames \/ pc[t] = "gone" \/ LeftBehind(t))

\* The last registered pair is waiting for a boundary or has been made active:
\* "swaps are deferred until the next 4096-sample frame boundary".
LastSwapHonoured ==
  registered # 0 =>
    pending = registered \/ \E i \in DOMAIN applied : applied[i] = registered

-----------------------------------------------------------------------------
(***************************************************************************)
(* The inductive invariant behind the safety properties: one layer is      *)
(* active, each worker is in it or has not yet left the one before it.     *)
(***************************************************************************)
Round == generation[LastLayer]

\* A worker that works in the active layer, or waits at its barrier.
Here(t, l) ==
  /\ layer[t] = l
  /\ frame[t] = Round
  /\ pc[t] \in {"working", "arriving", "waiting", "gone"}
  /\ pc[t] = "waiting" => localGen[t] = Round

\* A worker that still waits at the barrier opened before, or is its master.
Behind(t, l) ==
  /\ layer[t] = (IF l = 0 THEN LastLayer ELSE l - 1)
  /\ frame[t] = (IF l = 0 THEN Round - 1 ELSE Round)
  /\ pc[t] \in {"waiting"} \cup AsMaster
  /\ pc[t] = "waiting" => localGen[t] = frame[t]
  /\ pc[t] \in AtBoundary => l = 0

Arrived(l) ==
  {t \in Threads : layer[t] = l /\ frame[t] = Round /\ pc[t] = "waiting"}

IsActive(l) ==
  /\ \A k \in Layers : generation[k] = (IF k < l THEN Round + 1 ELSE Round)
  /\ \A k \in Layers : k # l => count[k] = 0
  /\ count[l] = Cardinality(Arrived(l))
  /\ \A t \in Threads : Here(t, l) \/ Behind(t, l)

OneMaster == \A t, u \in Threads : {pc[t], pc[u]} \subseteq AsMaster => t = u

\* The counter is behind only while a master has the end of a frame before it.
EndsFrame(t) == pc[t] \in AsMaster /\ layer[t] = LastLayer
FramesCounted ==
  /\ \A t \in Threads : EndsFrame(t) => frameCounter = frame[t]
  /\ (\A t \in Threads : ~EndsFrame(t)) => frameCounter = Round
  /\ \A t \in Threads : pc[t] = "counting" => seenFrame[t] = frameCounter

PlaceInv ==
  /\ \E l \in Layers : IsActive(l)
  /\ OneMaster
  /\ FramesCounted
  /\ \A t \in Threads : pc[t] # "working" => frame[t] < NumFrames

\* A pair that waits is later than those applied, unless it is the one a
\* master has just applied and not yet cleared.
SwapInv ==
  /\ SwapsInOrder
  /\ pending <= registered
  /\ \A i \in 1 .. Len(applied) : applied[i] <= registered
  /\ \A t \in Threads : pc[t] = "applying" => pending # 0
  /\ \/ \E t \in Threads : pc[t] = "clearing"
     \/ pending = 0
     \/ \A i \in 1 .. Len(applied) : applied[i] < pending

CoordinatorInv == TypeOK /\ PlaceInv /\ SwapInv
=============================================================================
