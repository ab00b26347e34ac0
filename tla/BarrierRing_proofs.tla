-------------------------- MODULE BarrierRing_proofs --------------------------
(***************************************************************************)
(* Proofs about the two lock-free structures that threads of one process   *)
(* share.                                                                  *)
(*                                                                         *)
(* HybridBarrier, for every set of threads and every number of waits: the  *)
(* inductive invariant, the safety properties that follow from it, and     *)
(* that the barrier implements PhaseBarrier.                               *)
(*                                                                         *)
(* FusionRing, for every capacity, batch size, number of records and set   *)
(* of producers.                                                           *)
(***************************************************************************)
EXTENDS HybridBarrier, FusionRing, CommonLemmas


-----------------------------------------------------------------------------
\* The threads can be counted, and there is at least one.
LEMMA ThreadsCounted ==
  NumThreads \in Nat \ {0}
<1>1. Cardinality(Threads) \in Nat
  BY ThreadsAssumption, FS_CardinalityType
<1>2. Cardinality(Threads) # 0
  BY ThreadsAssumption, FS_EmptySet
<1> QED BY <1>1, <1>2 DEF NumThreads

\* A thread that steps inside adds one to the number of those inside.
LEMMA OneMore ==
  ASSUME NEW S \in SUBSET Threads, NEW t \in Threads \ S
  PROVE  /\ Cardinality(S) \in Nat
         /\ Cardinality(S \cup {t}) = Cardinality(S) + 1
<1>1. IsFiniteSet(S)
  BY ThreadsAssumption, FS_Subset
<1> QED BY <1>1, FS_AddElement, FS_CardinalityType

\* As many inside as there are threads: everyone is inside.
LEMMA EveryoneInside ==
  ASSUME NEW S \in SUBSET Threads, Cardinality(S) = NumThreads
  PROVE  S = Threads
BY ThreadsAssumption, FS_Subset DEF NumThreads

-----------------------------------------------------------------------------
\* The constructor establishes the invariant.
LEMMA BarrierStarts == BarrierInit => BarrierInv
<1> SUFFICES ASSUME BarrierInit PROVE BarrierInv
  OBVIOUS
<1>1. BarrierTypeOK
  BY DEF BarrierInit, BarrierTypeOK
<1>2. Progress /\ LockHeld /\ Led /\ NoLostWakeup
  BY NoThreadAssumption
     DEF BarrierInit, Progress, LockHeld, Led, NoLostWakeup, Waiting
<1>3. Inside = {}
  BY DEF BarrierInit, Inside
<1>4. Counted
  BY <1>3, FS_EmptySet, ThreadsCounted DEF BarrierInit, Counted
<1> QED BY <1>1, <1>2, <1>4 DEF BarrierInv

\* A thread that is counted in, but not the last, preserves it.
LEMMA EarlyStep ==
  ASSUME BarrierInv, NEW t \in Threads, ArriveEarly(t)
  PROVE  BarrierInv'
<1> USE DEF BarrierInv, ArriveEarly, Enter
<1>1. BarrierTypeOK'
  BY DEF BarrierTypeOK, Waiting
<1>2. Progress'
  BY DEF Progress, BarrierTypeOK, Waiting
<1>3. Inside' = Inside \cup {t} /\ t \notin Inside
  BY DEF Inside, Progress, BarrierTypeOK
<1>4. Cardinality(Inside') = Cardinality(Inside) + 1 /\ Cardinality(Inside) \in Nat
  BY <1>3, OneMore DEF Inside
<1>5. arrivalCount' = Cardinality(Inside') /\ arrivalCount' < NumThreads
  BY <1>4, ThreadsCounted DEF Counted, BarrierTypeOK
<1>6. \A u \in Threads : pc'[u] \notin {"opening", "notifying"}
  BY NoThreadAssumption DEF LockHeld, BarrierTypeOK
<1>7. Counted'
  BY <1>5, <1>6 DEF Counted
<1>8. LockHeld' /\ Led'
  BY <1>6, NoThreadAssumption DEF LockHeld, Led, BarrierTypeOK
<1>9. NoLostWakeup'
  BY DEF NoLostWakeup, BarrierTypeOK
<1> QED BY <1>1, <1>2, <1>7, <1>8, <1>9

\* The last thread finds every other thread inside, resets the count and
\* keeps the lock.
LEMMA LastStep ==
  ASSUME BarrierInv, NEW t \in Threads, ArriveLast(t)
  PROVE  BarrierInv'
<1> USE DEF BarrierInv, ArriveLast, Enter
<1>1. BarrierTypeOK'
  BY DEF BarrierTypeOK, Waiting
<1>2. Progress'
  BY DEF Progress, BarrierTypeOK, Waiting
<1>3. Inside' = Inside \cup {t} /\ t \notin Inside
  BY DEF Inside, Progress, BarrierTypeOK
<1>4. Cardinality(Inside') = Cardinality(Inside) + 1
  BY <1>3, OneMore DEF Inside
<1>5. Cardinality(Inside') = NumThreads
  BY <1>4 DEF Counted
<1>6. Inside' = Threads
  BY <1>5, EveryoneInside DEF Inside
<1>7. LockHeld'
  BY NoThreadAssumption DEF LockHeld, BarrierTypeOK
<1>8. \A u \in Threads : pc'[u] # "notifying"
  BY NoThreadAssumption DEF LockHeld, BarrierTypeOK
<1>9. Counted'
  BY <1>6, <1>8, NoThreadAssumption DEF Counted
<1>10. Led'
  BY <1>8 DEF Led
<1>11. NoLostWakeup'
  BY DEF NoLostWakeup, BarrierTypeOK
<1> QED BY <1>1, <1>2, <1>7, <1>9, <1>10, <1>11

\* Once the generation has advanced nobody is inside the new phase yet.
LEMMA OpenStep ==
  ASSUME BarrierInv, NEW t \in Threads, Open(t)
  PROVE  BarrierInv'
<1> USE DEF BarrierInv, Open
<1>1. BarrierTypeOK'
  BY DEF BarrierTypeOK, Waiting
<1>2. Inside = Threads /\ arrivalCount = 0
  BY DEF Counted
<1>3. lock = t /\ \A u \in Threads : u # t => pc[u] \notin {"opening", "notifying"}
  BY DEF LockHeld
<1>4. \A u \in Threads : arrived[u] = generation + 1
  BY <1>2 DEF Inside
<1>5. Progress'
  BY <1>3, <1>4 DEF Progress, BarrierTypeOK, Waiting
<1>6. Inside' = {}
  BY <1>4 DEF Inside, BarrierTypeOK
<1>7. Counted'
  BY <1>2, <1>3, <1>6, FS_EmptySet, ThreadsCounted DEF Counted, BarrierTypeOK
<1>8. LockHeld'
  BY DEF LockHeld, BarrierTypeOK
<1>9. Led'
  BY <1>3, <1>4 DEF Led, BarrierTypeOK
<1>10. NoLostWakeup'
  BY DEF NoLostWakeup, BarrierTypeOK
<1> QED BY <1>1, <1>5, <1>7, <1>8, <1>9, <1>10

\* Notifying leaves nobody asleep, and gives the phase its only master.
LEMMA NotifyStep ==
  ASSUME BarrierInv, NEW t \in Threads, NotifyAll(t)
  PROVE  BarrierInv'
<1> USE DEF BarrierInv, NotifyAll
<1>1. BarrierTypeOK'
  BY DEF BarrierTypeOK, Waiting
<1>2. \A u \in Threads : u # t => pc[u] \notin {"opening", "notifying"}
  BY DEF LockHeld
<1>3. Progress'
  <2>1. arrived[t] = generation
    BY DEF Progress
  <2>2. \A u \in Threads \ {t} :
          /\ pc'[u] = "outside" <=> pc[u] = "outside"
          /\ pc'[u] \in Waiting <=> pc[u] \in Waiting
          /\ pc'[u] \notin {"opening", "notifying"}
          /\ left'[u] = left[u]
    BY <1>2 DEF BarrierTypeOK, Waiting
  <2>3. pc'[t] = "outside" /\ left'[t] = arrived[t]
    BY DEF BarrierTypeOK
  <2> QED BY <2>1, <2>2, <2>3 DEF Progress, Waiting
<1>4. Inside' = Inside /\ arrivalCount' = arrivalCount
  BY DEF Inside
<1>5. Counted'
  BY <1>2, <1>4 DEF Counted, BarrierTypeOK
<1>6. LockHeld'
  BY <1>2, NoThreadAssumption DEF LockHeld, BarrierTypeOK
<1>7. Led'
  <2>1. arrived[t] = generation
    BY DEF Progress
  <2>2. \A u \in Threads : pc'[u] # "notifying"
    BY <1>2 DEF BarrierTypeOK
  <2> QED BY <2>1, <2>2 DEF Led, BarrierTypeOK
<1>8. NoLostWakeup'
  BY DEF NoLostWakeup, BarrierTypeOK
<1> QED BY <1>1, <1>3, <1>5, <1>6, <1>7, <1>8

\* Returning from a generation that is over.
LEMMA ReturnStep ==
  ASSUME BarrierInv, NEW t \in Threads, pc[t] \in Waiting,
         generation # localGen[t], Return(t)
  PROVE  BarrierInv'
<1> USE DEF BarrierInv, Return
<1>1. BarrierTypeOK'
  BY DEF BarrierTypeOK, Waiting
<1>2. arrived[t] = generation
  BY DEF Progress, BarrierTypeOK
<1>3. Progress'
  BY <1>2 DEF Progress, BarrierTypeOK, Waiting
<1>4. Inside' = Inside
  BY DEF Inside
<1>5. Counted'
  BY <1>4 DEF Counted, BarrierTypeOK, Waiting
<1>6. LockHeld' /\ Led'
  BY DEF LockHeld, Led, BarrierTypeOK, Waiting
<1>7. NoLostWakeup'
  BY DEF NoLostWakeup, BarrierTypeOK, Waiting
<1> QED BY <1>1, <1>3, <1>5, <1>6, <1>7

\* A step between two places of waiting; whoever falls asleep does so in the
\* current generation.
LEMMA WaitStep ==
  ASSUME BarrierInv, NEW t \in Threads, NEW place \in Waiting,
         pc[t] \in Waiting, pc' = [pc EXCEPT ![t] = place],
         place = "asleep" => generation = localGen[t],
         UNCHANGED <<lock, generation, arrivalCount, localGen, arrived, left, ledBy>>
  PROVE  BarrierInv'
<1> USE DEF BarrierInv
<1>1. BarrierTypeOK'
  BY DEF BarrierTypeOK
<1>2. Progress'
  BY DEF Progress, BarrierTypeOK, Waiting
<1>3. Inside' = Inside
  BY DEF Inside
<1>4. Counted'
  BY <1>3 DEF Counted, BarrierTypeOK, Waiting
<1>5. LockHeld' /\ Led'
  BY DEF LockHeld, Led, BarrierTypeOK, Waiting
<1>6. NoLostWakeup'
  BY DEF NoLostWakeup, BarrierTypeOK, Waiting
<1> QED BY <1>1, <1>2, <1>4, <1>5, <1>6

\* Every step preserves the invariant.
LEMMA BarrierStep == BarrierInv /\ [BarrierNext]_barrierVars => BarrierInv'
<1> SUFFICES ASSUME BarrierInv, [BarrierNext]_barrierVars PROVE BarrierInv'
  OBVIOUS
<1>1. ASSUME NEW t \in Threads, Arrive(t) PROVE BarrierInv'
  BY <1>1, EarlyStep, LastStep DEF Arrive
<1>2. ASSUME NEW t \in Threads, Proceed(t) PROVE BarrierInv'
  <2>1. CASE Open(t)
    BY <2>1, OpenStep
  <2>2. CASE NotifyAll(t)
    BY <2>2, NotifyStep
  <2>3. CASE SpinSees(t)
    BY <2>3, ReturnStep DEF SpinSees, Waiting
  <2>4. CASE SpinExpires(t)
    BY <2>4, WaitStep DEF SpinExpires, Waiting
  <2>5. CASE FallAsleep(t)
    BY <2>5, WaitStep DEF FallAsleep, Waiting
  <2>6. CASE WakeUp(t)
    BY <2>6, ReturnStep DEF WakeUp, Waiting
  <2> QED BY <1>2, <2>1, <2>2, <2>3, <2>4, <2>5, <2>6 DEF Proceed
<1>3. CASE UNCHANGED barrierVars
  <2>1. Inside' = Inside
    BY <1>3 DEF barrierVars, Inside
  <2> QED BY <1>3, <2>1 DEF barrierVars, BarrierInv, BarrierTypeOK, Progress, Counted, LockHeld,
                            Led, NoLostWakeup
<1> QED BY <1>1, <1>2, <1>3 DEF BarrierNext

-----------------------------------------------------------------------------
\* The barrier keeps its invariant: the count is the number of threads inside,
\* each thread's place agrees with the generation, the lock is held across
\* steps by the last thread only, and nobody sleeps through a notification.
THEOREM BarrierInvariant == BarrierSpec => []BarrierInv
<1> QED BY BarrierStarts, BarrierStep, PTL DEF BarrierSpec

\* The counters of the barrier and of the waits keep their types, however the
\* threads arrive, fall asleep and are woken.
THEOREM BarrierTypeCorrect == BarrierSpec => []BarrierTypeOK
<1>1. BarrierInv => BarrierTypeOK
  BY DEF BarrierInv
<1> QED BY <1>1, BarrierInvariant, PTL

\* wait() does what the pipeline relies on: no thread leaves a wait that
\* another one has not started, a spinning thread is never a whole generation
\* behind, and no thread stays asleep on a generation that is over.
THEOREM BarrierIsSafe == BarrierSpec => [](NoOvertaking /\ NeverLapped /\ NoLostWakeup)
<1>1. BarrierInv => NoOvertaking
  <2> SUFFICES ASSUME BarrierInv, NEW t \in Threads, NEW u \in Threads
               PROVE  left[t] <= arrived[u]
    BY DEF NoOvertaking
  <2>1. left[t] <= generation
    BY DEF BarrierInv, Progress, BarrierTypeOK
  <2>2. arrived[u] >= generation
    BY DEF BarrierInv, Progress, BarrierTypeOK
  <2> QED BY <2>1, <2>2 DEF BarrierInv, BarrierTypeOK
<1>2. BarrierInv => NeverLapped
  BY DEF BarrierInv, Progress, BarrierTypeOK, NeverLapped
<1>3. BarrierInv => NoLostWakeup
  BY DEF BarrierInv
<1> QED BY <1>1, <1>2, <1>3, BarrierInvariant, PTL

-----------------------------------------------------------------------------
\* Every thread has started the waits that are over.
LEMMA AllArrivedBefore ==
  ASSUME BarrierInv, NEW k \in Nat, k <= generation
  PROVE  Phases!AllArrived(k)
BY DEF BarrierInv, Progress, BarrierTypeOK, Phases!AllArrived

\* Arriving is arriving; returning from a generation that is over is leaving
\* as a follower, and notifying is leaving as the master.
LEMMA PhasesStep ==
  ASSUME BarrierInv, [BarrierNext]_barrierVars
  PROVE  [Phases!Next]_(Phases!phaseVars)
<1> USE DEF BarrierInv
<1>1. ASSUME NEW t \in Threads, Arrive(t) PROVE Phases!Arrive(t)
  BY <1>1 DEF Arrive, ArriveEarly, ArriveLast, Enter, Phases!Arrive, Progress, BarrierTypeOK
<1>2. ASSUME NEW t \in Threads, pc[t] \in Waiting, generation # localGen[t], Return(t)
      PROVE  Phases!LeaveAsFollower(t)
  <2>1. arrived[t] = generation /\ left[t] < arrived[t]
    BY <1>2 DEF Progress, BarrierTypeOK
  <2>2. Phases!AllArrived(arrived[t])
    BY <2>1, AllArrivedBefore DEF BarrierTypeOK
  <2> QED BY <1>2, <2>1, <2>2 DEF Return, Phases!LeaveAsFollower
<1>3. ASSUME NEW t \in Threads, NotifyAll(t) PROVE Phases!LeaveAsMaster(t)
  <2>1. arrived[t] = generation /\ left[t] < arrived[t] /\ arrived[t] \notin ledBy
    BY <1>3 DEF NotifyAll, Progress, Led, BarrierTypeOK
  <2>2. Phases!AllArrived(arrived[t])
    BY <2>1, AllArrivedBefore DEF BarrierTypeOK
  <2> QED BY <1>3, <2>1, <2>2 DEF NotifyAll, Phases!LeaveAsMaster
<1>4. ASSUME NEW t \in Threads, Open(t) \/ SpinExpires(t) \/ FallAsleep(t)
      PROVE  UNCHANGED Phases!phaseVars
  BY <1>4 DEF Open, SpinExpires, FallAsleep, Phases!phaseVars
<1>5. CASE UNCHANGED barrierVars
  BY <1>5 DEF barrierVars, Phases!phaseVars
<1>6. CASE BarrierNext
  <2>1. PICK t \in Threads : Arrive(t) \/ Proceed(t)
    BY <1>6 DEF BarrierNext
  <2>2. CASE Arrive(t)
    BY <2>2, <1>1 DEF Phases!Next
  <2>3. CASE SpinSees(t) \/ WakeUp(t)
    BY <2>3, <1>2 DEF SpinSees, WakeUp, Waiting, Phases!Next
  <2>4. CASE NotifyAll(t)
    BY <2>4, <1>3 DEF Phases!Next
  <2>5. CASE Open(t) \/ SpinExpires(t) \/ FallAsleep(t)
    BY <2>5, <1>4
  <2> QED BY <2>1, <2>2, <2>3, <2>4, <2>5 DEF Proceed
<1> QED BY <1>5, <1>6

\* The lock, the spinning and the sleeping together are a reusable barrier
\* with one master per phase.
THEOREM BarrierIsPhaseBarrier == BarrierSpec => ImplementsPhases
<1>1. BarrierInit => Phases!Init
  BY DEF BarrierInit, Phases!Init
<1>2. BarrierInv /\ [BarrierNext]_barrierVars => [Phases!Next]_(Phases!phaseVars)
  BY PhasesStep
<1> QED BY <1>1, <1>2, BarrierInvariant, PTL DEF BarrierSpec, ImplementsPhases, Phases!Spec

-----------------------------------------------------------------------------
(***************************************************************************)
(* Runs of ready slots.                                                    *)
(***************************************************************************)

\* A batch is at most a turn of the ring, and every slot of it is ready.
LEMMA RunIsReady ==
  ASSUME TypeOK
  PROVE  /\ ReadyRun \in Nat
         /\ ReadyRun <= Capacity
         /\ \A i \in 0 .. ReadyRun - 1 : IsReady(SlotOf(popper.seen + i))
<1> DEFINE M == Min({BatchSize, Capacity})
           S == {n \in 0 .. M : \A i \in 0 .. n - 1 : IsReady(SlotOf(popper.seen + i))}
<1>1. M \in Nat /\ M <= Capacity
  BY BatchSizeAssumption, CapacityAssumption DEF Min
<1> HIDE DEF M
<1>2. S \in SUBSET (0 .. M)
  OBVIOUS
<1>3. 0 \in S
  BY <1>1
<1>4. Max(S) \in S
  <2> HIDE DEF S
  <2> QED BY <1>1, <1>2, <1>3, LastOf
<1>5. ReadyRun = Max(S)
  BY DEF ReadyRun, M
<1> HIDE DEF S
<1>6. ReadyRun \in S
  BY <1>4, <1>5
<1>7. \A n \in S : n \in 0 .. M /\ \A i \in 0 .. n - 1 : IsReady(SlotOf(popper.seen + i))
  BY DEF S
<1>8. ReadyRun \in 0 .. M
  BY <1>6, <1>7
<1>9. \A i \in 0 .. ReadyRun - 1 : IsReady(SlotOf(popper.seen + i))
  BY <1>6, <1>7, Zenon
<1>10. ReadyRun \in Nat /\ ReadyRun <= Capacity
  BY <1>1, <1>8, CapacityAssumption
<1> QED BY <1>9, <1>10, Zenon

\* The slots of a batch are slots of the ring, and are different ones.
LEMMA RunOfSlots ==
  ASSUME NEW a \in Nat, NEW i \in 0 .. Capacity - 1, NEW j \in 0 .. Capacity - 1
  PROVE  /\ SlotOf(a + i) \in Slots
         /\ SlotOf(a + i) = SlotOf(a + j) => i = j
<1>1. a + i \in Int /\ a + j \in Int /\ Capacity \in Nat \ {0}
  BY CapacityAssumption
<1>2. (a + i) % Capacity \in Slots
  BY <1>1, DivMod DEF Slots
<1>3. ASSUME (a + i) % Capacity = (a + j) % Capacity PROVE i = j
  <2>1. CASE i <= j
    <3>1. a + i <= a + j /\ (a + j) - (a + i) < Capacity
      BY <1>1, <2>1
    <3>2. a + i = a + j
      BY <1>1, <1>3, <3>1, SameSlot
    <3> QED BY <3>2
  <2>2. CASE j <= i
    <3>1. a + j <= a + i /\ (a + i) - (a + j) < Capacity
      BY <1>1, <2>2
    <3>2. a + j = a + i
      BY <1>1, <1>3, <3>1, SameSlot
    <3> QED BY <3>2
  <2> QED BY <2>1, <2>2
<1> QED BY <1>2, <1>3 DEF SlotOf

-----------------------------------------------------------------------------
(***************************************************************************)
(* The steps of push.                                                      *)
(***************************************************************************)

\* A step of a producer concerns nobody else's.
LEMMA GoesOn ==
  ASSUME TypeOK, NEW p \in Producers, NEW from, NEW to \in Steps, Goes(p, from, to)
  PROVE  /\ pusher[p].at = from
         /\ pusher' \in [Producers -> [at : Steps, idx : 0 .. NumPushes, seen : Nat]]
         /\ \A q \in Producers :
              /\ pusher'[q].idx = pusher[q].idx
              /\ pusher'[q].at = IF q = p THEN to ELSE pusher[q].at
<1>1. pusher[p] = [at |-> pusher[p].at, idx |-> pusher[p].idx, seen |-> pusher[p].seen]
  BY DEF TypeOK
<1>2. [pusher[p] EXCEPT !.at = to] = [at |-> to, idx |-> pusher[p].idx, seen |-> pusher[p].seen]
  BY <1>1
<1>3. pusher' = [pusher EXCEPT ![p] = [at |-> to, idx |-> pusher[p].idx, seen |-> pusher[p].seen]]
  BY <1>2 DEF Goes
<1>4. [at |-> to, idx |-> pusher[p].idx, seen |-> pusher[p].seen]
        \in [at : Steps, idx : 0 .. NumPushes, seen : Nat]
  BY DEF TypeOK
<1>5. pusher \in [Producers -> [at : Steps, idx : 0 .. NumPushes, seen : Nat]]
  BY DEF TypeOK
<1>6. pusher' \in [Producers -> [at : Steps, idx : 0 .. NumPushes, seen : Nat]]
  BY <1>3, <1>4, <1>5
<1>7. ASSUME NEW q \in Producers
      PROVE  /\ pusher'[q].idx = pusher[q].idx
             /\ pusher'[q].at = IF q = p THEN to ELSE pusher[q].at
  BY <1>3, <1>5
<1> QED BY <1>6, <1>7 DEF Goes

\* What only moves producers along keeps every number where it is.
LEMMA OnePlaceKept ==
  ASSUME OnePlace, UNCHANGED <<claimed, slots, taken>>,
         \A q \in Producers : /\ pusher'[q].idx = pusher[q].idx
                              /\ pusher'[q].at = "idle" <=> pusher[q].at = "idle"
  PROVE  OnePlace'
BY DEF OnePlace, PoppedOnce, Popped, Pushing, ReadySlots, IsReady

\* Without a drop, the pointer is not ahead of what was popped.
LEMMA PointerBehind ==
  ASSUME TypeOK, NothingOverwritten
  PROVE  readPtr <= Len(taken) /\ readPtr \in Nat /\ Len(taken) \in Nat
<1>1. readPtr \in Nat /\ popper.count \in Nat /\ Len(taken) \in Nat
  BY LenProperties DEF TypeOK
<1>2. popper.at \in {"idle", "read", "load", "store"}
  BY DEF TypeOK
<1>3. readPtr = Len(taken) \/ readPtr + popper.count = Len(taken)
  BY <1>2 DEF NothingOverwritten
<1> QED BY <1>1, <1>3

LEMMA RingInit == Init => RingInv
<1> SUFFICES ASSUME Init PROVE RingInv
  OBVIOUS
<1> USE DEF Init
<1>1. TypeOK
  BY NumPushesAssumption DEF TypeOK, Status, Steps
<1>2. Pushing = {} /\ ReadySlots = {} /\ Len(taken) = 0
  BY DEF Pushing, ReadySlots, IsReady
<1>3. OnePlace
  BY <1>2 DEF OnePlace, PoppedOnce, Popped, IsInjective
<1>4. NothingOverwritten
  BY <1>2 DEF NothingOverwritten
<1> QED BY <1>1, <1>3, <1>4 DEF RingInv, CountedFirst

LEMMA ClaimStep ==
  ASSUME RingInv, NEW p \in Producers, Claim(p)
  PROVE  RingInv'
<1> USE DEF RingInv
<1>1. TypeOK'
  BY NumPushesAssumption DEF TypeOK, Claim, Steps
<1>2. /\ pusher'[p].at = "check" /\ pusher'[p].idx = claimed
      /\ \A q \in Producers : q # p => pusher'[q] = pusher[q]
  BY DEF TypeOK, Claim
<1>3. claimed \in Nat /\ claimed' = claimed + 1
  BY DEF TypeOK, Claim
<1>4. UNCHANGED <<readPtr, dropCounter, slots, popper, taken>>
  BY DEF Claim
<1>5. /\ ReadySlots' = ReadySlots /\ Popped' = Popped
      /\ \A q \in Producers \ {p} : q \in Pushing' <=> q \in Pushing
  BY <1>2, <1>4 DEF ReadySlots, IsReady, Popped, Pushing
<1>6. /\ Popped' \subseteq 0 .. claimed' - 1
      /\ claimed \notin Popped
  BY <1>3, <1>5 DEF OnePlace
<1>7. ASSUME NEW q \in Pushing'
      PROVE  /\ pusher'[q].idx < claimed' /\ pusher'[q].idx \notin Popped'
             /\ \A r \in Pushing' : pusher'[q].idx = pusher'[r].idx => q = r
  <2>1. \A r \in Pushing : pusher[r].idx < claimed /\ pusher[r].idx \in Nat
    BY DEF OnePlace, TypeOK, Pushing
  <2>2. CASE q = p
    BY <1>2, <1>3, <1>5, <1>6, <2>1, <2>2 DEF Pushing
  <2>3. CASE q # p
    <3>1. q \in Pushing /\ pusher'[q] = pusher[q]
      BY <1>2, <1>5, <1>7, <2>3 DEF Pushing
    <3> QED BY <1>2, <1>3, <1>5, <2>1, <3>1 DEF OnePlace, Pushing
  <2> QED BY <2>2, <2>3
<1>8. ASSUME NEW s \in ReadySlots'
      PROVE  /\ slots'[s].record < claimed' /\ slots'[s].record \notin Popped'
             /\ SlotOf(slots'[s].record) = s
             /\ \A q \in Pushing' : pusher'[q].idx # slots'[s].record
  <2>1. slots'[s] = slots[s] /\ slots[s].record \in Nat /\ slots[s].record < claimed
    BY <1>4, <1>5 DEF OnePlace, TypeOK, ReadySlots
  <2> QED BY <1>2, <1>3, <1>4, <1>5, <2>1 DEF OnePlace, Pushing
<1>9. OnePlace'
  BY <1>4, <1>6, <1>7, <1>8 DEF OnePlace, PoppedOnce
<1>10. CountedFirst'
  BY <1>2, <1>4 DEF CountedFirst
<1>11. dropCounter' = 0 => NothingOverwritten'
  BY <1>2, <1>4, <1>5 DEF NothingOverwritten
<1> QED BY <1>1, <1>9, <1>10, <1>11

LEMMA FindRoomStep ==
  ASSUME RingInv, NEW p \in Producers, FindRoom(p)
  PROVE  RingInv'
<1> USE DEF RingInv
<1>1. Goes(p, "check", "mark") /\ UNCHANGED <<claimed, readPtr, dropCounter, slots, popper, taken>>
  BY DEF FindRoom
<1>2. /\ pusher[p].at = "check"
      /\ pusher' \in [Producers -> [at : Steps, idx : 0 .. NumPushes, seen : Nat]]
      /\ \A q \in Producers :
           /\ pusher'[q].idx = pusher[q].idx
           /\ pusher'[q].at = IF q = p THEN "mark" ELSE pusher[q].at
  BY <1>1, GoesOn DEF Steps
<1>3. TypeOK'
  BY <1>1, <1>2 DEF TypeOK
<1>4. OnePlace'
  BY <1>1, <1>2, OnePlaceKept
<1>5. CountedFirst'
  BY <1>1, <1>2 DEF CountedFirst
<1>6. ASSUME NothingOverwritten PROVE NothingOverwritten'
  <2>1. ReadySlots' = ReadySlots /\ Len(taken)' = Len(taken)
    BY <1>1 DEF ReadySlots, IsReady
  <2>2. pusher[p].idx - Len(taken) < Capacity
    <3>1. readPtr <= Len(taken) /\ readPtr \in Nat /\ Len(taken) \in Nat
      BY <1>6, PointerBehind
    <3>2. pusher[p].idx - readPtr < Capacity /\ pusher[p].idx \in Nat
      BY DEF FindRoom, HasRoom, TypeOK
    <3> QED BY <3>1, <3>2, CapacityAssumption
  <2> QED BY <1>1, <1>2, <1>6, <2>1, <2>2 DEF NothingOverwritten
<1> QED BY <1>1, <1>3, <1>4, <1>5, <1>6

LEMMA FindFullStep ==
  ASSUME RingInv, NEW p \in Producers, FindFull(p)
  PROVE  RingInv'
<1> USE DEF RingInv
<1>1. Goes(p, "check", "count") /\ UNCHANGED <<claimed, readPtr, dropCounter, slots, popper, taken>>
  BY DEF FindFull
<1>2. /\ pusher[p].at = "check"
      /\ pusher' \in [Producers -> [at : Steps, idx : 0 .. NumPushes, seen : Nat]]
      /\ \A q \in Producers :
           /\ pusher'[q].idx = pusher[q].idx
           /\ pusher'[q].at = IF q = p THEN "count" ELSE pusher[q].at
  BY <1>1, GoesOn DEF Steps
<1>3. TypeOK'
  BY <1>1, <1>2 DEF TypeOK
<1>4. OnePlace'
  BY <1>1, <1>2, OnePlaceKept
<1>5. pusher[p].idx >= Capacity
  <2>1. pusher[p].idx - readPtr >= Capacity /\ pusher[p].idx \in Nat /\ readPtr \in Nat
    BY CapacityAssumption DEF FindFull, HasRoom, TypeOK
  <2> QED BY <2>1, CapacityAssumption
<1>6. CountedFirst'
  BY <1>1, <1>2, <1>5 DEF CountedFirst
<1>7. NothingOverwritten => NothingOverwritten'
  BY <1>1, <1>2 DEF NothingOverwritten, ReadySlots, IsReady
<1> QED BY <1>1, <1>3, <1>4, <1>6, <1>7

LEMMA LoadDropsStep ==
  ASSUME RingInv, NEW p \in Producers, LoadDrops(p)
  PROVE  RingInv'
<1> USE DEF RingInv
<1>1. UNCHANGED <<claimed, readPtr, dropCounter, slots, popper, taken>>
  BY DEF LoadDrops
<1>2. /\ pusher[p].at = "count"
      /\ pusher' \in [Producers -> [at : Steps, idx : 0 .. NumPushes, seen : Nat]]
      /\ \A q \in Producers :
           /\ pusher'[q].idx = pusher[q].idx
           /\ pusher'[q].at = IF q = p THEN "counted" ELSE pusher[q].at
  <2>1. /\ [at |-> "counted", idx |-> pusher[p].idx, seen |-> dropCounter]
              \in [at : Steps, idx : 0 .. NumPushes, seen : Nat]
        /\ pusher \in [Producers -> [at : Steps, idx : 0 .. NumPushes, seen : Nat]]
    BY DEF TypeOK, Steps
  <2> QED BY <2>1 DEF LoadDrops
<1>3. TypeOK'
  BY <1>1, <1>2 DEF TypeOK
<1>4. OnePlace'
  BY <1>1, <1>2, OnePlaceKept
<1>5. CountedFirst'
  BY <1>1, <1>2 DEF CountedFirst
<1>6. NothingOverwritten => NothingOverwritten'
  BY <1>1, <1>2 DEF NothingOverwritten, ReadySlots, IsReady
<1> QED BY <1>1, <1>3, <1>4, <1>5, <1>6

LEMMA CountDropStep ==
  ASSUME RingInv, NEW p \in Producers, CountDrop(p)
  PROVE  RingInv'
<1> USE DEF RingInv
<1>1. /\ Goes(p, "counted", "advance") /\ dropCounter' = pusher[p].seen + 1
      /\ UNCHANGED <<claimed, readPtr, slots, popper, taken>>
  BY DEF CountDrop
<1>2. /\ pusher[p].at = "counted"
      /\ pusher' \in [Producers -> [at : Steps, idx : 0 .. NumPushes, seen : Nat]]
      /\ \A q \in Producers :
           /\ pusher'[q].idx = pusher[q].idx
           /\ pusher'[q].at = IF q = p THEN "advance" ELSE pusher[q].at
  BY <1>1, GoesOn DEF Steps
<1>3. dropCounter' \in Nat /\ dropCounter' > 0
  BY <1>1 DEF TypeOK
<1>4. TypeOK'
  BY <1>1, <1>2, <1>3 DEF TypeOK
<1>5. OnePlace'
  BY <1>1, <1>2, OnePlaceKept
<1>6. CountedFirst'
  BY <1>2, <1>3 DEF CountedFirst
<1>7. dropCounter' # 0
  BY <1>3
<1> QED BY <1>4, <1>5, <1>6, <1>7

LEMMA AdvancePastOverwrittenStep ==
  ASSUME RingInv, NEW p \in Producers, AdvancePastOverwritten(p)
  PROVE  RingInv'
<1> USE DEF RingInv
<1>1. /\ Goes(p, "advance", "mark") /\ readPtr' = pusher[p].idx - Capacity + 1
      /\ UNCHANGED <<claimed, dropCounter, slots, popper, taken>>
  BY DEF AdvancePastOverwritten
<1>2. /\ pusher[p].at = "advance"
      /\ pusher' \in [Producers -> [at : Steps, idx : 0 .. NumPushes, seen : Nat]]
      /\ \A q \in Producers :
           /\ pusher'[q].idx = pusher[q].idx
           /\ pusher'[q].at = IF q = p THEN "mark" ELSE pusher[q].at
  BY <1>1, GoesOn DEF Steps
<1>3. readPtr' \in Nat /\ dropCounter > 0
  BY <1>1, <1>2, CapacityAssumption DEF TypeOK, CountedFirst
<1>4. TypeOK'
  BY <1>1, <1>2, <1>3 DEF TypeOK
<1>5. OnePlace'
  BY <1>1, <1>2, OnePlaceKept
<1>6. CountedFirst'
  BY <1>1, <1>2 DEF CountedFirst
<1>7. dropCounter' # 0
  BY <1>1, <1>3
<1> QED BY <1>4, <1>5, <1>6, <1>7

\* The slot of a claimed number is a slot.
LEMMA SlotTyped ==
  ASSUME NEW idx \in Nat
  PROVE  SlotOf(idx) \in Slots
<1>1. idx \in Int /\ Capacity \in Nat \ {0}
  BY CapacityAssumption
<1> QED BY <1>1, DivMod DEF SlotOf, Slots

LEMMA MarkWritingStep ==
  ASSUME RingInv, NEW p \in Producers, MarkWriting(p)
  PROVE  RingInv'
<1> USE DEF RingInv
<1>1. /\ Goes(p, "mark", "write") /\ slots' = [slots EXCEPT ![SlotOf(pusher[p].idx)] =
                   [status |-> "writing", record |-> @.record]]
      /\ UNCHANGED <<claimed, readPtr, dropCounter, popper, taken>>
  BY DEF MarkWriting
<1>2. /\ pusher[p].at = "mark"
      /\ pusher' \in [Producers -> [at : Steps, idx : 0 .. NumPushes, seen : Nat]]
      /\ \A q \in Producers :
           /\ pusher'[q].idx = pusher[q].idx
           /\ pusher'[q].at = IF q = p THEN "write" ELSE pusher[q].at
  BY <1>1, GoesOn DEF Steps
<1>3. \A q \in Producers : pusher'[q].at = "idle" <=> pusher[q].at = "idle"
  BY <1>2
<1>4. /\ slots' \in [Slots -> [status : Status, record : 0 .. NumPushes]]
      /\ \A s \in Slots : slots'[s] = slots[s] \/ slots'[s].status = "writing"
  BY <1>1 DEF TypeOK, Status
<1>5. TypeOK'
  BY <1>1, <1>2, <1>4 DEF TypeOK
<1>6. \A s \in ReadySlots' : s \in ReadySlots /\ slots'[s] = slots[s]
  BY <1>4 DEF ReadySlots, IsReady
<1>7. Popped' = Popped /\ Pushing' = Pushing
  BY <1>1, <1>3 DEF Popped, Pushing
<1>8. OnePlace'
  BY <1>1, <1>2, <1>6, <1>7 DEF OnePlace, PoppedOnce, Pushing
<1>9. CountedFirst'
  BY <1>1, <1>2 DEF CountedFirst
<1>10. NothingOverwritten => NothingOverwritten'
  BY <1>1, <1>2, <1>6 DEF NothingOverwritten
<1> QED BY <1>1, <1>5, <1>8, <1>9, <1>10

LEMMA WriteSlotStep ==
  ASSUME RingInv, NEW p \in Producers, WriteSlot(p)
  PROVE  RingInv'
<1> USE DEF RingInv
<1> DEFINE k == pusher[p].idx
<1>1. /\ Goes(p, "write", "idle")
      /\ slots' = [slots EXCEPT ![SlotOf(k)] = [status |-> "ready", record |-> k]]
      /\ UNCHANGED <<claimed, readPtr, dropCounter, popper, taken>>
  BY DEF WriteSlot
<1>2. /\ pusher[p].at = "write"
      /\ pusher' \in [Producers -> [at : Steps, idx : 0 .. NumPushes, seen : Nat]]
      /\ \A q \in Producers :
           /\ pusher'[q].idx = pusher[q].idx
           /\ pusher'[q].at = IF q = p THEN "idle" ELSE pusher[q].at
  BY <1>1, GoesOn DEF Steps
<1>3. k \in 0 .. NumPushes /\ k \in Nat
  BY NumPushesAssumption DEF TypeOK
<1>4. SlotOf(k) \in Slots
  BY <1>3, SlotTyped
<1> HIDE DEF k
<1>5. /\ slots' \in [Slots -> [status : Status, record : 0 .. NumPushes]]
      /\ slots'[SlotOf(k)] = [status |-> "ready", record |-> k]
      /\ \A s \in Slots : s # SlotOf(k) => slots'[s] = slots[s]
  BY <1>1, <1>3, <1>4 DEF TypeOK, Status
<1>6. TypeOK'
  BY <1>1, <1>2, <1>5 DEF TypeOK
<1>7. \A s \in ReadySlots' :
        \/ s = SlotOf(k) /\ slots'[s].record = k
        \/ s \in ReadySlots /\ slots'[s] = slots[s]
  BY <1>5 DEF ReadySlots, IsReady
<1>8. Popped' = Popped /\ Pushing' = Pushing \ {p} /\ p \in Pushing
  BY <1>1, <1>2 DEF Popped, Pushing
<1>9. k < claimed /\ k \notin Popped /\ \A q \in Pushing' : pusher'[q].idx # k
  BY <1>2, <1>8 DEF OnePlace, Pushing, k
<1>10. ASSUME NEW s \in ReadySlots'
       PROVE  /\ slots'[s].record < claimed' /\ slots'[s].record \notin Popped'
              /\ SlotOf(slots'[s].record) = s
              /\ \A q \in Pushing' : pusher'[q].idx # slots'[s].record
  BY <1>1, <1>2, <1>7, <1>8, <1>9 DEF OnePlace, Pushing
<1>11. OnePlace'
  BY <1>1, <1>2, <1>8, <1>10 DEF OnePlace, PoppedOnce, Pushing
<1>12. CountedFirst'
  BY <1>1, <1>2 DEF CountedFirst
<1>13. ASSUME NothingOverwritten PROVE NothingOverwritten'
  <2>1. k - Len(taken) < Capacity
    BY <1>2, <1>13 DEF NothingOverwritten, k
  <2> QED BY <1>1, <1>2, <1>7, <1>13, <2>1 DEF NothingOverwritten
<1> QED BY <1>1, <1>6, <1>11, <1>12, <1>13

-----------------------------------------------------------------------------
(***************************************************************************)
(* The steps of pop_batch.                                                 *)
(***************************************************************************)

LEMMA LoadReadPtrStep ==
  ASSUME RingInv, LoadReadPtr
  PROVE  RingInv'
<1> USE DEF RingInv
<1>1. /\ popper.at = "idle" /\ popper' = [at |-> "read", count |-> 0, seen |-> readPtr]
      /\ UNCHANGED <<claimed, readPtr, dropCounter, slots, pusher, taken>>
  BY DEF LoadReadPtr
<1>2. TypeOK'
  BY <1>1 DEF TypeOK
<1>3. OnePlace'
  BY <1>1, OnePlaceKept
<1>4. CountedFirst'
  BY <1>1 DEF CountedFirst
<1>5. NothingOverwritten => NothingOverwritten'
  BY <1>1 DEF NothingOverwritten, ReadySlots, IsReady
<1> QED BY <1>1, <1>2, <1>3, <1>4, <1>5

LEMMA LoadForAdvanceStep ==
  ASSUME RingInv, LoadForAdvance
  PROVE  RingInv'
<1> USE DEF RingInv
<1>1. /\ popper.at = "load"
      /\ popper' = [at |-> "store", count |-> popper.count, seen |-> readPtr]
      /\ UNCHANGED <<claimed, readPtr, dropCounter, slots, pusher, taken>>
  BY DEF LoadForAdvance
<1>2. TypeOK'
  BY <1>1 DEF TypeOK
<1>3. OnePlace'
  BY <1>1, OnePlaceKept
<1>4. CountedFirst'
  BY <1>1 DEF CountedFirst
<1>5. NothingOverwritten => NothingOverwritten'
  BY <1>1 DEF NothingOverwritten, ReadySlots, IsReady
<1> QED BY <1>1, <1>2, <1>3, <1>4, <1>5

LEMMA AdvanceStep ==
  ASSUME RingInv, Advance
  PROVE  RingInv'
<1> USE DEF RingInv
<1>1. /\ popper.at = "store" /\ readPtr' = popper.seen + popper.count
      /\ popper' = [popper EXCEPT !.at = "idle"]
      /\ UNCHANGED <<claimed, dropCounter, slots, pusher, taken>>
  BY DEF Advance
<1>2. /\ popper'.at = "idle"
      /\ popper' \in [at : {"idle", "read", "load", "store"}, count : Nat, seen : Nat]
      /\ readPtr' \in Nat
  <2>1. popper = [at |-> popper.at, count |-> popper.count, seen |-> popper.seen]
    BY DEF TypeOK
  <2>2. popper' = [at |-> "idle", count |-> popper.count, seen |-> popper.seen]
    BY <1>1, <2>1
  <2>3. popper.count \in Nat /\ popper.seen \in Nat
    BY DEF TypeOK
  <2>4. readPtr' \in Nat
    BY <1>1, <2>3
  <2> QED BY <2>2, <2>3, <2>4
<1>3. TypeOK'
  BY <1>1, <1>2 DEF TypeOK
<1>4. OnePlace'
  BY <1>1, OnePlaceKept
<1>5. CountedFirst'
  BY <1>1 DEF CountedFirst
<1>6. NothingOverwritten => NothingOverwritten'
  BY <1>1, <1>2 DEF NothingOverwritten, ReadySlots, IsReady
<1> QED BY <1>1, <1>3, <1>4, <1>5, <1>6

\* The slot that is read as the i-th of a batch, and the record in it.
SlotRead(i) == SlotOf(popper.seen + (i - 1))
RecordRead(i) == slots[SlotRead(i)].record

\* What a batch consists of: different slots, that were ready.
LEMMA BatchRead ==
  ASSUME TypeOK
  PROVE  /\ \A i \in 1 .. ReadyRun : SlotRead(i) \in ReadySlots
         /\ \A i, j \in 1 .. ReadyRun : SlotRead(i) = SlotRead(j) => i = j
<1>1. /\ ReadyRun \in Nat /\ ReadyRun <= Capacity /\ popper.seen \in Nat
      /\ Capacity \in Nat
  BY RunIsReady, CapacityAssumption DEF TypeOK
<1>2. ASSUME NEW i \in 1 .. ReadyRun
      PROVE  i - 1 \in 0 .. ReadyRun - 1 /\ i - 1 \in 0 .. Capacity - 1
  BY <1>1
<1>3. ASSUME NEW i \in 1 .. ReadyRun PROVE SlotRead(i) \in ReadySlots
  <2>1. SlotRead(i) \in Slots
    BY <1>1, <1>2, RunOfSlots DEF SlotRead
  <2>2. IsReady(SlotRead(i))
    BY <1>2, RunIsReady, Zenon DEF SlotRead
  <2> QED BY <2>1, <2>2 DEF ReadySlots
<1>4. ASSUME NEW i \in 1 .. ReadyRun, NEW j \in 1 .. ReadyRun, SlotRead(i) = SlotRead(j)
      PROVE  i = j
  <2>1. i - 1 = j - 1
    BY <1>1, <1>2, <1>4, RunOfSlots DEF SlotRead
  <2> QED BY <2>1
<1> QED BY <1>3, <1>4

\* The records of a batch are appended to those popped before.
LEMMA BatchAppended ==
  ASSUME TypeOK, ReadSlots
  PROVE  /\ taken' \in Seq(0 .. NumPushes)
         /\ Len(taken) \in Nat /\ Len(taken') = Len(taken) + ReadyRun
         /\ \A i \in 1 .. Len(taken) : taken'[i] = taken[i]
         /\ \A i \in 1 .. ReadyRun : taken'[Len(taken) + i] = RecordRead(i)
<1> DEFINE batch == [i \in 1 .. ReadyRun |-> RecordRead(i)]
<1>1. ReadyRun \in Nat /\ \A i \in 1 .. ReadyRun : RecordRead(i) \in 0 .. NumPushes
  BY RunIsReady, BatchRead DEF RecordRead, ReadySlots, TypeOK
<1>2. batch \in Seq(0 .. NumPushes) /\ Len(batch) = ReadyRun
  <2>1. batch \in [1 .. ReadyRun -> 0 .. NumPushes]
    BY <1>1
  <2>2. DOMAIN batch = 1 .. ReadyRun
    OBVIOUS
  <2> HIDE DEF batch
  <2>3. batch \in Seq(0 .. NumPushes)
    BY <1>1, <2>1, SeqDef
  <2>4. Len(batch) \in Nat /\ DOMAIN batch = 1 .. Len(batch)
    BY <2>3, LenProperties
  <2> QED BY <1>1, <2>2, <2>3, <2>4
<1>3. \A i \in 1 .. ReadyRun : batch[i] = RecordRead(i)
  OBVIOUS
<1>4. taken' = taken \o batch
  BY DEF ReadSlots, RecordRead, SlotRead
<1>5. taken \in Seq(0 .. NumPushes) /\ Len(taken) \in Nat
  BY LenProperties DEF TypeOK
<1> HIDE DEF batch
<1>6. /\ taken \o batch \in Seq(0 .. NumPushes)
      /\ Len(taken \o batch) = Len(taken) + Len(batch)
      /\ \A i \in 1 .. Len(taken) + Len(batch) : (taken \o batch)[i] =
           IF i <= Len(taken) THEN taken[i] ELSE batch[i - Len(taken)]
  BY <1>2, <1>5, ConcatProperties
<1>7. ASSUME NEW i \in 1 .. ReadyRun PROVE taken'[Len(taken) + i] = RecordRead(i)
  <2>1. /\ Len(taken) + i \in 1 .. Len(taken) + Len(batch) /\ ~(Len(taken) + i <= Len(taken))
        /\ (Len(taken) + i) - Len(taken) = i
    BY <1>1, <1>2, <1>5
  <2> QED BY <1>3, <1>4, <1>6, <2>1
<1>8. ASSUME NEW i \in 1 .. Len(taken) PROVE taken'[i] = taken[i]
  <2>1. i \in 1 .. Len(taken) + Len(batch) /\ i <= Len(taken)
    BY <1>1, <1>2, <1>5
  <2> QED BY <1>4, <1>6, <2>1
<1> QED BY <1>2, <1>4, <1>5, <1>6, <1>7, <1>8

\* What a batch takes away leaves the other slots as they were.
LEMMA BatchEmptied ==
  ASSUME TypeOK, ReadSlots
  PROVE  /\ slots' \in [Slots -> [status : Status, record : 0 .. NumPushes]]
         /\ \A s \in ReadySlots' :
              /\ s \in ReadySlots /\ slots'[s] = slots[s]
              /\ \A i \in 1 .. ReadyRun : s # SlotRead(i)
<1>1. slots' = EmptyFirst(ReadyRun) /\ ReadyRun \in Nat
  BY RunIsReady DEF ReadSlots
<1>2. slots' \in [Slots -> [status : Status, record : 0 .. NumPushes]]
  BY <1>1 DEF EmptyFirst, TypeOK, Status
<1>3. ASSUME NEW s \in ReadySlots'
      PROVE  ~\E i \in 0 .. ReadyRun - 1 : s = SlotOf(popper.seen + i)
  BY <1>1, <1>3 DEF EmptyFirst, ReadySlots, IsReady
<1>4. ASSUME NEW s \in ReadySlots'
      PROVE  s \in ReadySlots /\ slots'[s] = slots[s]
  BY <1>1, <1>3, <1>4 DEF EmptyFirst, ReadySlots, IsReady
<1>5. ASSUME NEW s \in ReadySlots', NEW i \in 1 .. ReadyRun
      PROVE  s # SlotRead(i)
  <2>1. i - 1 \in 0 .. ReadyRun - 1
    BY <1>1
  <2> QED BY <1>3, <2>1 DEF SlotRead
<1> QED BY <1>2, <1>4, <1>5

\* A batch hands over numbers that were in a ready slot, each of them once.
LEMMA BatchOnce ==
  ASSUME TypeOK, OnePlace, ReadSlots
  PROVE  OnePlace'
<1> DEFINE n == Len(taken)
           m == ReadyRun
<1>1. /\ n \in Nat /\ Len(taken') = n + m /\ m \in Nat
      /\ \A i \in 1 .. n : taken'[i] = taken[i]
      /\ \A i \in 1 .. m : taken'[n + i] = RecordRead(i)
      /\ DOMAIN taken' = 1 .. n + m
  BY BatchAppended, RunIsReady, LenProperties
<1>2. UNCHANGED <<claimed, pusher>>
  BY DEF ReadSlots
<1>3. ASSUME NEW i \in 1 .. m
      PROVE  /\ RecordRead(i) < claimed /\ RecordRead(i) \notin Popped
             /\ RecordRead(i) \in Nat
             /\ SlotOf(RecordRead(i)) = SlotRead(i)
             /\ \A p \in Pushing : pusher[p].idx # RecordRead(i)
  <2>1. SlotRead(i) \in ReadySlots
    BY BatchRead
  <2> QED BY <2>1 DEF OnePlace, RecordRead, TypeOK, ReadySlots
<1>4. \A i, j \in 1 .. m : RecordRead(i) = RecordRead(j) => i = j
  BY <1>3, BatchRead
<1>5. ASSUME NEW i \in 1 .. n PROVE taken[i] \in Popped
  BY DEF Popped
<1> HIDE DEF n, m
<1>6. \A k \in 1 .. n + m : k \in 1 .. n \/ \E i \in 1 .. m : k = n + i
  <2> SUFFICES ASSUME NEW k \in 1 .. n + m, k \notin 1 .. n PROVE \E i \in 1 .. m : k = n + i
    OBVIOUS
  <2>1. k - n \in 1 .. m /\ k = n + (k - n)
    BY <1>1
  <2> QED BY <2>1
<1>7. Popped' \subseteq Popped \cup {RecordRead(i) : i \in 1 .. m}
  <2> SUFFICES ASSUME NEW k \in 1 .. n + m
               PROVE  taken'[k] \in Popped \cup {RecordRead(i) : i \in 1 .. m}
    BY <1>1 DEF Popped
  <2>1. CASE k \in 1 .. n
    BY <1>1, <1>5, <2>1
  <2>2. CASE \E i \in 1 .. m : k = n + i
    BY <1>1, <2>2
  <2> QED BY <1>6, <2>1, <2>2
<1>8. PoppedOnce'
  <2> SUFFICES ASSUME NEW a \in 1 .. n + m, NEW b \in 1 .. n + m, taken'[a] = taken'[b]
               PROVE  a = b
    BY <1>1 DEF PoppedOnce, IsInjective
  <2>1. CASE a \in 1 .. n /\ b \in 1 .. n
    <3>1. DOMAIN taken = 1 .. n
      BY LenProperties DEF TypeOK, n
    <3> QED BY <1>1, <2>1, <3>1 DEF OnePlace, PoppedOnce, IsInjective
  <2>2. ASSUME NEW i \in 1 .. m, a = n + i, b \in 1 .. n PROVE FALSE
    BY <1>1, <1>3, <1>5, <2>2
  <2>3. ASSUME NEW i \in 1 .. m, b = n + i, a \in 1 .. n PROVE FALSE
    BY <1>1, <1>3, <1>5, <2>3
  <2>4. ASSUME NEW i \in 1 .. m, NEW j \in 1 .. m, a = n + i, b = n + j PROVE a = b
    BY <1>1, <1>4, <2>4
  <2> QED BY <1>6, <2>1, <2>2, <2>3, <2>4
<1>9. Popped' \subseteq 0 .. claimed' - 1
  BY <1>2, <1>3, <1>7 DEF OnePlace, TypeOK
<1>10. ASSUME NEW p \in Pushing'
       PROVE  /\ pusher'[p].idx < claimed' /\ pusher'[p].idx \notin Popped'
              /\ \A q \in Pushing' : pusher'[p].idx = pusher'[q].idx => p = q
  <2>1. p \in Pushing /\ Pushing' = Pushing
    BY <1>2 DEF Pushing
  <2>2. pusher[p].idx \notin Popped'
    BY <1>3, <1>7, <2>1 DEF OnePlace
  <2> QED BY <1>2, <2>1, <2>2 DEF OnePlace
<1>11. ASSUME NEW s \in ReadySlots'
       PROVE  /\ slots'[s].record < claimed' /\ slots'[s].record \notin Popped'
              /\ SlotOf(slots'[s].record) = s
              /\ \A p \in Pushing' : pusher'[p].idx # slots'[s].record
  <2>1. /\ s \in ReadySlots /\ slots'[s] = slots[s]
        /\ \A i \in 1 .. m : s # SlotRead(i)
    BY BatchEmptied DEF m
  <2>2. /\ slots[s].record < claimed /\ slots[s].record \notin Popped
        /\ SlotOf(slots[s].record) = s
        /\ \A p \in Pushing : pusher[p].idx # slots[s].record
    BY <2>1 DEF OnePlace
  <2>3. slots[s].record \notin Popped'
    BY <1>3, <1>7, <2>1, <2>2
  <2>4. Pushing' = Pushing
    BY <1>2 DEF Pushing
  <2> QED BY <1>2, <2>1, <2>2, <2>3, <2>4
<1> QED BY <1>8, <1>9, <1>10, <1>11 DEF OnePlace

\* As long as nothing was overwritten, the ready run goes on where the records
\* popped before left off.
LEMMA BatchGoesOn ==
  ASSUME TypeOK, OnePlace, NothingOverwritten, popper.at = "read",
         NEW i \in 1 .. ReadyRun
  PROVE  RecordRead(i) = Len(taken) + (i - 1)
<1> DEFINE n == Len(taken)
           r == RecordRead(i)
<1>1. n \in Nat /\ Capacity \in Nat \ {0} /\ ReadyRun \in Nat /\ ReadyRun <= Capacity
  BY LenProperties, CapacityAssumption, RunIsReady DEF TypeOK
<1>2. SlotRead(i) \in ReadySlots
  BY BatchRead
<1>3. r \in Nat /\ r \notin Popped /\ SlotOf(r) = SlotRead(i) /\ r - n < Capacity
  BY <1>2 DEF OnePlace, NothingOverwritten, RecordRead, TypeOK, ReadySlots
<1>4. r >= n
  <2> SUFFICES ASSUME r < n PROVE FALSE
    BY <1>1, <1>3
  <2>1. r + 1 \in 1 .. n
    BY <1>1, <1>3
  <2>2. taken[r + 1] = (r + 1) - 1
    BY <2>1 DEF NothingOverwritten
  <2>3. taken[r + 1] = r
    BY <1>3, <2>2
  <2>4. taken[r + 1] \in Popped
    BY <2>1 DEF Popped
  <2> QED BY <1>3, <2>3, <2>4
<1>5. r % Capacity = (n + (i - 1)) % Capacity
  BY <1>3 DEF NothingOverwritten, SlotRead, SlotOf
<1> HIDE DEF n, r
<1>6. n + (i - 1) \in Int /\ r \in Int
  BY <1>1, <1>3
<1> DEFINE b == n + (i - 1)
<1>7. b \in Int /\ r \in Int /\ r % Capacity = b % Capacity /\ b - r < Capacity /\ r - b < Capacity
  BY <1>1, <1>3, <1>4, <1>5, <1>6
<1> HIDE DEF b
<1>8. r = b
  <2>1. CASE r <= b
    BY <1>1, <1>7, <2>1, SameSlot
  <2>2. CASE b <= r
    BY <1>1, <1>7, <2>2, SameSlot
  <2> QED BY <1>7, <2>1, <2>2
<1> QED BY <1>8 DEF b, n, r

LEMMA ReadSlotsStep ==
  ASSUME RingInv, ReadSlots
  PROVE  RingInv'
<1> USE DEF RingInv
<1> DEFINE n == Len(taken)
           m == ReadyRun
<1>1. /\ popper.at = "read" /\ popper' = [at |-> "load", count |-> m, seen |-> popper.seen]
      /\ UNCHANGED <<claimed, readPtr, dropCounter, pusher>>
  BY DEF ReadSlots
<1>2. m \in Nat /\ n \in Nat
  BY RunIsReady, BatchAppended
<1>3. TypeOK'
  BY <1>1, <1>2, BatchAppended, BatchEmptied DEF TypeOK
<1>4. OnePlace'
  BY BatchOnce
<1>5. CountedFirst'
  BY <1>1 DEF CountedFirst
<1>6. ASSUME NothingOverwritten PROVE NothingOverwritten'
  <2>1. /\ Len(taken') = n + m /\ taken' \in Seq(0 .. NumPushes)
        /\ \A k \in 1 .. n : taken'[k] = taken[k]
        /\ \A i \in 1 .. m : taken'[n + i] = n + (i - 1)
    BY <1>1, <1>6, BatchAppended, BatchGoesOn
  <2>2. \A k \in 1 .. n : taken[k] = k - 1
    BY <1>6 DEF NothingOverwritten
  <2> HIDE DEF n, m
  <2>3. ASSUME NEW k \in 1 .. n + m PROVE taken'[k] = k - 1
    <3>1. CASE k <= n
      BY <1>2, <2>1, <2>2, <3>1
    <3>2. CASE k > n
      <4>1. k - n \in 1 .. m /\ k = n + (k - n) /\ n + ((k - n) - 1) = k - 1
        BY <1>2, <3>2
      <4> QED BY <2>1, <4>1
    <3> QED BY <1>2, <3>1, <3>2
  <2>4. taken' \in [1 .. n + m -> 0 .. NumPushes]
    BY <2>1, LenProperties
  <2>5. taken' = [k \in 1 .. n + m |-> k - 1]
    BY <2>3, <2>4
  <2>6. readPtr = n /\ popper.seen = n
    BY <1>1, <1>6 DEF NothingOverwritten, n
  <2>7. \A p \in Producers : pusher'[p].at \in {"mark", "write"} => pusher'[p].idx - (n + m) < Capacity
    <3> SUFFICES ASSUME NEW p \in Producers, pusher[p].at \in {"mark", "write"}
                 PROVE  pusher[p].idx - (n + m) < Capacity
      BY <1>1
    <3>1. pusher[p].idx - n < Capacity
      BY <1>6 DEF NothingOverwritten, n
    <3>2. pusher[p].idx \in Nat
      BY DEF TypeOK
    <3> QED BY <1>2, <3>1, <3>2, CapacityAssumption
  <2>8. \A s \in ReadySlots' : slots'[s].record - (n + m) < Capacity
    <3> SUFFICES ASSUME NEW s \in ReadySlots' PROVE slots'[s].record - (n + m) < Capacity
      OBVIOUS
    <3>1. s \in ReadySlots /\ slots'[s] = slots[s]
      BY BatchEmptied
    <3>2. slots[s].record - n < Capacity
      BY <1>6, <3>1 DEF NothingOverwritten, n
    <3>3. slots[s].record \in Nat
      BY <3>1 DEF TypeOK, ReadySlots
    <3> QED BY <1>2, <3>1, <3>2, <3>3, CapacityAssumption
  <2> QED BY <1>1, <1>2, <2>1, <2>5, <2>6, <2>7, <2>8 DEF NothingOverwritten
<1> QED BY <1>1, <1>3, <1>4, <1>5, <1>6

-----------------------------------------------------------------------------
\* Every step of the ring preserves the invariant.
LEMMA RingStep == RingInv /\ [Next]_vars => RingInv'
<1> SUFFICES ASSUME RingInv, [Next]_vars PROVE RingInv'
  OBVIOUS
<1>1. ASSUME NEW p \in Producers, Push(p) PROVE RingInv'
  BY <1>1, ClaimStep, FindRoomStep, FindFullStep, LoadDropsStep, CountDropStep,
     AdvancePastOverwrittenStep, MarkWritingStep, WriteSlotStep DEF Push
<1>2. CASE PopBatch
  BY <1>2, LoadReadPtrStep, ReadSlotsStep, LoadForAdvanceStep, AdvanceStep DEF PopBatch
<1>3. CASE UNCHANGED vars
  <2>1. OnePlace'
    BY <1>3, OnePlaceKept DEF RingInv, vars
  <2> QED BY <1>3, <2>1 DEF RingInv, vars, TypeOK, CountedFirst, NothingOverwritten, ReadySlots,
          IsReady
<1> QED BY <1>1, <1>2, <1>3 DEF Next

\* The invariant of the ring, for every run of push and pop_batch.
THEOREM RingInvariant == Spec => []RingInv
BY RingInit, RingStep, PTL DEF Spec

\* The fields of the ring keep their types; the read pointer is never negative
\* although a producer moves it back from its own number.
THEOREM RingTypeCorrect == Spec => []TypeOK
<1>1. RingInv => TypeOK
  BY DEF RingInv
<1> QED BY <1>1, RingInvariant, PTL

\* pop_batch never returns a record it has returned before, in rings of any
\* size and with any number of producers, although the pointer is moved by
\* both sides and nobody holds a lock: a slot that was read is empty until it
\* is written again, and each number is written once.
THEOREM RingPopsOnce == Spec => []PoppedOnce
<1>1. RingInv => PoppedOnce
  BY DEF RingInv, OnePlace
<1> QED BY <1>1, RingInvariant, PTL

\* A drop counter of zero proves that pop_batch has returned the claimed
\* records from the first on, without a gap and in order.
THEOREM RingWitnessIsSound == Spec => []NoDropNoLoss
<1>1. RingInv => NoDropNoLoss
  BY DEF RingInv, NothingOverwritten, NoDropNoLoss
<1> QED BY <1>1, RingInvariant, PTL
=============================================================================
