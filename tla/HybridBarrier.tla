---------------------------- MODULE HybridBarrier ----------------------------
(***************************************************************************)
(* LockFreeHybridBarrier (src/backend/src/satcom_core/                     *)
(* subsystem_sync_coordinator.py): a reusable barrier for a fixed number   *)
(* of threads.  A thread counts itself in under a lock; the last one       *)
(* resets the count, advances the generation and wakes the sleepers.  The  *)
(* others spin on the generation without the lock and, when the spin       *)
(* budget is spent, sleep on a condition variable of the same lock.        *)
(*                                                                         *)
(* A critical section nobody can look into is one step.  That of the last  *)
(* thread is three, because spinning threads read the generation while it  *)
(* is inside and may already be back for the next wait.  The spin budget   *)
(* may run out at any moment.                                              *)
(*                                                                         *)
(* arrived, left and ledBy are history, for the abstract specification.    *)
(***************************************************************************)
EXTENDS Integers, FiniteSets

CONSTANTS
  Threads,   \* the worker threads (num_threads of them)
  NoThread,  \* the lock is free
  MaxWaits   \* bound: waits per thread in a behaviour

ASSUME ThreadsAssumption == IsFiniteSet(Threads) /\ Threads # {}
ASSUME NoThreadAssumption == NoThread \notin Threads
ASSUME MaxWaitsAssumption == MaxWaits \in Nat

VARIABLES
  lock,          \* _lock: who holds it across steps
  generation,    \* _generation
  arrivalCount,  \* _arrival_count
  pc,            \* where each thread is in wait()
  localGen,      \* its local_gen
  arrived,
  left,
  ledBy

barrierVars == <<lock, generation, arrivalCount, pc, localGen, arrived, left, ledBy>>

NumThreads == Cardinality(Threads)

BarrierInit ==
  /\ lock = NoThread
  /\ generation = 0
  /\ arrivalCount = 0
  /\ pc = [t \in Threads |-> "outside"]
  /\ localGen = [t \in Threads |-> 0]
  /\ arrived = [t \in Threads |-> 0]
  /\ left = [t \in Threads |-> 0]
  /\ ledBy = {}

-----------------------------------------------------------------------------
\* Entering the critical section: the generation is remembered.
Enter(t) ==
  /\ pc[t] = "outside"
  /\ lock = NoThread
  /\ arrived[t] < MaxWaits
  /\ localGen' = [localGen EXCEPT ![t] = generation]
  /\ arrived' = [arrived EXCEPT ![t] = @ + 1]
  /\ UNCHANGED <<generation, left, ledBy>>

ArriveEarly(t) ==
  /\ Enter(t)
  /\ arrivalCount + 1 # NumThreads
  /\ arrivalCount' = arrivalCount + 1
  /\ pc' = [pc EXCEPT ![t] = "spinning"]
  /\ UNCHANGED lock

\* Slips in the last thread's part: the count is reset to the wrong value, or is
\* compared one thread too early.
ArriveLastBelowZero(t) ==
  /\ Enter(t)
  /\ arrivalCount + 1 = NumThreads
  /\ arrivalCount' = arrivalCount - NumThreads
  /\ pc' = [pc EXCEPT ![t] = "opening"]
  /\ lock' = t

ArriveLastTooEarly(t) ==
  /\ Enter(t)
  /\ arrivalCount + 2 >= NumThreads
  /\ arrivalCount' = 0
  /\ pc' = [pc EXCEPT ![t] = "opening"]
  /\ lock' = t

\* The last thread resets the count and keeps the lock.
ArriveLast(t) ==
  /\ Enter(t)
  /\ arrivalCount + 1 = NumThreads
  /\ arrivalCount' = 0
  /\ pc' = [pc EXCEPT ![t] = "opening"]
  /\ lock' = t

\* ... advances the generation: spinning threads may leave from here on ...
Open(t) ==
  /\ pc[t] = "opening"
  /\ generation' = generation + 1
  /\ pc' = [pc EXCEPT ![t] = "notifying"]
  /\ UNCHANGED <<lock, arrivalCount, localGen, arrived, left, ledBy>>

\* ... wakes every sleeper, releases the lock and returns True.
NotifyAll(t) ==
  /\ pc[t] = "notifying"
  /\ pc' = [u \in Threads |-> IF u = t THEN "outside"
                              ELSE IF pc[u] = "asleep" THEN "woken" ELSE pc[u]]
  /\ lock' = NoThread
  /\ left' = [left EXCEPT ![t] = arrived[t]]
  /\ ledBy' = ledBy \cup {arrived[t]}
  /\ UNCHANGED <<generation, arrivalCount, localGen, arrived>>

\* Returning False.
Return(t) ==
  /\ pc' = [pc EXCEPT ![t] = "outside"]
  /\ left' = [left EXCEPT ![t] = arrived[t]]
  /\ UNCHANGED <<lock, generation, arrivalCount, localGen, arrived, ledBy>>

SpinSees(t) ==
  /\ pc[t] = "spinning"
  /\ generation # localGen[t]
  /\ Return(t)

SpinExpires(t) ==
  /\ pc[t] = "spinning"
  /\ pc' = [pc EXCEPT ![t] = "drowsy"]
  /\ UNCHANGED <<lock, generation, arrivalCount, localGen, arrived, left, ledBy>>

\* A slip: wait() on the condition without looking at the generation again.
FallAsleepBlindly(t) ==
  /\ pc[t] \in {"drowsy", "woken"}
  /\ lock = NoThread
  /\ pc' = [pc EXCEPT ![t] = "asleep"]
  /\ UNCHANGED <<lock, generation, arrivalCount, localGen, arrived, left, ledBy>>

\* With the lock, on the way to sleep or woken from it: look once more.
FallAsleep(t) ==
  /\ pc[t] \in {"drowsy", "woken"}
  /\ lock = NoThread
  /\ generation = localGen[t]
  /\ pc' = [pc EXCEPT ![t] = "asleep"]
  /\ UNCHANGED <<lock, generation, arrivalCount, localGen, arrived, left, ledBy>>

WakeUp(t) ==
  /\ pc[t] \in {"drowsy", "woken"}
  /\ lock = NoThread
  /\ generation # localGen[t]
  /\ Return(t)

-----------------------------------------------------------------------------
Arrive(t) == ArriveEarly(t) \/ ArriveLast(t)

Proceed(t) ==
  \/ Open(t)
  \/ NotifyAll(t)
  \/ SpinSees(t)
  \/ SpinExpires(t)
  \/ FallAsleep(t)
  \/ WakeUp(t)

BarrierNext == \E t \in Threads : Arrive(t) \/ Proceed(t)

BarrierSpec == BarrierInit /\ [][BarrierNext]_barrierVars

\* A thread inside wait() keeps being scheduled; nothing obliges one outside
\* to call it again.
Fairness == \A t \in Threads : WF_barrierVars(Proceed(t))

BarrierFairSpec == BarrierSpec /\ Fairness

-----------------------------------------------------------------------------
Waiting == {"spinning", "drowsy", "asleep", "woken"}

BarrierTypeOK ==
  /\ lock \in Threads \cup {NoThread}
  /\ generation \in Nat
  /\ arrivalCount \in Nat
  /\ pc \in [Threads -> {"outside", "opening", "notifying"} \cup Waiting]
  /\ localGen \in [Threads -> Nat]
  /\ arrived \in [Threads -> Nat]
  /\ left \in [Threads -> Nat]
  /\ ledBy \subseteq Nat

\* No thread leaves a wait that some thread has not started yet: the promise
\* the layers of the pipeline rest on.
NoOvertaking ==
  \A t, u \in Threads : left[t] <= arrived[u]

\* A thread waits for the current generation or for the one just closed: a
\* spinner that was not scheduled for long never misses a whole generation,
\* so "different" always means "mine is over".
NeverLapped ==
  \A t \in Threads : pc[t] \in Waiting =>
    localGen[t] \in {generation, generation - 1}

\* Nobody is left asleep on a generation that is over, unless the thread that
\* ended it is still about to notify.
NoLostWakeup ==
  \A t \in Threads : pc[t] = "asleep" /\ localGen[t] # generation =>
    \E u \in Threads : pc[u] = "notifying"

\* The abstract barrier; every return of wait() is its leaving step.
Phases == INSTANCE PhaseBarrier

ImplementsPhases == Phases!Spec

\* Once every thread has started its k-th wait, every one returns from it.
EveryoneLeaves ==
  \A k \in 1 .. MaxWaits :
    (\A t \in Threads : arrived[t] >= k) ~> (\A t \in Threads : left[t] >= k)

-----------------------------------------------------------------------------
(***************************************************************************)
(* The inductive invariant behind the safety properties.                   *)
(***************************************************************************)
Inside == {t \in Threads : arrived[t] = generation + 1}

\* Where a thread is tells how many waits it has started and returned from.
Progress ==
  \A t \in Threads :
    /\ pc[t] = "outside" => arrived[t] = generation /\ left[t] = arrived[t]
    /\ pc[t] \in Waiting => /\ localGen[t] = arrived[t] - 1
                            /\ arrived[t] \in {generation, generation + 1}
                            /\ left[t] = arrived[t] - 1
    /\ pc[t] = "opening" => arrived[t] = generation + 1 /\ left[t] = arrived[t] - 1
    /\ pc[t] = "notifying" => arrived[t] = generation /\ left[t] = arrived[t] - 1

\* The count is the number of threads inside, until the last one resets it.
Counted ==
  /\ lock = NoThread \/ (\E t \in Threads : pc[t] = "notifying") =>
       arrivalCount = Cardinality(Inside) /\ arrivalCount < NumThreads
  /\ (\E t \in Threads : pc[t] = "opening") => Inside = Threads /\ arrivalCount = 0

\* The lock is held across steps exactly by the last thread.
LockHeld ==
  \A t \in Threads : pc[t] \in {"opening", "notifying"} <=> lock = t

\* The phases that have a master are those that are over.
Led ==
  /\ \A k \in ledBy : k <= generation
  /\ \A t \in Threads : pc[t] = "notifying" => arrived[t] \notin ledBy

BarrierInv ==
  /\ BarrierTypeOK
  /\ Progress
  /\ Counted
  /\ LockHeld
  /\ Led
  /\ NoLostWakeup
=============================================================================
