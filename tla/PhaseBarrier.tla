---------------------------- MODULE PhaseBarrier ----------------------------
(***************************************************************************)
(* What a reusable thread barrier promises: no thread leaves its k-th wait *)
(* before every thread has arrived at its k-th wait, and the thread whose  *)
(* arrival completes a phase, and no other, leaves that wait as its master.*)
(*                                                                         *)
(* HybridBarrier.tla (LockFreeHybridBarrier of src/backend/src/            *)
(* satcom_core/subsystem_sync_coordinator.py) implements it.               *)
(***************************************************************************)
EXTENDS Naturals

CONSTANT Threads

VARIABLES
  arrived,  \* arrived[t]: how many waits thread t has started
  left,     \* left[t]: how many of them have returned
  ledBy     \* the waits k that some thread has left as the master

phaseVars == <<arrived, left, ledBy>>

Init ==
  /\ arrived = [t \in Threads |-> 0]
  /\ left = [t \in Threads |-> 0]
  /\ ledBy = {}

Arrive(t) ==
  /\ arrived[t] = left[t]
  /\ arrived' = [arrived EXCEPT ![t] = @ + 1]
  /\ UNCHANGED <<left, ledBy>>

AllArrived(k) == \A t \in Threads : arrived[t] >= k

LeaveAsFollower(t) ==
  /\ left[t] < arrived[t]
  /\ AllArrived(arrived[t])
  /\ left' = [left EXCEPT ![t] = arrived[t]]
  /\ UNCHANGED <<arrived, ledBy>>

LeaveAsMaster(t) ==
  /\ left[t] < arrived[t]
  /\ AllArrived(arrived[t])
  /\ arrived[t] \notin ledBy
  /\ left' = [left EXCEPT ![t] = arrived[t]]
  /\ ledBy' = ledBy \cup {arrived[t]}
  /\ UNCHANGED arrived

Next ==
  \E t \in Threads : Arrive(t) \/ LeaveAsFollower(t) \/ LeaveAsMaster(t)

Spec == Init /\ [][Next]_phaseVars
=============================================================================
