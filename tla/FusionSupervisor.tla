---------------------------- MODULE FusionSupervisor ---------------------------
(***************************************************************************)
(* One stride of Phase58FusionSupervisor (src/backend/src/satcom_core/     *)
(* phase58_fusion_supervisor.py) as functions from what its detectors say  *)
(* of a stride, and the state machine before it, to the state machine      *)
(* after it.                                                               *)
(*                                                                         *)
(* The detectors are floating-point: what they say is chosen.  What one    *)
(* does to another is kept: a covariance anomaly narrows the margin within *)
(* which an angle of arrival passes, in the stride it is found in.  The    *)
(* scores and the nulling weights they also compute only pass through.     *)
(***************************************************************************)
EXTENDS Integers

CONSTANT Hysteresis  \* hysteresis_threshold

ASSUME HysteresisAssumption == Hysteresis \in Nat \ {0}

Nominal == 0
Jamming == 1
Spoofing == 2
Critical == 3
States == Nominal .. Critical

Skews == BOOLEAN                              \* a correlation peak is out of shape
Angles == {"inside", "narrow", "outside"}     \* the worst angle of arrival
Anomalies == BOOLEAN                          \* the covariance is of low rank
Verdicts == {"NORMAL", "JAMMING", "SPOOFING"} \* the classifier's

Sights == [skewed : Skews, angle : Angles, anomaly : Anomalies, verdict : Verdicts]

\* Beyond the margin, or beyond two fifths of it when the margin is narrowed.
Hijacked(sight) ==
  \/ sight.angle = "outside"
  \/ sight.angle = "narrow" /\ sight.anomaly

Target(sight) ==
  CASE Hijacked(sight) \/ (sight.skewed /\ sight.verdict = "SPOOFING") -> Critical
    [] ~Hijacked(sight) /\ (sight.skewed # (sight.verdict = "SPOOFING")) -> Spoofing
    [] OTHER -> IF sight.anomaly \/ sight.verdict = "JAMMING" THEN Jamming ELSE Nominal

-----------------------------------------------------------------------------
\* current_state and persistence_counters.
FirstMachine == [state |-> Nominal, persistence |-> [s \in States |-> 0]]

\* A slip: the other counters are kept.
CountKeepingOthers(machine, target) == [machine.persistence EXCEPT ![target] = @ + 1]

\* The target's counter goes up, and all but the current state's start again.
CountTarget(machine, target) ==
  [s \in States |->
     CASE s = target -> machine.persistence[s] + 1
       [] s = machine.state /\ s # target -> machine.persistence[s]
       [] OTHER -> 0]

Stay(machine) ==
  [machine EXCEPT !.persistence = [s \in States |-> IF s = machine.state THEN @[s] ELSE 0]]

Update(machine, target) ==
  LET counted == CountTarget(machine, target) IN
    CASE target = machine.state -> Stay(machine)
      [] target # machine.state /\ counted[target] >= Hysteresis ->
           [state |-> target, persistence |-> [counted EXCEPT ![target] = 0]]
      [] OTHER -> [machine EXCEPT !.persistence = counted]
=============================================================================
