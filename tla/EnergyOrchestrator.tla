--------------------------- MODULE EnergyOrchestrator ---------------------------
(***************************************************************************)
(* EnergyAwareOrchestrator (src/backend/src/satcom_core/                   *)
(* energy_aware_orchestrator.py): a daemon that polls the charge of a      *)
(* battery and shifts the system between two static configurations, with a *)
(* hysteresis band between the two thresholds.  The charge moves while a   *)
(* poll is under way, and readers fetch the configuration at any moment.   *)
(*                                                                         *)
(* A configuration is known by its power_state.  A failed poll changes     *)
(* nothing and is a stuttering step; a stopped daemon is one that does not *)
(* poll again.  side, swings and shifts are history.                       *)
(***************************************************************************)
EXTENDS Integers

CONSTANTS
  Levels,              \* the charges the battery can have, in percent
  CriticalThreshold,   \* critical_threshold_pct
  HysteresisThreshold, \* hysteresis_pct
  MaxSwings            \* bound: traversals of the hysteresis band

ASSUME LevelsAssumption == Levels \subseteq Int
ASSUME ThresholdsAssumption ==
  /\ CriticalThreshold \in Int
  /\ HysteresisThreshold \in Int
  /\ CriticalThreshold <= HysteresisThreshold
ASSUME MaxSwingsAssumption == MaxSwings \in Nat

VARIABLES
  soc,            \* the charge of the battery
  shutdown,       \* _shutdown_event
  dpc,            \* where the daemon is in its loop
  reading,        \* current_soc
  activeConfig,   \* active_system_config, by its power_state
  currentState,   \* current_state
  side,           \* the last end of the band the charge has been beyond
  swings,         \* how often side has changed
  shifts          \* configurations stored by the daemon

battery == <<soc, side, swings>>
daemon == <<dpc, reading, activeConfig, currentState, shifts>>
orchestratorVars == <<battery, daemon, shutdown>>

Modes == {"NOMINAL", "CRITICAL"}

IsLow(level) == level < CriticalThreshold
IsHigh(level) == level > HysteresisThreshold

OrchestratorInit ==
  /\ soc \in {l \in Levels : IsHigh(l)}
  /\ shutdown = FALSE
  /\ dpc = "waiting"
  /\ reading = soc
  /\ activeConfig = "NOMINAL"
  /\ currentState = "NOMINAL"
  /\ side = "high"
  /\ swings = 0
  /\ shifts = 0

-----------------------------------------------------------------------------
\* The battery: any change of charge, up to the bound on swings.
Beyond(level) == IF IsLow(level) THEN "low" ELSE IF IsHigh(level) THEN "high" ELSE side

Charge(level) ==
  /\ level # soc
  /\ soc' = level
  /\ side' = Beyond(level)
  /\ swings' = IF side' = side THEN swings ELSE swings + 1
  /\ swings' <= MaxSwings
  /\ UNCHANGED <<daemon, shutdown>>

Poll ==
  /\ dpc = "waiting"
  /\ ~shutdown
  /\ reading' = soc
  /\ dpc' = "evaluating"
  /\ UNCHANGED <<battery, shutdown, activeConfig, currentState, shifts>>

\* _execute_atomic_transition stores the configuration and then current_state,
\* which nobody but the daemon reads: one step.
Shift(target) ==
  /\ dpc = "evaluating"
  /\ activeConfig' = target
  /\ currentState' = target
  /\ shifts' = shifts + 1
  /\ dpc' = "waiting"
  /\ UNCHANGED <<battery, shutdown, reading>>

EnterTriage == currentState = "NOMINAL" /\ IsLow(reading) /\ Shift("CRITICAL")

\* A slip: the limits are lifted at the threshold that imposed them.
LiftTriageInBand ==
  currentState = "CRITICAL" /\ ~IsLow(reading) /\ Shift("NOMINAL")

LiftTriage == currentState = "CRITICAL" /\ IsHigh(reading) /\ Shift("NOMINAL")

Keep ==
  /\ dpc = "evaluating"
  /\ currentState = "NOMINAL" => ~IsLow(reading)
  /\ currentState = "CRITICAL" => ~IsHigh(reading)
  /\ dpc' = "waiting"
  /\ UNCHANGED <<battery, shutdown, reading, activeConfig, currentState, shifts>>

StopDaemon ==
  /\ ~shutdown
  /\ shutdown' = TRUE
  /\ UNCHANGED <<battery, daemon>>

OrchestratorNext ==
  \/ \E level \in Levels : Charge(level)
  \/ Poll
  \/ EnterTriage
  \/ LiftTriage
  \/ Keep
  \/ StopDaemon

-----------------------------------------------------------------------------
OrchestratorTypeOK ==
  /\ soc \in Levels
  /\ shutdown \in BOOLEAN
  /\ dpc \in {"waiting", "evaluating"}
  /\ reading \in Levels
  /\ activeConfig \in Modes
  /\ currentState \in Modes
  /\ side \in {"low", "high"}
  /\ swings \in Nat
  /\ shifts \in Nat

\* The hysteresis band does what its comment says, "prevent rapid operational
\* oscillation": the daemon shifts at most once for each time the charge
\* really traverses the whole band, however often it polls, and although the
\* charge it decides on may be out of date.
NoFlapping == shifts <= swings

-----------------------------------------------------------------------------
(***************************************************************************)
(* The inductive invariant behind NoFlapping.                              *)
(***************************************************************************)

\* Whether the configuration is the one for the side the charge is on.
Settled == (currentState = "CRITICAL") <=> (side = "low")

\* The daemon holds a reading on which it will shift.
AboutToShift ==
  /\ dpc = "evaluating"
  /\ \/ currentState = "NOMINAL" /\ IsLow(reading)
     \/ currentState = "CRITICAL" /\ IsHigh(reading)

\* A swing the daemon has not answered is owed a shift; one it answers when
\* the charge has swung back already leaves another one owed.
BandInv ==
  /\ OrchestratorTypeOK
  /\ IsLow(soc) => side = "low"
  /\ IsHigh(soc) => side = "high"
  /\ shifts <= swings
  /\ ~Settled => shifts + 1 <= swings
  /\ AboutToShift => shifts + 1 <= swings
  /\ AboutToShift /\ Settled => shifts + 2 <= swings
=============================================================================
