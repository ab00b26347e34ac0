--------------------------- MODULE MC_TelemetryBus ---------------------------
(***************************************************************************)
(* Instances of TelemetryBus for TLC.  Three slots and five records: the   *)
(* indices go around the ring almost twice, the ring fills up to the two   *)
(* records it can hold, and two consumers compete for each of them.        *)
(***************************************************************************)
EXTENDS TelemetryBus, TLC

CONSTANTS c1, c2, v1

MCConsumers == {c1, c2}
MCViewers == {v1}
MCNoViewers == {}
ConsumerSymmetry == Permutations(MCConsumers)
=============================================================================
