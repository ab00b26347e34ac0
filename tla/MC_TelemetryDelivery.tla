------------------------- MODULE MC_TelemetryDelivery -------------------------
(***************************************************************************)
(* Instances of TelemetryDelivery for TLC.  A queue of two frames and a    *)
(* ring of two records both overflow; batches of two can overflow a queue  *)
(* on their own.                                                           *)
(***************************************************************************)
EXTENDS TelemetryDelivery

CONSTANT a

MCOneClient == {a}
=============================================================================
