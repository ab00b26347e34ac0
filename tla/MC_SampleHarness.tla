--------------------------- MODULE MC_SampleHarness ---------------------------
(***************************************************************************)
(* Two workers, a block queue of two that four blocks can fill up and an   *)
(* incident queue of one: blocks are dropped, incidents lost, and workers  *)
(* compete for the last block of a run.                                    *)
(***************************************************************************)
EXTENDS SampleHarness

MCWorkers == {"w1", "w2"}
=============================================================================
