-------------------------- MODULE MC_SyncCoordinator --------------------------
(***************************************************************************)
(* Instances of SyncCoordinator for TLC: three workers, so that one can    *)
(* run ahead while another is still leaving the barrier its master has     *)
(* opened; two layers, the first and the last, which differ; a charge      *)
(* below, in and above the hysteresis band.                                *)
(***************************************************************************)
EXTENDS SyncCoordinator, TLC

CONSTANTS t1, t2, t3

MCThreads == {t1, t2, t3}
MCLevels == {19, 22, 26}
MCOneLevel == {26}
MCTwoThreads == {t1, t2}
=============================================================================
