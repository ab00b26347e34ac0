--------------------------- MODULE MC_HybridBarrier ---------------------------
(***************************************************************************)
(* Three threads, three waits each: a thread can be spinning, another      *)
(* asleep and the third already back in the next wait, and the barrier is  *)
(* reused twice.                                                           *)
(***************************************************************************)
EXTENDS HybridBarrier, TLC

CONSTANTS t1, t2, t3
MCThreads == {t1, t2, t3}
=============================================================================
