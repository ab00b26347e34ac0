--------------------------- MODULE MC_MitigationLoop ---------------------------
(***************************************************************************)
(* A filter of two strides up and three down over a history of four, a     *)
(* command ring of three, and an operator who locks, touches the gain and  *)
(* clears, three times in all.  Strides follow each other within the       *)
(* minimal interval and the timeout, or beyond both.                       *)
(***************************************************************************)
EXTENDS MitigationLoop

MCElapses == {1, 3}
MCOperatorActions == {3, 4}
=============================================================================
