---------------------------- MODULE MC_FusionRing ----------------------------
(***************************************************************************)
(* Two producers push four records into a ring of two slots: a producer    *)
(* may be a turn of the ring behind the other, and the ring overflows.     *)
(***************************************************************************)
EXTENDS FusionRing

CONSTANTS p1, p2

MCProducers == {p1, p2}
=============================================================================
