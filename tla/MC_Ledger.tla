------------------------------- MODULE MC_Ledger -------------------------------
(***************************************************************************)
(* Two deployers, the rotator and the compactor, which set a ledger of two *)
(* entries aside; one of them may crash.                                   *)
(***************************************************************************)
EXTENDS Ledger

MCDeployers == {"d1", "d2"}
MCKeepers == {"rotator", "compactor"}
=============================================================================
