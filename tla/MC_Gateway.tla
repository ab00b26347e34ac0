------------------------------ MODULE MC_Gateway ------------------------------
(***************************************************************************)
(* One change of the verdict, one connection lost and one identifier that  *)
(* comes back: three connections are then enough for the console.          *)
(***************************************************************************)
EXTENDS Gateway
=============================================================================
