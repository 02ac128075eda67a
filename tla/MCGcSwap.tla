------------------------------ MODULE MCGcSwap ------------------------------
(***************************************************************************)
(* The instance of GcSwap that TLC checks; GcSwap.cfg gives the constants. *)
(***************************************************************************)
EXTENDS GcSwap
============================================================================
