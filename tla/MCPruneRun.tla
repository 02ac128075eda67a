----------------------------- MODULE MCPruneRun -----------------------------
(***************************************************************************)
(* Instance of PruneRun for TLC.                                           *)
(***************************************************************************)
EXTENDS PruneRun

AllStrategies == {"inplace", "verified", "legacy"}
=============================================================================
