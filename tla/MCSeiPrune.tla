----------------------------- MODULE MCSeiPrune -----------------------------
(***************************************************************************)
(* Instance of SeiPrune for TLC.                                           *)
(***************************************************************************)
EXTENDS SeiPrune

\* Nothing, a little, and more than the chain ever has.
SomeKeeps == {0, 1, 3, 9}
=============================================================================
