---------------------------- MODULE MCCometPrune ----------------------------
(***************************************************************************)
(* Instances of CometPrune for TLC, and what the documentation says of the *)
(* pruned databases where the code does otherwise.                         *)
(***************************************************************************)
EXTENDS CometPrune

Succeeded == phase = "node" /\ result = "ok"

\* README: "validator history (validatorsKey:, keeping the most recent
\* ~1000)".  A run without failures leaves no key below the last complete
\* set that the history to keep needs, apart from the excluded ends of the
\* ranges: the height just below that set and the all-nines heights.
ValidatorHistoryTrimmed ==
  (Succeeded /\ faults = 0 /\ applied = pruneHeight + keep) =>
    \A h \in vals \ AllNines : \A a \in Checkpoints(applied + 2 - ValHistoryToKeep) :
      h >= a - 1

\* The comment in pruneBlockAndStateStore: a surviving all-nines meta "would
\* wrongly become the base"; the retain floor is used so that it does not.
OrphanNeverBase ==
  Succeeded => base .. height \subseteq blocks["H:"]
============================================================================
