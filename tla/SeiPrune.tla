------------------------------ MODULE SeiPrune ------------------------------
(***************************************************************************)
(* pruneSeiBlockAndStateStore (cmd/sei.go) on the block store of a stopped *)
(* Sei node: block metas, block parts and commits are deleted one after    *)
(* the other, each in one batch.  The keys are written with orderedcode,   *)
(* so their order is that of the heights.  The state store is not touched. *)
(* An error of an iterator or of a write is not looked at, other errors    *)
(* end the run, and it may be killed between two batches.                  *)
(***************************************************************************)
EXTENDS Words, Sequences, FiniteSetsExt

CONSTANTS
  Keeps,           \* values of --keep-blocks
  InitialHeights,  \* first heights a node may start from
  MaxHeight,       \* bound: the node stops at this height
  MaxRuns,         \* bound: runs of the pruner
  MaxFaults        \* bound: errors and kills

ASSUME SeiKeepsAssumption == Keeps \subseteq Nat
ASSUME SeiHeightsAssumption == InitialHeights \subseteq Nat \ {0}

VARIABLES
  first,        \* first height the node ever stored
  height,       \* height of the block store
  applied,      \* LastBlockHeight of the state (height or height - 1)
  keys,         \* key type -> heights that have all their keys
  pc,           \* 0 between runs, else the position in Prefixes
  pruneHeight,  \* of the last run
  floor,        \* greatest LastBlockHeight - keepBlocks of all runs (never
                \* read by the code)
  dropped,      \* the last run dropped an error (nor this)
  lost,         \* greatest end of a deletion of metas whose error was
                \* dropped (nor this)
  result, runs, faults

node == <<first, height, applied>>
run == <<pruneHeight, floor, runs>>
vars == <<first, height, applied, keys, pc, pruneHeight, floor, dropped, lost, result,
          runs, faults>>

PrefixesPartsFirst == <<"part", "meta", "commit">>

\* prefixBlockMeta, prefixBlockPart, prefixBlockCommit, in this order.
Prefixes == <<"meta", "part", "commit">>

KeyTypes == {"meta", "part", "commit"}

\* Block h is stored with the commit of block h - 1.
Lag(p) == IF p = "commit" THEN 1 ELSE 0

Init ==
  /\ first \in InitialHeights /\ height = first /\ applied = first
  /\ keys = [p \in KeyTypes |-> {first - Lag(p)}]
  /\ pc = 0 /\ pruneHeight = 0 /\ floor = 0 /\ dropped = FALSE /\ lost = 0
  /\ result = "none" /\ runs = 0 /\ faults = 0

-----------------------------------------------------------------------------

\* The node between two runs stores a block and then executes it.
SaveBlock ==
  /\ pc = 0 /\ applied = height /\ height < MaxHeight
  /\ height' = height + 1
  /\ keys' = [p \in KeyTypes |-> keys[p] \cup {height + 1 - Lag(p)}]
  /\ UNCHANGED <<first, applied, pc, run, dropped, lost, result, faults>>

ApplyBlock ==
  /\ pc = 0 /\ applied < height /\ applied' = height
  /\ UNCHANGED <<first, height, keys, pc, run, dropped, lost, result, faults>>

StartPrune(k) ==
  /\ pc = 0 /\ runs < MaxRuns
  /\ pc' = 1 /\ runs' = runs + 1 /\ dropped' = FALSE /\ result' = "none"
  /\ pruneHeight' = UintMinus(applied, k)
  /\ floor' = Max({floor, applied - k})
  /\ UNCHANGED <<node, keys, lost, faults>>

EndHeightUnsigned == pruneHeight

\* The end of the range, which is excluded.
EndHeight == ToInt64(pruneHeight)

\* deleteSeiRange: the heights of the range, from 0.  When the end is
\* negative it comes before the start and the range is empty.
SeiRange(p) == {h \in keys[p] : h < EndHeight}

PruneKeysWhileAny ==
  /\ pc \in 1 .. Len(Prefixes)
  /\ keys' = [keys EXCEPT ![Prefixes[pc]] = @ \ SeiRange(Prefixes[pc])]
  /\ pc' = IF SeiRange(Prefixes[pc]) = {} THEN Len(Prefixes) + 1 ELSE pc + 1
  /\ UNCHANGED <<node, run, dropped, lost, result, faults>>

PruneKeysInTwos ==
  /\ pc \in 1 .. Len(Prefixes)
  /\ keys' = [keys EXCEPT ![Prefixes[pc]] = @ \ SeiRange(Prefixes[pc])]
  /\ pc' = pc + 2
  /\ UNCHANGED <<node, run, dropped, lost, result, faults>>

PruneKeys ==
  /\ pc \in 1 .. Len(Prefixes)
  /\ keys' = [keys EXCEPT ![Prefixes[pc]] = @ \ SeiRange(Prefixes[pc])]
  /\ pc' = pc + 1
  /\ UNCHANGED <<node, run, dropped, lost, result, faults>>

\* The iterator stops early, or nothing is written, and the run goes on: the
\* heights up to n are deleted.
DropError ==
  /\ pc \in 1 .. Len(Prefixes) /\ faults < MaxFaults /\ faults' = faults + 1
  /\ \E n \in 0 .. height :
       keys' = [keys EXCEPT ![Prefixes[pc]] = @ \ {h \in SeiRange(Prefixes[pc]) : h <= n}]
  /\ pc' = pc + 1 /\ dropped' = TRUE
  /\ lost' = IF Prefixes[pc] = "meta" THEN Max({lost, EndHeight}) ELSE lost
  /\ UNCHANGED <<node, run, result>>

FinishPrune ==
  /\ pc > Len(Prefixes) /\ pc' = 0 /\ result' = "ok"
  /\ UNCHANGED <<node, keys, run, dropped, lost, faults>>

\* An error before the batch is written ends the run; so does a kill.
PruneFails ==
  /\ pc # 0 /\ faults < MaxFaults /\ faults' = faults + 1
  /\ pc' = 0 /\ result' = "error"
  /\ UNCHANGED <<node, keys, run, dropped, lost>>

Next ==
  \/ SaveBlock \/ ApplyBlock
  \/ \E k \in Keeps : StartPrune(k)
  \/ PruneKeys \/ DropError \/ FinishPrune \/ PruneFails

Spec == Init /\ [][Next]_vars

-----------------------------------------------------------------------------
(* Properties. *)

\* Every variable keeps its type.
TypeOK ==
  /\ {first, height, applied} \subseteq Nat /\ keys \in [KeyTypes -> SUBSET Nat]
  /\ pc \in 0 .. 4 /\ {pruneHeight, floor, lost, runs, faults} \subseteq Nat
  /\ dropped \in BOOLEAN /\ result \in {"none", "ok", "error"}

\* Each height from LastBlockHeight - keepBlocks of every run on keeps its
\* meta, its parts and its commit, also when more blocks are to be kept than
\* there are: the end of the range is then negative.
RetainedBlocks ==
  \A p \in KeyTypes : \A h \in first .. height - Lag(p) : h >= floor => h \in keys[p]

\* A node that finds the meta of a block finds the block and its commit,
\* wherever a run was cut off and whatever was pruned before, as long as no
\* error was dropped while the metas were deleted.
MetaHasBlock ==
  \A h \in keys["meta"] : h >= lost =>
    h \in keys["part"] /\ (h < height => h \in keys["commit"])

\* A run that ends well and drops no error leaves nothing below pruneHeight,
\* also what runs before it that failed or dropped errors left.
CatchesUp ==
  (pc = 0 /\ result = "ok" /\ ~dropped) =>
    \A p \in KeyTypes : \A h \in keys[p] : h >= EndHeight

=============================================================================
