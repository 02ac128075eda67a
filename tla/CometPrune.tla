----------------------------- MODULE CometPrune -----------------------------
(***************************************************************************)
(* pruneBlockAndStateStore (cmd/generic_chain.go) on the databases of a    *)
(* stopped CometBFT node: one goroutine deletes the block keys, another    *)
(* the state keys, each batch by batch; when both have ended the base of   *)
(* the block store is rewritten.  Between runs the node commits blocks.    *)
(* A run may be repeated, may fail in any batch and may be killed between  *)
(* any two batches.  The repair tool basefix rewrites the base alone.      *)
(***************************************************************************)
EXTENDS HeightRange, Sequences

CONSTANTS
  Keeps,             \* values of --keep-blocks
  ValHistoryToKeep,  \* validatorHistoryToKeep (1000 in the code)
  InitialHeights,    \* first heights a node may start from (genesis, state sync)
  ValidatorChanges,  \* heights at which the validator set may change
  MaxHeight,         \* bound: the node stops at this height
  MaxRuns,           \* bound: runs of the pruner
  MaxFaults          \* bound: failed batches and kills

ASSUME KeepsAssumption == Keeps \subseteq Nat
ASSUME ValHistoryAssumption == ValHistoryToKeep \in Nat
ASSUME HeightsAssumption ==
  /\ InitialHeights \subseteq Nat \ {0}
  /\ ValidatorChanges \subseteq Nat

VARIABLES
  first,        \* first height the node ever stored
  height,       \* BlockStoreState.Height
  base,         \* BlockStoreState.Base
  applied,      \* LastBlockHeight of the state store (height or height - 1)
  blocks,       \* block prefix -> heights that have a key
  index,        \* "BH:" and "TH:" -> heights that have an entry
  stateKeys,    \* state prefix -> heights that have a key
  vals,         \* heights with a validatorsKey
  full,         \* heights whose validatorsKey was written with the whole set
  phase,        \* "node" or "prune"
  keep,         \* --keep-blocks of the last run
  pruneHeight,  \* of the last run
  floor,        \* greatest LastBlockHeight - keepBlocks of all runs: what
                \* the operator gave up (never read by the code)
  bpc,          \* where the block store goroutine is
  spc,          \* where the state store goroutine is
  result,       \* how the last run ended
  runs, faults

node == <<first, height, applied, full>>
run == <<phase, keep, pruneHeight, floor, result, runs>>
vars == <<first, height, base, applied, blocks, index, stateKeys, vals, full,
          phase, keep, pruneHeight, floor, bpc, spc, result, runs, faults>>

BlockKeyInfos ==
  << [prefix |-> "H:",  twoParts |-> FALSE],
     [prefix |-> "C:",  twoParts |-> FALSE],
     [prefix |-> "EC:", twoParts |-> FALSE],
     [prefix |-> "SC:", twoParts |-> FALSE],
     [prefix |-> "P:",  twoParts |-> TRUE] >>

StateKeyInfos == <<"abciResponsesKey:", "consensusParamsKey:">>

BlockPrefixes == {"H:", "C:", "EC:", "SC:", "P:"}
StatePrefixes == {"abciResponsesKey:", "consensusParamsKey:"}
Indexes == {"BH:", "TH:"}

\* Block h is stored with the commit of block h - 1, and executing it yields
\* the consensus parameters of height h + 1.
Lag(p) == IF p = "C:" THEN 1 ELSE 0
Lead(p) == IF p = "consensusParamsKey:" THEN 1 ELSE 0

\* A goroutine is at a stage; in the loops over prefixes and digits it is at
\* prefix k with d digits to go, deleting up to end.
At(stage, end) == [at |-> stage, k |-> 1, d |-> Digits(end), end |-> end]
Move(pos, k, d) == [at |-> pos.at, k |-> k, d |-> d, end |-> pos.end]
Idle == At("idle", 0)

-----------------------------------------------------------------------------
(* The node, between two runs of the pruner. *)

Init ==
  /\ first \in InitialHeights
  /\ height = first /\ applied = first /\ base = first
  /\ blocks = [p \in BlockPrefixes |-> {first - Lag(p)}]
  /\ index = [p \in Indexes |-> {first}]
  /\ stateKeys = [p \in StatePrefixes |-> {first, first + Lead(p)}]
  /\ vals = first .. first + 2 /\ full = {first}
  /\ phase = "node" /\ keep = 0 /\ pruneHeight = 0 /\ floor = 0
  /\ bpc = Idle /\ spc = Idle
  /\ result = "none" /\ runs = 0 /\ faults = 0

\* The node stores block height + 1 ...
SaveBlock ==
  /\ phase = "node" /\ applied = height /\ height < MaxHeight
  /\ height' = height + 1
  /\ blocks' = [p \in BlockPrefixes |-> blocks[p] \cup {height + 1 - Lag(p)}]
  /\ index' = [index EXCEPT !["BH:"] = @ \cup {height + 1}]
  /\ UNCHANGED <<first, base, applied, stateKeys, vals, full, run, bpc, spc, faults>>

\* ... and then, once it is executed, the state at that height and, for two
\* heights later, the validator set: complete if it changes there, otherwise
\* a reference to the last complete one.
ApplyBlock ==
  /\ phase = "node" /\ applied < height
  /\ applied' = height
  /\ index' = [index EXCEPT !["TH:"] = @ \cup {height}]
  /\ stateKeys' = [p \in StatePrefixes |-> stateKeys[p] \cup {height + Lead(p)}]
  /\ vals' = vals \cup {height + 2}
  /\ \/ full' = full
     \/ height + 2 \in ValidatorChanges /\ full' = full \cup {height + 2}
  /\ UNCHANGED <<first, height, base, blocks, run, bpc, spc, faults>>

-----------------------------------------------------------------------------
(* One run of the pruner. *)

\* Prune: pruneHeight := uint64(LastBlockHeight) - keepBlocks, and the two
\* goroutines start.
StartPrune(k) ==
  /\ phase = "node" /\ runs < MaxRuns
  /\ phase' = "prune" /\ runs' = runs + 1 /\ keep' = k /\ result' = "none"
  /\ pruneHeight' = UintMinus(applied, k)
  /\ floor' = Max({floor, applied - k})
  /\ bpc' = At("keys", pruneHeight')
  /\ spc' = At("find", pruneHeight')
  /\ UNCHANGED <<node, base, blocks, index, stateKeys, vals, faults>>

LoopNextTooFar(pos, stop, lastPrefix, after) ==
  IF ~stop /\ pos.d > 0 THEN Move(pos, pos.k, pos.d - 1)
  ELSE IF pos.k < lastPrefix THEN Move(pos, pos.k + 1, Digits(pos.end))
  ELSE after

LoopNextSamePrefix(pos, stop, lastPrefix, after) ==
  IF ~stop /\ pos.d > 1 THEN Move(pos, pos.k, pos.d - 1)
  ELSE IF pos.k < lastPrefix THEN Move(pos, pos.k, Digits(pos.end))
  ELSE after

\* After a batch: one digit less; the next prefix when the batch was empty
\* (prunedLastBatch == 0) or no digit is left; then the next stage.
LoopNext(pos, stop, lastPrefix, after) ==
  IF ~stop /\ pos.d > 1 THEN Move(pos, pos.k, pos.d - 1)
  ELSE IF pos.k < lastPrefix THEN Move(pos, pos.k + 1, Digits(pos.end))
  ELSE after

\* One iteration of deleteHeightRange at pos: the keys that remain and
\* where the goroutine goes.  A range that is empty is skipped.
RangeStep(keys, twoParts, pos, lastPrefix, after) ==
  { LET skip == RangeStart(pos.d) > rangeEnd
        batch == IF skip THEN {}
                 ELSE RangeBatch(keys, twoParts, pos.end, pos.d, rangeEnd)
    IN  [keys |-> keys \ batch,
         pos |-> LoopNext(pos, ~skip /\ batch = {}, lastPrefix, after)]
    : rangeEnd \in RangeEnds(pos.end, pos.d) }

\* An iteration that fails: with nothing written, or, when the iterator
\* stopped early, with the batch of the keys it had reached.
FailedRange(keys, twoParts, pos) ==
  {keys} \cup
  UNION { LET batch == RangeBatch(keys, twoParts, pos.end, pos.d, rangeEnd)
          IN  {keys \ {g \in batch : ~LexLess(h, g)} : h \in batch}
          : rangeEnd \in {e \in RangeEnds(pos.end, pos.d) : RangeStart(pos.d) <= e} }

\* pruneBlockStore: the five prefixes with a height in the key ...
PruneBlockKeys ==
  /\ bpc.at = "keys"
  /\ LET info == BlockKeyInfos[bpc.k]
     IN \E s \in RangeStep(blocks[info.prefix], info.twoParts, bpc,
                           Len(BlockKeyInfos), At("BH", pruneHeight)) :
          /\ blocks' = [blocks EXCEPT ![info.prefix] = s.keys]
          /\ bpc' = s.pos
  /\ UNCHANGED <<node, base, index, stateKeys, vals, run, spc, faults>>

\* ... then every entry of the block-hash index, in one batch (the code
\* starts another one after 1_000_000 entries) ...
PruneBlockHashes ==
  /\ bpc.at = "BH"
  /\ index' = [index EXCEPT !["BH:"] = {}]
  /\ bpc' = At("TH", pruneHeight)
  /\ UNCHANGED <<node, base, blocks, stateKeys, vals, run, spc, faults>>

\* ... and the transaction index below int64(pruneHeight).
PruneTxIndex ==
  /\ bpc.at = "TH"
  /\ index' = [index EXCEPT !["TH:"] = {h \in @ : ~(h < ToInt64(pruneHeight))}]
  /\ bpc' = At("done", pruneHeight)
  /\ UNCHANGED <<node, base, blocks, stateKeys, vals, run, spc, faults>>

\* deleteAllByPrefix does not ask the iterator for an error: one that stops
\* early ends the deletion as if it were complete.  Which entries were
\* reached depends on the hashes; here they are visited by height.
IndexIteratorStops ==
  /\ faults < MaxFaults /\ faults' = faults + 1
  /\ \E n \in 0 .. height :
       \/ /\ bpc.at = "BH" /\ bpc' = At("TH", pruneHeight)
          /\ index' = [index EXCEPT !["BH:"] = {h \in @ : h > n}]
       \/ /\ bpc.at = "TH" /\ bpc' = At("done", pruneHeight)
          /\ index' = [index EXCEPT !["TH:"] =
                         {h \in @ : h > n \/ ~(h < ToInt64(pruneHeight))}]
  /\ UNCHANGED <<node, base, blocks, stateKeys, vals, run, spc>>

\* An error ends the goroutine, before a batch is written or after it.
BlockStoreFails ==
  /\ faults < MaxFaults /\ faults' = faults + 1
  /\ \/ /\ bpc.at = "keys"
        /\ LET info == BlockKeyInfos[bpc.k]
           IN \E left \in FailedRange(blocks[info.prefix], info.twoParts, bpc) :
                blocks' = [blocks EXCEPT ![info.prefix] = left]
     \/ bpc.at \in {"BH", "TH", "done"} /\ UNCHANGED blocks
  /\ bpc' = At("failed", pruneHeight)
  /\ UNCHANGED <<node, base, index, stateKeys, vals, run, spc>>

-----------------------------------------------------------------------------
(* pruneStateStore. *)

\* findLatestValidatorHeight: the last key of a reverse iteration, if any.
LatestValidatorHeight == {h \in vals : \A g \in vals : g = h \/ LexLess(g, h)}

\* findAnchorCheckpoint: the heights up to retainHeight with a complete set
\* and, searching down from retainHeight, the first of them, if any.
Checkpoints(retainHeight) == {h \in vals \cap full : h <= retainHeight}

AnchorAnywhere(retainHeight) == {h \in vals : h = retainHeight}

AnchorCheckpoint(retainHeight) ==
  {h \in Checkpoints(retainHeight) : \A g \in Checkpoints(retainHeight) : g <= h}

\* The anchors pruneValidatorHistory may stop at: none when there is not
\* enough history.
ValidatorAnchor ==
  UNION {AnchorCheckpoint(h - ValHistoryToKeep) :
           h \in {l \in LatestValidatorHeight : l > ValHistoryToKeep}}

\* The height up to which it deletes; 0 for nothing.
ValidatorPruneCutoff ==
  IF ValidatorAnchor = {} THEN 0 ELSE (CHOOSE h \in ValidatorAnchor : TRUE) - 1

FindValidatorCutoff ==
  /\ spc.at = "find"
  /\ spc' = IF ValidatorPruneCutoff = 0 THEN At("keys", pruneHeight)
            ELSE At("vals", ValidatorPruneCutoff)
  /\ UNCHANGED <<node, base, blocks, index, stateKeys, vals, run, bpc, faults>>

\* A checkpoint that cannot be read is passed over for an older one.
FindOlderCutoff ==
  /\ spc.at = "find"
  /\ faults < MaxFaults /\ faults' = faults + 1
  /\ \E l \in LatestValidatorHeight : \E h \in Checkpoints(l - ValHistoryToKeep) :
       spc' = IF h = 1 THEN At("keys", pruneHeight) ELSE At("vals", h - 1)
  /\ UNCHANGED <<node, base, blocks, index, stateKeys, vals, run, bpc>>

PruneValidatorKeys ==
  /\ spc.at = "vals"
  /\ \E s \in RangeStep(vals, FALSE, spc, 1, At("keys", pruneHeight)) :
       vals' = s.keys /\ spc' = s.pos
  /\ UNCHANGED <<node, base, blocks, index, stateKeys, run, bpc, faults>>

\* An error of pruneValidatorHistory is only logged.
ValidatorHistoryFails ==
  /\ faults < MaxFaults /\ faults' = faults + 1
  /\ \/ spc.at = "find" /\ UNCHANGED vals
     \/ spc.at = "vals" /\ vals' \in FailedRange(vals, FALSE, spc)
  /\ spc' = At("keys", pruneHeight)
  /\ UNCHANGED <<node, base, blocks, index, stateKeys, run, bpc>>

PruneStateKeys ==
  /\ spc.at = "keys"
  /\ LET prefix == StateKeyInfos[spc.k]
     IN \E s \in RangeStep(stateKeys[prefix], FALSE, spc, Len(StateKeyInfos),
                           At("done", pruneHeight)) :
          /\ stateKeys' = [stateKeys EXCEPT ![prefix] = s.keys]
          /\ spc' = s.pos
  /\ UNCHANGED <<node, base, blocks, index, vals, run, bpc, faults>>

StateStoreFails ==
  /\ faults < MaxFaults /\ faults' = faults + 1
  /\ \/ /\ spc.at = "keys"
        /\ LET prefix == StateKeyInfos[spc.k]
           IN \E left \in FailedRange(stateKeys[prefix], FALSE, spc) :
                stateKeys' = [stateKeys EXCEPT ![prefix] = left]
     \/ spc.at = "done" /\ UNCHANGED stateKeys
  /\ spc' = At("failed", pruneHeight)
  /\ UNCHANGED <<node, base, blocks, index, vals, run, bpc>>

-----------------------------------------------------------------------------
(* g.Wait() and what follows. *)

BaseFromLowestMeta(wantBase) ==
  IF blocks["H:"] = {} THEN base ELSE Min(blocks["H:"])

BlockStoreBaseAbove(wantBase) ==
  LET metas == {h \in blocks["H:"] : ToInt64(wantBase) < h /\ h <= height}
  IN  IF metas = {} THEN base ELSE Min(metas)

\* setBlockStoreBase: scanning upward from wantBase as a uint64 that wraps,
\* the first height with a block meta; the old base if there is none.
BlockStoreBase(wantBase) ==
  LET metas == {h \in blocks["H:"] : ToInt64(wantBase) <= h /\ h <= height}
  IN  IF metas = {} THEN base ELSE Min(metas)

EndRun(how) ==
  /\ phase' = "node" /\ result' = how
  /\ bpc' = Idle /\ spc' = Idle
  /\ UNCHANGED <<node, blocks, index, stateKeys, vals, keep, pruneHeight, floor, runs>>

BothEnded == bpc.at \in {"done", "failed"} /\ spc.at \in {"done", "failed"}

FinishPrune ==
  /\ bpc.at = "done" /\ spc.at = "done"
  /\ base' = BlockStoreBase((pruneHeight + 1) % Modulus)
  /\ EndRun("ok") /\ UNCHANGED faults

\* A failure to write the base is only logged.
FinishWithoutBase ==
  /\ bpc.at = "done" /\ spc.at = "done" /\ faults < MaxFaults
  /\ faults' = faults + 1
  /\ EndRun("nobase") /\ UNCHANGED base

FinishWithError ==
  /\ BothEnded /\ "failed" \in {bpc.at, spc.at}
  /\ EndRun("error") /\ UNCHANGED <<base, faults>>

Crash ==
  /\ phase = "prune" /\ faults < MaxFaults
  /\ faults' = faults + 1
  /\ EndRun("crash") /\ UNCHANGED base

\* basefix --set, run by the operator: the base becomes the lowest block
\* meta there is.  Without one, or without --set, nothing is written.
Basefix ==
  /\ phase = "node" /\ blocks["H:"] # {}
  /\ base' = Min(blocks["H:"]) /\ result' = "fixed"
  /\ UNCHANGED <<node, blocks, index, stateKeys, vals, phase, keep, pruneHeight, floor,
                 bpc, spc, runs, faults>>

Next ==
  \/ SaveBlock \/ ApplyBlock \/ Basefix
  \/ \E k \in Keeps : StartPrune(k)
  \/ PruneBlockKeys \/ PruneBlockHashes \/ PruneTxIndex \/ IndexIteratorStops
  \/ BlockStoreFails
  \/ FindValidatorCutoff \/ FindOlderCutoff \/ PruneValidatorKeys
  \/ ValidatorHistoryFails \/ PruneStateKeys \/ StateStoreFails
  \/ FinishPrune \/ FinishWithoutBase \/ FinishWithError \/ Crash

Spec == Init /\ [][Next]_vars

BlockStoreStep == PruneBlockKeys \/ PruneBlockHashes \/ PruneTxIndex
StateStoreStep == FindValidatorCutoff \/ PruneValidatorKeys \/ PruneStateKeys

\* Each goroutine of a run that is not killed keeps running, and so does the
\* caller that waits for both.  Nothing is assumed of the node or the operator.
FairSpec ==
  /\ Spec
  /\ WF_vars(BlockStoreStep) /\ WF_vars(StateStoreStep)
  /\ WF_vars(FinishPrune \/ FinishWithError)

-----------------------------------------------------------------------------
(* Properties. *)

Position(stages, lastPrefix) ==
  [at : stages, k : 1 .. lastPrefix, d : 1 .. MaxDigits, end : Nat]

\* Every variable keeps its type; in particular the loops of
\* deleteHeightRange and pruneKeys never index a prefix or a number of
\* digits that is out of range.
TypeOK ==
  /\ {first, height, base, applied} \subseteq Nat
  /\ blocks \in [BlockPrefixes -> SUBSET Nat]
  /\ index \in [Indexes -> SUBSET Nat]
  /\ stateKeys \in [StatePrefixes -> SUBSET Nat]
  /\ vals \subseteq Nat /\ full \subseteq Nat
  /\ phase \in {"node", "prune"} /\ keep \in Nat
  /\ pruneHeight \in Nat /\ floor \in Nat
  /\ bpc \in Position({"idle", "keys", "BH", "TH", "done", "failed"}, 5)
  /\ spc \in Position({"idle", "find", "vals", "keys", "done", "failed"}, 2)
  /\ result \in {"none", "ok", "nobase", "error", "crash", "fixed"}
  /\ runs \in Nat /\ faults \in Nat

\* The blocks that --keep-blocks asks to keep stay readable whatever the
\* interleaving, the failures and the reruns: each height above
\* LastBlockHeight - keepBlocks of every run keeps its key under all five
\* block prefixes.
RetainedBlocks ==
  \A p \in BlockPrefixes : \A h \in first .. height - Lag(p) :
    h > floor => h \in blocks[p]

\* The same heights keep their ABCI responses and consensus parameters in
\* the state store and their transactions in the index, so no block is
\* retained in one store and lost from the other.
RetainedState ==
  /\ \A p \in StatePrefixes : \A h \in first .. applied + Lead(p) :
       h > floor => h \in stateKeys[p]
  /\ \A h \in first .. applied : h > floor => h \in index["TH:"]

\* A height whose complete validator set a height h refers to.
Referenced(h) == {a \in full : a <= h /\ \A b \in full : b <= h => b <= a}

\* pruneValidatorHistory never cuts a reference: each of the last
\* ValHistoryToKeep heights has its validatorsKey and the key with the
\* complete set that it points to, although the cutoff is found from the
\* last key in the order of strings.
ValidatorsLoadable ==
  \A h \in first .. applied + 2 : h + ValHistoryToKeep > applied + 2 =>
    h \in vals /\ Referenced(h) \subseteq vals

\* After a run that succeeded, kept at least one block and pruned as far as
\* any run before it, every height from base on has a block meta: /status
\* and block sync can rely on base..height.
BaseContiguous ==
  (phase = "node" /\ result = "ok" /\ keep > 0 /\ pruneHeight = floor)
    => base .. height \subseteq blocks["H:"]

\* No run or repair, whatever failed before, moves the base past a block that
\* is retained: the node serves no block below its base.
BaseCoversRetained ==
  base <= height /\ \A h \in first .. height : h > floor => base <= h

\* What a successful run leaves below pruneHeight when no run failed: only
\* keys of an all-nines height, whichever the prefix, as long as pruneHeight
\* is not itself a power of ten, and the commit of height 0 that a node
\* stores with the block of height 1.
OrphansOnly ==
  (phase = "node" /\ result = "ok" /\ faults = 0
     /\ pruneHeight \notin PowersOfBase)
    => LET left(keys) == {h \in keys : h < pruneHeight}
       IN /\ \A p \in BlockPrefixes : left(blocks[p]) \subseteq AllNines \cup {0}
          /\ \A p \in StatePrefixes : left(stateKeys[p]) \subseteq AllNines

\* A run ends: both deletion loops and the wait for them terminate.
PruneTerminates == phase = "prune" ~> phase = "node"

=============================================================================
