-------------------------- MODULE CometPruneProofs --------------------------
(***************************************************************************)
(* For every base, word size, history length and number of runs, failures  *)
(* and kills: the types are right, the heights that --keep-blocks retains  *)
(* keep all their keys, and the recent validator sets stay loadable.       *)
(***************************************************************************)
EXTENDS CometPrune, HeightRangeProofs

\* A goroutine that enters a stage is at a valid position.
LEMMA AtType ==
  ASSUME NEW S, NEW stage \in S, NEW end \in Nat, NEW n \in Nat \ {0}
  PROVE  At(stage, end) \in Position(S, n)
  BY DigitsType DEF At, Position

\* Where a loop may go after a batch.
AfterBatch(pos, lastPrefix, after) ==
  {LoopNext(pos, stop, lastPrefix, after) : stop \in BOOLEAN}

\* A batch deletes no key above the end of the range, and the loop moves to
\* fewer digits, to the next prefix, or to what follows.
LEMMA RangeStepEffect ==
  ASSUME NEW keys, NEW twoParts, NEW pos, NEW lastPrefix, NEW after,
         NEW s \in RangeStep(keys, twoParts, pos, lastPrefix, after)
  PROVE  /\ s.keys \subseteq keys
         /\ \A h \in keys \ s.keys : h <= pos.end
         /\ s.pos \in AfterBatch(pos, lastPrefix, after)
<1>1. PICK rangeEnd \in RangeEnds(pos.end, pos.d) :
        s = LET skip == RangeStart(pos.d) > rangeEnd
                batch == IF skip THEN {}
                         ELSE RangeBatch(keys, twoParts, pos.end, pos.d, rangeEnd)
            IN  [keys |-> keys \ batch,
                 pos |-> LoopNext(pos, ~skip /\ batch = {}, lastPrefix, after)]
  BY DEF RangeStep
<1> DEFINE skip == RangeStart(pos.d) > rangeEnd
           batch == IF skip THEN {}
                    ELSE RangeBatch(keys, twoParts, pos.end, pos.d, rangeEnd)
<1>2. s.keys = keys \ batch /\ s.pos = LoopNext(pos, ~skip /\ batch = {}, lastPrefix, after)
  BY <1>1
<1>3. \A h \in batch : h \in keys /\ h <= pos.end
  BY DEF RangeBatch
<1>4. (~skip /\ batch = {}) \in BOOLEAN
  OBVIOUS
<1> HIDE DEF skip, batch
<1> QED
  BY <1>2, <1>3, <1>4 DEF AfterBatch

\* The same holds of a batch that fails.
LEMMA FailedRangeEffect ==
  ASSUME NEW keys, NEW twoParts, NEW pos, NEW left \in FailedRange(keys, twoParts, pos)
  PROVE  left \subseteq keys /\ \A h \in keys \ left : h <= pos.end
  BY DEF FailedRange, RangeBatch

\* The next position of a loop is a valid one.
LEMMA LoopNextType ==
  ASSUME NEW S, NEW n \in Nat \ {0}, NEW pos \in Position(S, n),
         NEW last \in Nat, last <= n, NEW after \in Position(S, n)
  PROVE  AfterBatch(pos, last, after) \subseteq Position(S, n)
<1>1. pos.at \in S /\ pos.k \in 1 .. n /\ pos.d \in 1 .. MaxDigits /\ pos.end \in Nat
  BY DEF Position
<1>2. pos.d > 1 => Move(pos, pos.k, pos.d - 1) \in Position(S, n)
  BY <1>1, MaxDigitsAssumption DEF Move, Position
<1>3. pos.k < last => Move(pos, pos.k + 1, Digits(pos.end)) \in Position(S, n)
  BY <1>1, DigitsType DEF Move, Position
<1> QED
  BY <1>2, <1>3 DEF AfterBatch, LoopNext

-----------------------------------------------------------------------------
(* Type correctness. *)

BlockStages == {"idle", "keys", "BH", "TH", "done", "failed"}
StateStages == {"idle", "find", "vals", "keys", "done", "failed"}

\* The positions each goroutine may enter.
LEMMA StageTypes ==
  ASSUME NEW end \in Nat
  PROVE  /\ \A stage \in BlockStages : At(stage, end) \in Position(BlockStages, 5)
         /\ \A stage \in StateStages : At(stage, end) \in Position(StateStages, 2)
  BY AtType

\* The initial state is well typed.
LEMMA InitType == Init => TypeOK
<1> SUFFICES ASSUME Init PROVE TypeOK
  OBVIOUS
<1>1. Idle \in Position(BlockStages, 5) /\ Idle \in Position(StateStages, 2)
  BY AtType DEF Idle, BlockStages, StateStages
<1>2. first \in Nat \ {0}
  BY HeightsAssumption DEF Init
<1>3. /\ \A p \in BlockPrefixes : first - Lag(p) \in Nat
      /\ \A p \in StatePrefixes : first + Lead(p) \in Nat
  BY <1>2 DEF Lag, Lead
<1>4. /\ blocks \in [BlockPrefixes -> SUBSET Nat]
      /\ stateKeys \in [StatePrefixes -> SUBSET Nat]
      /\ index \in [Indexes -> SUBSET Nat]
      /\ vals \subseteq Nat
  BY <1>2, <1>3 DEF Init
<1> QED
  BY <1>1, <1>2, <1>4 DEF Init, TypeOK, BlockStages, StateStages

\* The node keeps the types.
LEMMA NodeType ==
  ASSUME TypeOK, SaveBlock \/ ApplyBlock
  PROVE  TypeOK'
<1>1. CASE SaveBlock
  <2>1. \A p \in BlockPrefixes : height + 1 - Lag(p) \in Nat
    BY DEF Lag, TypeOK
  <2>2. blocks' \in [BlockPrefixes -> SUBSET Nat]
    BY <1>1, <2>1 DEF SaveBlock, TypeOK
  <2>3. index' \in [Indexes -> SUBSET Nat]
    BY <1>1 DEF SaveBlock, TypeOK, Indexes
  <2> QED
    BY <1>1, <2>2, <2>3 DEF SaveBlock, TypeOK, run
<1>2. CASE ApplyBlock
  <2>1. \A p \in StatePrefixes : height + Lead(p) \in Nat
    BY DEF Lead, TypeOK
  <2>2. stateKeys' \in [StatePrefixes -> SUBSET Nat]
    BY <1>2, <2>1 DEF ApplyBlock, TypeOK
  <2>3. index' \in [Indexes -> SUBSET Nat]
    BY <1>2 DEF ApplyBlock, TypeOK, Indexes
  <2>4. height \in Nat /\ vals \subseteq Nat /\ full \subseteq Nat
    BY DEF TypeOK
  <2>5. vals' = vals \cup {height + 2} /\ full' \in {full, full \cup {height + 2}}
    BY <1>2 DEF ApplyBlock
  <2>6. vals' \subseteq Nat /\ full' \subseteq Nat
    BY <2>4, <2>5
  <2>7. {first', height', base', applied'} \subseteq Nat
    BY <1>2 DEF ApplyBlock, TypeOK
  <2> QED
    BY <1>2, <2>2, <2>3, <2>6, <2>7 DEF ApplyBlock, TypeOK, run
<1> QED
  BY <1>1, <1>2

\* Starting a run keeps the types: pruneHeight is an unsigned integer even
\* when the subtraction wraps around.
LEMMA StartType ==
  ASSUME TypeOK, NEW k \in Keeps, StartPrune(k)
  PROVE  TypeOK'
<1>1. k \in Nat /\ pruneHeight' \in Nat
  BY KeepsAssumption, UintMinusType DEF StartPrune, TypeOK
<1>2. floor' \in Nat
  BY <1>1, MaxPair DEF StartPrune, TypeOK
<1>3. bpc' \in Position(BlockStages, 5) /\ spc' \in Position(StateStages, 2)
  BY <1>1, StageTypes DEF StartPrune, BlockStages, StateStages
<1> QED
  BY <1>1, <1>2, <1>3 DEF StartPrune, TypeOK, node, BlockStages, StateStages

\* The goroutine of the block store keeps the types.
LEMMA BlockStoreType ==
  ASSUME TypeOK,
         \/ PruneBlockKeys \/ PruneBlockHashes \/ PruneTxIndex \/ IndexIteratorStops
         \/ BlockStoreFails
  PROVE  TypeOK'
<1>0. bpc \in Position(BlockStages, 5) /\ bpc.k \in 1 .. 5 /\ pruneHeight \in Nat
  BY DEF TypeOK, Position, BlockStages
<1>1. BlockKeyInfos[bpc.k].prefix \in BlockPrefixes /\ Len(BlockKeyInfos) = 5
  BY <1>0 DEF BlockKeyInfos, BlockPrefixes
<1>2. CASE PruneBlockKeys
  <2> DEFINE info == BlockKeyInfos[bpc.k]
  <2>1. PICK s \in RangeStep(blocks[info.prefix], info.twoParts, bpc, 5,
                             At("BH", pruneHeight)) :
          /\ blocks' = [blocks EXCEPT ![info.prefix] = s.keys]
          /\ bpc' = s.pos
    BY <1>1, <1>2 DEF PruneBlockKeys
  <2>2. s.keys \subseteq blocks[info.prefix]
    BY <2>1, RangeStepEffect
  <2>3. s.pos \in Position(BlockStages, 5)
    <3>1. At("BH", pruneHeight) \in Position(BlockStages, 5)
      BY <1>0, StageTypes DEF BlockStages
    <3>2. s.pos \in AfterBatch(bpc, 5, At("BH", pruneHeight))
      BY <2>1, RangeStepEffect
    <3> QED
      BY <1>0, <3>1, <3>2, LoopNextType
  <2> HIDE DEF info
  <2>4. blocks' \in [BlockPrefixes -> SUBSET Nat]
    BY <1>1, <2>1, <2>2 DEF TypeOK, info
  <2> QED
    BY <1>2, <2>1, <2>3, <2>4 DEF PruneBlockKeys, TypeOK, BlockStages, node, run
<1>3. CASE PruneBlockHashes
  <2>1. bpc' \in Position(BlockStages, 5) /\ index' \in [Indexes -> SUBSET Nat]
    BY <1>0, <1>3, StageTypes DEF PruneBlockHashes, TypeOK, BlockStages
  <2> QED
    BY <1>3, <2>1 DEF PruneBlockHashes, TypeOK, BlockStages, node, run
<1>4. CASE PruneTxIndex
  <2>1. bpc' \in Position(BlockStages, 5) /\ index' \in [Indexes -> SUBSET Nat]
    BY <1>0, <1>4, StageTypes DEF PruneTxIndex, TypeOK, Indexes, BlockStages
  <2> QED
    BY <1>4, <2>1 DEF PruneTxIndex, TypeOK, BlockStages, node, run
<1>5. CASE BlockStoreFails
  <2>1. bpc' \in Position(BlockStages, 5)
    BY <1>0, <1>5, StageTypes DEF BlockStoreFails, BlockStages
  <2>2. blocks' \in [BlockPrefixes -> SUBSET Nat]
    BY <1>1, <1>5, FailedRangeEffect DEF BlockStoreFails, TypeOK
  <2> QED
    BY <1>5, <2>1, <2>2 DEF BlockStoreFails, TypeOK, BlockStages, node, run
<1>6. CASE IndexIteratorStops
  <2>1. bpc' \in Position(BlockStages, 5)
    BY <1>0, <1>6, StageTypes DEF IndexIteratorStops, BlockStages
  <2>2. index' \in [Indexes -> SUBSET Nat]
    BY <1>6 DEF IndexIteratorStops, TypeOK, Indexes
  <2> QED
    BY <1>6, <2>1, <2>2 DEF IndexIteratorStops, TypeOK, BlockStages, node, run
<1> QED
  BY <1>2, <1>3, <1>4, <1>5, <1>6

\* The anchor is a height that has a validatorsKey with a complete set, at
\* least ValHistoryToKeep below some height that has one.
LEMMA CutoffEffect ==
  ASSUME TypeOK, ValidatorPruneCutoff # 0
  PROVE  /\ ValidatorPruneCutoff \in Int
         /\ ValidatorPruneCutoff + 1 \in vals \cap full
         /\ \E l \in vals : ValidatorPruneCutoff + 1 + ValHistoryToKeep <= l
<1> DEFINE a == CHOOSE h \in ValidatorAnchor : TRUE
<1>1. a \in ValidatorAnchor /\ ValidatorPruneCutoff = a - 1
  BY DEF ValidatorPruneCutoff
<1>2. PICK l \in LatestValidatorHeight : a \in AnchorCheckpoint(l - ValHistoryToKeep)
  BY <1>1 DEF ValidatorAnchor
<1>3. l \in vals /\ a \in vals \cap full /\ a <= l - ValHistoryToKeep
  BY <1>2 DEF LatestValidatorHeight, AnchorCheckpoint, Checkpoints
<1> HIDE DEF a
<1>4. a \in Nat /\ l \in Nat
  BY <1>3 DEF TypeOK
<1>5. ValidatorPruneCutoff + 1 = a
  BY <1>1, <1>4
<1> QED
  BY <1>1, <1>3, <1>4, <1>5, ValHistoryAssumption

\* So is an older one.
LEMMA OlderCutoffEffect ==
  ASSUME TypeOK, FindOlderCutoff
  PROVE  \E h \in vals \cap full :
           /\ spc' = IF h = 1 THEN At("keys", pruneHeight) ELSE At("vals", h - 1)
           /\ \E l \in vals : h + ValHistoryToKeep <= l
<1>0. PICK l \in LatestValidatorHeight : \E h \in Checkpoints(l - ValHistoryToKeep) :
        spc' = IF h = 1 THEN At("keys", pruneHeight) ELSE At("vals", h - 1)
  BY DEF FindOlderCutoff
<1>1. PICK h \in Checkpoints(l - ValHistoryToKeep) :
        spc' = IF h = 1 THEN At("keys", pruneHeight) ELSE At("vals", h - 1)
  BY <1>0
<1>2. l \in vals /\ h \in vals \cap full /\ h <= l - ValHistoryToKeep
  BY <1>1 DEF LatestValidatorHeight, Checkpoints
<1>3. h + ValHistoryToKeep <= l
  BY <1>2, ValHistoryAssumption DEF TypeOK
<1> QED
  BY <1>1, <1>2, <1>3

\* Every validatorsKey is that of a positive height.
PositiveHeights == 0 \notin vals

\* The goroutine of the state store keeps the types.
LEMMA StateStoreType ==
  ASSUME TypeOK, PositiveHeights,
         \/ FindValidatorCutoff \/ FindOlderCutoff \/ PruneValidatorKeys
         \/ ValidatorHistoryFails \/ PruneStateKeys \/ StateStoreFails
  PROVE  TypeOK'
<1>0. spc \in Position(StateStages, 2) /\ spc.k \in 1 .. 2 /\ pruneHeight \in Nat
  BY DEF TypeOK, Position, StateStages
<1>1. StateKeyInfos[spc.k] \in StatePrefixes /\ Len(StateKeyInfos) = 2
  BY <1>0 DEF StateKeyInfos, StatePrefixes
<1>2. At("keys", pruneHeight) \in Position(StateStages, 2)
      /\ At("done", pruneHeight) \in Position(StateStages, 2)
      /\ At("failed", pruneHeight) \in Position(StateStages, 2)
  BY <1>0, StageTypes DEF StateStages
<1>3. CASE FindValidatorCutoff
  <2>1. ValidatorPruneCutoff \in Nat
    BY CutoffEffect DEF PositiveHeights, TypeOK
  <2>2. At("vals", ValidatorPruneCutoff) \in Position(StateStages, 2)
    BY <2>1, StageTypes DEF StateStages
  <2>3. spc' \in Position(StateStages, 2)
    BY <1>2, <1>3, <2>2 DEF FindValidatorCutoff
  <2> QED
    BY <1>3, <2>3 DEF FindValidatorCutoff, TypeOK, StateStages, node, run
<1>4. CASE PruneValidatorKeys
  <2>1. PICK s \in RangeStep(vals, FALSE, spc, 1, At("keys", pruneHeight)) :
          vals' = s.keys /\ spc' = s.pos
    BY <1>4 DEF PruneValidatorKeys
  <2>2. vals' \subseteq Nat
    BY <2>1, RangeStepEffect DEF TypeOK
  <2>3. s.pos \in AfterBatch(spc, 1, At("keys", pruneHeight))
    BY <2>1, RangeStepEffect
  <2>4. spc' \in Position(StateStages, 2)
    BY <1>0, <1>2, <2>1, <2>3, LoopNextType
  <2> QED
    BY <1>4, <2>2, <2>4 DEF PruneValidatorKeys, TypeOK, StateStages, node, run
<1>5. CASE ValidatorHistoryFails
  <2>1. vals' \subseteq Nat
    BY <1>5, FailedRangeEffect DEF ValidatorHistoryFails, TypeOK
  <2>2. spc' \in Position(StateStages, 2)
    BY <1>2, <1>5 DEF ValidatorHistoryFails
  <2> QED
    BY <1>5, <2>1, <2>2 DEF ValidatorHistoryFails, TypeOK, StateStages, node, run
<1>6. CASE PruneStateKeys
  <2> DEFINE prefix == StateKeyInfos[spc.k]
  <2>1. PICK s \in RangeStep(stateKeys[prefix], FALSE, spc, 2, At("done", pruneHeight)) :
          /\ stateKeys' = [stateKeys EXCEPT ![prefix] = s.keys]
          /\ spc' = s.pos
    BY <1>1, <1>6 DEF PruneStateKeys
  <2>2. s.keys \subseteq stateKeys[prefix]
    BY <2>1, RangeStepEffect
  <2>3. s.pos \in AfterBatch(spc, 2, At("done", pruneHeight))
    BY <2>1, RangeStepEffect
  <2>4. spc' \in Position(StateStages, 2)
    BY <1>0, <1>2, <2>1, <2>3, LoopNextType
  <2>5. stateKeys' \in [StatePrefixes -> SUBSET Nat]
    BY <1>1, <2>1, <2>2 DEF TypeOK
  <2> QED
    BY <1>6, <2>4, <2>5 DEF PruneStateKeys, TypeOK, StateStages, node, run
<1>7. CASE StateStoreFails
  <2> DEFINE prefix == StateKeyInfos[spc.k]
  <2>0. \/ UNCHANGED stateKeys
        \/ \E left \in SUBSET stateKeys[prefix] :
             stateKeys' = [stateKeys EXCEPT ![prefix] = left]
    BY <1>7, FailedRangeEffect DEF StateStoreFails
  <2>1. stateKeys' \in [StatePrefixes -> SUBSET Nat]
    BY <1>1, <2>0 DEF TypeOK
  <2>2. spc' \in Position(StateStages, 2)
    BY <1>2, <1>7 DEF StateStoreFails
  <2> QED
    BY <1>7, <2>1, <2>2 DEF StateStoreFails, TypeOK, StateStages, node, run
<1>8. CASE FindOlderCutoff
  <2>1. PICK h \in vals :
          spc' = IF h = 1 THEN At("keys", pruneHeight) ELSE At("vals", h - 1)
    BY <1>8, OlderCutoffEffect
  <2>2. h - 1 \in Nat
    BY DEF TypeOK, PositiveHeights
  <2>3. spc' \in Position(StateStages, 2)
    BY <1>2, <2>1, <2>2, StageTypes DEF StateStages
  <2> QED
    BY <1>8, <2>3 DEF FindOlderCutoff, TypeOK, StateStages, node, run
<1> QED
  BY <1>3, <1>4, <1>5, <1>6, <1>7, <1>8

\* The end of a run keeps the types: the new base is a height with a meta.
LEMMA FinishType ==
  ASSUME TypeOK, FinishPrune \/ FinishWithoutBase \/ FinishWithError \/ Crash
  PROVE  TypeOK'
<1>1. Idle \in Position(BlockStages, 5) /\ Idle \in Position(StateStages, 2)
  BY StageTypes DEF Idle, BlockStages, StateStages
<1>2. \A w : BlockStoreBase(w) \in Nat
  <2> TAKE w
  <2> DEFINE metas == {h \in blocks["H:"] : ToInt64(w) <= h /\ h <= height}
  <2>1. metas \in SUBSET Nat
    BY DEF TypeOK, BlockPrefixes
  <2> HIDE DEF metas
  <2>2. metas # {} => Min(metas) \in Nat
    BY <2>1, MinNat
  <2> QED
    BY <2>2 DEF BlockStoreBase, TypeOK, metas
<1>3. base' \in Nat /\ faults' \in Nat
  BY <1>2 DEF FinishPrune, FinishWithoutBase, FinishWithError, Crash, TypeOK
<1>4. \E how \in {"ok", "nobase", "error", "crash"} : EndRun(how)
  BY DEF FinishPrune, FinishWithoutBase, FinishWithError, Crash
<1> QED
  BY <1>1, <1>3, <1>4 DEF EndRun, TypeOK, BlockStages, StateStages, node

\* So does the repair of the base.
LEMMA BasefixType ==
  ASSUME TypeOK, Basefix
  PROVE  TypeOK'
<1>1. blocks["H:"] \in SUBSET Nat /\ blocks["H:"] # {}
  BY DEF TypeOK, BlockPrefixes, Basefix
<1>2. base' \in Nat
  BY <1>1, MinNat DEF Basefix
<1> QED
  BY <1>2 DEF Basefix, TypeOK, node

\* Pruning only removes keys of the validators, the node adds positive ones.
LEMMA PositiveHeightsStep ==
  ASSUME TypeOK, PositiveHeights, [Next]_vars
  PROVE  PositiveHeights'
<1>1. CASE ApplyBlock
  BY <1>1 DEF ApplyBlock, PositiveHeights, TypeOK
<1>2. CASE PruneValidatorKeys \/ ValidatorHistoryFails
  <2>1. vals' \subseteq vals
    BY <1>2, RangeStepEffect, FailedRangeEffect DEF PruneValidatorKeys, ValidatorHistoryFails
  <2> QED
    BY <2>1 DEF PositiveHeights
<1>3. CASE ~(ApplyBlock \/ PruneValidatorKeys \/ ValidatorHistoryFails)
  <2>1. UNCHANGED vals
    BY <1>3 DEF Next, SaveBlock, Basefix, StartPrune, PruneBlockKeys, PruneBlockHashes,
       PruneTxIndex, IndexIteratorStops, BlockStoreFails, FindValidatorCutoff,
       FindOlderCutoff, PruneStateKeys,
       StateStoreFails, FinishPrune, FinishWithoutBase, FinishWithError, Crash,
       EndRun, vars
  <2> QED
    BY <2>1 DEF PositiveHeights
<1> QED
  BY <1>1, <1>2, <1>3

\* Every variable keeps its type, for all values of the constants.
THEOREM TypeCorrect == Spec => [](TypeOK /\ PositiveHeights)
<1>1. Init => TypeOK /\ PositiveHeights
  <2>1. Init => PositiveHeights
    BY HeightsAssumption DEF Init, PositiveHeights
  <2> QED
    BY <2>1, InitType
<1>2. TypeOK /\ PositiveHeights /\ [Next]_vars => (TypeOK /\ PositiveHeights)'
  <2> SUFFICES ASSUME TypeOK, PositiveHeights, [Next]_vars
               PROVE  TypeOK' /\ PositiveHeights'
    OBVIOUS
  <2>1. CASE UNCHANGED vars
    BY <2>1 DEF vars, TypeOK, PositiveHeights
  <2>2. CASE Next
    BY <2>2, NodeType, StartType, BlockStoreType, StateStoreType, FinishType,
       BasefixType, PositiveHeightsStep DEF Next
  <2> QED
    BY <2>1, <2>2
<1> QED
  BY <1>1, <1>2, PTL DEF Spec

-----------------------------------------------------------------------------
(* The retained heights. *)

\* After a batch a loop is at the same stage with the same end, or at the
\* stage that follows.
LEMMA AfterBatchKeeps ==
  ASSUME NEW pos, NEW last, NEW after, NEW p \in AfterBatch(pos, last, after)
  PROVE  p = after \/ (p.at = pos.at /\ p.end = pos.end)
  BY DEF AfterBatch, LoopNext, Move

\* --keep-blocks does not exceed the height of the node, which fits in a word.
KeepsFit ==
  /\ MaxHeight \in Nat /\ MaxHeight < Modulus
  /\ \A f \in InitialHeights : f <= MaxHeight /\ \A k \in Keeps : k <= f

\* No loop deletes above pruneHeight, and no run has a pruneHeight above
\* what the operator gave up.
RetainInv ==
  /\ first \in InitialHeights /\ first <= applied /\ applied <= height
  /\ height <= applied + 1 /\ height <= MaxHeight
  /\ pruneHeight <= floor
  /\ bpc.at = "keys" => bpc.end = pruneHeight
  /\ spc.at = "keys" => spc.end = pruneHeight
  /\ RetainedBlocks
  /\ RetainedState

\* Deleting keys up to a height that is given up keeps the retained ones.
LEMMA DeleteBlocks ==
  ASSUME TypeOK, RetainedBlocks, NEW p \in BlockPrefixes, NEW left \in SUBSET Nat,
         \A h \in blocks[p] \ left : h <= floor,
         blocks' = [blocks EXCEPT ![p] = left], UNCHANGED <<first, height, floor>>
  PROVE  RetainedBlocks'
<1> SUFFICES ASSUME NEW q \in BlockPrefixes, NEW h \in first .. height - Lag(q), h > floor
             PROVE  h \in blocks'[q]
  BY DEF RetainedBlocks
<1>1. h \in blocks[q] /\ h \in Int /\ floor \in Nat
  BY DEF RetainedBlocks, TypeOK
<1> QED
  BY <1>1 DEF TypeOK

\* The same for the keys of the state store.
LEMMA DeleteState ==
  ASSUME TypeOK, RetainedState, NEW p \in StatePrefixes, NEW left \in SUBSET Nat,
         \A h \in stateKeys[p] \ left : h <= floor,
         stateKeys' = [stateKeys EXCEPT ![p] = left],
         UNCHANGED <<first, applied, floor, index>>
  PROVE  RetainedState'
<1>1. ASSUME NEW q \in StatePrefixes, NEW h \in first .. applied + Lead(q), h > floor
      PROVE  h \in stateKeys'[q]
  <2>1. h \in stateKeys[q] /\ h \in Int /\ floor \in Nat
    BY <1>1 DEF RetainedState, TypeOK
  <2> QED
    BY <1>1, <2>1 DEF TypeOK
<1> QED
  BY <1>1 DEF RetainedState

\* Initially nothing is given up and the first height has all its keys.
LEMMA RetainInit == KeepsFit /\ Init => RetainInv
<1> SUFFICES ASSUME KeepsFit, Init PROVE RetainInv
  OBVIOUS
<1>1. first \in Nat \ {0}
  BY HeightsAssumption DEF Init
<1>2. bpc.at = "idle" /\ spc.at = "idle"
  BY DEF Init, Idle, At
<1>3. RetainedBlocks
  BY <1>1 DEF Init, RetainedBlocks, Lag
<1>4. RetainedState
  BY <1>1 DEF Init, RetainedState, Lead, Indexes
<1> QED
  BY <1>1, <1>2, <1>3, <1>4 DEF Init, RetainInv, KeepsFit

\* The node adds the keys of the next height.
LEMMA RetainNode ==
  ASSUME KeepsFit, TypeOK, RetainInv, SaveBlock \/ ApplyBlock
  PROVE  RetainInv'
<1> USE DEF RetainInv
<1>1. CASE SaveBlock
  <2>1. RetainedBlocks'
    BY <1>1 DEF SaveBlock, RetainedBlocks, Lag, TypeOK, run
  <2>2. RetainedState'
    BY <1>1 DEF SaveBlock, RetainedState, TypeOK, Indexes, run
  <2> QED
    BY <1>1, <2>1, <2>2 DEF SaveBlock, TypeOK, KeepsFit, run
<1>2. CASE ApplyBlock
  <2>1. RetainedBlocks'
    BY <1>2 DEF ApplyBlock, RetainedBlocks, run
  <2>2. height = applied + 1
    BY <1>2 DEF ApplyBlock, TypeOK
  <2>3. ASSUME NEW p \in StatePrefixes, NEW h \in first .. applied' + Lead(p), h > floor
        PROVE  h \in stateKeys'[p]
    <3>1. h <= applied + Lead(p) \/ h = height + Lead(p)
      BY <1>2, <2>2, <2>3 DEF ApplyBlock, TypeOK, Lead
    <3> QED
      BY <1>2, <2>3, <3>1 DEF ApplyBlock, RetainedState, TypeOK, Lead
  <2>4. \A h \in first .. applied' : h > floor => h \in index'["TH:"]
    BY <1>2, <2>2 DEF ApplyBlock, RetainedState, TypeOK, Indexes
  <2>5. RetainedState'
    BY <1>2, <2>3, <2>4 DEF ApplyBlock, RetainedState, run
  <2> QED
    BY <1>2, <2>1, <2>5 DEF ApplyBlock, TypeOK, run
<1> QED
  BY <1>1, <1>2

\* A run starts with a pruneHeight that is given up.
LEMMA RetainStart ==
  ASSUME KeepsFit, TypeOK, RetainInv, NEW k \in Keeps, StartPrune(k)
  PROVE  RetainInv'
<1>1. k \in Nat /\ k <= applied /\ applied < Modulus
  BY KeepsAssumption, ModulusAssumption, HeightsAssumption DEF RetainInv, KeepsFit, TypeOK
<1>2. pruneHeight' = applied - k
  BY <1>1, UintMinusType DEF StartPrune, TypeOK
<1>3. floor \in Nat /\ floor' \in Nat /\ floor <= floor' /\ pruneHeight' <= floor'
  BY <1>1, <1>2, MaxPair DEF StartPrune, TypeOK
<1>4. RetainedBlocks'
  BY <1>3 DEF StartPrune, RetainInv, RetainedBlocks, TypeOK, node
<1>5. RetainedState'
  <2>1. UNCHANGED <<first, applied, stateKeys, index>> /\ first \in Nat /\ applied \in Nat
    BY DEF StartPrune, TypeOK, node
  <2>2. \A p \in StatePrefixes : \A h \in first .. applied + Lead(p) :
          h > floor' => h \in stateKeys[p]
    BY <1>3, <2>1 DEF RetainInv, RetainedState, Lead
  <2>3. \A h \in first .. applied : h > floor' => h \in index["TH:"]
    BY <1>3, <2>1 DEF RetainInv, RetainedState
  <2> QED
    BY <2>1, <2>2, <2>3 DEF RetainedState
<1>6. bpc'.end = pruneHeight' /\ spc'.at = "find"
  BY DEF StartPrune, At
<1> QED
  BY <1>3, <1>4, <1>5, <1>6 DEF StartPrune, RetainInv, node

\* The block store goroutine deletes nothing above pruneHeight.
LEMMA RetainBlockStore ==
  ASSUME TypeOK, RetainInv,
         \/ PruneBlockKeys \/ PruneBlockHashes \/ PruneTxIndex \/ IndexIteratorStops
         \/ BlockStoreFails
  PROVE  RetainInv'
<1>0. pruneHeight \in Nat /\ floor \in Nat /\ pruneHeight <= floor /\ bpc.k \in 1 .. 5
  BY DEF TypeOK, RetainInv, Position
<1>1. BlockKeyInfos[bpc.k].prefix \in BlockPrefixes /\ Len(BlockKeyInfos) = 5
  BY <1>0 DEF BlockKeyInfos, BlockPrefixes
<1> DEFINE info == BlockKeyInfos[bpc.k]
<1>2. CASE PruneBlockKeys
  <2>1. PICK s \in RangeStep(blocks[info.prefix], info.twoParts, bpc, 5,
                             At("BH", pruneHeight)) :
          /\ blocks' = [blocks EXCEPT ![info.prefix] = s.keys]
          /\ bpc' = s.pos
    BY <1>1, <1>2 DEF PruneBlockKeys
  <2>2. s.keys \subseteq blocks[info.prefix] /\ \A h \in blocks[info.prefix] \ s.keys : h <= bpc.end
    BY <2>1, RangeStepEffect
  <2>3. bpc.end = pruneHeight /\ UNCHANGED <<node, run, index, stateKeys, spc>>
    BY <1>2 DEF PruneBlockKeys, RetainInv
  <2>4. bpc'.at = "keys" => bpc'.end = pruneHeight
    <3>1. s.pos \in AfterBatch(bpc, 5, At("BH", pruneHeight))
      BY <2>1, RangeStepEffect
    <3> QED
      BY <2>1, <2>3, <3>1, AfterBatchKeeps DEF At
  <2>5. RetainedBlocks'
    <3>1. blocks[info.prefix] \in SUBSET Nat
      BY <1>1 DEF TypeOK
    <3>2. \A h \in blocks[info.prefix] \ s.keys : h <= floor
      BY <1>0, <2>2, <2>3, <3>1
    <3> HIDE DEF info
    <3> QED
      BY <1>1, <2>1, <2>2, <2>3, <3>1, <3>2, DeleteBlocks DEF RetainInv, node, run, info
  <2>6. RetainedState'
    BY <2>3 DEF RetainInv, RetainedState, node, run
  <2> QED
    BY <2>3, <2>4, <2>5, <2>6 DEF RetainInv, node, run
<1>3. CASE PruneBlockHashes
  <2>1. index'["TH:"] = index["TH:"] /\ bpc'.at = "TH"
    BY <1>3 DEF PruneBlockHashes, TypeOK, Indexes, At
  <2> QED
    BY <1>3, <2>1 DEF PruneBlockHashes, RetainInv, RetainedBlocks, RetainedState, node, run
<1>4. CASE PruneTxIndex
  <2>1. ToInt64(pruneHeight) <= pruneHeight
    BY <1>0, ModulusAssumption DEF ToInt64
  <2>2. index'["TH:"] = {h \in index["TH:"] : ~(h < ToInt64(pruneHeight))} /\ bpc'.at = "done"
    BY <1>4 DEF PruneTxIndex, TypeOK, Indexes, At
  <2>3. ToInt64(pruneHeight) \in Int
    BY <1>0, ModulusAssumption DEF ToInt64
  <2>4. \A h \in first .. applied : h > floor => h \in index'["TH:"]
    BY <1>0, <2>1, <2>2, <2>3 DEF RetainInv, RetainedState, TypeOK
  <2> QED
    BY <1>4, <2>2, <2>4 DEF PruneTxIndex, RetainInv, RetainedBlocks, RetainedState, node, run
<1>5. CASE BlockStoreFails
  <2>1. bpc'.at = "failed" /\ UNCHANGED <<node, run, index, stateKeys, spc>>
    BY <1>5 DEF BlockStoreFails, At
  <2>2. RetainedBlocks'
    <3>1. CASE UNCHANGED blocks
      BY <2>1, <3>1 DEF RetainInv, RetainedBlocks, node, run
    <3>2. CASE bpc.at = "keys"
      <4>1. PICK left \in FailedRange(blocks[info.prefix], info.twoParts, bpc) :
              blocks' = [blocks EXCEPT ![info.prefix] = left]
        BY <1>5, <3>2 DEF BlockStoreFails
      <4>2. left \subseteq blocks[info.prefix] /\ \A h \in blocks[info.prefix] \ left : h <= bpc.end
        BY <4>1, FailedRangeEffect
      <4>3. blocks[info.prefix] \in SUBSET Nat
        BY <1>1 DEF TypeOK
      <4>4. \A h \in blocks[info.prefix] \ left : h <= floor
        BY <1>0, <3>2, <4>2, <4>3 DEF RetainInv
      <4> HIDE DEF info
      <4> QED
        BY <1>1, <2>1, <4>1, <4>2, <4>3, <4>4, DeleteBlocks DEF RetainInv, node, run, info
    <3> QED
      BY <1>5, <3>1, <3>2 DEF BlockStoreFails
  <2>3. RetainedState'
    BY <2>1 DEF RetainInv, RetainedState, node, run
  <2> QED
    BY <2>1, <2>2, <2>3 DEF RetainInv, node, run
<1>6. CASE IndexIteratorStops
  <2>1. ToInt64(pruneHeight) \in Int /\ ToInt64(pruneHeight) <= pruneHeight
    BY <1>0, ModulusAssumption DEF ToInt64
  <2>2. \A h \in index["TH:"] : h < ToInt64(pruneHeight) \/ h \in index'["TH:"]
    BY <1>6 DEF IndexIteratorStops, TypeOK, Indexes
  <2>3. \A h \in first .. applied : h > floor => h \in index'["TH:"]
    BY <1>0, <2>1, <2>2 DEF RetainInv, RetainedState, TypeOK
  <2>4. bpc'.at # "keys"
    BY <1>6 DEF IndexIteratorStops, At
  <2> QED
    BY <1>6, <2>3, <2>4 DEF IndexIteratorStops, RetainInv, RetainedBlocks,
       RetainedState, node, run
<1> QED
  BY <1>2, <1>3, <1>4, <1>5, <1>6

\* Nor does the state store goroutine.
LEMMA RetainStateStore ==
  ASSUME TypeOK, RetainInv,
         \/ FindValidatorCutoff \/ FindOlderCutoff \/ PruneValidatorKeys
         \/ ValidatorHistoryFails \/ PruneStateKeys \/ StateStoreFails
  PROVE  RetainInv'
<1>0. pruneHeight \in Nat /\ floor \in Nat /\ pruneHeight <= floor /\ spc.k \in 1 .. 2
  BY DEF TypeOK, RetainInv, Position
<1>1. StateKeyInfos[spc.k] \in StatePrefixes /\ Len(StateKeyInfos) = 2
  BY <1>0 DEF StateKeyInfos, StatePrefixes
<1> DEFINE prefix == StateKeyInfos[spc.k]
<1>2. UNCHANGED <<node, run, blocks, index, bpc>>
  BY DEF FindValidatorCutoff, FindOlderCutoff, PruneValidatorKeys,
     ValidatorHistoryFails, PruneStateKeys, StateStoreFails
<1>3. RetainedBlocks'
  BY <1>2 DEF RetainInv, RetainedBlocks, node, run
<1>4. (spc'.at = "keys" => spc'.end = pruneHeight) /\ RetainedState'
      => RetainInv'
  BY <1>2, <1>3 DEF RetainInv, node, run
<1>5. UNCHANGED stateKeys => RetainedState'
  BY <1>2 DEF RetainInv, RetainedState, node, run
<1>6. CASE FindValidatorCutoff \/ FindOlderCutoff \/ ValidatorHistoryFails
  <2>1. spc' = At("keys", pruneHeight) \/ \E end : spc' = At("vals", end)
    BY <1>6 DEF FindValidatorCutoff, FindOlderCutoff, ValidatorHistoryFails
  <2>2. spc'.at = "keys" => spc'.end = pruneHeight
    BY <2>1 DEF At
  <2>3. UNCHANGED stateKeys
    BY <1>6 DEF FindValidatorCutoff, FindOlderCutoff, ValidatorHistoryFails
  <2> QED
    BY <1>4, <1>5, <2>2, <2>3
<1>7. CASE PruneValidatorKeys
  <2>1. PICK s \in RangeStep(vals, FALSE, spc, 1, At("keys", pruneHeight)) : spc' = s.pos
    BY <1>7 DEF PruneValidatorKeys
  <2>2. s.pos \in AfterBatch(spc, 1, At("keys", pruneHeight))
    BY <2>1, RangeStepEffect
  <2>3. spc'.at = "keys" => spc'.end = pruneHeight
    BY <1>7, <2>1, <2>2, AfterBatchKeeps DEF PruneValidatorKeys, At
  <2> QED
    BY <1>4, <1>5, <1>7, <2>3 DEF PruneValidatorKeys
<1>8. CASE PruneStateKeys
  <2>1. PICK s \in RangeStep(stateKeys[prefix], FALSE, spc, 2, At("done", pruneHeight)) :
          /\ stateKeys' = [stateKeys EXCEPT ![prefix] = s.keys]
          /\ spc' = s.pos
    BY <1>1, <1>8 DEF PruneStateKeys
  <2>2. s.keys \subseteq stateKeys[prefix] /\ \A h \in stateKeys[prefix] \ s.keys : h <= spc.end
    BY <2>1, RangeStepEffect
  <2>3. s.pos \in AfterBatch(spc, 2, At("done", pruneHeight))
    BY <2>1, RangeStepEffect
  <2>4. spc.end = pruneHeight
    BY <1>8 DEF PruneStateKeys, RetainInv
  <2>5. spc'.at = "keys" => spc'.end = pruneHeight
    BY <2>1, <2>3, <2>4, AfterBatchKeeps DEF At
  <2>6. stateKeys[prefix] \in SUBSET Nat
    BY <1>1 DEF TypeOK
  <2>7. \A h \in stateKeys[prefix] \ s.keys : h <= floor
    BY <1>0, <2>2, <2>4, <2>6
  <2> HIDE DEF prefix
  <2>8. RetainedState'
    BY <1>1, <1>2, <2>1, <2>2, <2>6, <2>7, DeleteState DEF RetainInv, node, run, prefix
  <2> QED
    BY <1>4, <2>5, <2>8
<1>9. CASE StateStoreFails
  <2>1. spc'.at = "failed"
    BY <1>9 DEF StateStoreFails, At
  <2>2. CASE UNCHANGED stateKeys
    BY <1>4, <1>5, <2>1, <2>2
  <2>3. CASE spc.at = "keys"
    <3>1. PICK left \in FailedRange(stateKeys[prefix], FALSE, spc) :
            stateKeys' = [stateKeys EXCEPT ![prefix] = left]
      BY <1>9, <2>3 DEF StateStoreFails
    <3>2. left \subseteq stateKeys[prefix] /\ \A h \in stateKeys[prefix] \ left : h <= spc.end
      BY <3>1, FailedRangeEffect
    <3>3. stateKeys[prefix] \in SUBSET Nat
      BY <1>1 DEF TypeOK
    <3>4. \A h \in stateKeys[prefix] \ left : h <= floor
      BY <1>0, <2>3, <3>2, <3>3 DEF RetainInv
    <3> HIDE DEF prefix
    <3>5. RetainedState'
      BY <1>1, <1>2, <3>1, <3>2, <3>3, <3>4, DeleteState DEF RetainInv, node, run, prefix
    <3> QED
      BY <1>4, <2>1, <3>5
  <2> QED
    BY <1>9, <2>2, <2>3 DEF StateStoreFails
<1> QED
  BY <1>6, <1>7, <1>8, <1>9

\* Nor does the repair of the base.
LEMMA RetainBasefix ==
  ASSUME RetainInv, Basefix
  PROVE  RetainInv'
  BY DEF Basefix, RetainInv, RetainedBlocks, RetainedState, node

\* Ending a run, in whatever way, deletes nothing.
LEMMA RetainFinish ==
  ASSUME RetainInv, FinishPrune \/ FinishWithoutBase \/ FinishWithError \/ Crash
  PROVE  RetainInv'
<1>1. UNCHANGED <<node, blocks, index, stateKeys, pruneHeight, floor>>
      /\ bpc' = Idle /\ spc' = Idle
  BY DEF FinishPrune, FinishWithoutBase, FinishWithError, Crash, EndRun
<1>2. bpc'.at = "idle" /\ spc'.at = "idle"
  BY <1>1 DEF Idle, At
<1> QED
  BY <1>1, <1>2 DEF RetainInv, RetainedBlocks, RetainedState, node

\* As long as --keep-blocks does not exceed the height of the node, no loop
\* deletes above pruneHeight, through any number of runs, failures and kills.
LEMMA RetainAlways == KeepsFit => (Spec => []RetainInv)
<1> SUFFICES ASSUME KeepsFit PROVE Spec => []RetainInv
  OBVIOUS
<1>1. Init => RetainInv
  BY RetainInit
<1>2. TypeOK /\ PositiveHeights /\ RetainInv /\ [Next]_vars => RetainInv'
  <2> SUFFICES ASSUME TypeOK, RetainInv, [Next]_vars PROVE RetainInv'
    OBVIOUS
  <2>1. CASE UNCHANGED vars
    BY <2>1 DEF vars, RetainInv, RetainedBlocks, RetainedState
  <2>2. CASE Next
    BY <2>2, RetainNode, RetainStart, RetainBlockStore, RetainStateStore,
       RetainFinish, RetainBasefix DEF Next
  <2> QED
    BY <2>1, <2>2
<1> QED
  BY <1>1, <1>2, TypeCorrect, PTL DEF Spec

\* Hence every height that --keep-blocks retains keeps its block keys ...
THEOREM RetainedHeightsKept == KeepsFit => (Spec => []RetainedBlocks)
<1>1. RetainInv => RetainedBlocks
  BY DEF RetainInv
<1> QED
  BY <1>1, RetainAlways, PTL

\* ... and its state, in the other store, and its transactions in the index.
THEOREM RetainedStateKept == KeepsFit => (Spec => []RetainedState)
<1>1. RetainInv => RetainedState
  BY DEF RetainInv
<1> QED
  BY <1>1, RetainAlways, PTL

-----------------------------------------------------------------------------
(* The validator history. *)

\* From a on the history is whole: a has a complete set, every later height
\* has its key, and a is old enough for the history to keep.
Anchored(a) ==
  /\ a \in full \cap vals
  /\ a .. applied + 2 \subseteq vals
  /\ a = first \/ a + ValHistoryToKeep <= applied + 2

\* There is always such an anchor, and a deletion in progress ends just
\* below a height that can become one.
ValidatorInv ==
  /\ first <= applied /\ applied <= height /\ height <= applied + 1
  /\ \A h \in vals \cup full : first <= h /\ h <= applied + 2
  /\ \E a \in Nat : Anchored(a)
  /\ spc.at = "vals" =>
       /\ phase = "prune"
       /\ spc.end + 1 \in full \cap vals
       /\ spc.end + 1 + ValHistoryToKeep <= applied + 2
  /\ phase = "node" => spc.at = "idle"

\* An anchor is all that the recent heights need.
LEMMA AnchoredLoadable == TypeOK /\ ValidatorInv => ValidatorsLoadable
<1> SUFFICES ASSUME TypeOK, ValidatorInv,
                    NEW h \in first .. applied + 2,
                    h + ValHistoryToKeep > applied + 2
             PROVE  h \in vals /\ Referenced(h) \subseteq vals
  BY DEF ValidatorsLoadable
<1>1. PICK a \in Nat : Anchored(a)
  BY DEF ValidatorInv
<1>2. h \in Nat /\ applied \in Nat /\ first \in Nat /\ full \subseteq Nat
  BY DEF TypeOK
<1>3. a <= h
  BY <1>1, <1>2, ValHistoryAssumption DEF Anchored
<1>4. h \in vals
  BY <1>1, <1>2, <1>3 DEF Anchored
<1>5. ASSUME NEW r \in Referenced(h) PROVE r \in vals
  <2>1. r \in Nat /\ r <= h /\ a <= r
    BY <1>1, <1>2, <1>3 DEF Referenced, Anchored
  <2> QED
    BY <1>1, <1>2, <2>1 DEF Anchored
<1> QED
  BY <1>4, <1>5

\* Deleting up to just below a complete set leaves an anchor.
LEMMA DeleteValidators ==
  ASSUME TypeOK, ValidatorInv, spc.at = "vals",
         vals' \subseteq vals, \A h \in vals \ vals' : h <= spc.end,
         UNCHANGED node
  PROVE  /\ \E a \in Nat : Anchored(a)'
         /\ spc.end + 1 \in full \cap vals'
<1>0. spc.end \in Nat /\ applied \in Nat /\ vals \subseteq Nat /\ UNCHANGED <<first, applied, full>>
  BY DEF TypeOK, Position, node
<1>1. PICK A \in Nat : A = spc.end + 1
  BY <1>0
<1>2. A \in full \cap vals' /\ A + ValHistoryToKeep <= applied + 2
  BY <1>0, <1>1 DEF ValidatorInv
<1>3. PICK a \in Nat : Anchored(a)
  BY DEF ValidatorInv
<1>4. CASE a <= A
  <2>1. A .. applied + 2 \subseteq vals'
    BY <1>0, <1>1, <1>3, <1>4, <1>2 DEF Anchored
  <2>2. Anchored(A)'
    BY <1>0, <1>2, <2>1 DEF Anchored
  <2> QED
    BY <1>1, <1>2, <2>2
<1>5. CASE ~(a <= A)
  <2>1. a \in vals' /\ a .. applied + 2 \subseteq vals'
    BY <1>0, <1>1, <1>3, <1>5 DEF Anchored
  <2>2. Anchored(a)'
    BY <1>0, <1>3, <2>1 DEF Anchored
  <2> QED
    BY <1>1, <1>2, <2>2
<1> QED
  BY <1>4, <1>5

\* The steps that write or delete a validatorsKey keep an anchor.
LEMMA ValidatorStep ==
  ASSUME TypeOK, PositiveHeights, ValidatorInv, [Next]_vars
  PROVE  ValidatorInv'
<1>0. /\ {first, applied, height} \subseteq Nat /\ vals \subseteq Nat /\ full \subseteq Nat
      /\ ValHistoryToKeep \in Nat
  BY ValHistoryAssumption DEF TypeOK
<1>1. CASE SaveBlock
  <2>1. UNCHANGED <<first, applied, vals, full, spc, phase>> /\ height' = applied + 1
    BY <1>1 DEF SaveBlock, run
  <2> QED
    BY <1>0, <2>1 DEF ValidatorInv, Anchored
<1>2. CASE ApplyBlock
  <2>1. /\ applied' = applied + 1 /\ height' = applied' /\ UNCHANGED <<first, spc, phase>>
        /\ vals' = vals \cup {applied + 3}
        /\ full' \in {full, full \cup {applied + 3}}
    BY <1>0, <1>2 DEF ApplyBlock, ValidatorInv, run
  <2>2. PICK a \in Nat : Anchored(a)
    BY DEF ValidatorInv
  <2>3. Anchored(a)'
    BY <1>0, <2>1, <2>2 DEF Anchored
  <2>4. \A h \in vals' \cup full' : first' <= h /\ h <= applied' + 2
    BY <1>0, <2>1 DEF ValidatorInv
  <2>5. spc'.at # "vals" /\ (phase' = "node" => spc'.at = "idle")
    BY <1>2, <2>1 DEF ApplyBlock, ValidatorInv
  <2> QED
    BY <1>0, <2>1, <2>3, <2>4, <2>5 DEF ValidatorInv
<1>3. CASE FindValidatorCutoff
  <2>1. UNCHANGED <<first, applied, height, vals, full, phase>>
    BY <1>3 DEF FindValidatorCutoff, node, run
  <2>2. phase = "prune"
    BY <1>3 DEF FindValidatorCutoff, ValidatorInv, TypeOK
  <2>3. CASE ValidatorPruneCutoff = 0
    <3>1. spc'.at = "keys"
      BY <1>3, <2>3 DEF FindValidatorCutoff, At
    <3> QED
      BY <2>1, <2>2, <3>1 DEF ValidatorInv, Anchored
  <2>4. CASE ValidatorPruneCutoff # 0
    <3>1. spc'.end = ValidatorPruneCutoff
      BY <1>3, <2>4 DEF FindValidatorCutoff, At
    <3>2. PICK l \in vals : ValidatorPruneCutoff + 1 + ValHistoryToKeep <= l
      BY <2>4, CutoffEffect
    <3>3. /\ ValidatorPruneCutoff \in Int /\ ValidatorPruneCutoff + 1 \in vals \cap full
      BY <2>4, CutoffEffect
    <3>4. l \in Nat /\ l <= applied + 2
      BY <1>0 DEF ValidatorInv
    <3>5. ValidatorPruneCutoff + 1 + ValHistoryToKeep <= applied + 2
      BY <1>0, <3>2, <3>3, <3>4
    <3> QED
      BY <2>1, <2>2, <3>1, <3>3, <3>5 DEF ValidatorInv, Anchored
  <2> QED
    BY <2>3, <2>4
<1>4. CASE FindOlderCutoff
  <2>1. UNCHANGED <<first, applied, height, vals, full, phase>>
    BY <1>4 DEF FindOlderCutoff, node, run
  <2>2. phase = "prune"
    BY <1>4 DEF FindOlderCutoff, ValidatorInv, TypeOK
  <2>3. PICK h \in vals \cap full :
          /\ spc' = IF h = 1 THEN At("keys", pruneHeight) ELSE At("vals", h - 1)
          /\ \E l \in vals : h + ValHistoryToKeep <= l
    BY <1>4, OlderCutoffEffect
  <2>4. h \in Nat /\ h + ValHistoryToKeep <= applied + 2
    BY <1>0, <2>3 DEF ValidatorInv
  <2>5. spc'.at = "vals" => spc'.end + 1 = h
    BY <2>3, <2>4 DEF At
  <2> QED
    BY <2>1, <2>2, <2>3, <2>4, <2>5 DEF ValidatorInv, Anchored
<1>5. CASE PruneValidatorKeys \/ (ValidatorHistoryFails /\ spc.at = "vals")
  <2>1. UNCHANGED node /\ UNCHANGED phase /\ spc.at = "vals"
    BY <1>5 DEF PruneValidatorKeys, ValidatorHistoryFails, run
  <2>2. vals' \subseteq vals /\ \A h \in vals \ vals' : h <= spc.end
    BY <1>5, RangeStepEffect, FailedRangeEffect
    DEF PruneValidatorKeys, ValidatorHistoryFails
  <2>3. spc' = At("keys", pruneHeight) \/ (spc'.at = "vals" /\ spc'.end = spc.end)
    <3>1. CASE ValidatorHistoryFails
      BY <3>1 DEF ValidatorHistoryFails
    <3>2. CASE PruneValidatorKeys
      <4>1. PICK s \in RangeStep(vals, FALSE, spc, 1, At("keys", pruneHeight)) : spc' = s.pos
        BY <3>2 DEF PruneValidatorKeys
      <4>2. s.pos \in AfterBatch(spc, 1, At("keys", pruneHeight))
        BY <4>1, RangeStepEffect
      <4> QED
        BY <2>1, <4>1, <4>2, AfterBatchKeeps
    <3> QED
      BY <1>5, <3>1, <3>2
  <2>4. (\E a \in Nat : Anchored(a)') /\ spc.end + 1 \in full \cap vals'
    BY <2>1, <2>2, DeleteValidators
  <2>5. spc'.at = "vals" => spc'.end = spc.end
    BY <2>3 DEF At
  <2> QED
    BY <2>1, <2>2, <2>4, <2>5 DEF ValidatorInv, node
<1>6. CASE /\ ~(SaveBlock \/ ApplyBlock \/ FindValidatorCutoff \/ FindOlderCutoff)
           /\ ~PruneValidatorKeys
           /\ ~(ValidatorHistoryFails /\ spc.at = "vals")
  <2>1. UNCHANGED <<first, applied, height, vals, full>>
    BY <1>6 DEF Next, Basefix, StartPrune, PruneBlockKeys, PruneBlockHashes, PruneTxIndex,
       IndexIteratorStops, BlockStoreFails, ValidatorHistoryFails, PruneStateKeys,
       StateStoreFails,
       FinishPrune, FinishWithoutBase, FinishWithError, Crash, EndRun, vars, node
  <2>2. /\ spc'.at = "vals" => UNCHANGED <<spc, phase>>
        /\ phase' = "node" => spc'.at = "idle"
    <3>1. CASE \/ UNCHANGED vars \/ PruneBlockKeys \/ PruneBlockHashes
               \/ PruneTxIndex \/ IndexIteratorStops \/ BlockStoreFails \/ Basefix
      BY <3>1 DEF ValidatorInv, Basefix, PruneBlockKeys, PruneBlockHashes, PruneTxIndex,
         IndexIteratorStops, BlockStoreFails, vars, run
    <3>2. CASE \E k \in Keeps : StartPrune(k)
      <4>1. phase' = "prune" /\ spc' = At("find", pruneHeight')
        BY <3>2 DEF StartPrune
      <4> QED
        BY <4>1 DEF At
    <3>3. CASE ValidatorHistoryFails /\ spc.at # "vals"
      <4>1. spc.at = "find" /\ spc'.at = "keys" /\ UNCHANGED phase
        BY <3>3 DEF ValidatorHistoryFails, run, At
      <4> QED
        BY <4>1 DEF ValidatorInv
    <3>4. CASE PruneStateKeys
      <4>1. spc.at = "keys" /\ UNCHANGED phase
        BY <3>4 DEF PruneStateKeys, run
      <4>2. PICK s \in RangeStep(stateKeys[StateKeyInfos[spc.k]], FALSE, spc, 2,
                                At("done", pruneHeight)) : spc' = s.pos
        <5>1. Len(StateKeyInfos) = 2
          BY DEF StateKeyInfos
        <5> QED
          BY <3>4, <5>1 DEF PruneStateKeys
      <4>3. s.pos \in AfterBatch(spc, 2, At("done", pruneHeight))
        BY <4>2, RangeStepEffect
      <4>4. spc'.at \in {"keys", "done"}
        BY <4>1, <4>2, <4>3, AfterBatchKeeps DEF At
      <4> QED
        BY <4>1, <4>4 DEF ValidatorInv
    <3>5. CASE StateStoreFails
      <4>1. spc.at # "idle" /\ spc'.at = "failed" /\ UNCHANGED phase
        BY <3>5 DEF StateStoreFails, run, At
      <4> QED
        BY <4>1 DEF ValidatorInv
    <3>6. CASE FinishPrune \/ FinishWithoutBase \/ FinishWithError \/ Crash
      <4>1. spc' = Idle
        BY <3>6 DEF FinishPrune, FinishWithoutBase, FinishWithError, Crash, EndRun
      <4> QED
        BY <4>1 DEF Idle, At
    <3>7. Next \/ UNCHANGED vars
      OBVIOUS
    <3> QED
      BY <1>6, <3>1, <3>2, <3>3, <3>4, <3>5, <3>6, <3>7 DEF Next
  <2> QED
    BY <2>1, <2>2 DEF ValidatorInv, Anchored
<1> QED
  BY <1>1, <1>2, <1>3, <1>4, <1>5, <1>6

\* The first height of a new node is an anchor.
LEMMA ValidatorInit == Init => ValidatorInv
<1> SUFFICES ASSUME Init PROVE ValidatorInv
  OBVIOUS
<1>1. /\ first \in Nat /\ applied = first /\ height = first
      /\ vals = first .. first + 2 /\ full = {first}
  BY HeightsAssumption DEF Init
<1>2. spc.at = "idle"
  BY DEF Init, Idle, At
<1>3. Anchored(first)
  BY <1>1 DEF Anchored
<1> QED
  BY <1>1, <1>2, <1>3 DEF ValidatorInv

\* pruneValidatorHistory never cuts a reference that a recent height needs,
\* although the order of the keys may make it start from any height, and
\* whatever --keep-blocks, the failures and the kills.
THEOREM RecentValidatorsLoadable == Spec => []ValidatorsLoadable
<1>1. Init => ValidatorInv
  BY ValidatorInit
<1>2. TypeOK /\ PositiveHeights /\ ValidatorInv /\ [Next]_vars => ValidatorInv'
  BY ValidatorStep
<1>3. TypeOK /\ ValidatorInv => ValidatorsLoadable
  BY AnchoredLoadable
<1> QED
  BY <1>1, <1>2, <1>3, TypeCorrect, PTL DEF Spec

-----------------------------------------------------------------------------
(* The base of the block store. *)

\* Heights fit in an int64.
HeightsSigned == 2 * (MaxHeight + 1) < Modulus

\* The metas are those of stored blocks, a run works with the height it
\* started from, no goroutine outlives its run, and the base is right.
BaseInv ==
  /\ blocks["H:"] \subseteq first .. height
  /\ phase = "prune" => pruneHeight = applied - keep
  /\ phase = "node" => bpc.at = "idle" /\ spc.at = "idle"
  /\ BaseCoversRetained
  /\ HeightsSigned => BaseContiguous

\* A new node serves its first block.
LEMMA BaseInit == Init => BaseInv
<1> SUFFICES ASSUME Init PROVE BaseInv
  OBVIOUS
<1>1. first \in Nat /\ base = first /\ height = first /\ blocks["H:"] = {first}
  BY HeightsAssumption DEF Init, BlockPrefixes, Lag
<1>2. bpc.at = "idle" /\ spc.at = "idle" /\ phase = "node" /\ result = "none"
  BY DEF Init, Idle, At
<1> QED
  BY <1>1, <1>2 DEF BaseInv, BaseCoversRetained, BaseContiguous

\* The node adds blocks above the base.
LEMMA BaseNode ==
  ASSUME TypeOK, RetainInv, BaseInv, SaveBlock \/ ApplyBlock
  PROVE  BaseInv'
<1>0. {first, base, height, applied, floor} \subseteq Nat
  BY DEF TypeOK
<1>1. CASE SaveBlock
  <2>1. /\ height' = height + 1 /\ blocks'["H:"] = blocks["H:"] \cup {height + 1}
        /\ UNCHANGED <<first, base, applied, phase, result, keep, pruneHeight, floor, bpc, spc>>
    BY <1>1 DEF SaveBlock, run, BlockPrefixes, Lag, TypeOK
  <2>2. first <= height
    BY <1>0 DEF RetainInv
  <2>3. BaseCoversRetained'
    BY <1>0, <2>1 DEF BaseInv, BaseCoversRetained
  <2>4. BaseContiguous => BaseContiguous'
    BY <1>0, <2>1 DEF BaseContiguous
  <2> QED
    BY <1>0, <2>1, <2>2, <2>3, <2>4 DEF BaseInv
<1>2. CASE ApplyBlock
  <2>1. /\ phase = "node"
        /\ UNCHANGED <<first, base, height, blocks, phase, result, keep, pruneHeight, floor,
                       bpc, spc>>
    BY <1>2 DEF ApplyBlock, run
  <2> QED
    BY <2>1 DEF BaseInv, BaseCoversRetained, BaseContiguous
<1> QED
  BY <1>1, <1>2

\* A run starts without touching the base, and gives up more heights.
LEMMA BaseStart ==
  ASSUME KeepsFit, TypeOK, RetainInv, BaseInv, NEW k \in Keeps, StartPrune(k)
  PROVE  BaseInv'
<1>0. {first, base, height, applied, floor} \subseteq Nat
  BY DEF TypeOK
<1>1. k \in Nat /\ k <= applied /\ applied < Modulus
  BY KeepsAssumption, ModulusAssumption, HeightsAssumption DEF RetainInv, KeepsFit, TypeOK
<1>2. pruneHeight' = applied' - keep'
  BY <1>0, <1>1, UintMinusType DEF StartPrune, node
<1>3. floor' \in Nat /\ floor <= floor'
  BY <1>0, <1>1, MaxPair DEF StartPrune
<1>4. phase' = "prune" /\ UNCHANGED <<first, base, height, blocks>>
  BY DEF StartPrune, node
<1> QED
  BY <1>0, <1>2, <1>3, <1>4 DEF BaseInv, BaseCoversRetained, BaseContiguous

\* The goroutines leave the base alone.
LEMMA BasePrune ==
  ASSUME TypeOK, BaseInv,
         \/ PruneBlockKeys \/ PruneBlockHashes \/ PruneTxIndex \/ IndexIteratorStops
         \/ BlockStoreFails
         \/ FindValidatorCutoff \/ FindOlderCutoff \/ PruneValidatorKeys
         \/ ValidatorHistoryFails \/ PruneStateKeys \/ StateStoreFails
  PROVE  BaseInv'
<1>1. UNCHANGED <<node, base, run>>
  BY DEF PruneBlockKeys, PruneBlockHashes, PruneTxIndex, IndexIteratorStops,
     BlockStoreFails, FindValidatorCutoff, FindOlderCutoff, PruneValidatorKeys,
     ValidatorHistoryFails, PruneStateKeys, StateStoreFails
<1>2. bpc.at # "idle" \/ spc.at # "idle"
  BY DEF PruneBlockKeys, PruneBlockHashes, PruneTxIndex, IndexIteratorStops,
     BlockStoreFails, FindValidatorCutoff, FindOlderCutoff, PruneValidatorKeys,
     ValidatorHistoryFails, PruneStateKeys, StateStoreFails
<1>3. phase = "prune"
  BY <1>2 DEF BaseInv, TypeOK
<1>4. blocks'["H:"] \subseteq blocks["H:"]
  <2>1. bpc.k \in 1 .. 5
    BY DEF TypeOK, Position
  <2>2. BlockKeyInfos[bpc.k].prefix \in BlockPrefixes
    BY <2>1 DEF BlockKeyInfos, BlockPrefixes
  <2> DEFINE info == BlockKeyInfos[bpc.k]
  <2>3. \/ UNCHANGED blocks
        \/ \E left \in SUBSET blocks[info.prefix] :
             blocks' = [blocks EXCEPT ![info.prefix] = left]
    <3>1. CASE PruneBlockKeys
      <4>1. PICK s \in RangeStep(blocks[info.prefix], info.twoParts, bpc,
                                 Len(BlockKeyInfos), At("BH", pruneHeight)) :
              blocks' = [blocks EXCEPT ![info.prefix] = s.keys]
        BY <3>1 DEF PruneBlockKeys
      <4>2. s.keys \subseteq blocks[info.prefix]
        BY RangeStepEffect
      <4> QED
        BY <4>1, <4>2
    <3>2. CASE BlockStoreFails
      BY <3>2, FailedRangeEffect DEF BlockStoreFails
    <3>3. CASE ~(PruneBlockKeys \/ BlockStoreFails)
      BY <3>3 DEF PruneBlockHashes, PruneTxIndex, IndexIteratorStops,
         FindValidatorCutoff, FindOlderCutoff, PruneValidatorKeys,
         ValidatorHistoryFails, PruneStateKeys, StateStoreFails
    <3> QED
      BY <3>1, <3>2, <3>3
  <2> HIDE DEF info
  <2> QED
    BY <2>3, <2>2 DEF TypeOK, info, BlockPrefixes
<1> QED
  BY <1>1, <1>3, <1>4 DEF BaseInv, BaseCoversRetained, BaseContiguous, node, run

\* The new base is the lowest retained block, or an older one that is below.
LEMMA BaseFinish ==
  ASSUME KeepsFit, TypeOK, RetainInv, BaseInv,
         FinishPrune \/ FinishWithoutBase \/ FinishWithError \/ Crash
  PROVE  BaseInv'
<1>0. {first, base, height, applied, floor, pruneHeight, keep} \subseteq Nat
  BY DEF TypeOK
<1>1. /\ UNCHANGED <<first, height, applied, blocks, pruneHeight, keep, floor>>
      /\ phase' = "node" /\ bpc'.at = "idle" /\ spc'.at = "idle"
  BY DEF FinishPrune, FinishWithoutBase, FinishWithError, Crash, EndRun, node, Idle, At
<1>2. BaseCoversRetained' /\ (HeightsSigned => BaseContiguous') => BaseInv'
  BY <1>1 DEF BaseInv, HeightsSigned
<1>3. CASE ~FinishPrune
  <2>1. result' # "ok" /\ UNCHANGED base
    BY <1>3 DEF FinishWithoutBase, FinishWithError, Crash, EndRun
  <2> QED
    BY <1>1, <1>2, <2>1 DEF BaseInv, BaseCoversRetained, BaseContiguous
<1>4. CASE FinishPrune
  <2> DEFINE want == ToInt64((pruneHeight + 1) % Modulus)
             metas == {h \in blocks["H:"] : want <= h /\ h <= height}
  <2>1. base' = IF metas = {} THEN base ELSE Min(metas)
    BY <1>4 DEF FinishPrune, BlockStoreBase
  <2>2. want \in Int /\ want <= pruneHeight + 1
        /\ (2 * (pruneHeight + 1) < Modulus => want = pruneHeight + 1)
    BY <1>0, WantBase
  <2>3. blocks["H:"] \in SUBSET Nat
    BY DEF TypeOK, BlockPrefixes
  <2>4. \A h \in first .. height : h > floor => h \in metas
    <3> SUFFICES ASSUME NEW h \in first .. height, h > floor PROVE h \in metas
      OBVIOUS
    <3>1. h \in blocks["H:"]
      BY <1>0 DEF RetainInv, RetainedBlocks, BlockPrefixes, Lag
    <3>2. pruneHeight <= floor
      BY DEF RetainInv
    <3> HIDE DEF want
    <3> QED
      BY <1>0, <2>2, <3>1, <3>2
  <2>5. metas \in SUBSET Nat /\ \A h \in metas : want <= h /\ h <= height /\ first <= h
    BY <1>0, <2>3 DEF BaseInv
  <2> HIDE DEF want, metas
  <2>6. metas # {} => Min(metas) \in metas /\ \A h \in metas : Min(metas) <= h
    BY <2>5, MinNat
  <2>7. BaseCoversRetained'
    BY <1>0, <1>1, <2>1, <2>4, <2>5, <2>6 DEF BaseInv, BaseCoversRetained
  <2>8. ASSUME HeightsSigned, keep > 0, pruneHeight = floor
        PROVE  base' .. height \subseteq blocks["H:"]
    <3>1. phase = "prune"
      BY <1>4 DEF FinishPrune, BaseInv, TypeOK
    <3>2. pruneHeight < applied /\ applied <= height /\ first <= applied /\ height <= MaxHeight
      BY <1>0, <2>8, <3>1 DEF BaseInv, RetainInv
    <3>3. want = floor + 1
      <4>1. MaxHeight \in Nat /\ Modulus \in Nat /\ 2 * (MaxHeight + 1) < Modulus
        BY <2>8, ModulusAssumption DEF KeepsFit, HeightsSigned
      <4>2. 2 * (pruneHeight + 1) < Modulus
        BY <1>0, <3>2, <4>1
      <4> QED
        BY <2>2, <2>8, <4>2
    <3>4. height \in metas
      BY <1>0, <2>4, <2>8, <3>2
    <3>5. base' \in Nat /\ floor < base' /\ first <= base'
      <4>1. base' \in metas
        BY <2>1, <2>6, <3>4
      <4>2. base' \in Nat /\ want <= base' /\ first <= base'
        BY <2>5, <4>1
      <4> QED
        BY <1>0, <3>3, <4>2
    <3> QED
      BY <1>0, <2>4, <3>5 DEF metas
  <2>9. HeightsSigned => BaseContiguous'
    BY <1>1, <2>8 DEF BaseContiguous
  <2> QED
    BY <1>2, <2>7, <2>9
<1> QED
  BY <1>3, <1>4

\* basefix takes the lowest meta, which no retained block is below.
LEMMA BaseBasefix ==
  ASSUME TypeOK, RetainInv, BaseInv, Basefix
  PROVE  BaseInv'
<1>0. {first, height, floor} \subseteq Nat /\ blocks["H:"] \in SUBSET Nat /\ blocks["H:"] # {}
  BY DEF TypeOK, BlockPrefixes, Basefix
<1>1. base' \in blocks["H:"] /\ \A h \in blocks["H:"] : base' <= h
  BY <1>0, MinNat DEF Basefix
<1>2. /\ UNCHANGED <<first, height, applied, blocks, floor, phase, bpc, spc, keep, pruneHeight>>
      /\ result' = "fixed"
  BY DEF Basefix, node
<1>3. \A h \in first .. height : h > floor => h \in blocks["H:"]
  BY <1>0 DEF RetainInv, RetainedBlocks, BlockPrefixes, Lag
<1>4. BaseCoversRetained'
  BY <1>0, <1>1, <1>2, <1>3 DEF BaseInv, BaseCoversRetained
<1> QED
  BY <1>2, <1>4 DEF BaseInv, BaseContiguous

\* The base is right in every reachable state.
LEMMA BaseAlways == KeepsFit => (Spec => []BaseInv)
<1> SUFFICES ASSUME KeepsFit PROVE Spec => []BaseInv
  OBVIOUS
<1>1. Init => BaseInv
  BY BaseInit
<1>2. TypeOK /\ PositiveHeights /\ RetainInv /\ BaseInv /\ [Next]_vars => BaseInv'
  <2> SUFFICES ASSUME TypeOK, RetainInv, BaseInv, [Next]_vars PROVE BaseInv'
    OBVIOUS
  <2>1. CASE UNCHANGED vars
    BY <2>1 DEF vars, BaseInv, BaseCoversRetained, BaseContiguous
  <2>2. CASE Next
    BY <2>2, BaseNode, BaseStart, BasePrune, BaseFinish, BaseBasefix DEF Next
  <2> QED
    BY <2>1, <2>2
<1> QED
  BY <1>1, <1>2, TypeCorrect, RetainAlways, PTL DEF Spec

\* Neither setBlockStoreBase nor basefix ever moves the base past a block
\* that --keep-blocks retains.
THEOREM BaseKeepsRetained == KeepsFit => (Spec => []BaseCoversRetained)
<1>1. BaseInv => BaseCoversRetained
  BY DEF BaseInv
<1> QED
  BY <1>1, BaseAlways, PTL

\* When the heights fit in an int64, every block from the base that a
\* successful run wrote up to the height is there, if the run pruned as far
\* as any before it.
THEOREM BaseStartsRetained ==
  KeepsFit /\ HeightsSigned => (Spec => []BaseContiguous)
<1> SUFFICES ASSUME KeepsFit, HeightsSigned PROVE Spec => []BaseContiguous
  OBVIOUS
<1>1. BaseInv => BaseContiguous
  BY DEF BaseInv
<1> QED
  BY <1>1, BaseAlways, PTL
=============================================================================
